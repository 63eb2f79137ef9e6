SPECIFICATION AddressesSpec
CONSTANTS
    a1 = a1  a2 = a2  a3 = a3  a4 = a4
    ad = ad  u1 = u1  u2 = u2  u3 = u3
    t1 = t1  n1 = n1  n2 = n2  n3 = n3  tag = tag
    g1 = g1  g2 = g2  x1 = x1  x2 = x2  x3 = x3  x4 = x4  x5 = x5  x6 = x6
    c1 = c1  c2 = c2  c3 = c3  i1 = i1  i2 = i2  v1 = v1  v2 = v2  h1 = h1  h2 = h2
    Agents = {a1, a2, a3, a4}
    Users = {ad, u1, u2, u3}
    Admins = {ad}
    Gone = {u3}
    Tokens = {t1}
    Nonces = {n1, n2, n3}
    Tags = {tag}
    Groups = {g1, g2}
    Transfers = {x1, x2, x3, x4, x5, x6}
    Nothing = Nothing
    Deleted = Deleted
    MaxPending = 1
    MaxRecords = 3
    MaxFaults = 1
    MaxIds = 3
    Configs = {c1, c2, c3}
    Ips = {i1, i2}
    Versions = {v1, v2}
    Channels = {h1, h2}
    MaxCached = 1
    ChannelOwner <- MCChannelOwner
    StoredConfigs <- MCStoredConfigs
    Settings <- MCSettings
    Stored <- MCStored
    GroupOwner <- MCGroupOwner
    StoredTransfers <- MCStoredTransfers
    Workloads <- MCWorkloads
CHECK_DEADLOCK FALSE
INVARIANTS AddressesAreTrue
PROPERTIES EnrolmentHolds GroupsAreTrue TransfersAreTrue

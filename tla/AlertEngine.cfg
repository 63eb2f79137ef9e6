SPECIFICATION Spec
CONSTANTS
    u1 = u1  u2 = u2  a1 = a1  a2 = a2  s1 = s1  s2 = s2  s3 = s3  t1 = t1  g1 = g1  c1 = c1  c2 = c2  r1 = r1  r2 = r2
    Users = {u1, u2}
    Channels = {c1, c2}
    Groups = {g1}
    Editors = {e1}
    Nothing = Nothing
    Deleted = Deleted
    MaxMembers = 1
    Cooldown = 1
    MaxTime = 2
    Rules = {r1, r2}
    Drafts <- MCDrafts
    Stored <- MCStored
    StoredChannels <- MCStoredChannels
    StoredGroups <- MCStoredGroups
    StoredMembers <- MCStoredMembers
    Agents = {a1, a2}
    Services = {s1, s2, s3}
    Tasks = {t1}
    Admins = {u2}
    Owner <- MCOwner
    ServiceOf <- MCServiceOf
    TaskOwner <- MCTaskOwner
    Expires <- MCExpires
    Quota <- MCQuota
    Reports <- MCReports
    Probes <- MCProbes
    MaxServerIds = 1
    MaxConds = 3
    Throttle = 2
    MaxEvents = 2
    MaxFaults = 1
INVARIANTS StateMatchesEvents
PROPERTIES EventsInOrder 

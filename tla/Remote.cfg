SPECIFICATION Spec
CONSTANTS
    a1 = a1  ad = ad  u1 = u1  cAd = cAd  cA2 = cA2  pU1 = pU1  ip = ip  ip2 = ip2  x1 = x1  x2 = x2  x3 = x3
    n1 = n1  n2 = n2  n3 = n3  n4 = n4  t1 = t1  t2 = t2
    top = top  srv = srv  dd = dd  ff = ff  etc = etc  gg = gg  ln = ln  nd = nd  nf = nf
    Users = {ad, u1}
    Creds = {cAd, cA2, pU1}
    Agents = {a1}
    Tokens = {}
    Ips = {ip, ip2}
    Rows = {x1, x2, x3}
    Nothing = Nothing
    Workloads <- MCWorkloads
    Stored <- MCStored
    RateLimit = 1
    MaxFaults = 1
    Nodes = {top, srv, dd, ff, etc, gg, ln, nd, nf}
    Kind <- MCKind
    Top = top
    Paths <- MCPaths
    Flags = {"exec", "nat", "query", "force"}
    Homes <- MCHomes
    Policies <- MCPolicies
    Nowhere = Nowhere
    Ports = {1, 2, 3}
    Streams = {n1, n2, n3, n4, t1, t2}
    Shells = {t1, t2}
    Windows = {0, 1}
    Work <- MCWork
    MaxTunnels = 1
    MapLimit = 1
    WindowLimit <- MCWindowLimit
    WindowBytes = 0
    TunnelBytes = 1
    MaxSources = 1
    MaxPending = 1
    MaxShells = 1
    MaxData <- MCMaxData
CHECK_DEADLOCK FALSE
INVARIANTS RemoteIsEntitled   

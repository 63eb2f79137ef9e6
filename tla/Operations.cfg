SPECIFICATION OperationsSpec
CONSTANTS
    a1 = a1  a2 = a2  ad = ad  u1 = u1  cAd = cAd  cU1 = cU1  pAd = pAd  pU1 = pU1
    t1 = t1  t2 = t2  t3 = t3  t4 = t4  ip = ip
    x1 = x1  x2 = x2  x3 = x3  x4 = x4  x5 = x5  x6 = x6  x7 = x7  x8 = x8
    Users = {ad, u1}
    Creds = {cAd, cU1, pAd, pU1}
    Agents = {a1, a2}
    Tokens = {t1, t2, t3, t4}
    Ips = {ip}
    Rows = {x1, x2, x3, x4, x5, x6, x7, x8}
    Nothing = Nothing
    Workloads <- MCWorkloads
    Stored <- MCStored
    RateLimit = 2
    MaxFaults = 1
CHECK_DEADLOCK FALSE
INVARIANTS  TokenIsUsedOnce

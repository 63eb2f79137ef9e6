SPECIFICATION Spec
CONSTANTS
    ad = ad  b1 = b1  u1 = u1  a1 = a1  p1 = p1  p2 = p2  k1 = k1  k2 = k2
    i1 = i1  x1 = x1  x2 = x2  s1 = s1  s2 = s2  s3 = s3  w1 = w1  w2 = w2  g1 = g1  g2 = g2
    Users = {ad, b1, u1}
    Agents = {a1}
    Pats = {p1, p2}
    Secrets = {k1, k2}
    Passwords = {w1, w2}
    Ips = {i1}
    Subjects = {x1, x2}
    Nothing = Nothing
    Stored <- MCStored
    Workloads <- MCWorkloads
    Threshold = 2
    Window = 1
    Horizon = 6
    MaxSessions = 2
    MaxTtl = 1
    Browsers = {g1, g2}
    StateTtl = 0
    MaxFaults = 1
CHECK_DEADLOCK FALSE
INVARIANTS ActsWithAuthority GuessingIsBounded  

SPECIFICATION Spec
CONSTANTS
    a1 = a1  a2 = a2  a3 = a3
    ad = ad  u1 = u1  u2 = u2  s1 = s1  s2 = s2
    k1 = k1  k2 = k2  h1 = h1  h2 = h2  plain = plain  dark = dark  night = night  mono = mono  web = web  x1 = x1  x2 = x2  x3 = x3
    Agents = {a1, a2, a3}
    Users = {ad, u1, u2}
    Admins = {ad}
    Services = {s1, s2}
    Tasks = {k1, k2}
    Channels = {h1, h2}
    Themes = {plain, dark, night, mono}
    Builtins <- MCBuiltins
    Rules <- MCRules
    RuleOrder <- MCRuleOrder
    RuleBatch = 2
    TaskOrder <- MCTaskOrder
    Invalid = Invalid
    Blocked = Blocked
    Commands = {web, Blocked}
    Tags = {web}
    MaxThemes = 2
    Limit = 1
    MaxTargets = 2
    Nothing = Nothing
    Rows <- MCRows
    Workloads <- MCWorkloads
    Order <- MCOrder
    MaxServers = 2
    MaxRows = 2
    MaxStreams = 1
    MaxFrames = 2
    Batch = 1
    MaxScan = 3
    Capacity = 1
    MaxLatest = 2
    MaxFails = 1
    Default = 1
    MaxDays = 3
    MaxSamples = 2
CHECK_DEADLOCK FALSE
INVARIANTS AnswerWasVisible   MetricsAreKept

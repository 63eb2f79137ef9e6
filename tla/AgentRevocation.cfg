\* One Agent that reconnects once; a revocation or a deletion with a task
\* sender or a restart, and both together on one connection.
CONSTANTS
    a1 = a1
    c1 = c1
    c2 = c2
    AgentIds = {a1}
    Chans = {c1, c2}
    Senders = {p1, r1, x1}
    Disconnecters = {r1, x1}
    Revokers = {r1}
    Deleters = {x1}
    Owner <- OneAgent
    Cap = 1
    NoChan = NoChan
    CallSets = {{c1, c2, p1, r1}, {c1, r1, x1}, {c1, c2, r1, "restart"}, {c1, c2, x1, "restart"}}
SPECIFICATION RevSpec
CHECK_DEADLOCK FALSE
INVARIANTS OutOfServiceForGood EntryExplained
PROPERTIES HandlerFinishes

\* One Agent that reconnects once; two sends; one disconnect.
CONSTANTS
    a1 = a1
    c1 = c1
    c2 = c2
    AgentIds = {a1}
    Chans = {c1, c2}
    Senders = {p1, p2}
    Disconnecters = {d1}
    Owner <- OneAgent
    Cap = 1
    NoChan = NoChan
SPECIFICATION Spec
CHECK_DEADLOCK FALSE
INVARIANTS DisconnectSticks NoLostWakeup
PROPERTIES ImplementsLink ReplacedStreamCloses

\* One Agent that connects twice, two bridges and room for one stream, one
\* disconnect.
CONSTANTS
    a1 = a1
    c1 = c1
    c2 = c2
    b1 = b1
    b2 = b2
    Agents = {a1}
    Chans = {c1, c2}
    Owner <- OwnerMC
    Bridges = {b1, b2}
    AgentOf <- AgentOfMC
    Disconnecters = {d1}
    DTarget <- DTargetMC
    MaxStreams = 1
    Cap = 1
    NoChan = NoChan
    NoBridge = NoBridge
SPECIFICATION IoSpec
CHECK_DEADLOCK FALSE
INVARIANTS SubscriberIsCurrent NoSleepingDelivery
 

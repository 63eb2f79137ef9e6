-------------------------- MODULE MCServiceMonitor ---------------------------
EXTENDS ServiceMonitor

CONSTANTS s1, s2, a1, a2, u1, u2, t1

MCOwner == [a \in Agents |-> IF a = a1 THEN u1 ELSE u2]

Row1(u, cover, as) ==
    [owner |-> u, enabled |-> TRUE, kind |-> "http", cover |-> cover, legacy |-> as,
     exclude |-> {}, fail |-> {t1}, recover |-> {}, interval |-> 1]

\* A service without an owner, of older versions; none, so that two may be created.
MCStored == {[s \in Services |-> IF s = s1 THEN Row1(Nothing, "specific", a1) ELSE Deleted],
             [s \in Services |-> Nothing]}

Ask(cover, servers, enabled, interval) ==
    [cover |-> cover, servers |-> servers, exclude |-> {}, kind |-> "tcp", enabled |-> enabled,
     fail |-> {}, recover |-> {t1}, interval |-> interval]

\* An Agent by name, the server itself, a service that is switched off, all Agents of the
\* owner, and an interval out of bounds.
MCInputs == {Ask("specific", <<a1>>, TRUE, 1), Ask("local", <<>>, TRUE, 1), Ask("specific", <<a1>>, FALSE, 1),
             Ask("exclude", <<>>, TRUE, 1), Ask("all", <<>>, TRUE, 2)}

MCConditions == {[allowed |-> TRUE, reached |-> TRUE, status |-> 200],
                 [allowed |-> TRUE, reached |-> TRUE, status |-> 500],
                 [allowed |-> FALSE, reached |-> FALSE, status |-> 0]}
=============================================================================

---------------------------- MODULE MCAlertEngine ----------------------------
(* The alert engine on small tables: rules of both modes over every kind of  *)
(* condition, one spare id for a rule created on the way.                    *)
EXTENDS AlertEngine

CONSTANTS u1, u2, a1, a2, s1, s2, s3, t1, g1, c1, c2, r1, r2

C(kind, on, bound, duration) == [kind |-> kind, on |-> on, bound |-> bound, duration |-> duration]
R(mode, conds, g) == [owner |-> u1, mode |-> mode, enabled |-> TRUE, conds |-> conds,
                      group |-> g, fail |-> {t1}, recover |-> {t1}]

MCOwner == (a1 :> u1) @@ (a2 :> u1)
MCServiceOf ==
    (s1 :> [owner |-> u1, cover |-> "local", servers |-> {}, legacy |-> {}, exclude |-> {}])
    @@ (s2 :> [owner |-> u1, cover |-> "exclude", servers |-> {}, legacy |-> {}, exclude |-> {a2}])
    @@ (s3 :> [owner |-> u1, cover |-> "specific", servers |-> {}, legacy |-> {a2}, exclude |-> {}])
MCTaskOwner == t1 :> u1
MCExpires == (a1 :> 2) @@ (a2 :> Nothing)
MCQuota == (a1 :> 2) @@ (a2 :> Nothing)
MCReports == {[value |-> 1, bytes |-> 1], [value |-> 0, bytes |-> 3]}
MCProbes == {[server |-> Nothing, ok |-> TRUE, delay |-> 2, cert |-> 3],
             [server |-> a1, ok |-> FALSE, delay |-> Nothing, cert |-> Nothing],
             [server |-> Nothing, ok |-> FALSE, delay |-> Nothing, cert |-> Nothing]}

MCStoredChannels == (c1 :> [owner |-> u1, valid |-> TRUE]) @@ (c2 :> [owner |-> u1, valid |-> FALSE])
MCStoredGroups == g1 :> u1
MCStoredMembers == {<<g1, c1>>}

MCDrafts == {R("once", <<C("offline", a2, 1, 0)>>, g1), R("once", <<C("down", s3, 1, 0)>>, Nothing)}

\* The last table also holds a row of an older version that does not validate.
T(x) == (r1 :> x) @@ (r2 :> Nothing)
MCStored ==
    {T(R("once", <<C("resource", a1, 0, 1), C("offline", a1, 2, 0)>>, g1)),
     T(R("always", <<C("quota", a1, 100, 0), C("network", a1, 1, 1)>>, g1)),
     T(R("always", <<C("down", s2, 1, 0), C("latency", s1, 1, 0)>>, Nothing)),
     T(R("once", <<C("cert", s1, 1, 0), C("expiry", a1, 0, 0), C("down", s1, 2, 0)>>, g1)),
     (r1 :> R("once", <<C("down", s1, 0, 0)>>, g1)) @@ (r2 :> Nothing)}
=============================================================================

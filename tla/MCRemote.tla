------------------------------ MODULE MCRemote -------------------------------
EXTENDS Remote, TLC

CONSTANTS a1, ad, u1, cAd, cA2, pU1, ip, ip2, x1, x2, x3, n1, n2, n3, n4, t1, t2,
          top, srv, dd, ff, etc, gg, ln, nd, nf

Session(u) == [user |-> u, kind |-> "session", scopes |-> {}, servers |-> Nothing, valid |-> TRUE]
Mapped(p) == [kind |-> "nat", server |-> a1, port |-> p, on |-> TRUE]
Start ==
    [users |-> [u \in Users |-> IF u = ad THEN "admin" ELSE "member"],
     creds |-> [x \in Creds |-> CASE x \in {cAd, cA2} -> Session(ad)
                                  [] x = pU1 -> [Session(u1) EXCEPT !.kind = "pat", !.scopes = {"nat:read", "server:exec"}]],
     agents |-> [a \in Agents |-> [owner |-> u1, revoked |-> FALSE, online |-> TRUE]],
     tokens |-> <<>>,
     rows |-> [x \in Rows |-> CASE x = x1 -> Mapped(1) [] x = x2 -> Nothing [] x = x3 -> Mapped(2)]]
MCStored == {Start}

Q(i, op) == [id |-> i, op |-> op, by |-> cAd, user |-> ad, agent |-> a1, row |-> x1, port |-> Nothing, on |-> Nothing,
             ip |-> ip, stream |-> Nothing, token |-> Nothing, via |-> "api", after |-> Nothing]
Connect(s, p, i) == [Q(s, "connect") EXCEPT !.stream = s, !.port = p, !.ip = i]
After(i, q) == [q EXCEPT !.after = i]
Off(i) == [Q(i, "nat_update") EXCEPT !.on = FALSE]
On_(i) == [Q(i, "nat_update") EXCEPT !.on = TRUE]
Shift(i) == [Q(i, "nat_update") EXCEPT !.port = 3]
Make(i, p) == [Q(i, "nat_create") EXCEPT !.row = x2, !.port = p]
Shell(i, s, c) == [Q(i, "terminal") EXCEPT !.stream = s, !.by = c]
Socket(i, s, c) == [Q(i, "socket") EXCEPT !.stream = s, !.by = c]

MCWindowLimit == [m \in Rows |-> IF m = x3 THEN 2 ELSE 1]
MCMaxData == [s \in Streams |-> CASE s = n1 -> 2 [] s \in {n2, t1} -> 1 [] OTHER -> 0]

Edits == {Off(1), On_(2), Shift(3), Make(4, 3), Make(5, 1), Q(6, "nat_delete"), Q(7, "revoke_agent"),
          Q(8, "role"), [Q(9, "leave") EXCEPT !.by = cAd], [Q(10, "owner") EXCEPT !.user = ad]}
Looks == {[Q(11, op) EXCEPT !.by = c] : op \in {"nat_get", "nat_list", "nat_all"}, c \in {cAd, pU1}}
Events == {Q(7, "revoke_agent"), Q(12, "flip"), Q(13, "tick"), Q(8, "role"), [Q(9, "leave") EXCEPT !.by = cAd]}

MCWorkloads ==
    {{}}
    \cup {{e, f} : e \in Edits, f \in Edits \cup Looks}
    \cup {{Connect(n2, 1, ip), e} : e \in {Q(6, "nat_delete"), Shift(3)}} \cup {{Connect(n2, 1, ip), Off(1), After(1, On_(2))}}
    \cup {{Connect(n1, 1, ip), Connect(n3, 1, ip)}, {Connect(n1, 1, ip), Connect(n3, 2, ip2)}}
    \cup {{Connect(n2, 1, ip), After(n2, Connect(n3, 1, ip2))}, {Connect(n2, 2, ip), After(n2, Connect(n3, 2, ip))},
           {Connect(n3, 1, ip), Q(12, "flip"), After(12, Q(14, "flip"))}}
    \cup {{Connect(n3, 1, ip), After(n3, Connect(n4, 1, ip)), Off(1), After(1, On_(2))}}
    \cup {{Connect(n1, 1, ip), e} : e \in Events}
    \cup {{Shell(1, t1, c), Socket(2, t1, cAd), Socket(3, t1, d)} : c \in {cAd, pU1}, d \in {cAd, cA2}}
    \cup {{Shell(1, t1, cAd), Socket(2, t1, cAd), e} : e \in Events}
    \cup {{Shell(1, t1, cAd), Shell(4, t2, cAd), Socket(2, t1, cAd), Socket(5, t2, cAd)}}

-----------------------------------------------------------------------------

MCKind == [n \in Nodes |-> IF n \in {ff, gg, nf} THEN "file" ELSE IF n = ln THEN "link" ELSE "dir"]
MCHomes == {[n \in Nodes |-> CASE n = srv -> <<top, "srv">> [] n = dd -> <<srv, "d">> [] n = ff -> <<dd, "f">>
                               [] n = etc -> <<top, "etc">> [] n = gg -> <<etc, "f">> [] OTHER -> Nowhere]}
MCPaths == {<<"srv", "d">>, <<"srv", "d", "f">>, <<"etc", "f">>, <<"srv", "n", "f">>}
MCPolicies == {[off |-> {"query"}, roots |-> {<<"srv">>}]}

J(i, op) == [id |-> i, op |-> op, path |-> <<"srv", "d", "f">>, dirs |-> FALSE, enable |-> {}, disable |-> {}, roots |-> {},
             to |-> <<>>]
Files == {J(1, "list"), J(1, "read"), J(1, "write"), [J(1, "write") EXCEPT !.dirs = TRUE], J(1, "delete"),
          [J(1, "delete") EXCEPT !.dirs = TRUE], J(1, "shell"), J(1, "probe")}
Put(i, m) == [J(i, "move") EXCEPT !.to = m]
Disorder == {Put(2, (dd :> <<etc, "d">>) @@ (ln :> <<srv, "d">>)), Put(3, (ff :> <<etc, "h">>) @@ (ln :> <<dd, "f">>)),
             Put(4, (nd :> <<dd, "e">>)), J(5, "delete")}
Patch(i, e, d, r) == [J(i, "patch") EXCEPT !.enable = e, !.disable = d, !.roots = r]
Policy == {Patch(6, {}, {"exec"}, {}), Patch(7, {"exec", "query"}, {"nat"}, {}), Patch(8, {"nat", "force"}, {}, {<<"srv", "d">>}),
           Patch(9, {}, {}, {<<"etc">>}), [J(10, "edit") EXCEPT !.disable = {"force", "exec"}], [J(11, "edit") EXCEPT !.enable = {"exec", "query"}],
           J(12, "restart"), J(13, "force"), J(1, "shell"), J(14, "probe")}
HostWork == {{f, m, n} : f \in Files, m \in Disorder, n \in Disorder} \cup {{p, q, r} : p \in Policy, q \in Policy, r \in Policy}
MCWork(w) == IF w = {} THEN HostWork
             ELSE IF \E q \in w : q.op \in {"tick", "flip"} \/ Cardinality(w) = 1 THEN {{Patch(6, {}, {"exec", "nat"}, {})}} ELSE {{}}
=============================================================================

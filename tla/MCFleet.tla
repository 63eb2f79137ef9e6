------------------------------- MODULE MCFleet -------------------------------
EXTENDS Addresses

CONSTANTS a1, a2, a3, a4, ad, u1, u2, u3, t1, n1, n2, n3, tag, g1, g2, x1, x2, x3, x4, x5, x6,
          c1, c2, c3, i1, i2, v1, v2, h1, h2

Row(u) == [owner |-> u, revoked |-> FALSE, tags |-> {}, hidden |-> FALSE]
MCStored == {[a \in Agents |-> IF a = a1 THEN Row(u1) ELSE IF a = a4 THEN Row(ad) ELSE Nothing]}
MCGroupOwner == [g \in Groups |-> IF g = g1 THEN u1 ELSE Nothing]
MCStoredTransfers ==
    {[x \in Transfers |-> IF x = x1 THEN [agent |-> a1, from |-> u1, to |-> u2, status |-> s, attempts |-> 1]
                          ELSE Nothing] : s \in {"failed", "cancelled"}}

By(u, op) == [op |-> op, user |-> u, scope |-> Nothing]
Token(u) == By(u, "token") @@ [token |-> t1]
Enroll(a) == By(Nothing, "enroll") @@ [agent |-> a, token |-> t1]
Challenge(n) == By(Nothing, "challenge") @@ [agent |-> a1, nonce |-> n]
Jwt(k) == By(Nothing, "jwt") @@ [agent |-> a1, k |-> k]
Revoke == By(ad, "revoke") @@ [agent |-> a1]
Batch(u, act) == By(u, "batch") @@ [action |-> act, servers |-> <<a1, a2, a1>>, to |-> u2, ids |-> <<x2, x3>>,
                                    group |-> g1, hidden |-> TRUE, more |-> {tag}, less |-> {}]
Untag(u) == [Batch(u, "tags") EXCEPT !.servers = <<a1>>, !.more = {}, !.less = {tag}]
\* A transfer of a1 alone, with an id drawn for it.
Give(u, x) == [Batch(ad, "transfer") EXCEPT !.servers = <<a1>>, !.to = u, !.ids = <<x>>]
Return == Give(u1, x4)
Update(u, scope) == [By(u, "update") EXCEPT !.scope = scope] @@ [agent |-> a1, tags |-> {tag}, hidden |-> FALSE]
Group(u, op) == By(u, op) @@ [group |-> g1, servers |-> <<a1>>, agent |-> a1]
NewGroup(u) == By(u, "group") @@ [group |-> g2]
Transfer(op, k) == By(ad, op) @@ [transfer |-> x1, k |-> k]

GroupOps == {Group(u1, op) : op \in {"regroup", "ungroup", "add", "remove"}}
Moves == {Batch(ad, "transfer"), Return, Give(ad, x5), Transfer("retry", 1), Batch(ad, "delete"), Batch(u1, "delete")}
Others == {Batch(u1, "move"), Batch(u1, "tags"), Untag(u1), Batch(ad, "hide"), Update(u1, Nothing), Update(u1, {a1}),
           Update(u2, Nothing), Transfer("cancel", 1), Revoke,
           Give(u3, x6)}

\* Addresses: c1 is of the owner of a1, c2 of an administrator whom a1 is moved to; a4 is his.
Config(o, ip, kind) == [owner |-> o, agent |-> a1, applied |-> ip, enabled |-> TRUE, kind |-> kind]
MCStoredConfigs == {(c1 :> Config(u1, i1, "cloudflare")) @@ (c2 :> Config(ad, Nothing, "he")) @@ (c3 :> Nothing)}
MCChannelOwner == (h1 :> u1) @@ (h2 :> ad)
Setting(p, res, ns, gr) == [provider |-> p, resolver |-> res, notify |-> TRUE, servers |-> ns, group |-> gr]
MCSettings == {Setting("mmdb", TRUE, {}, Nothing), Setting("mmdb", FALSE, {a1}, [owner |-> u1, members |-> {h1, h2}])}

State(a, ip) == By(Nothing, "state") @@ [agent |-> a, ip |-> ip]
Report(ip, k) == By(Nothing, "report") @@ [agent |-> a1, ip |-> ip, k |-> k]
Check(u) == By(u, "check")
NewConfig(a, kind) == By(ad, "ddns") @@ [config |-> c3, agent |-> a, enabled |-> a # a1, kind |-> kind]
DeleteConfig == By(ad, "undns") @@ [config |-> c1]
Reload(k) == By(ad, "reload") @@ [k |-> k]
Sees(op, scope) == [By(ad, op) EXCEPT !.scope = scope] @@ [config |-> c1]
Lookup == By(Nothing, "lookup") @@ [agents |-> {a1}]
Install(v) == By(ad, "install") @@ [version |-> v]

AddressWorkloads ==
    {{Check(Nothing), State(a1, i2), Report(i1, 1)}, {Check(ad), State(a1, i1), Report(i2, 1)},
     {Report(i1, 1), Report(i2, 1)}, {Report(i1, 1), Report(i2, 1), Give(ad, x5)},
     {Check(Nothing), State(a1, i2), Give(ad, x5)}, {Check(Nothing), State(a1, i2), Revoke},
     {Report(i2, 1), Batch(u1, "delete")}, {Check(Nothing), State(a1, i2), DeleteConfig, Reload(1)},
     {NewConfig(a1, "he"), Reload(1), Give(ad, x5)}, {NewConfig(Nothing, "he"), Check(u1), Check(Nothing)},
     {NewConfig(a4, "webhook"), Reload(1), State(a4, i1), Check(Nothing)},
     {NewConfig(a4, "tencent_cloud"), Reload(1), Reload(2), State(a4, i1), Check(Nothing)},
     {Sees("configs", Nothing), Sees("history", Nothing), DeleteConfig}, {Sees("configs", {a2}), Sees("history", {a2})},
     {Report(i1, 1), Lookup, Install(v1), Install(v2)}, {Report(i1, 1), Report(i2, 1), Lookup, Install(a1)}}

MCWorkloads ==
    AddressWorkloads \cup
    {{Token(ad), Enroll(a2), Enroll(a3)}, {Token(u1), Enroll(a2)},
     {Token(ad), Enroll(a2), Batch(ad, "transfer")},
     {Challenge(n1), Jwt(1), Jwt(2), Revoke}, {Challenge(n1), Jwt(1), Batch(u1, "delete")},
     {Challenge(n1), [Challenge(n1) EXCEPT !.scope = {}], Challenge(n2), Jwt(1)},
     {NewGroup(u2), Batch(ad, "hide")}, {Transfer("retry", 1), Transfer("retry", 2), Transfer("cancel", 1)},
     {Transfer("cancel", 1), Transfer("cancel", 2), Transfer("retry", 1)}}
    \cup {{q, m, p} : q \in GroupOps \cup Others, m \in Moves, p \in GroupOps \cup Moves \cup Others}
    \cup {{q, p} : q \in Others, p \in Others}
=============================================================================

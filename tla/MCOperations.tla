---------------------------- MODULE MCOperations -----------------------------
EXTENDS Mcp

CONSTANTS a1, a2, ad, u1, cAd, cU1, pAd, pU1, t1, t2, t3, t4, ip, x1, x2, x3, x4, x5, x6, x7, x8

Reading == {"server:read", "service:read", "alert:read", "task:read", "nat:read", "ddns:read", "transfer:read"}
Session(u) == [user |-> u, kind |-> "session", scopes |-> {}, servers |-> Nothing, valid |-> TRUE]
Pat(u, ss, as) == [user |-> u, kind |-> "pat", scopes |-> ss, servers |-> as, valid |-> TRUE]
Agent(u, on) == [owner |-> u, revoked |-> FALSE, online |-> on]
Issued(c, op) == [server |-> a1, op |-> op, cred |-> c, expired |-> FALSE, used |-> "no", by |-> Nothing,
                  revoked |-> FALSE, dead |-> FALSE]
Row(k, u, a, of) == [kind |-> k, owner |-> u, server |-> a, of |-> of]
Start ==
    [users |-> [u \in Users |-> IF u = ad THEN "admin" ELSE "member"],
     creds |-> [x \in Creds |-> CASE x = cAd -> Session(ad) [] x = cU1 -> Session(u1)
                                  [] x = pAd -> Pat(ad, Reading \cup {"server:exec"}, {a1})
                                  [] x = pU1 -> Pat(u1, Reading \cup {"server:exec"}, Nothing)],
     agents |-> [a \in Agents |-> IF a = a1 THEN Agent(u1, TRUE) ELSE Agent(ad, TRUE)],
     tokens |-> [t \in Tokens |-> CASE t = t1 -> Issued(cAd, "upload") [] t = t2 -> Nothing
                                   [] t = t3 -> Issued(cU1, "download") [] t = t4 -> Issued(pU1, "download")],
     rows |-> [x \in Rows |-> CASE x = x1 -> Row("service", u1, a1, Nothing) [] x = x2 -> Row("service", ad, Nothing, Nothing)
                                [] x = x3 -> Row("result", u1, a2, x1) [] x = x4 -> Row("event", u1, a1, Nothing)
                                [] x = x5 -> Row("rule", u1, Nothing, Nothing) [] x = x6 -> Row("task", u1, a1, Nothing)
                                [] x = x7 -> Row("nat", u1, a1, Nothing) [] x = x8 -> Row("ddns", u1, Nothing, Nothing)]]
MCStored == {Start}

Q(i, op) == [id |-> i, op |-> op, by |-> cAd, user |-> ad, agent |-> a1, other |-> a2, token |-> t1, ip |-> ip,
             row |-> x1, via |-> "api", tool |-> "none", then |-> "none", item |-> "none"]
By(i, op, c) == [Q(i, op) EXCEPT !.by = c]
Tool(t, c) == [By(1, "mcp", c) EXCEPT !.tool = t, !.token = t2, !.via = IF c \in {pAd, pU1} THEN "rpc" ELSE "studio"]
Then(t, n, c) == [Tool(t, c) EXCEPT !.then = n]
Item(op, x, c) == [By(1, op, c) EXCEPT !.item = x]

Moves == {Q(10, "role"), Q(11, "ban"), Q(12, "flip"), [Q(13, "owner") EXCEPT !.user = ad], [Q(14, "owner") EXCEPT !.user = u1],
          By(15, "leave", cU1), By(16, "leave", cAd), By(17, "leave", pU1),
          [Q(18, "assign") EXCEPT !.agent = a2], [Q(19, "owner") EXCEPT !.agent = a2, !.user = u1]}
Ending == {Q(10, "role"), Q(11, "ban"), Q(12, "flip"), Q(20, "expire"), By(16, "leave", cAd), Q(21, "window"),
           Q(22, "revoke"), By(23, "revoke", cU1), By(24, "revoke", pU1), [Q(25, "owner") EXCEPT !.user = ad],
           By(26, "leave", pU1)}
UpTo(cs) == {{c, d} : c \in cs, d \in cs}

Asked == {By(1, op, c) : op \in {"list", "read", "write", "delete", "config", "apply", "sensitive", "update", "tokens"}, c \in Creds}
         \cup {[By(1, op, c) EXCEPT !.token = t2] : op \in {"download_url", "upload_url"}, c \in Creds}
ToolCalls == {Tool(t, c) : t \in {"whoami", "servers", "server", "services", "history", "events", "rules", "task", "topology",
                              "exec", "batch", "batch_online", "fs_read", "fs_url", "fs_write"}, c \in {cAd, pU1}}
         \cup {Tool(t, pAd) : t \in {"servers", "history", "exec", "batch", "fs_url"}}
         \cup {Then("fs_list", "inspect", pU1), Then("servers", "batch", pU1), Then("overview", "metrics", pU1), Then("resolve", "diagnose", pAd)}
         \cup {Item("resource", x, c) : x \in {"overview", "inventory", "health", "active", "topology", "telemetry"}, c \in {cU1, pAd}}
         \cup {Item("prompt", x, cU1) : x \in {"audit", "troubleshoot", "triage", "capacity"}}

MCWorkloads ==
    {{Q(1, "upload"), Q(2, "upload")} \cup c : c \in UpTo(Ending)}
    \cup {{[q EXCEPT !.token = t4] : q \in {Q(1, "download"), Q(2, "download")} \cup c} :
            c \in UpTo({Q(11, "ban"), Q(12, "flip"), Q(20, "expire"), Q(22, "revoke"), By(24, "revoke", pU1), [Q(25, "owner") EXCEPT !.user = ad], By(26, "leave", pU1)})}
    \cup {{[q EXCEPT !.token = t3] : q \in {Q(1, "download"), Q(2, "download"), c}} : c \in Ending}
    \cup {{q} \cup c : q \in Asked \cup ToolCalls, c \in UpTo(Moves)}
=============================================================================

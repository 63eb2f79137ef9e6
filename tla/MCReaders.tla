------------------------------ MODULE MCReaders ------------------------------
EXTENDS Maintenance

CONSTANTS a1, a2, a3, ad, u1, u2, s1, s2, k1, k2, h1, h2, plain, dark, night, mono, web, x1, x2, x3

Agent(u, p) == [owner |-> u, revoked |-> FALSE, public |-> p, tags |-> IF p THEN {web} ELSE {}]
Service(u, c, x, l) == [owner |-> u, enabled |-> TRUE, cover |-> c, exclude |-> x, legacy |-> l]
Task(u, type) == [owner |-> u, type |-> type, command |-> web, payload |-> Nothing, cover |-> "specific", ids |-> {},
                  source |-> FALSE, group |-> Nothing, tags |-> {}, exclude |-> {}, notice |-> u, push |-> TRUE,
                  enabled |-> TRUE, cron |-> TRUE]
Shell(u) == [Task(u, "shell") EXCEPT !.ids = {a1}]
Start == [agents |-> (a1 :> Agent(u1, TRUE) @@ a2 :> Agent(u1, FALSE) @@ a3 :> Agent(u2, TRUE)),
          service |-> (s1 :> Service(u1, "specific", FALSE, Nothing) @@ s2 :> Service(u2, "all", TRUE, a3)),
          assigned |-> (s1 :> {a1, a2} @@ s2 :> {}), results |-> {<<s1, a1>>, <<s1, a3>>, <<s2, a3>>},
          members |-> (ad :> {a3} @@ u1 :> {a1, a2, a3} @@ u2 :> {a3}),
          site |-> [open |-> TRUE, details |-> TRUE, servers |-> {}, group |-> Nothing, text |-> Nothing,
                    themes |-> (plain :> Nothing @@ dark :> "both" @@ night :> Nothing @@ mono :> Nothing),
                    public |-> dark, dashboard |-> dark, retention |-> 2],
          tasks |-> (k1 :> Shell(u1) @@ k2 :> Nothing), runs |-> {<<k1, a1>>, <<k1, a3>>},
          notices |-> (ad :> {} @@ u1 :> {h1} @@ u2 :> {h2})]
MCRows == {Start}
MCBuiltins == plain :> "public"
Rule(u, as, ss, ts) == [owner |-> u, agents |-> as, services |-> ss, tasks |-> ts]
MCRules == x1 :> Rule(u1, {a1, a2}, {}, {k1}) @@ x2 :> Rule(u1, {}, {s1}, {}) @@ x3 :> Rule(u2, {a3}, {}, {})
MCRuleOrder == <<x3, x2, x1>>
MCTaskOrder == <<k2, k1>>
MCOrder == <<a3, a2, a1>>

By(op, u, scope) == [op |-> op, user |-> u, scope |-> scope, agent |-> a1, service |-> s1, history |-> TRUE, k |-> 1]
Guest(op) == By(op, Nothing, Nothing)
Report(a, k) == [By("publish", ad, Nothing) EXCEPT !.agent = a, !.k = k]

Askers == {<<ad, Nothing>>, <<u1, Nothing>>, <<u1, {a1, a2}>>, <<ad, {a1}>>, <<u2, Nothing>>, <<u2, {}>>}
Reading == {"servers", "server", "metrics", "groups", "services", "service", "uptime"}
WholeUptime == {[By("uptime", x[1], x[2]) EXCEPT !.agent = Nothing] : x \in Askers}


Change1(op, a, u) == [By(op, u, Nothing) EXCEPT !.agent = a]
Moves == {Change1("owner", a1, u2), Change1("owner", a1, u1), Change1("owner", a2, u2), Change1("owner", a3, u1), Change1("revoke", a1, ad), Change1("revoke", a3, ad)}
Setting(fs) == By("settings", ad, Nothing) @@ [fields |-> fs, pat |-> FALSE]
Key(key, v) == [key |-> key, value |-> v]
Close == Setting(<<Key("open", FALSE), Key("details", FALSE)>>)
Open == Setting(<<Key("open", TRUE), Key("text", Invalid), Key("details", FALSE)>>)
Shows == {Change1("visibility", a, ad) : a \in Agents} \cup {Close, Open}
Theme(op, t, target) == By(op, ad, Nothing) @@ [theme |-> t, target |-> target, pat |-> FALSE]
Pick(t, target) == Theme("choose", t, target)
ThemeChanges == {Theme("untheme", dark, "both"), Theme("import", night, "dashboard"), Theme("import", dark, "both"), Theme("import", mono, "public"),
                 Theme("retheme", dark, "dashboard"), Pick(plain, "public"), Pick(night, "dashboard"), Pick(dark, "both"),
                 [Pick(dark, "both") EXCEPT !.pat = TRUE], Theme("untheme", plain, "both"), Pick(plain, "dashboard")}
Notify == {Setting(<<Key("servers", {a1, a3}), Key("group", ad), Key("text", web)>>), Setting(<<Key("group", u1)>>), [Close EXCEPT !.user = u1]}

Probes == {[By("assign", ad, as) EXCEPT !.service = s] : as \in {{}, {a1}, {a3}, Agents}, s \in Services}
          \cup {[By("result", ad, Nothing) EXCEPT !.agent = a2]}
UpToTwo(cs) == {{c, d} : c \in cs, d \in cs}

Dashboard == {By(op, x[1], x[2]) : op \in Reading, x \in Askers} \cup WholeUptime
             \cup {[By("service", u2, Nothing) EXCEPT !.service = s2], [By("services", u1, Nothing) EXCEPT !.history = FALSE], [By("uptime", u1, Nothing) EXCEPT !.history = FALSE]}
Visitors == {{Guest("status")}, {Guest("detail")}, {[Guest("detail") EXCEPT !.agent = a2]},
             {Guest("mjpeg"), [Guest("mjpeg") EXCEPT !.k = 2]}}
Sockets == {{By("ws", x[1], x[2]), Report(a1, 1), Report(a1, 2), Report(a2, 1)} : x \in Askers}
           \cup {{By("ws", u1, Nothing), Report(a1, 1), Report(a2, 1), Report(a3, 1)}}

TaskBy(op, u, scope, t) == By(op, u, scope) @@ [task |-> t, pat |-> scope # Nothing, tasks |-> {k1, k2}]
Writes(op, t, new) == TaskBy(op, u1, Nothing, t) @@ [new |-> new]
Part(f, v) == f :> v
Edits1 == {Writes("edit", k1, new) : new \in {Part("enabled", FALSE), Part("ids", {a1, a2}), Part("exclude", {a2}), Part("group", u1),
                                              Part("command", Blocked), Part("cover", "any"), Part("notice", u2), Part("cron", FALSE),
                                              Part("ids", {}) @@ Part("cover", "all"), Part("ids", {}) @@ Part("tags", {web}),
                                              Part("ids", {}) @@ Part("source", TRUE)}}
Creates == {Writes("create", k2, [Task(u1, "http_get") EXCEPT !.payload = y]) : y \in {web, Blocked}}
           \cup {Writes("create", k2, [Task(u1, "shell") EXCEPT !.group = u1, !.tags = g]) : g \in {{}, {web}}}
           \cup {Writes("create", k2, [Task(u1, "icmp_ping") EXCEPT !.command = Blocked])}
EditsTarget == {Writes("edit", k2, Part("command", y)) : y \in {web, Blocked}} \cup {Writes("edit", k2, Part("payload", Blocked))}
Removes == {TaskBy("remove", u1, Nothing, k1), TaskBy("remove", u2, Nothing, k1)}
Runs == {TaskBy(op, u1, Nothing, t) : op \in {"run", "trigger"}, t \in Tasks} \cup {TaskBy("scan", Nothing, Nothing, Nothing)}
TaskReads == {TaskBy(op, z[1], z[2], k1) : op \in {"tasks", "task", "runs", "triggers"}, z \in {<<u1, Nothing>>, <<u1, {a1}>>, <<u2, Nothing>>}}
Around == {Change1("owner", a1, u2), Change1("revoke", a1, ad), By("regroup", u1, {a2}), By("rechannel", u1, {h2})}

AlarmReads == {By("rules", x[1], x[2]) : x \in Askers \cup {<<u1, {a1}>>}}
Erase(u, x) == By("unrule", u, Nothing) @@ [rule |-> x, pat |-> FALSE]
Event(x, a) == [By("event", Nothing, Nothing) EXCEPT !.agent = a] @@ [rule |-> x]
Erased == {Erase(u1, x2), Erase(u1, x3), Erase(ad, x3), [Erase(u1, x1) EXCEPT !.pat = TRUE]}
EventReads == {{By("events", x[1], x[2]), Event(x1, a1), Event(x3, a3), Event(x2, Nothing), Erase(ad, x3)} : x \in Askers}
AlarmChanges == Erased \cup Around \cup {TaskBy("remove", u1, Nothing, k1), [By("assign", ad, {a3}) EXCEPT !.service = s1]}

Job(op, k) == By(op, ad, Nothing) @@ [pat |-> FALSE, m |-> k]
Days(n) == {Job("day", k) : k \in 1..n}
Samples(n) == {Job("sample", k) : k \in 1..n}
Keep(d) == [Job("retention", d) EXCEPT !.k = d]
Again == Job("restart", 1)
Restoring == {Job("backup", 1), Job("restore", 1)}
Storage == {Samples(3) \cup Days(3) \cup c : c \in {{Keep(1), Keep(3)}, {Keep(3), Again}, {Job("compact", 1), [Keep(1) EXCEPT !.user = u1], Keep(4)}}}
           \cup {{Keep(1), Keep(3), Again} \cup Restoring, {Keep(1), Keep(2), Keep(3), Again}, Samples(2) \cup Days(2) \cup {Job("archive", 1), Keep(1)},
            {Job("archive", 1), [Job("archive", 2) EXCEPT !.user = u1], [Job("backup", 1) EXCEPT !.user = u1], [Job("restore", 1) EXCEPT !.user = u1], [Job("compact", 1) EXCEPT !.user = u1]}}
Restores == {Restoring \cup {c, d} : c \in {Writes("edit", k1, Part("enabled", FALSE)), TaskBy("remove", u1, Nothing, k1), Theme("untheme", dark, "both"), Change1("owner", a1, u2)},
                                     d \in {TaskBy("run", u1, Nothing, k1), By("servers", u1, Nothing), Writes("edit", k1, Part("ids", {a1, a2})), Pick(dark, "both"), Again, By("rules", u1, {a1, a2})}}

MCWorkloads ==
    Storage \cup Restores \cup
    {{q, c, d} : q \in AlarmReads, c \in AlarmChanges, d \in AlarmChanges} \cup EventReads
    \cup {{By("noticegroups", u, Nothing), By("rechannel", u, {h2})} : u \in {u1, u2}} \cup
    {{Guest("status"), c, d} : c \in ThemeChanges, d \in ThemeChanges} \cup {{n, c} : n \in Notify, c \in Moves}
    \cup {{c, d, e} : c \in ThemeChanges, d \in ThemeChanges, e \in {Theme("untheme", dark, "both"), Pick(dark, "both")}}
    \cup {{w, v} : w \in Edits1 \cup Removes, v \in Edits1 \cup Removes \cup Creates}
    \cup {{w, v, z} : w \in Edits1, v \in Removes \cup {Writes("edit", k1, Part("enabled", FALSE))}, z \in Around \cup Runs}
    \cup {{c, v, z} : c \in Creates, v \in EditsTarget \cup Around, z \in EditsTarget \cup Runs}
    \cup {{z, v} : z \in TaskReads \cup Runs, v \in Around \cup Runs \cup Removes \cup Edits1 \cup Creates} \cup
    {{q} \cup c : q \in Dashboard, c \in UpToTwo(Moves \cup Probes)}
    \cup {v \cup c : v \in Visitors, c \in UpToTwo(Shows \cup Probes \cup {Change1("revoke", a1, ad)})}
    \cup {w \cup c : w \in Sockets, c \in UpToTwo({Change1("owner", a1, u2), Change1("owner", a1, u1), Change1("revoke", a1, ad)})}
=============================================================================

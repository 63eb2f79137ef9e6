------------------------------- MODULE Alarms --------------------------------
(***************************************************************************)
(* The readers of alert rules, alert events and notification groups        *)
(* (api/v1/alerts.rs, db/repository/alerts.rs, api/v1/notifications.rs)    *)
(* and the end of a rule, beside the readers of Readers.  How a rule is    *)
(* created and evaluated is AlertEngine.                                   *)
(*                                                                         *)
(* A rule is never edited.  A token for some Agents is shown the rules     *)
(* whose every condition and task it may see; the rows are read in batches *)
(* and each condition is looked at by itself, while Agents, services,      *)
(* tasks and rules change.                                                 *)
(***************************************************************************)
EXTENDS Site

CONSTANTS
    RuleOrder,  \* the ids of rules, the newest first
    RuleBatch   \* ALERT_RULE_LIST_SCAN_BATCH

ASSUME AlarmsAssumption == ToSet(RuleOrder) = DOMAIN Rules /\ RuleBatch \in Nat \ {0}

VARIABLES
    stored, \* ids in alert_rules
    events  \* alert_events: rule, and Agent or Nothing for a service's

alarms == <<stored, events>>

AlarmsTypeOK == stored \subseteq DOMAIN Rules /\ events \subseteq stored \X (Agents \cup {Nothing})
AlarmsInit == stored = DOMAIN Rules /\ events = {}

ReadsAlarms == Reads /\ UNCHANGED <<hub, astray, alarms>>

-----------------------------------------------------------------------------
(* Rules. *)

\* The two queries, the newest first.
list_page == SelectSeq(RuleOrder, LAMBDA x : x \in stored)
list_by_owner_page(u) == SelectSeq(RuleOrder, LAMBDA x : x \in stored /\ Rules[x].owner = u)
RulesFor(q) == IF q.user \in Admins THEN list_page ELSE list_by_owner_page(q.user)

\* A session: one query for the page, and one that counts.
list_alert_rules(r) ==
    /\ At(r, "rules", "start")
    /\ IF r.q.scope = Nothing THEN Show(r, {<<"rule", x>> : x \in ToSet(RulesFor(r.q))})
       ELSE Goto(r, [r EXCEPT !.at = "batch", !.view = Nothing])
    /\ ReadsAlarms

\* A token for some Agents: batches by their offset, until one is not full.
list_alert_rules_visible_page(r) ==
    /\ At(r, "rules", "batch")
    /\ LET rows == RulesFor(r.q)
           batch == SubSeq(rows, r.n + 1, Smaller(r.n + RuleBatch, Len(rows)))
       IN Goto(r, [r EXCEPT !.at = IF Len(batch) < RuleBatch THEN "last" ELSE "rows",
                            !.ids = ToSet(batch), !.n = @ + RuleBatch])
    /\ ReadsAlarms

\* What is looked at for a rule: its conditions' Agents and services, and its tasks.
Conditions(x) == {<<"agent", a>> : a \in Rules[x].agents} \cup {<<"service", s>> : s \in Rules[x].services}
ChecksOf(x) == Conditions(x) \cup {<<"task", t>> : t \in Rules[x].tasks}
Begun(r) == r.q.op = "rules" /\ r.at \in {"rows", "last"} /\ r.view # Nothing
Waiting(r) == r.q.op = "rules" /\ r.at \in {"rows", "last"} /\ r.view = Nothing
Pending(r) == {c \in r.todo : c[1] # "seen"}

\* alert_rule_visible_to_auth: a rule without conditions is shown to no such token.
NextAlertRule(r) ==
    /\ Waiting(r)
    /\ \E x \in r.ids :
          Goto(r, IF Conditions(x) = {} THEN [r EXCEPT !.ids = @ \ {x}]
                  ELSE [r EXCEPT !.ids = @ \ {x}, !.view = x, !.todo = ChecksOf(x)])
    /\ ReadsAlarms

ensure_alert_agent_visible_to_auth(q, a) == agent_visible(q, a) /\ ~agents[a].revoked

\* fetch_service_scope_metadata: the row is the asker's and names its Agents one by one.
ServiceScope(q, s) ==
    /\ q.user \in Admins \/ service[s].owner = q.user
    /\ service[s].cover = "specific" /\ ~service[s].exclude

\* ensure_service_id_visible_to_auth: its Agents, each of which is then looked at by itself.
ServiceAgents(s) == Effective(assigned[s], service[s].legacy)

\* What a check leaves to be looked at and what it has found; Nothing if it fails.
Checked(q, c) ==
    IF c[1] = "agent" THEN
        IF ensure_alert_agent_visible_to_auth(q, c[2]) THEN {<<"seen", c[2]>>, <<"seen", <<"active", c[2]>>>>} ELSE Nothing
    ELSE IF c[1] = "member" THEN IF agent_visible(q, c[2]) THEN {<<"seen", c[2]>>} ELSE Nothing
    ELSE IF c[1] = "service" THEN
        IF ServiceAgents(c[2]) = {} THEN Nothing
        ELSE {<<"scope", c[2]>>} \cup {<<"member", a>> : a \in ServiceAgents(c[2])}
    ELSE IF c[1] = "scope" THEN IF ServiceScope(q, c[2]) THEN {} ELSE Nothing
    ELSE IF c[2] \in OwnTasks(q) THEN {<<"seen", c>>} ELSE Nothing

ensure_alert_conditions_visible_to_auth(r) ==
    /\ Begun(r)
    /\ \E c \in Pending(r) :
          LET found == Checked(r.q, c) IN
          Goto(r, IF found = Nothing THEN [r EXCEPT !.view = Nothing, !.todo = {}]
                  ELSE [r EXCEPT !.todo = (@ \ {c}) \cup found])
    /\ ReadsAlarms

AlertRuleListed(r) ==
    /\ Begun(r) /\ Pending(r) = {}
    /\ Goto(r, [r EXCEPT !.view = Nothing, !.todo = {},
                         !.show = @ \cup {<<"rule", r.view>>} \cup {c[2] : c \in r.todo}])
    /\ ReadsAlarms

AlertBatchDone(r) ==
    /\ Waiting(r) /\ r.ids = {}
    /\ IF r.at = "last" THEN Show(r, {}) ELSE Goto(r, [r EXCEPT !.at = "batch"])
    /\ ReadsAlarms

\* delete_alert_rule: the row is found and, for its owner or an administrator, deleted; the
\* events go with it.
delete_alert_rule(r) ==
    /\ At(r, "unrule", "start")
    /\ IF ~r.q.pat /\ r.q.rule \in stored /\ (r.q.user \in Admins \/ Rules[r.q.rule].owner = r.q.user)
       THEN Goto(r, [r EXCEPT !.at = "write"]) ELSE Refuse(r)
    /\ ReadsAlarms

AlertRuleDeleted(r) ==
    /\ At(r, "unrule", "write")
    /\ stored' = stored \ {r.q.rule} /\ events' = {e \in events : e[1] # r.q.rule}
    /\ Refuse(r) /\ Reads /\ UNCHANGED <<hub, astray>>

-----------------------------------------------------------------------------
(* Events. *)

\* The engine stores an event of a rule that is there.
EventStored(r) ==
    /\ At(r, "event", "start") /\ r.q.rule \in stored
    /\ events' = events \cup {<<r.q.rule, r.q.agent>>}
    /\ Refuse(r) /\ Reads /\ UNCHANGED <<hub, astray, stored>>

\* The newest come first and limit cuts the rest: which are shown is all that counts here.
list_recent == events
list_recent_for_owner(u) == {e \in events : Rules[e[1]].owner = u}
list_recent_for_server_ids(ids) == {e \in events : e[2] \in ids}
list_recent_for_owner_server_ids(u, ids) == {e \in events : Rules[e[1]].owner = u /\ e[2] \in ids}

alert_event_visible_to_auth(q, e) == q.scope # Nothing => e[2] \in q.scope

list_alert_events(r) ==
    /\ At(r, "events", "start")
    /\ LET q == r.q
           rows == IF q.user \in Admins
                   THEN IF q.scope = Nothing THEN list_recent ELSE list_recent_for_server_ids(q.scope)
                   ELSE IF q.scope = Nothing THEN list_recent_for_owner(q.user)
                   ELSE list_recent_for_owner_server_ids(q.user, q.scope)
           shown == {e \in rows : alert_event_visible_to_auth(q, e)}
       IN Show(r, {<<"rule", e[1]>> : e \in shown}
                  \cup {<<"in", e[2]>> : e \in {e \in shown : e[2] # Nothing}})
    /\ ReadsAlarms

-----------------------------------------------------------------------------
(* Notification groups. *)

\* The groups, each with its members by a query of its own, and their number.
list_groups_for_owner(r) ==
    /\ At(r, "noticegroups", "start")
    /\ Goto(r, [r EXCEPT !.at = "members"])
    /\ ReadsAlarms

NoticeMembers(r) ==
    /\ At(r, "noticegroups", "members")
    /\ Show(r, {<<"channel", c, r.q.user>> : c \in notices[r.q.user]})
    /\ ReadsAlarms

AlarmStep(r) ==
    \/ list_alert_rules(r) \/ list_alert_rules_visible_page(r) \/ NextAlertRule(r) \/ AlertBatchDone(r)
    \/ ensure_alert_conditions_visible_to_auth(r) \/ AlertRuleListed(r) \/ delete_alert_rule(r)
    \/ AlertRuleDeleted(r) \/ EventStored(r) \/ list_alert_events(r) \/ list_groups_for_owner(r) \/ NoticeMembers(r)
=============================================================================

----------------------------- MODULE AlertEngine -----------------------------
(***************************************************************************)
(* The alert engine (crates/server/src/alerts/engine.rs), the requests     *)
(* that create and delete rules (api/v1/alerts.rs, db/repository/          *)
(* alerts.rs) and what an event sets off: tasks (tasks/mod.rs) and the     *)
(* channels of the rule's group (Notifications).                           *)
(*                                                                         *)
(* One loop evaluates the enabled rules every 15 s.  Each database access  *)
(* is a step that may fail; rules, owners, reports and results change      *)
(* between the steps.  Alert states, duration windows and last reports     *)
(* live in memory and are lost with the process.                           *)
(*                                                                         *)
(* One unit of time is one tick.  A condition is its kind, the Agent or    *)
(* service it is about, its bound and its duration; measured values are    *)
(* small numbers.                                                          *)
(***************************************************************************)
EXTENDS Notifications, Sequences, SequencesExt

CONSTANTS
    Rules,        \* ids of alert rules
    Deleted,      \* no such row any more
    Drafts,       \* what a create request may ask for
    Stored,       \* tables of rules the server may start with
    StoredChannels, StoredGroups, StoredMembers, \* and of channels and groups
    Agents, Services, Tasks,
    Admins,       \* the users with the admin role
    Owner,        \* the Agents' owners at first
    ServiceOf,    \* services: owner, cover mode, assigned and excluded Agents
    TaskOwner,
    Expires,      \* agents.expires_at, or Nothing
    Quota,        \* traffic quota in the dashboard metadata, or Nothing
    Reports,      \* host states an Agent may send
    Probes,       \* results a probe may have
    MaxServerIds, \* SERVICE_MAX_SERVER_IDS
    MaxConds,     \* ALERT_MAX_CONDITIONS
    Throttle,     \* 60 s: between two events of a rule in mode always
    MaxEvents,    \* bound on what happens around the engine
    MaxFaults     \* bound on failing database accesses and restarts

Kinds == {"down", "latency", "cert", "expiry", "quota", "offline", "resource", "network"}
OnService == {"down", "latency", "cert"}

\* A row of alert_rules, its conditions parsed.
Cond == [kind : Kinds, on : Services \cup Agents, bound : Int, duration : Nat]
Rule == [owner : Users, mode : {"once", "always"}, enabled : BOOLEAN,
         conds : Seq(Cond), group : Groups \cup {Nothing}, fail : SUBSET Tasks, recover : SUBSET Tasks]

\* AlertState, and an event as far as the properties tell events apart.
Times == 0..MaxTime
State == [active : BOOLEAN, always : Times \cup {Nothing}]
Event == [kind : {"fired", "recovered"}, at : Times, mode : {"once", "always"}]

ASSUME AlertAssumption ==
    /\ Throttle \in Nat \ {0} /\ MaxEvents \in Nat /\ MaxFaults \in Nat
    /\ Owner \in [Agents -> Users] /\ TaskOwner \in [Tasks -> Users] /\ Admins \subseteq Users
    /\ Drafts \subseteq Rule /\ Stored \subseteq [Rules -> Rule \cup {Nothing}]
    /\ Deleted # Nothing /\ Deleted \notin Rule
    /\ Nothing \notin Times \cup Rule \cup State \cup Event
    /\ \A d \in Drafts \cup UNION {{s[r] : r \in Rules} : s \in Stored} : d # Nothing =>
          \A i \in DOMAIN d.conds :
             d.conds[i].on \in (IF d.conds[i].kind \in OnService THEN Services ELSE Agents)

\* Every condition some rule may have.
Conds == UNION {ToSet(d.conds) : d \in Drafts \cup
                   (UNION {{s[r] : r \in Rules} : s \in Stored} \ {Nothing})}

VARIABLES
    row,       \* alert_rules
    create,    \* the create request between its checks and its INSERT
    owner,     \* agents.owner_user_id
    revoked,   \* Agents with a revoked_at
    seen,      \* agents.last_seen_at
    results,   \* service_results, newest first
    enabledTasks,
    latest,    \* AlertEngine::latest
    states,    \* AlertEngine::states
    windows,   \* AlertEngine::condition_windows
    traffic,   \* AlertEngine::traffic_windows
    pc,        \* where the loop is
    todo,      \* the rules loaded and not yet evaluated
    cur,       \* the rule in evaluation, as it was loaded
    events, faults,
    last       \* history: the last event of a rule since its state was dropped

tables == <<row, create, owner, revoked, seen, results, enabledTasks>>
memory == <<latest, states, windows, traffic>>
loop == <<pc, todo, cur>>
bounds == <<events, faults>>
vars == <<time, notifyVars, tables, memory, loop, bounds, last>>

NoCur == [id |-> Nothing]

TypeOK ==
    /\ time \in Times /\ NotifyTypeOK
    /\ create = Idle \/ (create.at = "insert" /\ create.rule.owner \in Users)
    /\ owner \in [Agents -> Users] /\ revoked \subseteq Agents
    /\ seen \in [Agents -> Times \cup {Nothing}]
    /\ enabledTasks \subseteq Tasks
    /\ latest \in [Agents -> Reports \cup {Nothing}]
    /\ row \in [Rules -> Rule \cup {Nothing, Deleted}]
    /\ states \in [Rules -> State \cup {Nothing}]
    /\ windows \in [Conds -> Times \cup {Nothing}]
    /\ pc \in {"idle", "next", "check", "decide", "insert", "tasks", "channels", "store"}
    /\ \A x \in todo : x.id \in Rules
    /\ cur.id \in Rules <=> pc \notin {"idle", "next"}
    /\ events \in 0..MaxEvents /\ faults \in 0..MaxFaults
    /\ last \in [Rules -> Event \cup {Nothing}]

Init ==
    /\ time = 0
    /\ channel = StoredChannels /\ group = StoredGroups /\ member = StoredMembers
    /\ edit = [e \in Editors |-> Idle] /\ tested = [c \in Channels |-> Nothing]
    /\ row \in Stored /\ create = Idle
    /\ owner = Owner /\ revoked = {}
    /\ seen = [a \in Agents |-> Nothing]
    /\ results = [s \in Services |-> <<>>]
    /\ enabledTasks = Tasks
    /\ latest = [a \in Agents |-> Nothing]
    /\ states = [r \in Rules |-> Nothing]
    /\ windows = [c \in Conds |-> Nothing] /\ traffic = [c \in Conds |-> Nothing]
    /\ pc = "idle" /\ todo = {} /\ cur = NoCur
    /\ events = 0 /\ faults = 0
    /\ last = [r \in Rules |-> Nothing]

-----------------------------------------------------------------------------
(* Rules and their conditions. *)

Exists(r) == row[r] \notin {Nothing, Deleted}

\* The bounds both validate_condition and validate_runtime_condition ask for: a
\* count, a latency, a percentage or a time of zero would hold of anything.
BoundIsValid(c) ==
    IF c.kind \in {"down", "latency", "quota", "offline"} THEN c.bound > 0
    ELSE IF c.kind \in {"cert", "expiry"} THEN c.bound >= 0
    ELSE TRUE

\* parse_conditions
parse_conditions(d) ==
    /\ Len(d.conds) \in 1..MaxConds
    /\ \A i \in DOMAIN d.conds : BoundIsValid(d.conds[i])

\* validate_loaded_alert_rule: rows of older versions are asked the same again.
validate_loaded_alert_rule(x) ==
    /\ Len(x.conds) \in 1..MaxConds
    /\ \A i \in DOMAIN x.conds : BoundIsValid(x.conds[i])

-----------------------------------------------------------------------------
(* What the engine reads. *)

agent_belongs_to_owner(a, u) == owner[a] = u /\ a \notin revoked

service_belongs_to_owner(s, u) == ServiceOf[s].owner = u

condition_agent_id(c) == IF c.kind \in OnService THEN Nothing ELSE c.on

condition_belongs_to_rule_owner(c, u) ==
    IF c.kind \in OnService THEN service_belongs_to_owner(c.on, u)
    ELSE agent_belongs_to_owner(c.on, u)

\* load_service_server_ids: too many assignments are none; without any, the one of
\* older versions.
load_service_server_ids(s) ==
    IF Cardinality(ServiceOf[s].servers) > MaxServerIds THEN {}
    ELSE IF ServiceOf[s].servers = {} THEN ServiceOf[s].legacy
    ELSE ServiceOf[s].servers

\* load_active_agent_ids_for_owner: an ownerless service has none.
ActiveAgentsOf(u) == {a \in Agents : u # Nothing /\ agent_belongs_to_owner(a, u)}

\* load_agent_owner_ids and unique_uuid_value
CommonOwner(as) == IF as # {} /\ \E u \in Users : \A a \in as : owner[a] = u
                   THEN CHOOSE u \in Users : \A a \in as : owner[a] = u ELSE Nothing

\* service_scope_owner: without an owner of its own, the one owner of its Agents.
service_scope_owner(s) ==
    IF ServiceOf[s].owner # Nothing THEN ServiceOf[s].owner ELSE CommonOwner(load_service_server_ids(s))

\* filter_agent_ids_to_service_owner
filter_agent_ids_to_service_owner(s, as) == as \cap ActiveAgentsOf(service_scope_owner(s))

\* service_result_scope: the Agents whose results count; {Nothing} is "local".
service_result_scope(s) ==
    CASE ServiceOf[s].cover = "specific" ->
            filter_agent_ids_to_service_owner(s, load_service_server_ids(s))
      [] ServiceOf[s].cover = "all" -> ActiveAgentsOf(ServiceOf[s].owner)
      [] ServiceOf[s].cover = "exclude" -> ActiveAgentsOf(ServiceOf[s].owner) \ ServiceOf[s].exclude
      [] OTHER -> {Nothing}

InScope(s) == SelectSeq(results[s], LAMBDA x : x.server \in service_result_scope(s))

\* count_recent_service_failures: among the newest n, ORDER BY created_at DESC LIMIT n.
count_recent_service_failures(s, n) ==
    Cardinality({i \in DOMAIN InScope(s) : i <= n /\ ~InScope(s)[i].ok})

\* latest_service_latency_ms: -1 without a success.
latest_service_latency_ms(s) ==
    LET good == SelectSeq(InScope(s), LAMBDA x : x.ok) IN IF good = <<>> THEN -1 ELSE good[1].delay

\* latest_cert_not_after
latest_cert_not_after(s) ==
    LET certs == SelectSeq(InScope(s), LAMBDA x : x.cert # Nothing) IN
    IF certs = <<>> THEN Nothing ELSE certs[1].cert

\* check_server_traffic_quota: used / quota * 100 >= percent.
check_server_traffic_quota(a, percent) ==
    /\ Quota[a] \notin {Nothing, 0} /\ latest[a] # Nothing
    /\ latest[a].bytes # 0
    /\ latest[a].bytes * 100 >= percent * Quota[a]

\* ServerOffline: an Agent that was never seen has been away for ever.
IsOffline(a, n) == seen[a] = Nothing \/ time - seen[a] >= n

\* apply_duration_window: held for duration seconds since it was first seen to hold.
apply_duration_window(c, triggered) ==
    IF ~triggered THEN [hit |-> FALSE, window |-> Nothing]
    ELSE IF c.duration = 0 THEN [hit |-> TRUE, window |-> windows[c]]
    ELSE LET first == IF windows[c] = Nothing THEN time ELSE windows[c] IN
         [hit |-> time - first >= c.duration, window |-> first]

\* check_resource_condition: without a report nothing changes, without the value
\* in it the window goes.
check_resource_condition(c) ==
    IF latest[c.on] = Nothing THEN [hit |-> FALSE, window |-> windows[c]]
    ELSE IF latest[c.on].value = Nothing THEN [hit |-> FALSE, window |-> Nothing]
    ELSE apply_duration_window(c, latest[c.on].value > c.bound)

\* check_network_window: the bytes since the last sample, saturating at zero when
\* the counter starts anew; before the window is over, the last answer.
check_network_window(c) ==
    LET b == IF latest[c.on] = Nothing THEN 0 ELSE latest[c.on].bytes
        w == traffic[c]
        hit == (IF b >= w.bytes THEN b - w.bytes ELSE 0) > c.bound
    IN
    IF latest[c.on] = Nothing THEN [hit |-> FALSE, traffic |-> w]
    ELSE IF b = 0 THEN [hit |-> FALSE, traffic |-> Nothing]
    ELSE IF w = Nothing THEN [hit |-> FALSE, traffic |-> [bytes |-> b, at |-> time, hit |-> FALSE]]
    ELSE IF time - w.at < c.duration THEN [hit |-> w.hit, traffic |-> w]
    ELSE [hit |-> hit, traffic |-> [bytes |-> b, at |-> time, hit |-> hit]]

\* check_condition for the kinds that keep no window.
Holds(c) ==
    CASE c.kind = "down" -> count_recent_service_failures(c.on, c.bound) >= c.bound
      [] c.kind = "latency" -> latest_service_latency_ms(c.on) > c.bound
      [] c.kind = "cert" -> latest_cert_not_after(c.on) # Nothing /\ latest_cert_not_after(c.on) <= time + c.bound
      [] c.kind = "expiry" -> Expires[c.on] # Nothing /\ Expires[c.on] <= time + c.bound
      [] c.kind = "quota" -> check_server_traffic_quota(c.on, c.bound)
      [] c.kind = "offline" -> IsOffline(c.on, c.bound)
      [] OTHER -> FALSE

\* check_condition: its answer and the windows after it.
check_condition(c) ==
    LET quiet == [hit |-> Holds(c), window |-> windows[c], traffic |-> traffic[c]]
    IN  CASE c.kind = "resource" -> check_resource_condition(c) @@ quiet
          [] c.kind = "network" -> check_network_window(c) @@ quiet
          [] OTHER -> quiet

-----------------------------------------------------------------------------
(* The loop. *)

Fails == faults < MaxFaults /\ faults' = faults + 1
Others == <<time, notifyVars, tables, latest, events, last>>

\* Variant: the states of rules that are gone stay.
Pruned_Never(ids) == states

\* states.retain(...): rules that are not loaded as enabled lose their state.
Pruned(ids) == [r \in Rules |-> IF r \in ids THEN states[r] ELSE Nothing]

\* load_alert_rules: a row that does not validate is left out.
Loaded(r) == Exists(r) /\ validate_loaded_alert_rule(row[r])

\* evaluate_all: the rules as they are now.
LoadRules ==
    LET ids == {r \in Rules : Loaded(r) /\ row[r].enabled} IN
    /\ pc = "idle" /\ pc' = "next"
    /\ todo' = {[id |-> r, rule |-> row[r]] : r \in ids}
    /\ states' = Pruned(ids)
    /\ last' = [r \in Rules |-> IF r \in ids THEN last[r] ELSE Nothing]
    /\ UNCHANGED <<time, notifyVars, tables, latest, windows, traffic, cur, bounds>>

\* evaluate_rule begins, or the round is over.
NextRule ==
    /\ pc = "next"
    /\ IF todo = {}
       THEN pc' = "idle" /\ UNCHANGED <<todo, cur>>
       ELSE \E x \in todo :
              /\ todo' = todo \ {x} /\ pc' = "check"
              /\ cur' = [id |-> x.id, rule |-> x.rule, i |-> 1, trusted |-> {}, hit |-> Nothing,
                       kind |-> Nothing, tasks |-> {}, told |-> {}]
    /\ UNCHANGED <<Others, states, windows, traffic, faults>>

\* The loop over the conditions: one of another owner is skipped, the first that
\* holds ends it.
CheckCondition ==
    LET c == cur.rule.conds[cur.i]
        x == check_condition(c)
        more == cur.i < Len(cur.rule.conds)
    IN
    /\ pc = "check"
    /\ IF condition_belongs_to_rule_owner(c, cur.rule.owner)
       THEN /\ cur' = [cur EXCEPT !.i = IF x.hit \/ ~more THEN cur.i ELSE cur.i + 1,
                                  !.trusted = @ \cup {c}, !.hit = IF x.hit THEN c ELSE Nothing]
            /\ windows' = [windows EXCEPT ![c] = x.window]
            /\ traffic' = [traffic EXCEPT ![c] = x.traffic]
            /\ pc' = IF x.hit \/ ~more THEN "decide" ELSE "check"
       ELSE /\ cur' = [cur EXCEPT !.i = IF more THEN cur.i + 1 ELSE cur.i]
            /\ pc' = IF more THEN "check" ELSE "decide"
            /\ UNCHANGED <<windows, traffic>>
    /\ UNCHANGED <<Others, states, todo, faults>>

\* The ? of evaluate_rule: the rest of the rule is left to the next round.
Abandon ==
    /\ pc' = "next" /\ cur' = NoCur
    /\ UNCHANGED <<Others, states, windows, traffic, todo>>

LoadFails == pc = "idle" /\ Fails /\ UNCHANGED <<Others, states, windows, traffic, loop>>

CheckFails == pc = "check" /\ Fails /\ Abandon

\* A last_seen_at that cannot be read counts as never seen: unwrap_or(i64::MAX).
OfflineReadFails ==
    LET c == cur.rule.conds[cur.i] IN
    /\ pc = "check" /\ Fails
    /\ c.kind = "offline" /\ condition_belongs_to_rule_owner(c, cur.rule.owner)
    /\ cur' = [cur EXCEPT !.trusted = @ \cup {c}, !.hit = c]
    /\ pc' = "decide"
    /\ UNCHANGED <<Others, states, windows, traffic, todo>>

Active(r) == states[r] # Nothing /\ states[r].active

\* Variant: mode always knows no throttle.
MayFire_Unthrottled(r, mode) == mode = "always" \/ ~Active(r)

\* Variant: a rule that has no state yet is passed over.
MayFire_KnownOnly(r, mode) == states[r] # Nothing /\ (mode = "once" => ~Active(r))

\* Once: not while active.  Always: 60 s after the last time.
MayFire(r, mode) ==
    IF mode = "once" THEN ~Active(r)
    ELSE states[r] = Nothing \/ states[r].always = Nothing \/ time - states[r].always >= Throttle

\* The state machine of evaluate_rule.
Decide ==
    LET r == cur.id
        kind == IF cur.hit # Nothing /\ MayFire(r, cur.rule.mode) THEN "fired"
                ELSE IF cur.hit = Nothing /\ Active(r) THEN "recovered" ELSE Nothing
    IN
    /\ pc = "decide"
    /\ IF cur.trusted = {}
       THEN /\ states' = [states EXCEPT ![r] = Nothing]
            /\ last' = [last EXCEPT ![r] = Nothing]
            /\ pc' = "next" /\ cur' = NoCur
       ELSE /\ IF kind = Nothing THEN pc' = "next" /\ cur' = NoCur
               ELSE pc' = "insert" /\ cur' = [cur EXCEPT !.kind = kind]
            /\ UNCHANGED <<states, last>>
    /\ UNCHANGED <<time, notifyVars, tables, latest, windows, traffic, todo, bounds>>

\* infer_condition_agent_id: the one Agent the trusted conditions are about.
infer_condition_agent_id(cs) ==
    LET as == {condition_agent_id(c) : c \in cs} \ {Nothing} IN
    IF Cardinality(as) = 1 THEN CHOOSE a \in as : TRUE ELSE Nothing

\* fire's trusted_source_agent_id
Source ==
    LET hit == IF cur.hit = Nothing THEN Nothing ELSE condition_agent_id(cur.hit)
        a == IF hit # Nothing THEN hit ELSE infer_condition_agent_id(cur.trusted)
    IN IF a # Nothing /\ agent_belongs_to_owner(a, cur.rule.owner) THEN a ELSE Nothing

\* fire: the event is stored, unless its rule is gone (the foreign key).
FireInsert ==
    /\ pc = "insert" /\ Exists(cur.id)
    /\ last' = [last EXCEPT ![cur.id] = [kind |-> cur.kind, at |-> time, mode |-> cur.rule.mode]]
    /\ pc' = "tasks"
    /\ cur' = [cur EXCEPT !.hit = Source]
    /\ UNCHANGED <<time, notifyVars, tables, memory, todo, bounds>>

FireGone == pc = "insert" /\ ~Exists(cur.id) /\ Abandon /\ UNCHANGED faults

FireFails == pc = "insert" /\ Fails /\ Abandon

\* tasks_for_rule_owner
tasks_for_rule_owner(rule, ts) == {t \in ts : t \in enabledTasks /\ TaskOwner[t] = rule.owner}

\* trigger_tasks: the tasks are spawned; a lookup that fails is logged.
TriggerTasks ==
    LET ts == IF cur.kind = "fired" THEN cur.rule.fail ELSE cur.rule.recover IN
    /\ pc = "tasks" /\ pc' = "channels"
    /\ \/ cur' = [cur EXCEPT !.tasks = tasks_for_rule_owner(cur.rule, ts)] /\ UNCHANGED faults
       \/ Fails /\ ts # {} /\ UNCHANGED cur
    /\ UNCHANGED <<Others, states, windows, traffic, todo>>

\* channels_for_rule: more members than allowed is an error, unwrap_or_default()
\* makes it no channel.
channels_for_rule(rule) ==
    IF rule.group = Nothing THEN {}
    ELSE IF Cardinality(JoinedFor(rule.owner, rule.group)) > MaxMembers THEN {}
    ELSE Usable(JoinedFor(rule.owner, rule.group))

\* The messages are spawned, one per channel; each is sent once or not at all.
TellChannels ==
    /\ pc = "channels" /\ pc' = "store"
    /\ \/ cur' = [cur EXCEPT !.told = channels_for_rule(cur.rule)] /\ UNCHANGED faults
       \/ Fails /\ cur.rule.group # Nothing /\ UNCHANGED cur
    /\ UNCHANGED <<Others, states, windows, traffic, todo>>

NewState(kind, mode) ==
    [active |-> kind = "fired", always |-> IF kind = "fired" /\ mode = "always" THEN time ELSE Nothing]

StoreState ==
    /\ pc = "store" /\ pc' = "next" /\ cur' = NoCur
    /\ states' = [states EXCEPT ![cur.id] = NewState(cur.kind, cur.rule.mode)]
    /\ UNCHANGED <<Others, windows, traffic, todo, faults>>

-----------------------------------------------------------------------------
(* What happens around the engine. *)

Happens == events < MaxEvents /\ events' = events + 1
Aside == <<memory, loop, faults, last>>

ensure_alert_agent_visible_to_auth(u, a) == (u \in Admins \/ owner[a] = u) /\ a \notin revoked

ensure_alert_service_visible_to_auth(u, s) == u \in Admins \/ ServiceOf[s].owner \in {u, Nothing}

ensure_alert_conditions_visible_to_auth(u, conds) ==
    \A i \in DOMAIN conds :
        IF conds[i].kind \in OnService THEN ensure_alert_service_visible_to_auth(u, conds[i].on)
        ELSE ensure_alert_agent_visible_to_auth(u, conds[i].on)

alert_rule_visible_to_auth(u, x) == u \in Admins \/ x.owner = u

\* AlertRepository::delete and delete_for_owner: the events go with the row.
DeleteRow(r) == row' = [row EXCEPT ![r] = Deleted]

\* create_alert_rule: conditions, group and tasks must be the user's.
CreateChecks(u) ==
    /\ create = Idle /\ Happens
    /\ \E d \in Drafts :
          /\ d.owner = u
          /\ parse_conditions(d)
          /\ ensure_alert_conditions_visible_to_auth(u, d.conds)
          /\ d.group # Nothing => OwnsGroup(u, d.group)
          /\ \A t \in d.fail \cup d.recover : u \in Admins \/ TaskOwner[t] = u
          /\ create' = [at |-> "insert", rule |-> d]
    /\ UNCHANGED <<time, notifyVars, row, owner, revoked, seen, results, enabledTasks, Aside>>

\* AlertRepository::create; a group that is gone fails the foreign key.
CreateInserts ==
    /\ create # Idle /\ create' = Idle
    /\ IF create.rule.group # Nothing /\ group[create.rule.group] = Nothing
       THEN UNCHANGED row
       ELSE \E r \in Rules : row[r] = Nothing /\ row' = [row EXCEPT ![r] = create.rule]
    /\ UNCHANGED <<time, notifyVars, owner, revoked, seen, results, enabledTasks, Aside, events>>

delete_alert_rule(u) ==
    /\ Happens
    /\ \E r \in Rules :
          /\ Exists(r) /\ alert_rule_visible_to_auth(u, row[r])
          /\ DeleteRow(r)
    /\ UNCHANGED <<time, notifyVars, create, owner, revoked, seen, results, enabledTasks, Aside>>

\* A group that is deleted leaves its rules without one: ON DELETE SET NULL.
DeleteGroup(u) ==
    /\ Happens
    /\ \E g \in Groups :
          /\ delete_notification_group(u, g)
          /\ row' = [r \in Rules |-> IF Exists(r) /\ row[r].group = g
                                     THEN [row[r] EXCEPT !.group = Nothing] ELSE row[r]]
    /\ UNCHANGED <<time, create, owner, revoked, seen, results, enabledTasks, Aside>>

\* A heartbeat writes last_seen_at; also one of a stream that outlived a revocation.
Heartbeat ==
    /\ Happens
    /\ \E a \in Agents : seen' = [seen EXCEPT ![a] = time]
    /\ UNCHANGED <<time, notifyVars, row, create, owner, revoked, results, enabledTasks, Aside>>

\* A host state is observed by the engine: observe_agent_state.
HostState ==
    /\ Happens
    /\ \E a \in Agents, x \in Reports : latest' = [latest EXCEPT ![a] = x]
    /\ UNCHANGED <<time, notifyVars, tables, states, windows, traffic, loop, faults, last>>

\* ServiceMonitor saves a result.
ProbeSaved ==
    /\ Happens
    /\ \E s \in Services, x \in Probes : results' = [results EXCEPT ![s] = <<x>> \o @]
    /\ UNCHANGED <<time, notifyVars, row, create, owner, revoked, seen, enabledTasks, Aside>>

\* An Agent changes hands or is revoked; a task is switched on or off.
OwnershipChanges ==
    /\ Happens
    /\ \/ \E a \in Agents, u \in Users :
             owner' = [owner EXCEPT ![a] = u] /\ UNCHANGED <<revoked, enabledTasks>>
       \/ \E a \in Agents : revoked' = revoked \cup {a} /\ UNCHANGED <<owner, enabledTasks>>
       \/ \E t \in Tasks : /\ enabledTasks' = (enabledTasks \ {t}) \cup ({t} \ enabledTasks)
                           /\ UNCHANGED <<owner, revoked>>
    /\ UNCHANGED <<time, notifyVars, row, create, seen, results, Aside>>

NotificationsChange ==
    /\ \/ Happens /\ NotifyRequest
       \/ NotifyContinues /\ UNCHANGED events
    /\ UNCHANGED <<time, tables, Aside>>

TimePasses ==
    /\ time < MaxTime /\ time' = time + 1
    /\ UNCHANGED <<notifyVars, tables, memory, loop, bounds, last>>

\* The process starts again: AlertEngine::new, an empty rate limiter.
Restart ==
    /\ Fails
    /\ latest' = [a \in Agents |-> Nothing] /\ states' = [r \in Rules |-> Nothing]
    /\ windows' = [c \in Conds |-> Nothing] /\ traffic' = [c \in Conds |-> Nothing]
    /\ pc' = "idle" /\ todo' = {} /\ cur' = NoCur /\ create' = Idle
    /\ tested' = [c \in Channels |-> Nothing]
    /\ edit' = [e \in Editors |-> IF edit[e] = Idle THEN Idle ELSE [at |-> "done"]]
    /\ last' = [r \in Rules |-> Nothing]
    /\ UNCHANGED <<time, channel, group, member, row, owner, revoked, seen, results, enabledTasks,
                   events>>

EngineStep ==
    \/ LoadRules \/ NextRule \/ CheckCondition \/ Decide \/ FireInsert \/ FireGone
    \/ TriggerTasks \/ TellChannels \/ StoreState

Next ==
    \/ EngineStep
    \/ LoadFails \/ CheckFails \/ OfflineReadFails \/ FireFails
    \/ \E u \in Users : CreateChecks(u) \/ delete_alert_rule(u) \/ DeleteGroup(u)
    \/ CreateInserts \/ Heartbeat \/ HostState \/ ProbeSaved \/ OwnershipChanges \/ NotificationsChange
    \/ TimePasses \/ Restart

\* The loop runs as long as the process does: its interval fires again and again.
Spec == Init /\ [][Next]_vars /\ WF_vars(EngineStep)

-----------------------------------------------------------------------------
(* Properties. *)

Firing(r) == pc \in {"tasks", "channels", "store"} /\ cur.id = r

\* An alert is active exactly while the last event stored since the engine forgot
\* the rule says it fired: errors, deletions, transfers and group changes between
\* the INSERT and the new state never set the two apart.
StateMatchesEvents ==
    \A r \in Rules : ~Firing(r) => (Active(r) <=> last[r] # Nothing /\ last[r].kind = "fired")

\* Events come in order: a recovery only after the event it ends, a second event of a
\* rule in mode once only after a recovery, and in mode always at least 60 s after the
\* one before.
EventsInOrder ==
    [][\A r \in Rules :
          (last'[r] # last[r] /\ last'[r] # Nothing) =>
             /\ last'[r].kind = "recovered" => last[r] # Nothing /\ last[r].kind = "fired"
             /\ (last'[r].kind = "fired" /\ last[r] # Nothing /\ last[r].kind = "fired") =>
                   last'[r].mode = "always" /\ last'[r].at >= last[r].at + Throttle]_vars

\* A condition of the rule's owner that holds whatever the windows say.
Holding(r) == \E i \in DOMAIN row[r].conds :
    Holds(row[r].conds[i]) /\ condition_belongs_to_rule_owner(row[r].conds[i], row[r].owner)

\* Some condition is the owner's, and none of the owner's holds or may hold.
Quiet(r) ==
    /\ \E i \in DOMAIN row[r].conds : condition_belongs_to_rule_owner(row[r].conds[i], row[r].owner)
    /\ \A i \in DOMAIN row[r].conds :
          LET c == row[r].conds[i] IN
          condition_belongs_to_rule_owner(c, row[r].owner) =>
             /\ ~Holds(c)
             /\ c.kind = "resource" => latest[c.on] = Nothing \/ latest[c.on].value = Nothing \/ latest[c.on].value <= c.bound
             /\ c.kind = "network" => latest[c.on] = Nothing

\* A rule whose condition goes on holding becomes active in the end, and one whose
\* conditions stay quiet does not stay active: no failed access, deletion, transfer or
\* restart on the way leaves it in between.
AlertsSettle ==
    \A r \in Rules :
        /\ <>[](Loaded(r) /\ row[r].enabled /\ Holding(r)) => <>[]Active(r)
        /\ <>[](Exists(r) /\ Quiet(r)) => <>[]~Active(r)
=============================================================================

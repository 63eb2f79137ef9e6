--------------------------- MODULE ServiceMonitor ----------------------------
(***************************************************************************)
(* The service monitor (crates/server/src/services/monitor.rs, probe.rs)   *)
(* and the requests that create, update and delete services               *)
(* (api/v1/services.rs).                                                   *)
(*                                                                         *)
(* One loop loads the services, picks the due ones and probes their        *)
(* targets, a bounded number at a time; a round ends when its last probe   *)
(* has been saved.  Saving a result takes four accesses to the database    *)
(* and may start tasks when the target's status changed.  A request writes *)
(* a service in several statements, and the loop may read between them.    *)
(*                                                                         *)
(* Time is what is left until a service is due, in ticks of the loop.      *)
(***************************************************************************)
EXTENDS Integers, FiniteSets, Sequences, SequencesExt

CONSTANTS
    Services, Agents, Users,
    Admins,       \* users whose sessions see every Agent
    Tasks,
    Nothing,      \* no row, no value; as a target: the server itself
    Deleted,      \* a service that is gone
    Inputs,       \* what a request may ask for
    Owner,        \* the Agents' owners at first
    Stored,       \* tables of services the server may start with
    Width,        \* SERVICE_AGENT_PROBE_MAX_CONCURRENCY
    MaxTargets,   \* SERVICE_MAX_TARGETS_PER_PROBE
    MaxServers,   \* SERVICE_MAX_SERVER_IDS
    MaxInterval,
    Conditions,   \* what a probe may meet
    MaxEvents,    \* bound on requests and on changes around the loop
    MaxFaults     \* bound on failing accesses and restarts

Targets == Agents \cup {Nothing}
Covers == {"local", "all", "exclude", "specific"}

\* A row of services, and what a request asks for.
Row == [owner : Users \cup {Nothing}, enabled : BOOLEAN, kind : {"http", "tcp", "icmp"},
        cover : Covers, legacy : Targets, exclude : SUBSET Agents, fail : SUBSET Tasks,
        recover : SUBSET Tasks, interval : 0..(MaxInterval + 1)]
Input == [enabled : BOOLEAN, kind : {"http", "tcp", "icmp"}, cover : Covers, servers : Seq(Agents),
          exclude : SUBSET Agents, fail : SUBSET Tasks, recover : SUBSET Tasks,
          interval : 0..(MaxInterval + 1)]

ASSUME MonitorAssumption ==
    /\ Width \in Nat \ {0} /\ MaxTargets \in Nat /\ MaxServers \in Nat
    /\ MaxInterval \in Nat \ {0} /\ MaxEvents \in Nat /\ MaxFaults \in Nat
    /\ IsFiniteSet(Agents) /\ Nothing \notin Agents /\ Admins \subseteq Users
    /\ Owner \in [Agents -> Users]
    /\ Inputs \subseteq Input /\ Stored \subseteq [Services -> Row \cup {Nothing, Deleted}]
    /\ Nothing # Deleted /\ Nothing \notin Row \cup {"up", "down"} /\ Deleted \notin Row

VARIABLES
    service,   \* the services table
    assigned,  \* service_servers
    stored,    \* the newest row of service_results of a service and target
    owner, revoked, \* the agents table
    online,    \* Agents with a session
    edit,      \* the request that writes a service
    scheduled, \* ServiceMonitor::scheduled: ticks left, Nothing without an entry
    states,    \* ServiceMonitor::service_states
    pc,        \* where the loop is
    loaded,    \* services read whose Agents are still to be read
    due,       \* services of the round that are not yet being probed
    jobs,      \* probes of the round, one per service and target
    events, faults,
    told       \* history: the last transition, and whether the other status was stored since

tables == <<service, assigned, owner, revoked, online>>
loop == <<pc, loaded, due, jobs>>
memory == <<scheduled, states>>
vars == <<tables, stored, edit, memory, loop, events, faults, told>>

Idle == [at |-> "idle"]

TypeOK ==
    /\ service \in [Services -> Row \cup {Nothing, Deleted}]
    /\ assigned \in [Services -> SUBSET Agents]
    /\ stored \in [Services -> [Targets -> {"up", "down", Nothing}]]
    /\ owner \in [Agents -> Users] /\ revoked \subseteq Agents /\ online \subseteq Agents
    /\ edit.at \in {"idle", "insert", "update", "clear", "assign", "cover"}
    /\ scheduled \in [Services -> 0..MaxInterval \cup {Nothing}]
    /\ states \in [Services -> [Targets -> {"up", "down", Nothing}]]
    /\ pc \in {"idle", "attach", "round"}
    /\ \A j \in jobs : /\ j.s \in Services /\ j.t \in Targets
                       /\ j.at \in {"permit", "probe", "wait", "insert", "prune", "transition"}
    /\ \A j, k \in jobs : j.s = k.s /\ j.t = k.t => j = k
    /\ Cardinality({j \in jobs : j.at \in {"probe", "wait"} /\ j.t # Nothing}) <= Width

Unknown == [t \in Targets |-> Nothing]
Untold == [t \in Targets |-> [kind |-> Nothing, other |-> FALSE]]

Init ==
    /\ service \in Stored /\ assigned = [s \in Services |-> {}]
    /\ stored = [s \in Services |-> Unknown]
    /\ owner = Owner /\ revoked = {} /\ online = Agents
    /\ edit = Idle
    /\ scheduled = [s \in Services |-> Nothing] /\ states = [s \in Services |-> Unknown]
    /\ pc = "idle" /\ loaded = {} /\ due = {} /\ jobs = {}
    /\ events = 0 /\ faults = 0
    /\ told = [s \in Services |-> Untold]

Happens == events < MaxEvents /\ events' = events + 1
Fails == faults < MaxFaults /\ faults' = faults + 1
Exists(s) == service[s] \notin {Nothing, Deleted}

-----------------------------------------------------------------------------
(* Requests. *)

\* auth_has_global_service_visibility
Global(u) == u \in Admins

\* agent_visible
Visible(u, a) == Global(u) \/ owner[a] = u

\* The assigned Agents or, without any, the one of older versions.
EffectiveServers(s) == IF assigned[s] # {} THEN assigned[s] ELSE {service[s].legacy} \ {Nothing}

service_visible_to_auth(u, s) ==
    \/ Global(u)
    \/ EffectiveServers(s) # {} /\ \A a \in EffectiveServers(s) : Visible(u, a)

\* validate_service_request: bounds on the interval and on the lists.
validate_service_request(x) ==
    /\ x.interval \in 1..MaxInterval
    /\ Len(x.servers) <= MaxServers /\ Cardinality(x.exclude) <= MaxServers

ensure_servers_active(as) == as \cap revoked = {}

\* Only a session that sees everything may have the server itself, or whatever
\* Agents there are, do the probing.
ensure_service_input_servers_visible(u, x) ==
    \/ Global(u)
    \/ /\ x.cover = "specific" /\ x.servers # <<>>
       /\ \A a \in ToSet(x.servers) \cup x.exclude : Visible(u, a)

Acceptable(u, x) ==
    /\ validate_service_request(x)
    /\ ensure_servers_active(ToSet(x.servers) \cup x.exclude)
    /\ ensure_service_input_servers_visible(u, x)

\* The columns the first statement writes: all but the cover mode and the exclusions.
Written(u, x, old) ==
    [old EXCEPT !.owner = u, !.enabled = x.enabled, !.kind = x.kind, !.interval = x.interval,
                !.legacy = IF x.servers = <<>> THEN Nothing ELSE Head(x.servers),
                !.fail = x.fail, !.recover = x.recover]

\* A row before its cover mode is written: the column's default.
Fresh == [owner |-> Nothing, enabled |-> FALSE, kind |-> "http", cover |-> "local", legacy |-> Nothing,
          exclude |-> {}, fail |-> {}, recover |-> {}, interval |-> 1]

CreateChecks(u, x) ==
    /\ edit = Idle /\ Happens /\ Acceptable(u, x)
    /\ edit' = [at |-> "insert", user |-> u, input |-> x, s |-> Nothing, i |-> 0]
    /\ UNCHANGED <<tables, stored, memory, loop, faults, told>>

UpdateChecks(u, s, x) ==
    /\ edit = Idle /\ Happens /\ Exists(s)
    /\ service_visible_to_auth(u, s) /\ Acceptable(u, x)
    /\ edit' = [at |-> "update", user |-> u, input |-> x, s |-> s, i |-> 0]
    /\ UNCHANGED <<tables, stored, memory, loop, faults, told>>

CreateInserts ==
    /\ edit.at = "insert"
    /\ \E s \in Services :
          /\ service[s] = Nothing
          /\ service' = [service EXCEPT ![s] = Written(edit.user, edit.input, Fresh)]
          /\ edit' = [edit EXCEPT !.at = "clear", !.s = s]
    /\ UNCHANGED <<assigned, owner, revoked, online, stored, memory, loop, events, faults, told>>

\* No row, no answer but 404.
UpdateWrites ==
    /\ edit.at = "update"
    /\ IF Exists(edit.s)
       THEN /\ service' = [service EXCEPT ![edit.s] = Written(edit.user, edit.input, @)]
            /\ edit' = [edit EXCEPT !.at = "clear"]
       ELSE edit' = Idle /\ UNCHANGED service
    /\ UNCHANGED <<assigned, owner, revoked, online, stored, memory, loop, events, faults, told>>

\* replace_service_servers: a DELETE, then an INSERT for each Agent, which fails
\* when the service is gone.
replace_service_servers ==
    LET next == IF edit.i = Len(edit.input.servers) THEN "cover" ELSE "assign" IN
    /\ \/ /\ edit.at = "clear"
          /\ assigned' = [assigned EXCEPT ![edit.s] = {}]
          /\ edit' = [edit EXCEPT !.at = next]
       \/ /\ edit.at = "assign" /\ Exists(edit.s)
          /\ assigned' = [assigned EXCEPT ![edit.s] = @ \cup {edit.input.servers[edit.i + 1]}]
          /\ edit' = [edit EXCEPT !.i = @ + 1,
                                  !.at = IF edit.i + 1 = Len(edit.input.servers) THEN "cover" ELSE "assign"]
       \/ /\ edit.at = "assign" /\ ~Exists(edit.s)
          /\ edit' = Idle /\ UNCHANGED assigned
    /\ UNCHANGED <<service, owner, revoked, online, stored, memory, loop, events, faults, told>>

update_service_cover ==
    /\ edit.at = "cover" /\ edit' = Idle
    /\ service' = IF ~Exists(edit.s) THEN service
                  ELSE [service EXCEPT ![edit.s].cover = edit.input.cover, ![edit.s].exclude = edit.input.exclude]
    /\ UNCHANGED <<assigned, owner, revoked, online, stored, memory, loop, events, faults, told>>

\* A statement fails or the client goes away: what was written stays.
RequestEnds ==
    /\ edit # Idle /\ Fails /\ edit' = Idle
    /\ UNCHANGED <<tables, stored, memory, loop, events, told>>

\* delete_service: assignments and results go with the row.
delete_service(u, s) ==
    /\ Happens /\ Exists(s) /\ service_visible_to_auth(u, s)
    /\ service' = [service EXCEPT ![s] = Deleted]
    /\ assigned' = [assigned EXCEPT ![s] = {}]
    /\ stored' = [stored EXCEPT ![s] = Unknown]
    /\ told' = [told EXCEPT ![s] = Untold]
    /\ UNCHANGED <<owner, revoked, online, edit, memory, loop, faults>>

-----------------------------------------------------------------------------
(* A round of the loop. *)

validate_loaded_service_config(x) == x.interval \in 1..MaxInterval /\ Cardinality(x.exclude) <= MaxServers

\* What is left of the schedule when n units of time have passed.
Later(n) == [s \in Services |-> IF scheduled[s] = Nothing THEN Nothing
                               ELSE IF scheduled[s] > n THEN scheduled[s] - n ELSE 0]

\* A tick, at least one unit of time after the one before: load_services, the enabled rows
\* that are valid.
LoadServices ==
    /\ pc = "idle" /\ pc' = "attach"
    /\ \E n \in 1..MaxInterval : scheduled' = Later(n)
    /\ loaded' = {[s |-> s, row |-> service[s]] : s \in {x \in Services :
                    Exists(x) /\ service[x].enabled /\ validate_loaded_service_config(service[x])}}
    /\ due' = {}
    /\ UNCHANGED <<tables, stored, edit, states, jobs, events, faults, told>>

\* attach_service_server_ids: without assignments, the one Agent of older versions.
Attached(x) ==
    [s |-> x.s, row |-> x.row,
     servers |-> IF assigned[x.s] # {} THEN assigned[x.s] ELSE {x.row.legacy} \ {Nothing}]

\* retain_valid_loaded_services
ValidLists(x) == Cardinality(x.servers) <= MaxServers

\* Variant: the states of services that are gone stay.
Kept_All(active) == states

\* prune_inactive_runtime_state: nothing is kept of services that were not loaded.
Kept(active) == [s \in Services |-> IF s \in active THEN states[s] ELSE Unknown]

\* Variant: a service that was scheduled is not due again.
IsDue_Once(s) == scheduled[s] = Nothing

IsDue(s) == scheduled[s] \in {Nothing, 0}

\* tick_once: whoever is due is scheduled again before it is probed.
StartRound ==
    LET ready == {x \in {Attached(y) : y \in loaded} : ValidLists(x)}
        active == {x.s : x \in ready}
    IN
    /\ pc = "attach" /\ pc' = "round" /\ loaded' = {}
    /\ states' = Kept(active)
    /\ due' = {x \in ready : IsDue(x.s)}
    /\ scheduled' = [s \in Services |->
                       IF s \notin active THEN Nothing
                       ELSE IF IsDue(s) THEN (CHOOSE x \in ready : x.s = s).row.interval
                       ELSE scheduled[s]]
    /\ UNCHANGED <<tables, stored, edit, jobs, events, faults, told>>

\* load_agent_ids_for_owner
OwnedBy(u) == {a \in Agents : u # Nothing /\ owner[a] = u /\ a \notin revoked}

\* unique_owner_from_service_servers, for services of older versions.
UniqueOwner(x) ==
    LET us == IF x.row.cover = "specific" THEN {owner[a] : a \in x.servers} ELSE {} IN
    IF Cardinality(us) = 1 THEN CHOOSE u \in us : TRUE ELSE Nothing

\* service_probe_owner, service_trigger_owner
OwnerOf(x) == IF x.row.owner # Nothing THEN x.row.owner ELSE UniqueOwner(x)

covered_agent_ids(x) ==
    IF x.row.cover = "exclude" THEN OwnedBy(x.row.owner) \ x.row.exclude ELSE OwnedBy(x.row.owner)

specific_agent_ids(x) == x.servers \cap OwnedBy(OwnerOf(x))

TargetsOf(x) ==
    CASE x.row.cover \in {"all", "exclude"} -> covered_agent_ids(x)
      [] x.row.cover = "specific" -> specific_agent_ids(x)
      [] OTHER -> {Nothing}

\* probe: the states of targets the service no longer has go, and its probes begin.
\* Too many targets end it before that.
ProbeService ==
    /\ pc = "round" /\ Cardinality({j.s : j \in jobs}) < Width
    /\ \E x \in due :
          /\ due' = due \ {x}
          /\ IF Cardinality(TargetsOf(x)) > MaxTargets
             THEN UNCHANGED <<states, jobs>>
             ELSE /\ states' = [states EXCEPT ![x.s] = [t \in Targets |-> IF t \in TargetsOf(x) THEN @[t] ELSE Nothing]]
                  /\ jobs' = jobs \cup {[s |-> x.s, t |-> t, cfg |-> x, ok |-> Nothing, prev |-> Nothing,
                                         at |-> IF t = Nothing THEN "probe" ELSE "permit"] : t \in TargetsOf(x)}
    /\ UNCHANGED <<tables, stored, edit, scheduled, pc, loaded, events, faults, told>>

RoundEnds ==
    /\ pc = "round" /\ due = {} /\ jobs = {} /\ pc' = "idle"
    /\ UNCHANGED <<tables, stored, edit, memory, loaded, due, jobs, events, faults, told>>

Moved(j, at) == jobs' = (jobs \ {j}) \cup {[j EXCEPT !.at = at]}
Answered(j, ok) == jobs' = (jobs \ {j}) \cup {[j EXCEPT !.at = "insert", !.ok = ok]}
Ended(j) == jobs' = jobs \ {j}
ProbeFrame == <<tables, stored, edit, memory, pc, loaded, due, events, told>>

\* run_with_agent_probe_permit: held until the probe has its result.
TakePermit(j) ==
    /\ j.at = "permit"
    /\ Cardinality({k \in jobs : k.at \in {"probe", "wait"} /\ k.t # Nothing}) < Width
    /\ Moved(j, "probe")
    /\ UNCHANGED <<ProbeFrame, faults>>

\* probe_http: an address that is not allowed is an error, an answer other than 2xx a failure.
probe_http(c) == IF ~c.allowed THEN "error" ELSE IF c.reached /\ c.status \in 200..299 THEN "up" ELSE "down"

\* probe_tcp: the first address that answers in time.
probe_tcp(c) == IF ~c.allowed THEN "error" ELSE IF c.reached THEN "up" ELSE "down"

\* probe_icmp: also an error when ping cannot be run.
probe_icmp(c) == IF ~c.allowed THEN "error" ELSE IF c.reached THEN "up" ELSE "down"

probe_locally(kind, c) ==
    CASE kind = "http" -> probe_http(c) [] kind = "tcp" -> probe_tcp(c) [] kind = "icmp" -> probe_icmp(c)

\* The server itself probes; an error leaves no result.
LocalProbe(j) ==
    /\ j.at = "probe" /\ j.t = Nothing
    /\ \E c \in Conditions :
          LET ok == probe_locally(j.cfg.row.kind, c) IN
          IF ok = "error" THEN Ended(j) ELSE Answered(j, ok)
    /\ UNCHANGED <<ProbeFrame, faults>>

\* probe_agents: an Agent that is offline is left out, or is a failure when the service
\* names it; otherwise the task is sent.
AgentProbe(j) ==
    /\ j.at = "probe" /\ j.t # Nothing
    /\ IF j.t \in online THEN Moved(j, "wait")
       ELSE IF j.cfg.row.cover = "specific" THEN Answered(j, "down")
       ELSE Ended(j)
    /\ UNCHANGED <<ProbeFrame, faults>>

\* service_probe_from_task_result: a result that is too long, failed or no JSON is a
\* failure; the Agent's word counts otherwise.
service_probe_from_task_result(c) == IF c.allowed /\ c.reached THEN "up" ELSE "down"

\* probe_via_agent: a result, a lost Agent or the timeout.
AgentAnswers(j) ==
    /\ j.at = "wait"
    /\ \/ \E c \in Conditions : Answered(j, service_probe_from_task_result(c))
       \/ Answered(j, "down")
    /\ UNCHANGED <<ProbeFrame, faults>>

\* Variant: what the database knows is not asked.
previous_service_success_Memory(s, t) == states[s][t]

\* previous_service_success: memory first, then the newest row.
previous_service_success(s, t) == IF states[s][t] # Nothing THEN states[s][t] ELSE stored[s][t]

\* save: the status before and the INSERT, which fails the foreign key when the service is
\* gone.  Nobody else writes what the first reads.
SaveInserts(j) ==
    /\ j.at = "insert"
    /\ IF Exists(j.s)
       THEN /\ stored' = [stored EXCEPT ![j.s][j.t] = j.ok]
            /\ told' = [told EXCEPT ![j.s][j.t].other = @ \/ told[j.s][j.t].kind \notin {Nothing, j.ok}]
            /\ jobs' = (jobs \ {j}) \cup {[j EXCEPT !.at = "prune", !.prev = previous_service_success(j.s, j.t)]}
       ELSE Ended(j) /\ UNCHANGED <<stored, told>>
    /\ UNCHANGED <<tables, edit, memory, pc, loaded, due, events, faults>>

\* prune_old: results of more than 30 days go, the last of a target among them when it has
\* not been probed for as long.
SavePrunes(j) ==
    /\ j.at = "prune" /\ Moved(j, "transition")
    /\ \/ UNCHANGED <<stored, told, events>>
       \/ \E s \in Services, t \in Targets :
             /\ Happens /\ stored[s][t] # Nothing /\ states[s][t] = Nothing
             /\ \A k \in jobs : k.s # s \/ k.t # t
             /\ stored' = [stored EXCEPT ![s][t] = Nothing]
             /\ told' = [told EXCEPT ![s][t] = [kind |-> Nothing, other |-> FALSE]]
    /\ UNCHANGED <<tables, edit, memory, pc, loaded, due, faults>>

\* Variant: a target that was never probed before has no transition.
Changed_FirstIgnored(prev, ok) == prev # ok /\ prev # Nothing

\* handle_service_transition: a status other than before, or a first one that is down.
Changed(prev, ok) == prev # ok /\ ~(prev = Nothing /\ ok = "up")

\* spawn_triggered_tasks: those of the service's owner are started, each once.
Transition(j) ==
    /\ j.at = "transition" /\ Ended(j)
    /\ states' = [states EXCEPT ![j.s][j.t] = j.ok]
    /\ told' = IF Changed(j.prev, j.ok) /\ Exists(j.s)
               THEN [told EXCEPT ![j.s][j.t] = [kind |-> j.ok, other |-> FALSE]] ELSE told
    /\ UNCHANGED <<tables, stored, edit, scheduled, pc, loaded, due, events, faults>>

\* Any of the accesses of save fails: the probe is over.
SaveFails(j) ==
    /\ j.at \in {"insert", "prune"} /\ Fails /\ Ended(j)
    /\ UNCHANGED ProbeFrame

\* Loading fails: no round this time.
LoadFails ==
    /\ pc = "attach" /\ Fails
    /\ pc' = "idle" /\ loaded' = {} /\ due' = {}
    /\ UNCHANGED <<tables, stored, edit, memory, jobs, events, told>>

\* The Agents of a service cannot be read: it is not probed this time.
ResolveFails ==
    /\ pc = "round" /\ Fails
    /\ \E x \in due : x.row.cover # "local" /\ due' = due \ {x}
    /\ UNCHANGED <<tables, stored, edit, memory, pc, loaded, jobs, events, told>>

-----------------------------------------------------------------------------
(* Around the loop. *)

AgentChanges ==
    /\ Happens
    /\ \/ \E a \in Agents : \E u \in Users \ {owner[a]} :
             owner' = [owner EXCEPT ![a] = u] /\ UNCHANGED <<revoked, online>>
       \/ \E a \in Agents : revoked' = revoked \cup {a} /\ online' = online \ {a} /\ UNCHANGED owner
       \/ \E a \in Agents \ revoked :
             online' = (online \ {a}) \cup ({a} \ online) /\ UNCHANGED <<owner, revoked>>
    /\ UNCHANGED <<service, assigned, stored, edit, memory, loop, faults, told>>

\* The process starts again: ServiceMonitor::new.
Restart ==
    /\ Fails
    /\ scheduled' = [s \in Services |-> Nothing] /\ states' = [s \in Services |-> Unknown]
    /\ pc' = "idle" /\ loaded' = {} /\ due' = {} /\ jobs' = {} /\ edit' = Idle
    /\ UNCHANGED <<tables, stored, events, told>>

JobStep ==
    \E j \in jobs : TakePermit(j) \/ LocalProbe(j) \/ AgentProbe(j) \/ AgentAnswers(j)
                    \/ SaveInserts(j) \/ SavePrunes(j) \/ Transition(j)

LoopStep == LoadServices \/ StartRound \/ ProbeService \/ RoundEnds \/ JobStep

RequestStep == CreateInserts \/ UpdateWrites \/ replace_service_servers \/ update_service_cover

Next ==
    \/ LoopStep \/ LoadFails \/ ResolveFails \/ \E j \in jobs : SaveFails(j)
    \/ \E u \in Users, x \in Inputs : CreateChecks(u, x) \/ \E s \in Services : UpdateChecks(u, s, x)
    \/ RequestStep \/ RequestEnds
    \/ \E u \in Users, s \in Services : delete_service(u, s)
    \/ AgentChanges \/ Restart

\* The loop's interval fires again and again, and every wait of a probe is timed.
Spec == Init /\ [][Next]_vars /\ WF_vars(LoopStep)

-----------------------------------------------------------------------------
(* Properties. *)

\* A failure is told only once: between two transitions of a target to the same status a
\* result of the other status was stored.  Rounds, restarts, failing accesses, changes of
\* the service's targets and a service that is switched off and on never repeat one.
NoRepeatedTransition ==
    [][\A s \in Services, t \in Targets :
          (Exists(s) /\ \E j \in jobs : j.s = s /\ j.t = t /\ Transition(j) /\ Changed(j.prev, j.ok)) =>
             (told[s][t].kind # told'[s][t].kind \/ told[s][t].other)]_vars

\* While nothing failed, no status is left untold: the newest result of a target is down
\* exactly if its last transition was to down, whatever requests do to the service and
\* its targets meanwhile.
StoredIsTold ==
    faults = 0 =>
        \A s \in Services, t \in Targets :
            (\A j \in jobs : j.s = s /\ j.t = t => j.at \notin {"prune", "transition"}) =>
                (stored[s][t] = "down" <=> told[s][t].kind = "down")

\* A service that stays enabled and valid is probed again and again: no permit, schedule or
\* slow probe of another service keeps it waiting for ever.
EveryServiceIsProbed ==
    \A s \in Services :
        <>[](Exists(s) /\ service[s].enabled /\ validate_loaded_service_config(service[s])
             /\ Cardinality(assigned[s]) <= MaxServers)
        => []<>(\E x \in due : pc = "round" /\ x.s = s)

\* Nothing is kept in memory of a service that is gone.
GoneIsForgotten ==
    \A s \in Services : <>[](service[s] = Deleted) => <>[](scheduled[s] = Nothing /\ states[s] = Unknown)

\* The monitor's memory follows the table: what is there is probed, what is gone is forgotten.
ServicesAreFollowed == EveryServiceIsProbed /\ GoneIsForgotten
=============================================================================

-------------------------------- MODULE Tasks --------------------------------
(***************************************************************************)
(* Tasks: the requests of api/v1/tasks.rs, and how a run comes to its      *)
(* Agents (tasks/mod.rs: resolve_server_ids and what calls it), beside the *)
(* readers of Readers and Alarms and the settings of Site.                 *)
(*                                                                         *)
(* A task is checked when it is stored and resolved when it runs; owners,  *)
(* groups, revocations and the task itself change in between, and a run    *)
(* started by the scheduler, an alert or a service works with the row it   *)
(* was started with.  How one Agent is told is TaskDispatch, when a task   *)
(* is due is TaskScheduler.                                                *)
(***************************************************************************)
EXTENDS Alarms

CONSTANTS
    TaskOrder,  \* the tasks, the newest first
    Commands,   \* what is run, or probed
    Tags,       \* of Agents
    Blocked,    \* a probe's target that the policy forbids
    Limit,      \* TASK_LIST_SCAN_BATCH
    MaxTargets  \* TASK_MAX_DISPATCH_TARGETS

\* A task: a selector is flattened into ids, source, group, tags and exclude.
TaskTypes == {"shell", "http_get", "icmp_ping", "tcp_ping"}
TaskFields ==
    [owner |-> Users, type |-> TaskTypes, command |-> Commands \cup {Nothing}, payload |-> Commands \cup {Nothing},
     cover |-> {"specific", "all", "any"}, ids |-> SUBSET Agents, source |-> BOOLEAN, group |-> Users \cup {Nothing},
     tags |-> SUBSET Tags, exclude |-> SUBSET Agents, notice |-> Users \cup {Nothing}, push |-> BOOLEAN,
     enabled |-> BOOLEAN, cron |-> BOOLEAN]
TaskRows ==
    LET f == TaskFields IN
    [owner : f.owner, type : f.type, command : f.command, payload : f.payload, cover : f.cover, ids : f.ids,
     source : f.source, group : f.group, tags : f.tags, exclude : f.exclude, notice : f.notice, push : f.push,
     enabled : f.enabled, cron : f.cron]
\* UpdateTaskRequest: some of the fields, but neither the owner nor the type.
IsPart(new) == \A f \in DOMAIN new : f \in DOMAIN TaskFields \ {"owner", "type"} /\ new[f] \in TaskFields[f]

ASSUME TasksAssumption ==
    /\ ToSet(TaskOrder) = Tasks /\ Limit \in Nat \ {0} /\ MaxTargets \in Nat
    /\ Nothing \notin TaskRows

VARIABLES
    asked,  \* what the requests so far have asked each task to be
    mixed   \* tasks that an update has written from a row that was no longer the stored one

history == <<asked, mixed>>
taskVars == <<readers, hub, astray, alarms, history>>

TasksTypeOK ==
    /\ ReadersTypeOK /\ RealtimeTypeOK /\ SiteTypeOK /\ AlarmsTypeOK
    /\ tasks \in [Tasks -> TaskRows \cup {Nothing}]
    /\ mixed \subseteq Tasks

TasksInit == ReadersInit /\ RealtimeInit /\ SiteInit /\ AlarmsInit /\ asked = tasks /\ mixed = {}

ReadsTasks == Reads /\ UNCHANGED <<hub, astray, history>>

-----------------------------------------------------------------------------
(* What a task may be. *)

\* validate_http_get_task_url and validate_task_network_host: names and addresses inside are refused.
AllowedTarget(x) == x # Blocked

\* The target is in the command, in the payload or in both; each that is there is checked.
validate_task_target_and_payload(row) ==
    IF row.type = "shell" THEN row.command # Nothing
    ELSE /\ row.command # Nothing \/ row.payload # Nothing
         /\ AllowedTarget(row.command) /\ AllowedTarget(row.payload)

\* The whole row is checked, with what an update leaves as it was.
validate_task_definition(new, row) == validate_task_target_and_payload(row)

-----------------------------------------------------------------------------
(* create_task, update_task and delete_task.  todo holds the row that is to be written, n is *)
(* the number of Agents that are checked.                                                    *)

\* require_task_mutation_sensitive_scope: no access token.
MayChange(q) == ~q.pat

create_task(r) ==
    /\ At(r, "create", "start")
    /\ IF MayChange(r.q) /\ tasks[r.q.task] = Nothing
       THEN Goto(r, [r EXCEPT !.at = "servers", !.todo = {r.q.new}]) ELSE Refuse(r)
    /\ ReadsTasks

\* A row with the fields that were sent.
Patched(new, old) == [f \in DOMAIN old |-> IF f \in DOMAIN new THEN new[f] ELSE old[f]]

\* The row is read, and the fields that were sent replace its own.
update_task(r) ==
    /\ At(r, "edit", "start")
    /\ LET old == tasks[r.q.task] IN
       IF MayChange(r.q) /\ (IF old = Nothing THEN FALSE ELSE old.owner = r.q.user)
       THEN Goto(r, [r EXCEPT !.at = "servers", !.todo = {Patched(r.q.new, old)}, !.show = {old}]) ELSE Refuse(r)
    /\ ReadsTasks

RowOfTask(r) == CHOOSE row \in r.todo : TRUE

\* explicit_selector_server_ids: the Agents that are named, to be run on or left out.
explicit_selector_server_ids(row) == row.ids \cup row.exclude

UncheckedServers(r) == explicit_selector_server_ids(RowOfTask(r)) \ r.ids

\* One Agent after the other: the asker's, and not revoked.
ensure_explicit_selector_servers_active(r) ==
    /\ r.q.op \in {"create", "edit"} /\ r.at = "servers"
    /\ \E a \in UncheckedServers(r) :
          IF agents[a].owner = r.q.user /\ ~agents[a].revoked
          THEN Goto(r, [r EXCEPT !.ids = @ \cup {a}]) ELSE Refuse(r)
    /\ ReadsTasks

\* The groups, of Agents and of channels, are the asker's; and the definition is valid.
ensure_selector_groups_owned(r) ==
    LET row == RowOfTask(r) IN
    /\ r.q.op \in {"create", "edit"} /\ r.at = "servers" /\ UncheckedServers(r) = {}
    /\ IF /\ {row.group, row.notice} \subseteq {r.q.user, Nothing}
          /\ validate_task_definition(r.q.new, row)
       THEN Goto(r, [r EXCEPT !.at = "write"]) ELSE Refuse(r)
    /\ ReadsTasks

SetTask(r, row, left) ==
    /\ runs' = left /\ tasks' = [tasks EXCEPT ![r.q.task] = row]
    /\ UNCHANGED <<agents, service, assigned, results, members, notices, site, hub, frames, astray>>
    /\ live' = {Noted(x) : x \in live \ {r}}

\* What a written row names was the asker's when it was looked at.
Relies(r) ==
    answer' = [items |-> {<<"owned", a, r.q.user>> : a \in explicit_selector_server_ids(RowOfTask(r))}, ever |-> r.ever]

TaskInserted(r) ==
    /\ At(r, "create", "write") /\ SetTask(r, RowOfTask(r), runs) /\ Relies(r)
    /\ asked' = [asked EXCEPT ![r.q.task] = r.q.new]
    /\ UNCHANGED mixed

\* Variant: the row is written whether it is still there or not.
TaskUpdated_Upsert(r) ==
    /\ At(r, "edit", "write") /\ SetTask(r, RowOfTask(r), runs) /\ Relies(r)
    /\ asked' = IF tasks[r.q.task] = Nothing THEN asked
                ELSE [asked EXCEPT ![r.q.task] = Patched(r.q.new, @)]
    /\ mixed' = IF tasks[r.q.task] \in r.show THEN mixed ELSE mixed \cup {r.q.task}

\* UPDATE: all columns of a row that is still there.
TaskUpdated(r) ==
    /\ At(r, "edit", "write")
    /\ IF tasks[r.q.task] = Nothing THEN Refuse(r) /\ ReadsTasks
       ELSE /\ SetTask(r, RowOfTask(r), runs) /\ Relies(r)
            /\ asked' = [asked EXCEPT ![r.q.task] = Patched(r.q.new, @)]
            /\ mixed' = IF tasks[r.q.task] \in r.show THEN mixed ELSE mixed \cup {r.q.task}

delete_task(r) ==
    /\ At(r, "remove", "start")
    /\ LET old == tasks[r.q.task] IN
       IF MayChange(r.q) /\ (IF old = Nothing THEN FALSE ELSE old.owner = r.q.user)
       THEN Goto(r, [r EXCEPT !.at = "write"]) ELSE Refuse(r)
    /\ ReadsTasks

\* DELETE, and the runs with the task.
TaskDeleted(r) ==
    /\ At(r, "remove", "write") /\ SetTask(r, Nothing, {x \in runs : x[1] # r.q.task})
    /\ asked' = [asked EXCEPT ![r.q.task] = Nothing]
    /\ UNCHANGED <<mixed, answer>>

-----------------------------------------------------------------------------
(* Runs.  A run carries the row it was started with. *)

\* run_task: by hand, whether the task is enabled or not.
run_task(r) ==
    /\ At(r, "run", "start")
    /\ LET row == tasks[r.q.task] IN
       IF MayChange(r.q) /\ (IF row = Nothing THEN FALSE ELSE row.owner = r.q.user)
       THEN Goto(r, [r EXCEPT !.at = "owned", !.todo = {row}]) ELSE Refuse(r)
    /\ ReadsTasks

\* run_triggered_task: for an alert or a service of the owner, which names the task.
run_triggered_task(r) ==
    /\ At(r, "trigger", "start")
    /\ LET row == tasks[r.q.task] IN
       IF (IF row = Nothing THEN FALSE ELSE row.owner = r.q.user /\ row.enabled)
       THEN Goto(r, [r EXCEPT !.at = "owned", !.todo = {row}]) ELSE Refuse(r)
    /\ ReadsTasks

\* list_scheduled, of which a scan takes what is due; each is then a run of its own.
Scheduled == {t \in StoredTasks : tasks[t].enabled /\ tasks[t].cron /\ validate_task_target_and_payload(tasks[t])}

StartsDue(r) ==
    /\ At(r, "scan", "start")
    /\ live' = (live \ {r}) \cup {[r EXCEPT !.at = "owned", !.q.task = t, !.todo = {tasks[t]}] : t \in Scheduled}
    /\ UNCHANGED answer /\ ReadsTasks

Starting == {"run", "trigger", "scan"}

agent_matches_tag_filters(a, filters) == filters \subseteq agents[a].tags

\* resolve_server_ids begins with the owner's Agents and their tags; only shell tasks run.
list_owned_agent_records(r) ==
    LET row == RowOfTask(r)
        owned == {a \in Agents : agents[a].owner = row.owner /\ ~agents[a].revoked}
    IN
    /\ r.q.op \in Starting /\ r.at = "owned"
    /\ IF row.type = "shell" /\ validate_task_target_and_payload(row)
       THEN Goto(r, [r EXCEPT !.at = "group", !.ids = owned,
                              !.show = {a \in owned : agent_matches_tag_filters(a, row.tags)}])
       ELSE Refuse(r)
    /\ ReadsTasks

\* list_group_agent_ids: the group's members, of the group's owner and in service.
list_group_agent_ids(row) ==
    IF row.group = Nothing THEN {}
    ELSE {a \in members[row.group] : /\ row.group = row.owner /\ agents[a].owner = row.owner
                                     /\ ~agents[a].revoked}

Includes(row) == row.source \/ row.ids # {} \/ row.group # Nothing

\* What is named, the Agent that is the source of a trigger, and the group's members, each
\* only if it is the owner's; the tags narrow that, or choose among all where nothing is named.
resolve_server_ids(r) ==
    LET row == RowOfTask(r)
        named == row.ids \cup (IF row.source THEN {r.q.agent} ELSE {})
        picked == named \cup list_group_agent_ids(row)
        chosen == IF Includes(row) THEN IF row.tags = {} THEN picked ELSE picked \cap r.show
                  ELSE IF row.tags # {} THEN r.show ELSE IF row.cover = "specific" THEN {} ELSE r.ids
    IN (chosen \cap r.ids) \ row.exclude

\* CoverMode::Any keeps the first, in an order that is left open here.
Targets(r) ==
    LET ids == resolve_server_ids(r) IN
    IF RowOfTask(r).cover = "any" THEN {{a} : a \in ids} ELSE {ids}

Resolves(r) ==
    /\ r.q.op \in Starting /\ r.at = "group"
    /\ LET ts == Targets(r) IN
       IF ts = {} \/ ts = {{}} THEN Refuse(r)
       ELSE \E ids \in ts :
               IF Cardinality(ids) <= MaxTargets
               THEN Goto(r, [r EXCEPT !.at = "dispatch", !.ids = ids, !.show = {}]) ELSE Refuse(r)
    /\ ReadsTasks

\* What a run on a rests on: that it is the owner's, that it was picked, and the task.
Needs(r, a) ==
    LET row == RowOfTask(r) IN
    {<<"owned", a, row.owner>>}
    \cup (IF a \in row.ids \/ (row.source /\ a = r.q.agent) \/ ~Includes(row) THEN {} ELSE {<<"member", a, row.owner>>})
    \cup (IF a \in row.exclude THEN {<<"excluded", a>>} ELSE {})
    \cup (IF r.q.op = "run" THEN {<<"stored", r.q.task>>} ELSE {<<"enabled", r.q.task>>})

\* One Agent is told, and its run is stored; a task that was deleted meanwhile gets no row,
\* and the run as a whole ends with an error when all were told.
DispatchesTo(r, a) ==
    /\ r.q.op \in Starting /\ r.at = "dispatch" /\ a \in r.ids
    /\ UNCHANGED <<agents, service, assigned, results, members, notices, tasks, site, frames, hub, astray, history>>
    /\ answer' = [items |-> Needs(r, a), ever |-> r.ever]
    /\ IF tasks[r.q.task] # Nothing
       THEN /\ runs' = runs \cup {<<r.q.task, a>>}
            /\ live' = {Noted(x) : x \in (live \ {r}) \cup {[r EXCEPT !.ids = @ \ {a}]}}
       ELSE /\ UNCHANGED runs
            /\ live' = (live \ {r}) \cup {[r EXCEPT !.ids = @ \ {a}, !.show = {"error"}]}

\* notification_channels_for_group: of the group and of its channels, the task owner's.
notification_channels_for_group(row) == IF row.notice = row.owner THEN notices[row.owner] ELSE {}

\* send_task_dispatch_notification: about a failure, or about a success that is to be told.
RunEnds(r) ==
    LET row == RowOfTask(r) IN
    /\ r.q.op \in Starting /\ r.at = "dispatch" /\ r.ids = {}
    /\ live' = live \ {r}
    /\ \E failed \in BOOLEAN :
          IF r.show = {} /\ row.notice # Nothing /\ (failed \/ row.push)
          THEN answer' = [items |-> {<<"channel", c, row.owner>> : c \in notification_channels_for_group(row)}, ever |-> r.ever]
          ELSE UNCHANGED answer
    /\ ReadsTasks

-----------------------------------------------------------------------------
(* Readers. *)

\* list_tasks: in one query or, for a token for some Agents, in batches of the owner's rows
\* of which the visible ones are kept.
list_visible_tasks(r) ==
    LET mine == SelectSeq(TaskOrder, LAMBDA t : t \in StoredTasks /\ (t \in StoredTasks => tasks[t].owner = r.q.user))
        batch == SubSeq(mine, r.n + 1, Smaller(r.n + Limit, Len(mine)))
        shown == r.show \cup {<<"task", t>> : t \in {t \in ToSet(batch) : task_visible_to_auth(r.q, tasks[t])}}
    IN
    /\ r.q.op = "tasks"
    /\ IF r.q.scope = Nothing THEN Show(r, {<<"task", t>> : t \in ToSet(mine)})
       ELSE IF r.q.scope = {} \/ batch = <<>> THEN Show(r, {})
       ELSE Goto(r, [r EXCEPT !.at = "more", !.n = @ + Len(batch), !.show = shown])
    /\ ReadsTasks

\* get_task, and the row that get_task_runs begins with.
get_task(r) ==
    /\ r.q.op \in {"task", "runs"} /\ r.at = "start"
    /\ LET t == r.q.task IN
       IF t \notin OwnTasks(r.q) THEN Refuse(r)
       ELSE IF r.q.op = "task" THEN Show(r, {<<"task", t>>})
       ELSE Goto(r, [r EXCEPT !.at = "rows", !.show = {<<"task", t>>}])
    /\ ReadsTasks

list_by_task(q) == {x \in runs : x[1] = q.task}
list_by_task_for_server_ids(q) == {x \in runs : x[1] = q.task /\ x[2] \in q.scope}

get_task_runs(r) ==
    /\ At(r, "runs", "rows")
    /\ Show(r, {<<"run", x>> : x \in IF r.q.scope = Nothing THEN list_by_task(r.q) ELSE list_by_task_for_server_ids(r.q)})
    /\ ReadsTasks

\* ensure_task_ids_visible_to_auth_session, of the tasks an alert or a service is to trigger.
ensure_task_ids_visible_to_auth_session(r) ==
    /\ r.q.op = "triggers"
    /\ LET left == IF r.at = "start" THEN r.q.tasks ELSE r.todo IN
       IF left = {} THEN Show(r, {})
       ELSE \E t \in left :
               IF t \in OwnTasks(r.q)
               THEN Goto(r, [r EXCEPT !.at = "next", !.todo = left \ {t}, !.show = @ \cup {<<"task", t>>}])
               ELSE Refuse(r)
    /\ ReadsTasks

\* The client goes, or a statement fails.
TaskDropped(r) ==
    /\ r.q.op \in {"create", "edit", "remove"} \cup Starting /\ r.at # "start" /\ Refuse(r)
    /\ ReadsTasks

-----------------------------------------------------------------------------

TaskStep(r) ==
    \/ create_task(r) \/ update_task(r) \/ ensure_explicit_selector_servers_active(r) \/ ensure_selector_groups_owned(r)
    \/ TaskInserted(r) \/ TaskUpdated(r) \/ delete_task(r) \/ TaskDeleted(r) \/ run_task(r) \/ run_triggered_task(r)
    \/ StartsDue(r) \/ list_owned_agent_records(r) \/ Resolves(r) \/ (\E a \in Agents : DispatchesTo(r, a)) \/ RunEnds(r)
    \/ list_visible_tasks(r) \/ get_task(r) \/ get_task_runs(r) \/ ensure_task_ids_visible_to_auth_session(r)
    \/ TaskDropped(r)

TasksNext ==
    \/ \E r \in live :
          \/ TaskStep(r) /\ UNCHANGED alarms
          \/ SiteStep(r) /\ UNCHANGED <<alarms, history>>
          \/ RealtimeStep(r) /\ UNCHANGED <<astray, alarms, history>>
          \/ AlarmStep(r) /\ UNCHANGED history
    \/ ReadersNext /\ UNCHANGED <<hub, astray, alarms, history>>

-----------------------------------------------------------------------------
(* Properties. *)

\* A task is what the requests have made of it: updates that did not overlap have all been
\* kept, and none, overlapping or not, brings a deleted task back.
TasksAreAsAsked ==
    \A t \in Tasks : /\ tasks[t] = Nothing <=> asked[t] = Nothing
                     /\ t \notin mixed => tasks[t] = asked[t]

\* No sequence of creations and partial updates stores a task whose target is forbidden or missing.
StoredTasksAreValid == \A t \in StoredTasks : validate_task_target_and_payload(tasks[t])

\* Requests that overlap leave the stored tasks and the site's choice of themes as asked for:
\* api/v1/tasks.rs and api/v1/themes.rs, which both read, check and write in separate statements.
StoredIsAsAsked == TasksAreAsAsked /\ StoredTasksAreValid /\ PickedExists
=============================================================================

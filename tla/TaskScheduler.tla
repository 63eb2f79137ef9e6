---------------------------- MODULE TaskScheduler ----------------------------
(***************************************************************************)
(* The cron scheduler: TaskScheduler in crates/server/src/tasks/           *)
(* scheduler.rs, the keyset pages it reads (list_scheduled_page in         *)
(* db/repository/tasks.rs) and the requests that change tasks under it     *)
(* (api/v1/tasks.rs).                                                      *)
(*                                                                         *)
(* Every 30 s a scan reads the enabled scheduled tasks page by page, works *)
(* on a copy of the map task -> (expression, next_run), and only when all  *)
(* pages are read puts the copy in place and starts what is due.  Rows may *)
(* change between two pages, a page may fail and the server may restart.   *)
(*                                                                         *)
(* Task ids are UUIDv7: numbers in order of creation.  A cron expression   *)
(* is the set of its occurrences; times are those of the server's clock,   *)
(* which is assumed not to go back.  What a started task does is the       *)
(* subject of TaskDispatch; here it only begins and ends.                  *)
(***************************************************************************)
EXTENDS Integers, FiniteSets, FiniteSetsExt

CONSTANTS
    Tasks,        \* task ids
    Editors,      \* HTTP requests that create, update or delete a task
    Exprs,        \* cron expressions
    Occurs,       \* the times at which each expression occurs
    Invalid,      \* expressions of historical rows that fail validation
    NoExpr,       \* schedule IS NULL
    NoTask,       \* no such row yet
    Deleted,      \* no such row any more
    NoEntry,      \* the scheduler's map has no such key
    Limit,        \* TASK_SCHEDULED_RUNTIME_SCAN_LIMIT, 1024 in the code
    MaxParallel,  \* TASK_SCHEDULED_MAX_CONCURRENT_EXECUTIONS, 8 in the code
    MaxTime,      \* bound on the clock
    MaxFailures,  \* bound on the pages that fail to load
    MaxRestarts

ASSUME TasksAssumption == Tasks \subseteq Nat /\ IsFiniteSet(Tasks) /\ Tasks # {}
ASSUME ExprsAssumption ==
    /\ Occurs \in [Exprs -> SUBSET (0..MaxTime)]
    /\ Invalid \subseteq Exprs /\ NoExpr \notin Exprs
ASSUME BoundsAssumption ==
    /\ Limit \in Nat \ {0} /\ MaxParallel \in Nat \ {0}
    /\ MaxTime \in Nat /\ MaxFailures \in Nat /\ MaxRestarts \in Nat

\* A next_run of None is a time that never comes.
Never == MaxTime + 1
Times == 0..MaxTime

Row == [expr : Exprs \cup {NoExpr}, enabled : BOOLEAN]
Entry == [expr : Exprs, next : Times \cup {Never}]
ASSUME NamesAssumption ==
    /\ NoTask \notin Row /\ Deleted \notin Row /\ NoTask # Deleted /\ NoEntry \notin Entry

\* A task that is due: the occurrence it is due for and the scan that saw it.
Start == [task : Tasks, expr : Exprs, due : Times, at : Times]

VARIABLES
    time,
    row,       \* the tasks table
    edit,      \* what each request has read and is about to write
    scheduled, \* TaskScheduler::scheduled_tasks
    pc,        \* where the loop is: "idle", "scan", "commit" or "run"
    now,       \* locals of check_and_run_tasks and scan_due_tasks
    draft,
    observed,
    cursor,
    todo,      \* due tasks that are not started yet
    busy,      \* started and not finished
    failures,
    restarts,
    first,     \* history: when each entry's expression was first observed
    stable,    \* history: tasks a scan must see: listed when it began, not written since
    starts     \* history: every start

rowVars == <<row, edit, stable>>
scanVars == <<now, draft, observed, cursor>>
vars == <<time, row, edit, scheduled, pc, now, draft, observed, cursor, todo, busy,
          failures, restarts, first, stable, starts>>

Idle == [task |-> 0, row |-> NoTask]
Edits == {Idle, [task |-> 0, row |-> Deleted]} \cup [task : Tasks, row : Row \cup {Deleted}]

TypeOK ==
    /\ time \in Times /\ now \in Times
    /\ row \in [Tasks -> Row \cup {NoTask, Deleted}]
    /\ edit \in [Editors -> Edits]
    /\ scheduled \in [Tasks -> Entry \cup {NoEntry}]
    /\ draft \in [Tasks -> Entry \cup {NoEntry}]
    /\ pc \in {"idle", "scan", "commit", "run"}
    /\ observed \subseteq Tasks /\ stable \subseteq Tasks
    /\ cursor \in Int
    /\ todo \subseteq Start /\ busy \subseteq Start /\ starts \subseteq Start
    /\ Cardinality(busy) <= MaxParallel
    /\ failures \in 0..MaxFailures /\ restarts \in 0..MaxRestarts
    /\ first \in [Tasks -> Times]

\* Ids below that of the newest row were given away before.
Init ==
    /\ time = 0 /\ now = 0
    /\ row \in [Tasks -> {[expr |-> e, enabled |-> TRUE] : e \in Exprs} \cup {NoTask}]
    /\ \A t, u \in Tasks : (t < u /\ row[u] # NoTask) => row[t] # NoTask
    /\ edit = [u \in Editors |-> Idle]
    /\ scheduled = [t \in Tasks |-> NoEntry] /\ draft = scheduled
    /\ pc = "idle" /\ cursor = 0
    /\ observed = {} /\ todo = {} /\ busy = {} /\ starts = {} /\ stable = {}
    /\ failures = 0 /\ restarts = 0
    /\ first = [t \in Tasks |-> 0]

-----------------------------------------------------------------------------
(* The tasks table and the requests that write it. *)

Exists(t) == row[t] \notin {NoTask, Deleted}

\* WHERE enabled = 1 AND schedule IS NOT NULL
Listed == {t \in Tasks : Exists(t) /\ row[t].enabled /\ row[t].expr # NoExpr}

\* validate_scheduled_task and parse_task_schedule skip the others.
Usable == {t \in Listed : row[t].expr \notin Invalid}

\* validate_task_definition: a row is written only with a schedule that parses.
Valid(x) == x.expr \notin Invalid

Write(t, x) ==
    /\ row' = [row EXCEPT ![t] = x]
    /\ stable' = stable \ {t}

Finish(u) == edit' = [edit EXCEPT ![u] = [task |-> 0, row |-> Deleted]]

\* create_task: the new id is greater than all that were given away.
Create(u) ==
    /\ edit[u] = Idle
    /\ \E t \in Tasks, e \in Exprs \cup {NoExpr} :
          /\ row[t] = NoTask /\ \A s \in Tasks : s < t => row[s] # NoTask
          /\ Valid([expr |-> e, enabled |-> TRUE])
          /\ Write(t, [expr |-> e, enabled |-> TRUE])
    /\ Finish(u)
    /\ UNCHANGED <<time, scheduled, pc, scanVars, todo, busy, failures, restarts, first, starts>>

\* update_task and delete_task read the row first and write it later, as a
\* whole, with the fields the request names changed.
EditRead(u) ==
    /\ edit[u] = Idle
    /\ \E t \in Tasks, e \in Exprs \cup {NoExpr}, b \in BOOLEAN :
          /\ Exists(t)
          /\ \E x \in {[row[t] EXCEPT !.enabled = b], [row[t] EXCEPT !.expr = e], Deleted} :
                /\ x # Deleted => Valid(x)
                /\ edit' = [edit EXCEPT ![u] = [task |-> t, row |-> x]]
    /\ UNCHANGED <<time, row, stable, scheduled, pc, scanVars, todo, busy, failures, restarts, first, starts>>

\* UPDATE ... WHERE id changes nothing when the row is gone.
EditWrite(u) ==
    /\ edit[u].task # 0
    /\ IF Exists(edit[u].task)
       THEN Write(edit[u].task, edit[u].row)
       ELSE UNCHANGED <<row, stable>>
    /\ Finish(u)
    /\ UNCHANGED <<time, scheduled, pc, scanVars, todo, busy, failures, restarts, first, starts>>

-----------------------------------------------------------------------------
(* The scan. *)

\* Variant: an occurrence at this very moment is still to come.
After_Inclusive(e, t) ==
    LET later == {o \in Occurs[e] : o >= t} IN IF later = {} THEN Never ELSE Min(later)

\* schedule.after(&now).next()
After(e, t) ==
    LET later == {o \in Occurs[e] : o > t} IN IF later = {} THEN Never ELSE Min(later)

\* list_scheduled_page: AND id < cursor ORDER BY id DESC LIMIT n.
Page(c) == {t \in Listed : t < c /\ Cardinality({u \in Listed : t < u /\ u < c}) < Limit}

\* Variant: the first page is taken for all there is.
IsLast_First(page) == TRUE

\* A page that is not full has no next_cursor.
IsLast(page) == Cardinality(page) < Limit

\* update_schedule_state: is the task due, and its entry after the scan.
ShouldRun(old, e) == old # NoEntry /\ old.expr = e /\ now >= old.next

Updated(old, e) ==
    IF old = NoEntry \/ old.expr # e \/ ShouldRun(old, e)
    THEN [expr |-> e, next |-> After(e, now)]
    ELSE old

\* The interval fires; ticks missed during a long round are skipped.
ScanStart ==
    /\ pc = "idle"
    /\ pc' = "scan"
    /\ now' = time
    /\ draft' = scheduled
    /\ observed' = {}
    /\ cursor' = 1 + Max(Tasks)
    /\ stable' = Usable
    /\ UNCHANGED <<time, row, edit, scheduled, todo, busy, failures, restarts, first, starts>>

LoadPage ==
    LET page == Page(cursor)
        good == page \cap Usable
    IN
    /\ pc = "scan"
    /\ draft' = [t \in Tasks |-> IF t \in good THEN Updated(draft[t], row[t].expr) ELSE draft[t]]
    /\ observed' = observed \cup good
    /\ todo' = todo \cup
          {[task |-> t, expr |-> row[t].expr, due |-> draft[t].next, at |-> now] :
               t \in {u \in good : ShouldRun(draft[u], row[u].expr)}}
    /\ IF IsLast(page)
       THEN pc' = "commit" /\ UNCHANGED cursor
       ELSE cursor' = Min(page) /\ UNCHANGED pc
    /\ UNCHANGED <<time, rowVars, scheduled, now, busy, failures, restarts, first, starts>>

\* scan_due_tasks returns: its locals are gone.
ScanReturns ==
    /\ now' = 0 /\ draft' = [t \in Tasks |-> NoEntry] /\ observed' = {} /\ cursor' = 0
    /\ stable' = {}

\* Variant: each page is put in place when it is read.
PageFails_Keeps ==
    /\ pc = "scan" /\ failures < MaxFailures
    /\ failures' = failures + 1
    /\ scheduled' = draft
    /\ pc' = "idle" /\ todo' = {} /\ ScanReturns
    /\ UNCHANGED <<time, row, edit, busy, restarts, first, starts>>

\* The copy and the due tasks go with the error.
PageFails ==
    /\ pc = "scan" /\ failures < MaxFailures
    /\ failures' = failures + 1
    /\ pc' = "idle" /\ todo' = {} /\ ScanReturns
    /\ UNCHANGED <<time, row, edit, scheduled, busy, restarts, first, starts>>

Commit ==
    /\ pc = "commit"
    /\ scheduled' = [t \in Tasks |-> IF t \in observed THEN draft[t] ELSE NoEntry]
    /\ first' = [t \in Tasks |->
                    IF t \in observed /\ (scheduled[t] = NoEntry \/ scheduled[t].expr # draft[t].expr)
                    THEN now ELSE first[t]]
    /\ pc' = "run" /\ ScanReturns
    /\ UNCHANGED <<time, row, edit, todo, busy, failures, restarts, starts>>

-----------------------------------------------------------------------------
(* for_each_concurrent over the due tasks, as the scan has read them. *)

Execute ==
    /\ pc = "run" /\ Cardinality(busy) < MaxParallel
    /\ \E x \in todo :
          /\ todo' = todo \ {x}
          /\ busy' = busy \cup {x}
          /\ starts' = starts \cup {x}
    /\ UNCHANGED <<time, rowVars, scheduled, pc, scanVars, failures, restarts, first>>

\* The dispatch ends, with a report or an error that is only logged.
ExecuteEnds ==
    /\ pc = "run"
    /\ \E x \in busy : busy' = busy \ {x}
    /\ UNCHANGED <<time, rowVars, scheduled, pc, scanVars, todo, failures, restarts, first, starts>>

RoundEnds ==
    /\ pc = "run" /\ todo = {} /\ busy = {}
    /\ pc' = "idle"
    /\ UNCHANGED <<time, rowVars, scheduled, scanVars, todo, busy, failures, restarts, first, starts>>

-----------------------------------------------------------------------------
Tick ==
    /\ time < MaxTime
    /\ time' = time + 1
    /\ UNCHANGED <<rowVars, scheduled, pc, scanVars, todo, busy, failures, restarts, first, starts>>

\* The map is not stored anywhere.
Restart ==
    /\ restarts < MaxRestarts
    /\ restarts' = restarts + 1
    /\ scheduled' = [t \in Tasks |-> NoEntry]
    /\ pc' = "idle" /\ todo' = {} /\ busy' = {} /\ ScanReturns
    /\ UNCHANGED <<time, row, edit, failures, first, starts>>

Scanning == ScanStart \/ LoadPage \/ Commit

Next ==
    \/ Scanning \/ PageFails \/ Execute \/ ExecuteEnds \/ RoundEnds
    \/ \E u \in Editors : Create(u) \/ EditRead(u) \/ EditWrite(u)
    \/ Tick \/ Restart

\* The interval fires, a query comes to an end, and a dispatch does too: every
\* wait in it has a timeout.
Fairness == WF_vars(Scanning) /\ WF_vars(Execute) /\ WF_vars(ExecuteEnds) /\ WF_vars(RoundEnds)

Spec == Init /\ [][Next]_vars /\ Fairness

-----------------------------------------------------------------------------
(* Properties. *)

\* "keeps newly-created tasks ahead of an active cursor, so they are picked up
\* on the next scheduler tick without shifting or starving older pages"
\* (list_scheduled_page): a task that is there during the whole scan is seen
\* by it, whatever other rows come, go or change between two pages.
ScanIsComplete == pc = "commit" => stable \subseteq observed

\* No occurrence is run twice, neither by two scans nor after a failed page, a
\* restart, an edit of the expression and back, or a round so long that
\* several occurrences fall into it: what two starts of a task cover, from the
\* occurrence that was due to the scan that saw it, does not overlap.
OccurrenceRunsOnce ==
    \A x \in starts \cup todo, y \in starts \cup todo :
        (x # y /\ x.task = y.task /\ x.expr = y.expr) => (x.at < y.due \/ y.at < x.due)

\* "A transient error on a later page must not ... advance a due task that was
\* never dispatched" (scheduler.rs:145): every occurrence that lies between
\* the first observation of a task's expression and its next_run is covered by
\* a start, or by one that the round in progress is about to make.
NoOccurrenceSkipped ==
    \A t \in Tasks :
        scheduled[t] # NoEntry =>
            \A o \in Occurs[scheduled[t].expr] :
                (first[t] < o /\ o < scheduled[t].next) =>
                    \E x \in starts \cup (IF pc = "run" THEN todo ELSE {}) :
                        x.task = t /\ x.due <= o /\ o <= x.at

\* "A newly observed task is scheduled for its next cron occurrence, not
\* executed immediately" (scheduler.rs:130): what is due has become due after
\* the task, with this expression, was observed by an earlier scan of this
\* process, and not later than this scan.
DueAfterObserved ==
    \A x \in todo : first[x.task] < x.due /\ x.due <= x.at

\* No task is starved: however many pages lie before it and although a page may
\* fail, the scans come to every enabled task again and again, so that it is
\* tracked under the expression its row has and waits for an occurrence that
\* is still to come.
TasksAreServed ==
    \A t \in Tasks :
        []<>(t \in Usable => /\ scheduled[t] # NoEntry
                            /\ scheduled[t].expr = row[t].expr
                            /\ time < scheduled[t].next)
=============================================================================

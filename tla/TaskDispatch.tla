---------------------------- MODULE TaskDispatch ----------------------------
(***************************************************************************)
(* Dispatching a task to Agents: dispatch_task_to_agents_with_source and   *)
(* dispatch_task_to_agent (tasks/mod.rs), the task_runs rows they write    *)
(* (db/repository/tasks.rs) and the TaskResponseRegistry in which a        *)
(* dispatch waits for its Agent's answer (grpc/session.rs).                *)
(*                                                                         *)
(* A batch is one call for all the targets of a task; a run is one target. *)
(* A batch started by an HTTP request is dropped as a whole when the       *)
(* request is aborted.  A database statement whose future is dropped may   *)
(* still take effect later, or never.  A PendingTaskRunGuard turns an      *)
(* abandoned "pending" row into "failed" from a task of its own; what it   *)
(* misses is settled when the server starts again.                         *)
(*                                                                         *)
(* Run ids are fresh (UUIDv7), so a waiter is named by its run.            *)
(***************************************************************************)
EXTENDS Naturals, FiniteSets

CONSTANTS
    Runs,          \* run ids, one for each target of each batch
    Batches,       \* calls of dispatch_task_to_agents_with_source
    BatchOf,       \* the batch each run belongs to
    MaxConcurrent, \* TASK_MAX_CONCURRENT_DISPATCHES, 8 in the code
    MaxWaiters,    \* MAX_PENDING_TASK_WAITERS, 4096 in the code
    MaxAttempts,   \* TASK_RUN_CANCELLATION_CLEANUP_ATTEMPTS, 10 in the code
    SlowDb,        \* may a dropped statement take effect after the last attempt?
    MaxRestarts    \* bound: restarts of the server

ASSUME BatchAssumption == IsFiniteSet(Runs) /\ BatchOf \in [Runs -> Batches]
ASSUME LimitAssumption ==
    /\ MaxConcurrent \in Nat \ {0} /\ MaxWaiters \in Nat /\ MaxAttempts \in Nat \ {0}
    /\ SlowDb \in BOOLEAN /\ MaxRestarts \in Nat

VARIABLES
    pc,       \* where each dispatch_task_to_agent is
    verdict,  \* the row content a dispatch is about to write
    waiters,  \* TaskResponseRegistry::pending
    reply,    \* the value in each run's oneshot channel, or "none"
    task,     \* what became of the command: none, sent, replied or lost
    row,      \* the task_runs table: status and the reason recorded with it
    orphan,   \* the statement that was in flight when its future was dropped
    cleanup,  \* attempts the guard's cleanup task has left
    dbFailed, \* runs for which a statement failed
    online,   \* does the Agent have a session?
    others,   \* entries of the registry held by other callers (MCP, file
              \* transfers, probes and server operations use the same one)
    batch,    \* outcome of each batch
    summary,  \* the counts stored as the task's last_result
    restarts

vars == <<pc, verdict, waiters, reply, task, row, orphan, cleanup, dbFailed,
          online, others, batch, summary, restarts>>

-----------------------------------------------------------------------------
Answers == {"success", "failed", "timeout"}   \* what an Agent can report

\* The value stored for TaskStatus::Offline is "pending", the same as for a
\* run that waits for its answer; the error column tells them apart.
NoRow == [status |-> "none", why |-> ""]
Pending == [status |-> "pending", why |-> ""]
Offline == [status |-> "pending", why |-> "agent offline"]
SendFailed == [status |-> "failed", why |-> "send"]
Disconnected == [status |-> "failed", why |-> "agent disconnected"]
ServerTimeout == [status |-> "timeout", why |-> "server"]
Cancelled == [status |-> "failed", why |-> "cancelled"]
Restarted == [status |-> "failed", why |-> "restarted"]
FromAgent(s) == [status |-> s, why |-> "agent"]

Contents ==
    {NoRow, Pending, Offline, SendFailed, Disconnected, ServerTimeout, Cancelled, Restarted}
    \cup {FromAgent(s) : s \in Answers}

\* close: write a row that needs no answer.  insert: write the pending row.
Active == {"send", "close", "insert", "await", "expired", "update"}
RunPC == Active \cup {"start", "done", "error", "aborted", "crashed"}

\* Variant: the guard is disarmed once the insert has returned.
Guarded_InsertOnly == {"insert"}

\* The guard is armed from before the insert until the result is stored.
Guarded == {"insert", "await", "expired", "update"}

Statements == {"none", "close", "insert", "update"}

Statuses == {"success", "failed", "timeout", "pending"}

TypeOK ==
    /\ pc \in [Runs -> RunPC]
    /\ verdict \in [Runs -> Contents]
    /\ waiters \subseteq Runs
    /\ reply \in [Runs -> Answers \cup {"none"}]
    /\ task \in [Runs -> {"none", "sent", "replied", "lost"}]
    /\ row \in [Runs -> Contents]
    /\ orphan \in [Runs -> Statements]
    /\ cleanup \in [Runs -> 0..MaxAttempts]
    /\ dbFailed \subseteq Runs
    /\ online \in BOOLEAN
    /\ others \in 0..MaxWaiters
    /\ batch \in [Batches -> {"running", "ok", "failed", "aborted", "crashed"}]
    /\ summary \in [Batches -> [Statuses -> Nat]]
    /\ restarts \in 0..MaxRestarts

Init ==
    /\ pc = [r \in Runs |-> "start"]
    /\ verdict = [r \in Runs |-> NoRow]
    /\ waiters = {}
    /\ reply = [r \in Runs |-> "none"]
    /\ task = [r \in Runs |-> "none"]
    /\ row = [r \in Runs |-> NoRow]
    /\ orphan = [r \in Runs |-> "none"]
    /\ cleanup = [r \in Runs |-> 0]
    /\ dbFailed = {}
    /\ online \in BOOLEAN
    /\ others = 0
    /\ batch = [b \in Batches |-> "running"]
    /\ summary = [b \in Batches |-> [s \in Statuses |-> 0]]
    /\ restarts = 0

RunsOf(b) == {r \in Runs : BatchOf[r] = b}

Set(f, r, v) == [f EXCEPT ![r] = v]

outer == <<online, others, batch, summary, restarts>>

-----------------------------------------------------------------------------
(* One run, from await to await. *)

\* The limiter: a permit is held from the start to the end of the dispatch.
PermitFree == Cardinality({r \in Runs : pc[r] \in Active}) < MaxConcurrent

StartOffline(r) ==
    /\ pc[r] = "start" /\ batch[BatchOf[r]] = "running" /\ PermitFree /\ ~online
    /\ pc' = Set(pc, r, "close")
    /\ verdict' = Set(verdict, r, Offline)
    /\ UNCHANGED <<waiters, reply, task, row, orphan, cleanup, dbFailed, outer>>

RegistryHasRoom == Cardinality(waiters) + others < MaxWaiters

\* TaskResponseRegistry::register: at its limit it refuses, and the receiver
\* it returns has lost its sender already.  Either way the dispatch goes on.
StartOnline(r) ==
    /\ pc[r] = "start" /\ batch[BatchOf[r]] = "running" /\ PermitFree /\ online
    /\ waiters' = IF RegistryHasRoom THEN waiters \cup {r} ELSE waiters
    /\ pc' = Set(pc, r, "send")
    /\ UNCHANGED <<verdict, reply, task, row, orphan, cleanup, dbFailed, outer>>

\* send_task committed the command to the Agent's session.
SendOk(r) ==
    /\ pc[r] = "send" /\ online
    /\ task' = Set(task, r, "sent")
    /\ pc' = Set(pc, r, "insert")
    /\ verdict' = Set(verdict, r, Pending)
    /\ UNCHANGED <<waiters, reply, row, orphan, cleanup, dbFailed, outer>>

\* send_task failed: cancel the waiter, record a failure.
SendErr(r) ==
    /\ pc[r] = "send"
    /\ waiters' = waiters \ {r}
    /\ pc' = Set(pc, r, "close")
    /\ verdict' = Set(verdict, r, SendFailed)
    /\ UNCHANGED <<reply, task, row, orphan, cleanup, dbFailed, outer>>

\* What a statement does to the table when it takes effect.
Effect(statement, old, new) ==
    CASE statement \in {"close", "insert"} -> new
      [] statement = "update" -> IF old = NoRow THEN NoRow ELSE new
      [] OTHER -> old

AfterWrite(l) == IF l = "insert" THEN "await" ELSE "done"

\* The statement takes effect and the dispatch goes on; after an update the
\* guard is disarmed.
Write(r) ==
    /\ pc[r] \in {"close", "insert", "update"}
    /\ row' = Set(row, r, Effect(pc[r], row[r], verdict[r]))
    /\ pc' = Set(pc, r, AfterWrite(pc[r]))
    /\ UNCHANGED <<verdict, waiters, reply, task, orphan, cleanup, dbFailed, outer>>

\* The statement fails, perhaps after it took effect.  The dispatch returns an
\* error; its waiter goes, and an armed guard starts its cleanup task.
WriteFails(r) ==
    /\ pc[r] \in {"close", "insert", "update"}
    /\ \E effect \in {"none", pc[r]} : row' = Set(row, r, Effect(effect, row[r], verdict[r]))
    /\ cleanup' = IF pc[r] \in Guarded THEN Set(cleanup, r, MaxAttempts) ELSE cleanup
    /\ dbFailed' = dbFailed \cup {r}
    /\ waiters' = waiters \ {r}
    /\ pc' = Set(pc, r, "error")
    /\ UNCHANGED <<verdict, reply, task, orphan, outer>>

\* The wait ends with the Agent's result.
AwaitResult(r) ==
    /\ pc[r] = "await" /\ reply[r] # "none"
    /\ verdict' = Set(verdict, r, FromAgent(reply[r]))
    /\ pc' = Set(pc, r, "update")
    /\ UNCHANGED <<waiters, reply, task, row, orphan, cleanup, dbFailed, outer>>

\* Variant: a missing entry is taken for a lost Agent without a look at what
\* the channel holds.
AwaitClosed_Eager(r) ==
    /\ pc[r] = "await" /\ r \notin waiters
    /\ verdict' = Set(verdict, r, Disconnected)
    /\ pc' = Set(pc, r, "update")
    /\ UNCHANGED <<waiters, reply, task, row, orphan, cleanup, dbFailed, outer>>

\* The wait ends because no sender is left: the registration was refused.
AwaitClosed(r) ==
    /\ pc[r] = "await" /\ reply[r] = "none" /\ r \notin waiters
    /\ verdict' = Set(verdict, r, Disconnected)
    /\ pc' = Set(pc, r, "update")
    /\ UNCHANGED <<waiters, reply, task, row, orphan, cleanup, dbFailed, outer>>

\* 30 s pass.  The timeout polls the receiver before the timer, so a result
\* that has arrived wins over it.
AwaitExpires(r) ==
    /\ pc[r] = "await" /\ reply[r] = "none" /\ r \in waiters
    /\ verdict' = Set(verdict, r, ServerTimeout)
    /\ pc' = Set(pc, r, "expired")
    /\ UNCHANGED <<waiters, reply, task, row, orphan, cleanup, dbFailed, outer>>

\* Only after that poll is the receiver dropped, and its entry with it.
ReceiverDropped(r) ==
    /\ pc[r] = "expired"
    /\ waiters' = waiters \ {r}
    /\ pc' = Set(pc, r, "update")
    /\ UNCHANGED <<verdict, reply, task, row, orphan, cleanup, dbFailed, outer>>

-----------------------------------------------------------------------------
(* The Agent's side, as the session loop sees it. *)

\* TaskResponseRegistry::deliver: the entry is removed and its sender used;
\* a result nobody waits for is dropped.
Deliver(r) ==
    /\ task[r] = "sent"
    /\ task' = Set(task, r, "replied")
    /\ \E s \in Answers :
          reply' = IF r \in waiters THEN Set(reply, r, s) ELSE reply
    /\ waiters' = waiters \ {r}
    /\ UNCHANGED <<pc, verdict, row, orphan, cleanup, dbFailed, outer>>

\* The session ends.  The Agent aborts the tasks it runs for that session.
\* Nothing tells the dispatches that wait.
SessionDown ==
    /\ online
    /\ online' = FALSE
    /\ task' = [r \in Runs |-> IF task[r] = "sent" THEN "lost" ELSE task[r]]
    /\ UNCHANGED <<pc, verdict, waiters, reply, row, orphan, cleanup, dbFailed, others, batch, summary, restarts>>

\* The other users of the registry come and go.
OthersChange ==
    /\ \/ RegistryHasRoom /\ others' = others + 1
       \/ others > 0 /\ others' = others - 1
    /\ UNCHANGED <<pc, verdict, waiters, reply, task, row, orphan, cleanup, dbFailed, online, batch, summary, restarts>>

SessionUp ==
    /\ ~online
    /\ online' = TRUE
    /\ UNCHANGED <<pc, verdict, waiters, reply, task, row, orphan, cleanup, dbFailed, others, batch, summary, restarts>>

-----------------------------------------------------------------------------
(* The batch. *)

Finished(b) == \A r \in RunsOf(b) : pc[r] \in {"done", "error"}

\* Counts of the runs by status, TaskStatus::Offline being "pending".
Count(f, b) == [s \in Statuses |-> Cardinality({r \in RunsOf(b) : f[r].status = s})]

\* All runs have returned, and last_result gets the counts of the runs.  If a
\* run returned an error, or this last statement fails, the batch is an error
\* and nothing is stored with the task.
BatchReturns(b) ==
    /\ batch[b] = "running" /\ Finished(b)
    /\ \/ /\ \A r \in RunsOf(b) : pc[r] = "done"
          /\ batch' = Set(batch, b, "ok")
          /\ summary' = Set(summary, b, Count(verdict, b))
       \/ batch' = Set(batch, b, "failed") /\ UNCHANGED summary
    /\ UNCHANGED <<pc, verdict, waiters, reply, task, row, orphan, cleanup, dbFailed, online, others, restarts>>

\* TaskResponseReceiver::drop removes the entry of every dropped dispatch.
DropWaiters(gone) == waiters \ gone

\* The HTTP request is aborted: all unfinished dispatches of the batch are
\* dropped where they wait, and statements in flight are left to themselves.
BatchAborted(b) ==
    LET gone == {r \in RunsOf(b) : pc[r] \in Active \cup {"start"}} IN
    /\ batch[b] = "running" /\ gone # {}
    /\ batch' = Set(batch, b, "aborted")
    /\ pc' = [r \in Runs |-> IF r \in gone THEN "aborted" ELSE pc[r]]
    /\ waiters' = DropWaiters(gone)
    /\ orphan' = [r \in Runs |-> IF r \in gone /\ pc[r] \in Statements THEN pc[r] ELSE orphan[r]]
    /\ cleanup' = [r \in Runs |-> IF r \in gone /\ pc[r] \in Guarded THEN MaxAttempts ELSE cleanup[r]]
    /\ UNCHANGED <<verdict, reply, task, row, dbFailed, online, others, summary, restarts>>

\* A dropped statement takes effect after all, or never does.
OrphanLands(r) ==
    /\ orphan[r] # "none"
    /\ SlowDb \/ cleanup[r] > 0 \/ orphan[r] = "close"
    /\ row' = Set(row, r, Effect(orphan[r], row[r], verdict[r]))
    /\ orphan' = Set(orphan, r, "none")
    /\ UNCHANGED <<pc, verdict, waiters, reply, task, cleanup, dbFailed, outer>>

OrphanVanishes(r) ==
    /\ orphan[r] # "none"
    /\ orphan' = Set(orphan, r, "none")
    /\ UNCHANGED <<pc, verdict, waiters, reply, task, row, cleanup, dbFailed, outer>>

\* Variant: the UPDATE of the cleanup has no condition on the status.
Settle_Unconditional(old, why) == IF old = NoRow THEN old ELSE why

\* UPDATE ... SET status = 'failed', error = why WHERE ... status = 'pending'.
Settle(old, why) == IF old.status = "pending" THEN why ELSE old

\* settle_cancelled_task_run: one attempt.  It stops when a row was changed
\* and tries again when none was, or when the statement failed.
CleanupAttempt(r) ==
    /\ cleanup[r] > 0
    /\ row' = Set(row, r, Settle(row[r], Cancelled))
    /\ cleanup' = Set(cleanup, r, IF row[r].status = "pending" THEN 0 ELSE cleanup[r] - 1)
    /\ UNCHANGED <<pc, verdict, waiters, reply, task, orphan, dbFailed, outer>>

CleanupFails(r) ==
    /\ cleanup[r] > 0
    /\ cleanup' = Set(cleanup, r, cleanup[r] - 1)
    /\ dbFailed' = dbFailed \cup {r}
    /\ UNCHANGED <<pc, verdict, waiters, reply, task, row, orphan, outer>>

-----------------------------------------------------------------------------
\* The server stops and starts again.  settle_pending_after_restart runs
\* before anything else: every row that is still pending becomes failed.  A
\* statement in flight has taken effect before the stop, or never does.
Restart ==
    /\ restarts < MaxRestarts
    /\ restarts' = restarts + 1
    /\ row' = [r \in Runs |-> Settle(row[r], Restarted)]
    /\ pc' = [r \in Runs |->
                 IF pc[r] \in Active \cup {"start"}
                 THEN "crashed" ELSE pc[r]]
    /\ batch' = [b \in Batches |-> IF batch[b] = "running" THEN "crashed" ELSE batch[b]]
    /\ waiters' = {}
    /\ orphan' = [r \in Runs |-> "none"]
    /\ cleanup' = [r \in Runs |-> 0]
    /\ task' = [r \in Runs |-> IF task[r] = "sent" THEN "lost" ELSE task[r]]
    /\ online' = FALSE
    /\ others' = 0
    /\ UNCHANGED <<verdict, reply, dbFailed, summary>>

-----------------------------------------------------------------------------
RunStep(r) ==
    \/ StartOffline(r) \/ StartOnline(r) \/ SendOk(r) \/ SendErr(r) \/ Write(r) \/ WriteFails(r)
    \/ AwaitResult(r) \/ AwaitClosed(r) \/ AwaitExpires(r) \/ ReceiverDropped(r)

CleanupStep(r) == CleanupAttempt(r) \/ CleanupFails(r)

Next ==
    \/ \E r \in Runs : RunStep(r) \/ CleanupStep(r) \/ Deliver(r) \/ OrphanLands(r) \/ OrphanVanishes(r)
    \/ \E b \in Batches : BatchReturns(b) \/ BatchAborted(b)
    \/ SessionUp \/ SessionDown \/ OthersChange \/ Restart

\* The runtime drives every dispatch and every cleanup task, the 30 s timer
\* fires, and a statement in flight comes to an end.
Fairness ==
    \A r \in Runs :
        /\ WF_vars(RunStep(r)) /\ WF_vars(CleanupStep(r))
        /\ WF_vars(OrphanLands(r) \/ OrphanVanishes(r))

Spec == Init /\ [][Next]_vars /\ Fairness

-----------------------------------------------------------------------------
(* Properties. *)

\* Every entry of the response registry belongs to a dispatch that is still
\* going to look at it, whichever way dispatches end: a result, a timeout, an
\* error, an aborted request or a failed send.
WaitersAreLive == \A r \in waiters : pc[r] \in {"send", "insert", "await", "expired"}

\* A run whose result reached its waiter records that result, or that it came
\* too late: never that the Agent was lost or the command not sent, although
\* the entry is gone from the registry before the dispatch looks.
ReplyIsRecorded ==
    \A r \in Runs :
        (pc[r] = "done" /\ reply[r] # "none") => row[r] \in {FromAgent(reply[r]), ServerTimeout}

\* "without overwriting a result that may have completed concurrently"
\* (settle_pending_after_cancellation): a stored Agent result is final, also
\* against the cleanup task, a late statement and the sweep at startup.
ResultIsFinal ==
    [][\A r \in Runs : row[r].why = "agent" => row'[r] = row[r]]_vars

\* The counts stored with the task are the counts of the rows that its runs
\* have stored when the batch returns.
SummaryMatchesRows ==
    [][\A b \in Batches :
          (batch[b] = "running" /\ batch'[b] = "ok") => summary'[b] = Count(row', b)]_vars

\* A row that waits for a result does not wait for ever: without database
\* errors it reaches a final status, whether the dispatch completes, is
\* aborted between any two of its steps or loses the Agent.
PendingIsSettled ==
    \A r \in Runs : row[r] = Pending ~> (row[r].status # "pending" \/ r \in dbFailed)
=============================================================================

--------------------------- MODULE SessionRegistry ---------------------------
(***************************************************************************)
(* The registry of live Agent sessions, crates/server/src/grpc/session.rs. *)
(*                                                                         *)
(* Every connection of an Agent brings a fresh bounded channel; the        *)
(* registry maps an Agent to the channel of its current connection.  Any   *)
(* number of tasks send to "whatever channel is current" while Agents      *)
(* reconnect, streams end and an administrator disconnects an Agent for    *)
(* good.  A send waits for capacity without holding a lock, so the channel *)
(* it waits on can be replaced, removed or revoked under it.               *)
(*                                                                         *)
(* Locks.  `revoked' and `sessions' are tokio RwLocks, always taken in     *)
(* that order.  A section under `sessions' has no await inside, so it is   *)
(* one step.  The read guard on `revoked' is held across the await for     *)
(* `sessions': who holds it is a function of the program counters          *)
(* (RevokedReaders), and MarkRevoked, the only writer, waits for them.     *)
(*                                                                         *)
(* A message is named by the process that sends it, and a process sends    *)
(* once; the order of the messages in a channel is not modelled.           *)
(***************************************************************************)
EXTENDS Naturals, FiniteSets

CONSTANTS
    AgentIds,      \* Agent ids
    Chans,         \* channels, one for each call of the session RPC
    Senders,       \* tasks that call SessionRegistry::send once
    Disconnecters, \* tasks that call SessionRegistry::disconnect once
    Owner,         \* Owner[c] is the Agent whose connection created channel c
    Cap,           \* channel capacity, 128 in the code
    NoChan         \* "no entry" in the sessions map

ASSUME OwnerAssumption == Owner \in [Chans -> AgentIds]
ASSUME CapAssumption == Cap \in Nat \ {0}
ASSUME NoChanAssumption == NoChan \notin Chans

VARIABLES
    sessions, \* SessionRegistry::sessions
    revoked,  \* SessionRegistry::revoked, in memory, never shrinks
    changed,  \* channels whose RegisteredSender::changes has been bumped
    cpc,      \* where each connection's RPC handler is
    rx,       \* channels whose receiver is still held by the RPC response
    buf,      \* messages queued in each channel
    pc,       \* where each send is inside send_to_current
    target,   \* the Agent each send is for
    chan,     \* the channel a send cloned on this turn of its loop
    result,   \* what send_to_current returned
    sent,     \* history: <<sender, channel>> pairs that were committed
    dpc,      \* where each disconnect is
    dtarget,  \* the Agent each disconnect is for
    dchan     \* the entry each disconnect removed

connVars == <<cpc, rx>>
sendVars == <<pc, target, chan, result>>
discVars == <<dpc, dtarget, dchan>>
vars == <<sessions, revoked, changed, connVars, buf, sendVars, sent, discVars>>

-----------------------------------------------------------------------------
ConnPC == {"new", "check", "live", "ended", "closed"}
SendPC == {"idle", "lookup", "lookup2", "wait", "permit", "commit",
           "closed", "closed2", "done"}
DiscPC == {"idle", "mark", "remove", "notify", "done", "dropped"}
Results == {"none", "ok", "revoked", "missing", "closed", "timeout"}

TypeOK ==
    /\ sessions \in [AgentIds -> Chans \cup {NoChan}]
    /\ revoked \subseteq AgentIds
    /\ changed \subseteq Chans
    /\ cpc \in [Chans -> ConnPC]
    /\ rx \subseteq Chans
    /\ buf \in [Chans -> SUBSET Senders]
    /\ pc \in [Senders -> SendPC]
    /\ target \in [Senders -> AgentIds]
    /\ chan \in [Senders -> Chans \cup {NoChan}]
    /\ result \in [Senders -> Results]
    /\ sent \subseteq (Senders \X Chans)
    /\ dpc \in [Disconnecters -> DiscPC]
    /\ dtarget \in [Disconnecters -> AgentIds]
    /\ dchan \in [Disconnecters -> Chans \cup {NoChan}]

Init ==
    /\ sessions = [a \in AgentIds |-> NoChan]
    /\ revoked = {}
    /\ changed = {}
    /\ cpc = [c \in Chans |-> "new"]
    /\ rx = Chans
    /\ buf = [c \in Chans |-> {}]
    /\ pc = [p \in Senders |-> "idle"]
    /\ target \in [Senders -> AgentIds]
    /\ chan = [p \in Senders |-> NoChan]
    /\ result = [p \in Senders |-> "none"]
    /\ sent = {}
    /\ dpc = [d \in Disconnecters |-> "idle"]
    /\ dtarget \in [Disconnecters -> AgentIds]
    /\ dchan = [d \in Disconnecters |-> NoChan]

-----------------------------------------------------------------------------
(* Who holds what. *)

\* The program counters at which a send holds the read guard on `revoked'.
GuardPC == {"lookup2", "commit", "closed2"}

\* Variant: register drops its guard before it waits for `sessions'.
RevokedReaders_SendsOnly == {p \in Senders : pc[p] \in GuardPC}

\* Variant: a send drops its guard before it waits for `sessions'.
RevokedReaders_ConnsOnly == {c \in Chans : cpc[c] = "check"}

\* The connections and sends that hold the read guard on `revoked'.
RevokedReaders ==
    {c \in Chans : cpc[c] = "check"} \cup {p \in Senders : pc[p] \in GuardPC}

\* A permit is a reserved slot of the channel's buffer.
Permits(c) == {p \in Senders : pc[p] \in {"permit", "commit"} /\ chan[p] = c}

HasCapacity(c) == Cardinality(buf[c]) + Cardinality(Permits(c)) < Cap

\* A send keeps its clone of the sender for one turn of the loop.
HoldsClone(p, c) ==
    /\ pc[p] \in {"wait", "permit", "commit", "closed", "closed2"}
    /\ chan[p] = c

\* No strong sender is left, so the response stream of c ends once drained.
StreamClosed(c) ==
    /\ sessions[Owner[c]] # c
    /\ \A p \in Senders : ~HoldsClone(p, c)
    /\ \A d \in Disconnecters : ~(dpc[d] = "notify" /\ dchan[d] = c)

\* Variant: the entry is dropped without waking those who wait on it.
notify_changed_Lost(c) == UNCHANGED changed

\* RegisteredSender::notify_changed on the entry for channel c, if any.
notify_changed(c) == changed' = changed \cup ({c} \ {NoChan})

-----------------------------------------------------------------------------
(* One connection: register, the stream's life, unregister. *)

\* register: take the read guard on `revoked'; a revoked Agent is refused.
RegisterCheck(c) ==
    /\ cpc[c] = "new"
    /\ cpc' = [cpc EXCEPT ![c] = IF Owner[c] \in revoked THEN "closed" ELSE "check"]
    /\ rx' = IF Owner[c] \in revoked THEN rx \ {c} ELSE rx
    /\ UNCHANGED <<sessions, revoked, changed, buf, sendVars, sent, discVars>>

\* register: insert under the write lock, notify the entry that was replaced.
RegisterInsert(c) ==
    /\ cpc[c] = "check"
    /\ sessions' = [sessions EXCEPT ![Owner[c]] = c]
    /\ notify_changed(sessions[Owner[c]])
    /\ cpc' = [cpc EXCEPT ![c] = "live"]
    /\ UNCHANGED <<revoked, rx, buf, sendVars, sent, discVars>>

\* The caller resets the RPC while register waits for the `sessions' lock:
\* the handler's future is dropped, and the guard and the receiver with it.
ConnectAborted(c) ==
    /\ cpc[c] \in {"new", "check"}
    /\ cpc' = [cpc EXCEPT ![c] = "closed"]
    /\ rx' = rx \ {c}
    /\ UNCHANGED <<sessions, revoked, changed, buf, sendVars, sent, discVars>>

\* The request stream ends or fails: the reader task leaves its loop.
StreamEnds(c) ==
    /\ cpc[c] = "live"
    /\ cpc' = [cpc EXCEPT ![c] = "ended"]
    /\ UNCHANGED <<sessions, revoked, changed, rx, buf, sendVars, sent, discVars>>

\* unregister: remove the entry only if it is still this connection's channel.
unregister(c) ==
    /\ cpc[c] = "ended"
    /\ cpc' = [cpc EXCEPT ![c] = "closed"]
    /\ IF sessions[Owner[c]] = c
       THEN /\ sessions' = [sessions EXCEPT ![Owner[c]] = NoChan]
            /\ notify_changed(c)
       ELSE UNCHANGED <<sessions, changed>>
    /\ UNCHANGED <<revoked, rx, buf, sendVars, sent, discVars>>

\* The response stream takes a message off the channel for the Agent.
AgentReceives(c) ==
    /\ c \in rx /\ cpc[c] \in {"live", "ended", "closed"}
    /\ \E m \in buf[c] : buf' = [buf EXCEPT ![c] = @ \ {m}]
    /\ UNCHANGED <<sessions, revoked, changed, connVars, sendVars, sent, discVars>>

\* The Agent is gone: the response stream, and the receiver in it, is dropped.
ReceiverDropped(c) ==
    /\ c \in rx /\ cpc[c] \in {"live", "ended", "closed"}
    /\ rx' = rx \ {c}
    /\ buf' = [buf EXCEPT ![c] = {}]
    /\ UNCHANGED <<sessions, revoked, changed, cpc, sendVars, sent, discVars>>

-----------------------------------------------------------------------------
(* send_to_current, one action for each stretch between two awaits. *)

Return(p, r) ==
    /\ pc' = [pc EXCEPT ![p] = "done"]
    /\ result' = [result EXCEPT ![p] = r]
    /\ UNCHANGED <<target, chan>>

GoesTo(p, l) ==
    /\ pc' = [pc EXCEPT ![p] = l]
    /\ UNCHANGED <<target, chan, result>>

registryVars == <<sessions, revoked, changed, connVars, discVars>>

SendStart(p) ==
    /\ pc[p] = "idle"
    /\ GoesTo(p, "lookup")
    /\ UNCHANGED <<registryVars, buf, sent>>

\* Each of the three visits to the registry starts with the revocation check,
\* and keeps the read guard while it waits for the `sessions' lock.
AfterRevokedCheck(l) ==
    CASE l = "lookup" -> "lookup2"
      [] l = "permit" -> "commit"
      [] l = "closed" -> "closed2"

CheckRevoked(p) ==
    /\ pc[p] \in {"lookup", "permit", "closed"}
    /\ IF target[p] \in revoked
       THEN Return(p, "revoked")
       ELSE GoesTo(p, AfterRevokedCheck(pc[p]))
    /\ UNCHANGED <<registryVars, buf, sent>>

\* Clone the current sender and subscribe to its change counter.
Subscribe(p) ==
    LET cur == sessions[target[p]] IN
    /\ pc[p] = "lookup2"
    /\ IF cur = NoChan
       THEN Return(p, "missing")
       ELSE /\ chan' = [chan EXCEPT ![p] = cur]
            /\ pc' = [pc EXCEPT ![p] = "wait"]
            /\ UNCHANGED <<target, result>>
    /\ UNCHANGED <<registryVars, buf, sent>>

\* select!: the reservation got a slot.
Reserve(p) ==
    /\ pc[p] = "wait"
    /\ chan[p] \in rx /\ HasCapacity(chan[p])
    /\ GoesTo(p, "permit")
    /\ UNCHANGED <<registryVars, buf, sent>>

\* select!: the reservation failed because the receiver is gone.
ReserveFails(p) ==
    /\ pc[p] = "wait"
    /\ chan[p] \notin rx
    /\ GoesTo(p, "closed")
    /\ UNCHANGED <<registryVars, buf, sent>>

\* select!: the entry was replaced or removed; start over.
Changed(p) ==
    /\ pc[p] = "wait"
    /\ chan[p] \in changed
    /\ GoesTo(p, "lookup")
    /\ UNCHANGED <<registryVars, buf, sent>>

\* The message goes into the channel through the permit.  A permit whose
\* receiver is gone takes the message and drops it.
PermitSend(p) ==
    /\ buf' = IF chan[p] \in rx THEN [buf EXCEPT ![chan[p]] = @ \cup {p}] ELSE buf
    /\ sent' = sent \cup {<<p, chan[p]>>}

\* Validate the channel under the lock, then commit the message.
Commit(p) ==
    /\ pc[p] = "commit"
    /\ sessions[target[p]] = chan[p]
    /\ PermitSend(p)
    /\ Return(p, "ok")
    /\ UNCHANGED registryVars

\* The channel was replaced or removed since: the permit is dropped.
CommitRefused(p) ==
    /\ pc[p] = "commit"
    /\ sessions[target[p]] # chan[p]
    /\ IF sessions[target[p]] = NoChan THEN Return(p, "missing") ELSE GoesTo(p, "lookup")
    /\ UNCHANGED <<registryVars, buf, sent>>

\* The receiver was gone: retry if the entry was replaced, give up otherwise.
ClosedRecheck(p) ==
    LET cur == sessions[target[p]] IN
    /\ pc[p] = "closed2"
    /\ CASE cur = NoChan -> Return(p, "missing")
         [] cur = chan[p] -> Return(p, "closed")
         [] OTHER -> GoesTo(p, "lookup")
    /\ UNCHANGED <<registryVars, buf, sent>>

\* REGISTRY_SEND_TIMEOUT: at any await the future is dropped, and with it the
\* permit, the clone and the guard it holds.
SendTimeout(p) ==
    /\ pc[p] \notin {"idle", "done"}
    /\ Return(p, "timeout")
    /\ UNCHANGED <<registryVars, buf, sent>>

-----------------------------------------------------------------------------
(* disconnect: mark, remove, notify. *)

DiscStart(d) ==
    /\ dpc[d] = "idle"
    /\ dpc' = [dpc EXCEPT ![d] = "mark"]
    /\ UNCHANGED <<sessions, revoked, changed, connVars, buf, sendVars, sent, dtarget, dchan>>

\* The write lock on `revoked' is granted when no reader holds it.
MarkRevoked(d) ==
    /\ dpc[d] = "mark"
    /\ RevokedReaders = {}
    /\ revoked' = revoked \cup {dtarget[d]}
    /\ dpc' = [dpc EXCEPT ![d] = "remove"]
    /\ UNCHANGED <<sessions, changed, connVars, buf, sendVars, sent, dtarget, dchan>>

\* The guard on `sessions' is a temporary: it is released by this statement.
RemoveSession(d) ==
    /\ dpc[d] = "remove"
    /\ dchan' = [dchan EXCEPT ![d] = sessions[dtarget[d]]]
    /\ sessions' = [sessions EXCEPT ![dtarget[d]] = NoChan]
    /\ dpc' = [dpc EXCEPT ![d] = "notify"]
    /\ UNCHANGED <<revoked, changed, connVars, buf, sendVars, sent, dtarget>>

NotifyRemoved(d) ==
    /\ dpc[d] = "notify"
    /\ notify_changed(dchan[d])
    /\ dpc' = [dpc EXCEPT ![d] = "done"]
    /\ UNCHANGED <<sessions, revoked, connVars, buf, sendVars, sent, dtarget, dchan>>

\* The HTTP request that called disconnect is aborted at one of its awaits.
DiscAborted(d) ==
    /\ dpc[d] \in {"mark", "remove"}
    /\ dpc' = [dpc EXCEPT ![d] = "dropped"]
    /\ UNCHANGED <<sessions, revoked, changed, connVars, buf, sendVars, sent, dtarget, dchan>>

-----------------------------------------------------------------------------
ConnStep(c) ==
    \/ RegisterCheck(c) \/ RegisterInsert(c) \/ ConnectAborted(c)
    \/ StreamEnds(c) \/ unregister(c) \/ AgentReceives(c) \/ ReceiverDropped(c)

\* The steps the runtime takes for a send; the timer is not one of them.
SendStep(p) ==
    \/ CheckRevoked(p) \/ Subscribe(p) \/ Reserve(p) \/ ReserveFails(p)
    \/ Changed(p) \/ Commit(p) \/ CommitRefused(p) \/ ClosedRecheck(p)

DiscStep(d) == MarkRevoked(d) \/ RemoveSession(d) \/ NotifyRemoved(d)

Next ==
    \/ \E c \in Chans : ConnStep(c)
    \/ \E p \in Senders : SendStart(p) \/ SendStep(p) \/ SendTimeout(p)
    \/ \E d \in Disconnecters : DiscStart(d) \/ DiscStep(d) \/ DiscAborted(d)

\* The runtime polls every task that is ready.  Nothing is assumed of the
\* Agent, of the timer or of the callers.
Fairness ==
    /\ \A c \in Chans : WF_vars(RegisterInsert(c)) /\ WF_vars(unregister(c))
    /\ \A p \in Senders : WF_vars(SendStep(p))
    /\ \A d \in Disconnecters : WF_vars(DiscStep(d))

Spec == Init /\ [][Next]_vars /\ Fairness

-----------------------------------------------------------------------------
(* Properties. *)

\* The test session_disconnect_blocks_late_task_sends_and_reregister, for
\* every interleaving: once disconnect has removed an Agent's entry, no
\* connection that was already inside register can put one back.
DisconnectSticks ==
    \A d \in Disconnecters :
        dpc[d] \in {"notify", "done"} => sessions[dtarget[d]] = NoChan

\* A send that waits for capacity on a channel that is no longer its Agent's
\* has been notified of it, or the disconnect that removed the entry is about
\* to: no wakeup is lost between the lookup and the wait.
NoLostWakeup ==
    \A p \in Senders :
        (pc[p] = "wait" /\ sessions[target[p]] # chan[p])
            => \/ chan[p] \in changed
               \/ \E d \in Disconnecters : dpc[d] = "notify" /\ dchan[d] = chan[p]

\* However often a send is retargeted, it answers Ok exactly when it has put
\* one copy of its message in one channel: an Err (a timeout included) means
\* that no Agent can have received the task.
OkMeansSentOnce ==
    \A p \in Senders :
        IF result[p] = "ok"
        THEN \E c \in Chans : {e \in sent : e[1] = p} = {<<p, c>>}
        ELSE \A c \in Chans : <<p, c>> \notin sent

\* The channel never holds more than its capacity, slots that are promised
\* through permits included, whichever sends timed out or were retargeted.
WithinCapacity ==
    \A c \in Chans : Cardinality(buf[c]) + Cardinality(Permits(c)) <= Cap

\* "so a reconnect cannot receive work through its stale stream": a message
\* enters a channel only while that channel is its Agent's current one and the
\* Agent has not been revoked.
CommitsToCurrent ==
    [][\A p \in Senders, c \in Chans :
          (<<p, c>> \in sent' /\ <<p, c>> \notin sent)
              => sessions[target[p]] = c /\ target[p] \notin revoked]_vars

\* A registered channel is removed by the end of its own connection, by the
\* next registration of the same Agent or by a disconnect of that Agent;
\* the late cleanup of an older connection never takes it away.
OnlyOwnCleanup ==
    [][\A a \in AgentIds :
          (sessions[a] # NoChan /\ sessions'[a] = NoChan)
              => \/ cpc[sessions[a]] = "ended"
                 \/ a \in revoked]_vars

\* The stream of a connection that is no longer current is closed in the end,
\* although sends may be blocked on its full buffer with a clone of its sender
\* and no timer fires: the Agent behind it is not left on a dead stream.
ReplacedStreamCloses ==
    \A c \in Chans :
        (cpc[c] \in {"live", "ended"} /\ sessions[Owner[c]] # c) ~> StreamClosed(c)

-----------------------------------------------------------------------------
(* The protocol implements the atomic send of AgentLink. *)

SendOutcome(p) == CASE result[p] = "none" -> "none"
                    [] result[p] = "ok" -> "ok"
                    [] OTHER -> "failed"

Link == INSTANCE AgentLink
            WITH Agents <- AgentIds, link <- sessions, barred <- revoked, accepted <- sent,
                 outcome <- [p \in Senders |-> SendOutcome(p)]

\* Registering, cleaning up, revoking and sending, in all their interleavings,
\* look to the callers like single steps on one link per Agent.
ImplementsLink == Link!Spec
=============================================================================

--------------------------- MODULE AgentRevocation ---------------------------
(***************************************************************************)
(* Taking an Agent out of service: the administrator's handlers            *)
(* revoke_agent (api/v1/agent.rs) and delete_agent (api/v1/servers.rs),    *)
(* the `agents' table they write, the gRPC session RPC that reads it       *)
(* (grpc/mod.rs) and the session registry they all share.                  *)
(*                                                                         *)
(* The handler writes the table, sends ForceDisconnect through the         *)
(* registry and then disconnects the Agent there.  The RPC reads the table *)
(* before it registers, so an RPC that was authenticated before the write  *)
(* can register after it.  The handler runs inside an HTTP request: its    *)
(* future is dropped at an await when the request is aborted.  The server  *)
(* may restart; the table survives, the registry does not.                 *)
(*                                                                         *)
(* A handler is a process of the registry that sends one message (its      *)
(* ForceDisconnect) and then disconnects.                                  *)
(***************************************************************************)
EXTENDS SessionRegistry

CONSTANTS
    Revokers,    \* calls of revoke_agent
    Deleters,    \* calls of delete_agent
    CallSets     \* sets of connections and calls, and of restarts, that happen together

Handlers == Revokers \cup Deleters

ASSUME HandlersAssumption ==
    /\ Handlers = Disconnecters
    /\ Handlers \subseteq Senders
    /\ Revokers \cap Deleters = {}
    /\ CallSets \subseteq SUBSET (Chans \cup Senders \cup {"restart"})

VARIABLES
    db,       \* the Agent's row: active, revoked (revoked_at is set) or deleted
    authed,   \* connections that passed authenticate_agent_request
    hpc,      \* where each handler is
    left,     \* Agents whose process got ForceDisconnect and exits
    calls     \* what is still to happen

adminVars == <<db, authed, hpc, left, calls>>
allVars == <<vars, adminVars>>

RevTypeOK ==
    /\ TypeOK
    /\ db \in [AgentIds -> {"active", "revoked", "deleted"}]
    /\ authed \subseteq Chans
    /\ hpc \in [Handlers -> {"idle", "send", "disconnect", "done", "refused", "dropped"}]
    /\ left \subseteq AgentIds
    /\ calls \subseteq Chans \cup Senders \cup {"restart"}

RevInit ==
    /\ Init
    /\ \A h \in Handlers : target[h] = dtarget[h]
    /\ db = [a \in AgentIds |-> "active"]
    /\ authed = {}
    /\ hpc = [h \in Handlers |-> "idle"]
    /\ left = {}
    /\ calls \in CallSets

-----------------------------------------------------------------------------
(* The session RPC. *)

\* Variant: a row with revoked_at set is still good enough.
Authenticate_IgnoresRevoked(c) ==
    /\ cpc[c] = "new" /\ c \in calls \ authed
    /\ Owner[c] \notin left
    /\ db[Owner[c]] # "deleted"
    /\ authed' = authed \cup {c}
    /\ UNCHANGED <<vars, db, hpc, left, calls>>

\* authenticate_agent_request: the row must exist and not be revoked.  The
\* Agent's process opens connections until it has been told to leave.
Authenticate(c) ==
    /\ cpc[c] = "new" /\ c \in calls \ authed
    /\ Owner[c] \notin left
    /\ IF db[Owner[c]] = "active"
       THEN authed' = authed \cup {c} /\ UNCHANGED <<cpc, rx>>
       ELSE cpc' = [cpc EXCEPT ![c] = "closed"] /\ rx' = rx \ {c} /\ UNCHANGED authed
    /\ UNCHANGED <<sessions, revoked, changed, buf, sendVars, sent, discVars, db, hpc, left, calls>>

\* register runs only after authentication, with an await in between.
RegistrySteps(c) ==
    /\ c \in authed
    /\ \/ RegisterCheck(c) \/ RegisterInsert(c) \/ ConnectAborted(c)
       \/ StreamEnds(c) \/ unregister(c) \/ ReceiverDropped(c)
    /\ UNCHANGED adminVars

\* The Agent takes a message; ForceDisconnect makes its process leave for good.
AgentTakes(c) ==
    /\ AgentReceives(c)
    /\ left' = IF buf[c] \ buf'[c] \subseteq Handlers THEN left \cup {Owner[c]} ELSE left
    /\ UNCHANGED <<db, authed, hpc, calls>>

-----------------------------------------------------------------------------
(* The handlers. *)

\* The row each handler still finds something to do with.
Affected(h) ==
    IF h \in Revokers THEN db[target[h]] = "active" ELSE db[target[h]] # "deleted"

\* The UPDATE or DELETE; a call that affects no row answers "not found".
WriteRow(h) ==
    /\ hpc[h] = "idle" /\ h \in calls
    /\ IF Affected(h)
       THEN /\ db' = [db EXCEPT ![target[h]] =
                         IF h \in Revokers THEN "revoked" ELSE "deleted"]
            /\ hpc' = [hpc EXCEPT ![h] = "send"]
            /\ SendStart(h)
       ELSE /\ hpc' = [hpc EXCEPT ![h] = "refused"]
            /\ UNCHANGED <<db, vars>>
    /\ UNCHANGED <<authed, left, calls>>

\* Variant: the handler trusts the Agent to act on ForceDisconnect.
SendDone_SkipsDisconnect(h) ==
    /\ hpc[h] = "send" /\ pc[h] = "done"
    /\ hpc' = [hpc EXCEPT ![h] = "done"]
    /\ UNCHANGED <<vars, db, authed, left, calls>>

\* ForceDisconnect was sent or not: its result is ignored, disconnect follows.
SendDone(h) ==
    /\ hpc[h] = "send" /\ pc[h] = "done"
    /\ hpc' = [hpc EXCEPT ![h] = "disconnect"]
    /\ DiscStart(h)
    /\ UNCHANGED <<db, authed, left, calls>>

\* revoke_agent calls send and disconnect again on a clone of the same
\* registry: the second send finds the Agent revoked, the second removal finds
\* no entry.  Neither changes anything, so the handler is done here.
HandlerDone(h) ==
    /\ hpc[h] = "disconnect" /\ dpc[h] = "done"
    /\ hpc' = [hpc EXCEPT ![h] = "done"]
    /\ UNCHANGED <<vars, db, authed, left, calls>>

\* The administrator's HTTP request is aborted while the handler awaits.
HandlerDropped(h) ==
    /\ hpc' = [hpc EXCEPT ![h] = "dropped"]
    /\ \/ hpc[h] = "send" /\ SendTimeout(h)
       \/ hpc[h] = "disconnect" /\ DiscAborted(h)
    /\ UNCHANGED <<db, authed, left, calls>>

\* Variant: no timer bounds the wait for channel capacity.
SenderSteps_NoTimeout(p) ==
    /\ p \in Handlers => hpc[p] = "send"
    /\ (p \in calls \ Handlers /\ SendStart(p)) \/ SendStep(p)
    /\ UNCHANGED adminVars

\* Other tasks send to the Agent; a handler's own send runs in its "send" phase.
SenderSteps(p) ==
    /\ p \in Handlers => hpc[p] = "send"
    /\ \/ p \in calls \ Handlers /\ SendStart(p)
       \/ SendStep(p)
       \/ SendTimeout(p)
    /\ UNCHANGED adminVars

DisconnectSteps(h) == DiscStep(h) /\ UNCHANGED adminVars

-----------------------------------------------------------------------------
\* The server process restarts: every connection, send and handler is gone and
\* the registry is empty; the table is what it was.
Restart ==
    /\ "restart" \in calls /\ calls' = calls \ {"restart"}
    /\ sessions' = [a \in AgentIds |-> NoChan]
    /\ revoked' = {}
    /\ changed' = {}
    /\ cpc' = [c \in Chans |->
                  IF cpc[c] = "new" /\ c \notin authed THEN "new" ELSE "closed"]
    /\ rx' = {c \in Chans : cpc[c] = "new" /\ c \notin authed}
    /\ buf' = [c \in Chans |-> {}]
    /\ pc' = [p \in Senders |-> IF pc[p] = "idle" THEN "idle" ELSE "done"]
    /\ result' = [p \in Senders |->
                     IF pc[p] \in {"idle", "done"} THEN result[p] ELSE "timeout"]
    /\ dpc' = [d \in Disconnecters |->
                  IF dpc[d] \in {"idle", "done", "dropped"} THEN dpc[d] ELSE "dropped"]
    /\ hpc' = [h \in Handlers |->
                  IF hpc[h] \in {"send", "disconnect"} THEN "dropped" ELSE hpc[h]]
    /\ UNCHANGED <<target, chan, sent, dtarget, dchan, db, authed, left>>

RevNext ==
    \/ \E c \in Chans :
          Authenticate(c) \/ RegistrySteps(c) \/ AgentTakes(c)
    \/ \E p \in Senders : SenderSteps(p)
    \/ \E h \in Handlers :
          WriteRow(h) \/ SendDone(h) \/ DisconnectSteps(h) \/ HandlerDone(h) \/ HandlerDropped(h)
    \/ Restart

\* The runtime polls what is ready, and REGISTRY_SEND_TIMEOUT fires for a
\* handler that waits.  Aborted requests, restarts, streams and the Agent's
\* reading are not forced.
RevFairness ==
    /\ \A c \in Chans :
          /\ WF_allVars(c \in authed /\ RegisterInsert(c) /\ UNCHANGED adminVars)
          /\ WF_allVars(c \in authed /\ unregister(c) /\ UNCHANGED adminVars)
    /\ \A p \in Senders : WF_allVars(SenderSteps(p))
    /\ \A h \in Handlers :
          WF_allVars(SendDone(h) \/ DisconnectSteps(h) \/ HandlerDone(h))

RevSpec == RevInit /\ [][RevNext]_allVars /\ RevFairness

-----------------------------------------------------------------------------
(* Properties. *)

\* An Agent whose revocation or deletion ran to its end has no session, and
\* never gets one again: not from an RPC authenticated before the row was
\* written, and not from a new server process whose registry has forgotten.
OutOfServiceForGood ==
    \A h \in Handlers : hpc[h] = "done" => sessions[target[h]] = NoChan

\* A row that says the Agent is out of service, and a registry that has an
\* entry for it, occur together only while a handler is on its way to remove
\* the entry or after such a handler was aborted.
EntryExplained ==
    \A a \in AgentIds :
        (db[a] # "active" /\ sessions[a] # NoChan)
            => \E h \in Handlers : target[h] = a /\ hpc[h] \in {"send", "disconnect", "dropped"}

\* A handler that wrote the row gets to its end unless it is aborted, although
\* the Agent may not read the stream that ForceDisconnect has to go through.
HandlerFinishes ==
    \A h \in Handlers : hpc[h] = "send" ~> hpc[h] \in {"done", "dropped"}
=============================================================================

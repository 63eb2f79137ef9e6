-------------------------- MODULE IoSchedulerProofs --------------------------
(***************************************************************************)
(* Proofs about two parts of the server that share nothing but the Agents  *)
(* they reach: the registry of IO streams, for every set of Agents,        *)
(* connections, bridges and disconnecters and every limit; and the cron    *)
(* scheduler, for every finite set of tasks, every set of expressions and  *)
(* of requests, every page size and any number of failed pages and         *)
(* restarts.                                                               *)
(***************************************************************************)
EXTENDS IoRegistry, TaskScheduler, FiniteSetTheorems, TLAPS

USE DEF connVars, subVars, rowVars, scanVars

(***************************************************************************)
(* The registry of IO streams.                                             *)
(***************************************************************************)

-----------------------------------------------------------------------------
(* The inductive invariant.  The three locks are not variables: what they   *)
(* protect is stated about whoever is between two of them.                  *)

\* Who holds the read guard on revoked_agents works for an Agent that is not in it.
GuardSafe ==
    /\ \A c \in Chans : cpc[c] \in {"check", "clear"} => Owner[c] \notin revoked
    /\ \A b \in Bridges : bpc[b] \in {"streams", "insert"} => AgentOf[b] \notin revoked

\* A disconnect past its first step has marked its Agent, and past its second
\* the Agent has no stream.
Marked ==
    \A d \in Disconnecters :
        /\ dpc[d] \in {"remove", "clear", "notify", "done"} => DTarget[d] \in revoked
        /\ dpc[d] \in {"clear", "notify", "done"} => streams[DTarget[d]] = NoChan

\* The guard on agent_streams keeps the connection a subscriber has seen.
SeenStream == \A b \in Bridges : bpc[b] = "insert" => streams[AgentOf[b]] # NoChan

\* A subscription was made under a connection.
MadeUnder == \A b \in subs : gen[b] # NoChan

\* Only who is about to notify has subscribers taken out.
TakenAtNotify ==
    /\ \A c \in Chans : cpc[c] \notin {"notify", "unotify"} => taken[c] = {}
    /\ \A d \in Disconnecters : dpc[d] # "notify" => taken[d] = {}

\* A bridge that unsubscribes has dropped its receiver.
ReceiverOpen == \A b \in rx : bpc[b] # "unsub"

Bounded == IsFiniteSet(subs) /\ WithinStreamLimit

IoInv ==
    /\ IoTypeOK
    /\ GuardSafe
    /\ Marked
    /\ SeenStream
    /\ MadeUnder
    /\ TakenAtNotify
    /\ ReceiverOpen
    /\ Bounded
    /\ SubscriberIsCurrent
    /\ DisconnectedIsEmpty
    /\ NoSleepingDelivery

-----------------------------------------------------------------------------
(* Facts about the helpers. *)

\* A set of subscribers that only shrinks stays within the limit.
LEMMA ShrinkingIsBounded ==
  ASSUME Bounded, subs' \subseteq subs
  PROVE  Bounded'
<1>1. IsFiniteSet(subs') /\ Cardinality(subs') <= Cardinality(subs)
  BY FS_Subset DEF Bounded
<1>2. Cardinality(subs) \in Nat /\ Cardinality(subs') \in Nat
  BY <1>1, FS_CardinalityType DEF Bounded
<1> QED BY <1>1, <1>2, LimitAssumption DEF Bounded, WithinStreamLimit

\* One more subscriber, where the code has found room for it, is within the limit.
LEMMA InsertIsBounded ==
  ASSUME Bounded, NEW b, RoomForStream, subs' = Pruned \cup {b}
  PROVE  Bounded'
<1>1. IsFiniteSet(Pruned)
  BY FS_Subset DEF Bounded, Pruned
<1>2. Cardinality(Pruned) \in Nat
  BY <1>1, FS_CardinalityType
<1>3. /\ IsFiniteSet(Pruned \cup {b})
      /\ \/ Cardinality(Pruned \cup {b}) = Cardinality(Pruned)
         \/ Cardinality(Pruned \cup {b}) = Cardinality(Pruned) + 1
  BY <1>1, FS_AddElement
<1> QED BY <1>2, <1>3, LimitAssumption DEF Bounded, WithinStreamLimit, RoomForStream

\* Notify, for a process that has taken subscribers out.
LEMMA NotifyTypes ==
  ASSUME IoTypeOK, NEW p \in Procs, Notify(p)
  PROVE  /\ taken' \in [Procs -> SUBSET Bridges] /\ woken' \subseteq Bridges
         /\ queue' \in [Bridges -> 0..Cap]
<1>1. queue' \in [Bridges -> 0..Cap]
  BY LimitAssumption DEF IoTypeOK, Notify
<1> QED BY <1>1 DEF IoTypeOK, Notify

-----------------------------------------------------------------------------
(* Type correctness. *)

LEMMA IoTypeInit == IoInit => IoTypeOK
  BY LimitAssumption DEF IoInit, IoTypeOK, ConnPC, DiscPC, BridgePC

LEMMA TypeConn ==
  ASSUME IoTypeOK, NEW c \in Chans,
         \/ RegisterCheck(c) \/ RegisterAborted(c) \/ StreamEnds(c) \/ Cleaning(c)
  PROVE  IoTypeOK'
<1> USE OwnerAssumption DEF IoTypeOK, ConnPC
<1>0. c \in Procs
  BY DEF Procs
<1>1. CASE RegisterCheck(c) BY <1>1 DEF RegisterCheck
<1>2. CASE RegisterAborted(c) BY <1>2 DEF RegisterAborted
<1>3. CASE StreamEnds(c) BY <1>3 DEF StreamEnds
<1>4. CASE RegisterInsert(c) BY <1>4 DEF RegisterInsert
<1>5. CASE RegisterClear(c) BY <1>0, <1>5 DEF RegisterClear, Take, SubscribersOf
<1>6. CASE RegisterNotify(c) BY <1>0, <1>6, NotifyTypes DEF RegisterNotify
<1>7. CASE Unregister(c) BY <1>7 DEF Unregister
<1>8. CASE UnregisterClear(c) BY <1>0, <1>8 DEF UnregisterClear, Take, SubscribersOf
<1>9. CASE UnregisterNotify(c) BY <1>0, <1>9, NotifyTypes DEF UnregisterNotify
<1> QED BY <1>1, <1>2, <1>3, <1>4, <1>5, <1>6, <1>7, <1>8, <1>9 DEF Cleaning

LEMMA TypeDeliver ==
  ASSUME IoTypeOK, NEW c \in Chans, DeliverLookup(c) \/ DeliverTimeout(c) \/ Delivering(c)
  PROVE  IoTypeOK'
<1> USE DEF IoTypeOK
<1>1. CASE DeliverLookup(c) BY <1>1 DEF DeliverLookup, Pruned, WokenByPrune
<1>2. CASE DeliverTimeout(c) BY <1>2 DEF DeliverTimeout
<1>3. CASE DeliverWoken(c) BY <1>3 DEF DeliverWoken
<1>4. CASE DeliverSend(c) BY <1>4, LimitAssumption DEF DeliverSend
<1>5. CASE DeliverFails(c) BY <1>5 DEF DeliverFails, Pruned, WokenByPrune
<1> QED BY <1>1, <1>2, <1>3, <1>4, <1>5 DEF Delivering

LEMMA TypeDisc ==
  ASSUME IoTypeOK, NEW d \in Disconnecters, Disconnecting(d) \/ DisconnectAborted(d)
  PROVE  IoTypeOK'
<1> USE OwnerAssumption DEF IoTypeOK, DiscPC
<1>0. d \in Procs
  BY DEF Procs
<1>1. CASE MarkRevoked(d) BY <1>1 DEF MarkRevoked
<1>2. CASE RemoveStream(d) BY <1>2 DEF RemoveStream
<1>3. CASE DisconnectClear(d) BY <1>0, <1>3 DEF DisconnectClear, Take, SubscribersOf
<1>4. CASE DisconnectNotify(d) BY <1>0, <1>4, NotifyTypes DEF DisconnectNotify
<1>5. CASE DisconnectAborted(d) BY <1>5 DEF DisconnectAborted
<1> QED BY <1>1, <1>2, <1>3, <1>4, <1>5 DEF Disconnecting

LEMMA TypeBridge ==
  ASSUME IoTypeOK, NEW b \in Bridges, SubscribeCheck(b) \/ BridgeLeaves(b) \/ Bridging(b)
  PROVE  IoTypeOK'
<1> USE OwnerAssumption DEF IoTypeOK, BridgePC, Pruned, WokenByPrune, Refused
<1>1. CASE SubscribeCheck(b) BY <1>1 DEF SubscribeCheck
<1>2. CASE SubscribeStreams(b) BY <1>2 DEF SubscribeStreams
<1>3. CASE SubscribeInsert(b) BY <1>3 DEF SubscribeInsert
<1>4. CASE BridgeReads(b) BY <1>4, LimitAssumption DEF BridgeReads
<1>5. CASE BridgeEnds(b) BY <1>5 DEF BridgeEnds
<1>6. CASE BridgeLeaves(b) BY <1>6, LimitAssumption DEF BridgeLeaves
<1>7. CASE Unsubscribe(b) BY <1>7 DEF Unsubscribe
<1> QED BY <1>1, <1>2, <1>3, <1>4, <1>5, <1>6, <1>7 DEF Bridging

-----------------------------------------------------------------------------
(* The other parts of the invariant, one lemma for each kind of step. *)

LEMMA IoInvInit == IoInit => IoInv
<1> SUFFICES ASSUME IoInit PROVE IoInv
  OBVIOUS
<1>1. IoTypeOK
  BY IoTypeInit
<1>2. GuardSafe /\ Marked /\ SeenStream /\ MadeUnder /\ TakenAtNotify /\ ReceiverOpen
  BY DEF IoInit, GuardSafe, Marked, SeenStream, MadeUnder, TakenAtNotify, ReceiverOpen, Procs
<1>3. Bounded
  BY FS_EmptySet, LimitAssumption DEF IoInit, Bounded, WithinStreamLimit
<1>4. SubscriberIsCurrent /\ DisconnectedIsEmpty /\ NoSleepingDelivery
  BY DEF IoInit, SubscriberIsCurrent, DisconnectedIsEmpty, NoSleepingDelivery, SubscribersOf
<1> QED BY <1>1, <1>2, <1>3, <1>4 DEF IoInv

\* Changing agent_streams waits for the guards of subscribers and of other writers.
LEMMA FreeMeansNobody ==
  ASSUME StreamsFree
  PROVE  /\ \A b \in Bridges : bpc[b] # "insert"
         /\ \A a \in Agents : ~Clearing(a)
  BY DEF StreamsFree, StreamsReaders, StreamsWriters, Clearing

LEMMA InvInsert ==
  ASSUME IoInv, NEW c \in Chans, RegisterInsert(c)
  PROVE  IoInv'
<1> USE OwnerAssumption, IoNamesAssumption DEF IoInv, RegisterInsert
<1>1. IoTypeOK'
  BY TypeConn DEF Cleaning
<1>2. (GuardSafe /\ MadeUnder /\ TakenAtNotify /\ ReceiverOpen)'
  BY DEF IoTypeOK, GuardSafe, MadeUnder, TakenAtNotify, ReceiverOpen
<1>3. (Marked /\ DisconnectedIsEmpty)'
  BY DEF IoTypeOK, GuardSafe, Marked, DisconnectedIsEmpty, SubscribersOf
<1>4. SeenStream'
  BY FreeMeansNobody DEF SeenStream
<1>5. Bounded'
  BY ShrinkingIsBounded
<1>6. SubscriberIsCurrent'
  <2> SUFFICES ASSUME NEW b \in subs, AgentOf[b] \notin torn
               PROVE  streams'[AgentOf[b]] = gen[b] \/ Clearing(AgentOf[b])'
    BY DEF SubscriberIsCurrent
  <2>1. streams[AgentOf[b]] = gen[b] /\ gen[b] # NoChan
    BY FreeMeansNobody DEF SubscriberIsCurrent, MadeUnder, IoTypeOK
  <2>2. CASE AgentOf[b] = Owner[c]
    BY <2>1, <2>2 DEF Clearing, IoTypeOK
  <2>3. CASE AgentOf[b] # Owner[c]
    BY <2>1, <2>3 DEF IoTypeOK
  <2> QED BY <2>2, <2>3
<1>7. NoSleepingDelivery'
  BY DEF NoSleepingDelivery
<1> QED BY <1>1, <1>2, <1>3, <1>4, <1>5, <1>6, <1>7

LEMMA InvUnregister ==
  ASSUME IoInv, NEW c \in Chans, Unregister(c)
  PROVE  IoInv'
<1> USE OwnerAssumption, IoNamesAssumption DEF IoInv, Unregister
<1>1. IoTypeOK'
  BY TypeConn DEF Cleaning
<1>2. (GuardSafe /\ MadeUnder /\ TakenAtNotify /\ ReceiverOpen)'
  BY DEF IoTypeOK, GuardSafe, MadeUnder, TakenAtNotify, ReceiverOpen
<1>3. (Marked /\ DisconnectedIsEmpty)'
  BY DEF IoTypeOK, Marked, DisconnectedIsEmpty, SubscribersOf
<1>4. SeenStream'
  BY FreeMeansNobody DEF SeenStream
<1>5. Bounded'
  BY ShrinkingIsBounded
<1>6. SubscriberIsCurrent'
  <2> SUFFICES ASSUME NEW b \in subs, AgentOf[b] \notin torn
               PROVE  streams'[AgentOf[b]] = gen[b] \/ Clearing(AgentOf[b])'
    BY DEF SubscriberIsCurrent
  <2>1. streams[AgentOf[b]] = gen[b]
    BY FreeMeansNobody DEF SubscriberIsCurrent, IoTypeOK
  <2>2. CASE AgentOf[b] = Owner[c]
    BY <2>1, <2>2 DEF Clearing, IoTypeOK
  <2>3. CASE AgentOf[b] # Owner[c]
    BY <2>1, <2>3 DEF IoTypeOK
  <2> QED BY <2>2, <2>3
<1>7. NoSleepingDelivery'
  BY DEF NoSleepingDelivery
<1> QED BY <1>1, <1>2, <1>3, <1>4, <1>5, <1>6, <1>7

LEMMA InvRemove ==
  ASSUME IoInv, NEW d \in Disconnecters, RemoveStream(d)
  PROVE  IoInv'
<1> USE OwnerAssumption, IoNamesAssumption DEF IoInv, RemoveStream
<1>1. IoTypeOK'
  BY TypeDisc DEF Disconnecting
<1>2. (GuardSafe /\ MadeUnder /\ TakenAtNotify /\ ReceiverOpen)'
  BY DEF IoTypeOK, GuardSafe, MadeUnder, TakenAtNotify, ReceiverOpen
<1>3. (Marked /\ DisconnectedIsEmpty)'
  BY DEF IoTypeOK, Marked, DisconnectedIsEmpty, SubscribersOf
<1>4. SeenStream'
  BY FreeMeansNobody DEF SeenStream
<1>5. Bounded'
  BY ShrinkingIsBounded
<1>6. SubscriberIsCurrent'
  <2> SUFFICES ASSUME NEW b \in subs, AgentOf[b] \notin torn
               PROVE  streams'[AgentOf[b]] = gen[b] \/ Clearing(AgentOf[b])'
    BY DEF SubscriberIsCurrent
  <2>1. streams[AgentOf[b]] = gen[b]
    BY FreeMeansNobody DEF SubscriberIsCurrent, IoTypeOK
  <2>2. CASE AgentOf[b] = DTarget[d]
    BY <2>1, <2>2 DEF Clearing, IoTypeOK
  <2>3. CASE AgentOf[b] # DTarget[d]
    BY <2>1, <2>3 DEF IoTypeOK
  <2> QED BY <2>2, <2>3
<1>7. NoSleepingDelivery'
  BY DEF NoSleepingDelivery
<1> QED BY <1>1, <1>2, <1>3, <1>4, <1>5, <1>6, <1>7

\* Taking the subscribers out: whoever is delivering to one of them finds it in the list.
LEMMA TakeParts ==
  ASSUME IoInv, NEW p \in Procs, NEW a \in Agents, Take(p, a), taken[p] = {},
         UNCHANGED <<fwd, woken, streams, gen, torn, rx>>
  PROVE  /\ Bounded' /\ NoSleepingDelivery' /\ MadeUnder'
         /\ \A b \in subs' : b \in subs /\ AgentOf[b] # a
<1> USE DEF IoInv, Take
<1>1. \A b \in subs' : b \in subs /\ AgentOf[b] # a
  BY DEF SubscribersOf
<1>2. Bounded'
  BY <1>1, ShrinkingIsBounded
<1>3. NoSleepingDelivery'
  <2> SUFFICES ASSUME NEW c \in Chans, fwd[c] # NoBridge, fwd[c] \notin subs', fwd[c] \notin woken
               PROVE  \E q \in Procs : fwd[c] \in taken'[q]
    BY DEF NoSleepingDelivery
  <2>1. CASE fwd[c] \in subs
    BY <2>1 DEF SubscribersOf, IoTypeOK
  <2>2. CASE fwd[c] \notin subs
    <3>1. PICK q \in Procs : fwd[c] \in taken[q]
      BY <2>2 DEF NoSleepingDelivery
    <3> QED BY <3>1 DEF IoTypeOK
  <2> QED BY <2>1, <2>2
<1>4. MadeUnder'
  BY <1>1 DEF MadeUnder
<1> QED BY <1>1, <1>2, <1>3, <1>4

LEMMA InvConnClear ==
  ASSUME IoInv, NEW c \in Chans, RegisterClear(c) \/ UnregisterClear(c)
  PROVE  IoInv'
<1> USE OwnerAssumption, IoNamesAssumption DEF IoInv
<1>0. c \in Procs /\ Owner[c] \in Agents
  BY DEF Procs
<1>1. IoTypeOK'
  BY TypeConn DEF Cleaning
<1>2. /\ Take(c, Owner[c]) /\ taken[c] = {}
      /\ UNCHANGED <<fwd, woken, streams, gen, torn, rx, revoked, queue, dpc, bpc>>
      /\ cpc[c] \in {"clear", "uclear"}
      /\ cpc' \in {[cpc EXCEPT ![c] = "notify"], [cpc EXCEPT ![c] = "unotify"]}
  BY DEF RegisterClear, UnregisterClear, TakenAtNotify
<1>3. /\ Bounded' /\ NoSleepingDelivery' /\ MadeUnder'
      /\ \A b \in subs' : b \in subs /\ AgentOf[b] # Owner[c]
  BY <1>0, <1>2, TakeParts
<1>4. (GuardSafe /\ Marked /\ SeenStream /\ ReceiverOpen)'
  BY <1>2 DEF IoTypeOK, GuardSafe, Marked, SeenStream, ReceiverOpen
<1>5. TakenAtNotify'
  BY <1>0, <1>2 DEF IoTypeOK, TakenAtNotify, Take, Procs
<1>6. DisconnectedIsEmpty'
  BY <1>2, <1>3 DEF DisconnectedIsEmpty, SubscribersOf
<1>7. SubscriberIsCurrent'
  <2> SUFFICES ASSUME NEW b \in subs', AgentOf[b] \notin torn, streams[AgentOf[b]] # gen[b]
               PROVE  Clearing(AgentOf[b])'
    BY <1>2 DEF SubscriberIsCurrent
  <2>1. Clearing(AgentOf[b]) /\ AgentOf[b] # Owner[c]
    BY <1>3 DEF SubscriberIsCurrent
  <2> QED BY <1>2, <2>1 DEF Clearing, IoTypeOK
<1> QED BY <1>1, <1>3, <1>4, <1>5, <1>6, <1>7

LEMMA InvDiscClear ==
  ASSUME IoInv, NEW d \in Disconnecters, DisconnectClear(d)
  PROVE  IoInv'
<1> USE OwnerAssumption, IoNamesAssumption DEF IoInv
<1>0. d \in Procs /\ DTarget[d] \in Agents
  BY DEF Procs
<1>1. IoTypeOK'
  BY TypeDisc DEF Disconnecting
<1>2. /\ Take(d, DTarget[d]) /\ taken[d] = {}
      /\ UNCHANGED <<fwd, woken, streams, gen, torn, rx, revoked, queue, cpc, bpc>>
      /\ dpc[d] = "clear" /\ dpc' = [dpc EXCEPT ![d] = "notify"]
  BY DEF DisconnectClear, TakenAtNotify
<1>3. /\ Bounded' /\ NoSleepingDelivery' /\ MadeUnder'
      /\ \A b \in subs' : b \in subs /\ AgentOf[b] # DTarget[d]
  BY <1>0, <1>2, TakeParts
<1>4. (GuardSafe /\ Marked /\ SeenStream /\ ReceiverOpen)'
  BY <1>2 DEF IoTypeOK, GuardSafe, Marked, SeenStream, ReceiverOpen
<1>5. TakenAtNotify'
  BY <1>0, <1>2 DEF IoTypeOK, TakenAtNotify, Take, Procs
<1>6. DisconnectedIsEmpty'
  BY <1>2, <1>3 DEF DisconnectedIsEmpty, SubscribersOf, Marked, IoTypeOK
<1>7. SubscriberIsCurrent'
  <2> SUFFICES ASSUME NEW b \in subs', AgentOf[b] \notin torn, streams[AgentOf[b]] # gen[b]
               PROVE  Clearing(AgentOf[b])'
    BY <1>2 DEF SubscriberIsCurrent
  <2>1. Clearing(AgentOf[b]) /\ AgentOf[b] # DTarget[d]
    BY <1>3 DEF SubscriberIsCurrent
  <2> QED BY <1>2, <2>1 DEF Clearing, IoTypeOK
<1> QED BY <1>1, <1>3, <1>4, <1>5, <1>6, <1>7

\* Telling the subscribers that were taken out wakes the deliveries to them.
LEMMA NotifyWakes ==
  ASSUME IoInv, NEW p \in Procs, Notify(p), UNCHANGED <<fwd, subs>>
  PROVE  NoSleepingDelivery'
<1> SUFFICES ASSUME NEW c \in Chans, fwd[c] # NoBridge, fwd[c] \notin subs, fwd[c] \notin woken'
             PROVE  \E q \in Procs : fwd[c] \in taken'[q]
  BY DEF NoSleepingDelivery
<1>1. PICK q \in Procs : fwd[c] \in taken[q]
  BY DEF IoInv, NoSleepingDelivery, Notify
<1> QED BY <1>1 DEF IoInv, IoTypeOK, Notify

LEMMA InvConnNotify ==
  ASSUME IoInv, NEW c \in Chans, RegisterNotify(c) \/ UnregisterNotify(c)
  PROVE  IoInv'
<1> USE OwnerAssumption, IoNamesAssumption DEF IoInv
<1>0. c \in Procs
  BY DEF Procs
<1>1. IoTypeOK'
  BY TypeConn DEF Cleaning
<1>2. /\ Notify(c) /\ UNCHANGED <<streams, revoked, subs, rx, gen, fwd, dpc, bpc, torn>>
      /\ cpc[c] \in {"notify", "unotify"}
      /\ cpc' \in {[cpc EXCEPT ![c] = "live"], [cpc EXCEPT ![c] = "closed"]}
  BY DEF RegisterNotify, UnregisterNotify
<1>3. (GuardSafe /\ Marked /\ SeenStream /\ MadeUnder /\ ReceiverOpen)'
  BY <1>2 DEF IoTypeOK, GuardSafe, Marked, SeenStream, MadeUnder, ReceiverOpen
<1>4. TakenAtNotify'
  BY <1>0, <1>2 DEF IoTypeOK, TakenAtNotify, Notify, Procs
<1>5. Bounded' /\ DisconnectedIsEmpty'
  BY <1>2, ShrinkingIsBounded DEF DisconnectedIsEmpty, SubscribersOf
<1>6. SubscriberIsCurrent'
  BY <1>2 DEF SubscriberIsCurrent, Clearing, IoTypeOK
<1>7. NoSleepingDelivery'
  BY <1>0, <1>2, NotifyWakes
<1> QED BY <1>1, <1>3, <1>4, <1>5, <1>6, <1>7

LEMMA InvDiscNotify ==
  ASSUME IoInv, NEW d \in Disconnecters, DisconnectNotify(d)
  PROVE  IoInv'
<1> USE OwnerAssumption, IoNamesAssumption DEF IoInv
<1>0. d \in Procs
  BY DEF Procs
<1>1. IoTypeOK'
  BY TypeDisc DEF Disconnecting
<1>2. /\ Notify(d) /\ UNCHANGED <<streams, revoked, subs, rx, gen, fwd, cpc, bpc, torn>>
      /\ dpc[d] = "notify" /\ dpc' = [dpc EXCEPT ![d] = "done"]
  BY DEF DisconnectNotify
<1>3. (GuardSafe /\ Marked /\ SeenStream /\ MadeUnder /\ ReceiverOpen)'
  BY <1>2 DEF IoTypeOK, GuardSafe, Marked, SeenStream, MadeUnder, ReceiverOpen
<1>4. TakenAtNotify'
  BY <1>0, <1>2 DEF IoTypeOK, TakenAtNotify, Notify, Procs
<1>5. Bounded' /\ DisconnectedIsEmpty'
  BY <1>2, ShrinkingIsBounded DEF DisconnectedIsEmpty, SubscribersOf, IoTypeOK
<1>6. SubscriberIsCurrent'
  BY <1>2 DEF SubscriberIsCurrent, Clearing, IoTypeOK
<1>7. NoSleepingDelivery'
  BY <1>0, <1>2, NotifyWakes
<1> QED BY <1>1, <1>3, <1>4, <1>5, <1>6, <1>7

\* Steps of a connection that touch neither the streams nor the subscribers.
LEMMA InvConnMoves ==
  ASSUME IoInv, NEW c \in Chans, RegisterCheck(c) \/ RegisterAborted(c) \/ StreamEnds(c)
  PROVE  IoInv'
<1> USE OwnerAssumption, IoNamesAssumption DEF IoInv
<1>1. IoTypeOK'
  BY TypeConn
<1>2. /\ UNCHANGED <<streams, revoked, subs, woken, fwd, dpc, taken, bpc, rx, queue, gen>>
      /\ \A c2 \in Chans \ {c} : cpc'[c2] = cpc[c2]
      /\ cpc'[c] \in {"closed", "check", "ended"} /\ cpc[c] \notin {"notify", "unotify"}
      /\ cpc'[c] = "check" => Owner[c] \notin revoked
      /\ cpc[c] = "clear" => torn' = torn \cup {Owner[c]}
      /\ torn \subseteq torn' /\ cpc[c] # "uclear"
  BY DEF RegisterCheck, RegisterAborted, StreamEnds, IoTypeOK, ConnPC
<1>3. (GuardSafe /\ Marked /\ SeenStream /\ MadeUnder /\ TakenAtNotify /\ ReceiverOpen)'
  BY <1>2 DEF GuardSafe, Marked, SeenStream, MadeUnder, TakenAtNotify, ReceiverOpen
<1>4. (Bounded /\ DisconnectedIsEmpty /\ NoSleepingDelivery)'
  BY <1>2, ShrinkingIsBounded DEF DisconnectedIsEmpty, SubscribersOf, NoSleepingDelivery
<1>5. SubscriberIsCurrent'
  BY <1>2 DEF SubscriberIsCurrent, Clearing
<1> QED BY <1>1, <1>3, <1>4, <1>5

LEMMA InvDiscMoves ==
  ASSUME IoInv, NEW d \in Disconnecters, MarkRevoked(d) \/ DisconnectAborted(d)
  PROVE  IoInv'
<1> USE OwnerAssumption, IoNamesAssumption DEF IoInv
<1>1. IoTypeOK'
  BY TypeDisc DEF Disconnecting
<1>2. /\ UNCHANGED <<streams, subs, woken, fwd, cpc, taken, bpc, rx, queue, gen>>
      /\ \A e \in Disconnecters \ {d} : dpc'[e] = dpc[e]
      /\ dpc'[d] \in {"remove", "dropped"} /\ dpc[d] # "notify"
      /\ dpc'[d] = "remove" => DTarget[d] \in revoked'
      /\ dpc[d] = "clear" => torn' = torn \cup {DTarget[d]}
      /\ torn \subseteq torn' /\ revoked \subseteq revoked'
  BY DEF MarkRevoked, DisconnectAborted, IoTypeOK, DiscPC
<1>3. GuardSafe'
  <2>1. CASE MarkRevoked(d)
    BY <1>2, <2>1 DEF MarkRevoked, RevokedReaders, GuardSafe
  <2>2. CASE DisconnectAborted(d)
    BY <1>2, <2>2 DEF DisconnectAborted, GuardSafe
  <2> QED BY <2>1, <2>2
<1>4. (Marked /\ SeenStream /\ MadeUnder /\ TakenAtNotify /\ ReceiverOpen)'
  BY <1>2 DEF Marked, SeenStream, MadeUnder, TakenAtNotify, ReceiverOpen
<1>5. (Bounded /\ DisconnectedIsEmpty /\ NoSleepingDelivery)'
  BY <1>2, ShrinkingIsBounded DEF DisconnectedIsEmpty, SubscribersOf, NoSleepingDelivery
<1>6. SubscriberIsCurrent'
  BY <1>2 DEF SubscriberIsCurrent, Clearing
<1> QED BY <1>1, <1>3, <1>4, <1>5, <1>6

\* A delivery begins with a subscriber it has found, and prunes only what it wakes.
LEMMA InvDeliver ==
  ASSUME IoInv, NEW c \in Chans, DeliverLookup(c) \/ DeliverTimeout(c) \/ Delivering(c)
  PROVE  IoInv'
<1> USE DEF IoInv
<1>1. IoTypeOK'
  BY TypeDeliver
<1>2. /\ UNCHANGED <<streams, revoked, cpc, dpc, taken, bpc, rx, gen, torn>>
      /\ subs' \subseteq subs /\ woken \subseteq woken' /\ subs \ subs' \subseteq woken'
      /\ \A c2 \in Chans : fwd'[c2] = fwd[c2] \/ fwd'[c2] = NoBridge \/ fwd'[c2] \in subs
  BY DEF IoTypeOK, DeliverLookup, DeliverTimeout, Delivering, DeliverWoken, DeliverSend, DeliverFails,
         Pruned, WokenByPrune
<1>3. (GuardSafe /\ Marked /\ SeenStream /\ MadeUnder /\ TakenAtNotify /\ ReceiverOpen)'
  BY <1>2 DEF GuardSafe, Marked, SeenStream, MadeUnder, TakenAtNotify, ReceiverOpen
<1>4. (Bounded /\ DisconnectedIsEmpty)'
  BY <1>2, ShrinkingIsBounded DEF DisconnectedIsEmpty, SubscribersOf
<1>5. SubscriberIsCurrent'
  BY <1>2 DEF SubscriberIsCurrent, Clearing
<1>6. NoSleepingDelivery'
  BY <1>2 DEF NoSleepingDelivery
<1> QED BY <1>1, <1>3, <1>4, <1>5, <1>6

LEMMA InvSubscribe ==
  ASSUME IoInv, NEW b \in Bridges, SubscribeInsert(b)
  PROVE  IoInv'
<1> USE OwnerAssumption, IoNamesAssumption DEF IoInv
<1>1. IoTypeOK'
  BY TypeBridge DEF Bridging
<1>2. /\ UNCHANGED <<streams, revoked, cpc, dpc, taken, rx, fwd, torn>>
      /\ bpc[b] = "insert" /\ bpc' = [bpc EXCEPT ![b] = "open"]
      /\ subs' \subseteq subs \cup {b} /\ woken \subseteq woken' /\ subs \ subs' \subseteq woken'
      /\ \A x \in Bridges \ {b} : gen'[x] = gen[x]
      /\ b \in subs' /\ ~RoomForStream => b \in subs /\ gen'[b] = gen[b]
      /\ RoomForStream => gen'[b] = streams[AgentOf[b]]
  BY DEF IoTypeOK, SubscribeInsert, Pruned, WokenByPrune
<1>3. AgentOf[b] \notin revoked /\ streams[AgentOf[b]] # NoChan
  BY <1>2 DEF GuardSafe, SeenStream
<1>4. (GuardSafe /\ Marked /\ SeenStream /\ TakenAtNotify /\ ReceiverOpen)'
  BY <1>2 DEF IoTypeOK, GuardSafe, Marked, SeenStream, TakenAtNotify, ReceiverOpen
<1>5. MadeUnder'
  BY <1>2, <1>3 DEF MadeUnder, IoTypeOK
<1>6. Bounded'
  <2>1. CASE RoomForStream
    BY <2>1, InsertIsBounded DEF SubscribeInsert
  <2>2. CASE ~RoomForStream
    BY <2>2, ShrinkingIsBounded DEF SubscribeInsert, Pruned
  <2> QED BY <2>1, <2>2
<1>7. DisconnectedIsEmpty'
  BY <1>2, <1>3 DEF DisconnectedIsEmpty, SubscribersOf, Marked, IoTypeOK
<1>8. SubscriberIsCurrent'
  BY <1>2 DEF SubscriberIsCurrent, Clearing, IoTypeOK
<1>9. NoSleepingDelivery'
  BY <1>2 DEF NoSleepingDelivery
<1> QED BY <1>1, <1>4, <1>5, <1>6, <1>7, <1>8, <1>9

LEMMA InvBridge ==
  ASSUME IoInv, NEW b \in Bridges,
         \/ SubscribeCheck(b) \/ SubscribeStreams(b) \/ BridgeReads(b) \/ BridgeEnds(b)
         \/ BridgeLeaves(b) \/ Unsubscribe(b)
  PROVE  IoInv'
<1> USE OwnerAssumption, IoNamesAssumption DEF IoInv
<1>1. IoTypeOK'
  BY TypeBridge DEF Bridging
<1>2. /\ UNCHANGED <<streams, revoked, cpc, dpc, taken, fwd, torn, gen>>
      /\ subs' \subseteq subs /\ woken \subseteq woken' /\ subs \ subs' \subseteq woken'
      /\ \A x \in Bridges \ {b} : bpc'[x] = bpc[x]
      /\ bpc'[b] \in {"streams", "insert"} => AgentOf[b] \notin revoked
      /\ bpc'[b] = "insert" => streams[AgentOf[b]] # NoChan
      /\ rx' \subseteq rx \cup {b}
      /\ b \in rx' => bpc'[b] # "unsub"
  <2> USE DEF IoTypeOK, BridgePC, GuardSafe, SeenStream, ReceiverOpen, Refused
  <2>1. CASE SubscribeCheck(b) BY <2>1 DEF SubscribeCheck
  <2>2. CASE SubscribeStreams(b) BY <2>2 DEF SubscribeStreams
  <2>3. CASE BridgeReads(b) BY <2>3 DEF BridgeReads
  <2>4. CASE BridgeEnds(b) BY <2>4 DEF BridgeEnds
  <2>5. CASE BridgeLeaves(b) BY <2>5 DEF BridgeLeaves
  <2>6. CASE Unsubscribe(b) BY <2>6 DEF Unsubscribe, Pruned, WokenByPrune
  <2> QED BY <2>1, <2>2, <2>3, <2>4, <2>5, <2>6
<1>3. (GuardSafe /\ Marked /\ SeenStream /\ MadeUnder /\ TakenAtNotify /\ ReceiverOpen)'
  BY <1>2 DEF GuardSafe, Marked, SeenStream, MadeUnder, TakenAtNotify, ReceiverOpen, IoTypeOK
<1>4. (Bounded /\ DisconnectedIsEmpty)'
  BY <1>2, ShrinkingIsBounded DEF DisconnectedIsEmpty, SubscribersOf
<1>5. SubscriberIsCurrent'
  BY <1>2 DEF SubscriberIsCurrent, Clearing
<1>6. NoSleepingDelivery'
  BY <1>2 DEF NoSleepingDelivery
<1> QED BY <1>1, <1>3, <1>4, <1>5, <1>6

LEMMA InvStutter == IoInv /\ UNCHANGED ioVars => IoInv'
<1> SUFFICES ASSUME IoInv, UNCHANGED ioVars PROVE IoInv'
  OBVIOUS
<1>1. (IoTypeOK /\ GuardSafe /\ Marked /\ SeenStream /\ MadeUnder /\ TakenAtNotify /\ ReceiverOpen)'
  BY DEF IoInv, ioVars, IoTypeOK, GuardSafe, Marked, SeenStream, MadeUnder, TakenAtNotify, ReceiverOpen
<1>2. (Bounded /\ SubscriberIsCurrent /\ DisconnectedIsEmpty /\ NoSleepingDelivery)'
  BY ShrinkingIsBounded DEF IoInv, ioVars, SubscriberIsCurrent, Clearing, DisconnectedIsEmpty,
     SubscribersOf, NoSleepingDelivery
<1> QED BY <1>1, <1>2 DEF IoInv

LEMMA IoInvNext == IoInv /\ [IoNext]_ioVars => IoInv'
<1>1. ASSUME IoInv, NEW c \in Chans,
             \/ RegisterCheck(c) \/ RegisterAborted(c) \/ StreamEnds(c) \/ DeliverLookup(c)
             \/ DeliverTimeout(c) \/ Cleaning(c) \/ Delivering(c)
      PROVE  IoInv'
  BY <1>1, InvConnMoves, InvInsert, InvConnClear, InvConnNotify, InvUnregister, InvDeliver
     DEF Cleaning
<1>2. ASSUME IoInv, NEW d \in Disconnecters, Disconnecting(d) \/ DisconnectAborted(d)
      PROVE  IoInv'
  BY <1>2, InvDiscMoves, InvRemove, InvDiscClear, InvDiscNotify DEF Disconnecting
<1>3. ASSUME IoInv, NEW b \in Bridges, SubscribeCheck(b) \/ BridgeLeaves(b) \/ Bridging(b)
      PROVE  IoInv'
  BY <1>3, InvSubscribe, InvBridge DEF Bridging
<1> QED BY <1>1, <1>2, <1>3, InvStutter DEF IoNext

\* IoInv holds in every reachable state of the registry.
THEOREM IoInvariance == IoSpec => []IoInv
<1>1. IoInit /\ [][IoNext]_ioVars => []IoInv
  BY IoInvInit, IoInvNext, PTL
<1> QED BY <1>1, PTL DEF IoSpec

-----------------------------------------------------------------------------
(* The results. *)

\* Every variable of the registry keeps its type; no queue holds more than it may.
THEOREM IoTypeCorrect == IoSpec => []IoTypeOK
<1>1. IoInv => IoTypeOK
  BY DEF IoInv
<1> QED BY <1>1, IoInvariance, PTL

\* take_agent_subscribers leaves no subscription behind that was made under a connection
\* which is no longer the Agent's, unless the call that should take it out was dropped.
THEOREM SubscribersAreCurrent == IoSpec => []SubscriberIsCurrent
<1>1. IoInv => SubscriberIsCurrent
  BY DEF IoInv
<1> QED BY <1>1, IoInvariance, PTL

\* Once disconnect_agent has taken the subscribers, no subscribe_stream and no
\* register_agent that was under way brings a subscriber or a stream back.
THEOREM DisconnectIsFinal == IoSpec => []DisconnectedIsEmpty
<1>1. IoInv => DisconnectedIsEmpty
  BY DEF IoInv
<1> QED BY <1>1, IoInvariance, PTL

\* subscribe_stream keeps to MAX_ACTIVE_IO_STREAMS, whoever subscribes when.
THEOREM LimitIsKept == IoSpec => []WithinStreamLimit
<1>1. IoInv => WithinStreamLimit
  BY DEF IoInv, Bounded
<1> QED BY <1>1, IoInvariance, PTL

\* deliver_from_agent does not sleep on the queue of a subscriber that was removed
\* without having been woken, or being about to be.
THEOREM DeliveriesAreWoken == IoSpec => []NoSleepingDelivery
<1>1. IoInv => NoSleepingDelivery
  BY DEF IoInv
<1> QED BY <1>1, IoInvariance, PTL

(***************************************************************************)
(* The cron scheduler.                                                     *)
(***************************************************************************)

-----------------------------------------------------------------------------
(* Least and greatest elements. *)

LEMMA LeastElement ==
  ASSUME NEW S \in SUBSET Nat, S # {}
  PROVE  Min(S) \in S /\ \A y \in S : Min(S) <= y
<1> DEFINE Below == {ss \in Nat \X Nat : ss[1] < ss[2]}
<1>1. IsWellFoundedOn(Below, Nat)
  BY NatLessThanWellFounded DEF OpToRel
<1>2. PICK x \in S : \A y \in S : ~(<<y, x>> \in Below)
  <2> HIDE DEF Below
  <2> QED BY <1>1, WFMin
<1>3. ASSUME NEW y \in S PROVE x =< y
  <2>1. x \in Nat /\ y \in Nat
    OBVIOUS
  <2>2. ~(<<y, x>> \in Below)
    BY <1>2
  <2>3. ~(y < x)
    BY <2>1, <2>2
  <2> QED BY <2>1, <2>3
<1> QED BY <1>3 DEF Min

LEMMA GreatestExists ==
  ASSUME NEW S \in SUBSET Nat, IsFiniteSet(S), S # {}
  PROVE  \E x \in S : \A y \in S : x >= y
<1> DEFINE HasMax(X) == \E x \in X : \A y \in X : x >= y
           Bad == {X \in SUBSET S : X # {} /\ ~HasMax(X)}
<1>1. SUFFICES ASSUME Bad # {} PROVE FALSE
  OBVIOUS
<1>2. IsWellFoundedOn(StrictSubsetOrdering(S), SUBSET S)
  BY FS_StrictSubsetOrderingWellFounded, FS_FiniteSubsetsOfFinite
<1>3. PICK X \in Bad : \A Y \in Bad : ~(<<Y, X>> \in StrictSubsetOrdering(S))
  <2>1. Bad \subseteq SUBSET S
    OBVIOUS
  <2> HIDE DEF Bad
  <2> QED BY <1>1, <1>2, <2>1, WFMin
<1>4. PICK x \in X : TRUE
  BY <1>3
<1> DEFINE Y == X \ {x}
<1>5. Y \notin Bad
  BY <1>3, <1>4 DEF StrictSubsetOrdering
<1>6. CASE Y = {}
  <2>1. X = {x}
    BY <1>4, <1>6
  <2> QED BY <1>3, <2>1
<1>7. CASE Y # {}
  <2>1. PICK m \in Y : \A y \in Y : m >= y
    BY <1>3, <1>5, <1>7
  <2>2. m \in Nat /\ x \in Nat /\ X \subseteq Nat
    BY <1>3, <1>4, <2>1
  <2>3. CASE x >= m
    <3>1. \A y \in X : x >= y
      BY <2>1, <2>2, <2>3
    <3> QED BY <1>3, <1>4, <3>1
  <2>4. CASE m >= x
    <3>1. \A y \in X : m >= y
      BY <2>1, <2>2, <2>4
    <3> QED BY <1>3, <2>1, <3>1
  <2> QED BY <2>2, <2>3, <2>4
<1> QED BY <1>6, <1>7

LEMMA GreatestElement ==
  ASSUME NEW S \in SUBSET Nat, IsFiniteSet(S), S # {}
  PROVE  Max(S) \in S /\ \A y \in S : Max(S) >= y
  BY GreatestExists DEF Max

-----------------------------------------------------------------------------
(* The next occurrence. *)

LEMMA NextOccurrence ==
  ASSUME NEW e \in Exprs, NEW t \in Times
  PROVE  /\ After(e, t) \in Times \cup {Never}
         /\ t < After(e, t)
         /\ \A o \in Occurs[e] : t < o => After(e, t) <= o
<1> DEFINE later == {o \in Occurs[e] : o > t}
<1> USE BoundsAssumption, ExprsAssumption DEF Times, Never
<1>1. later \subseteq Times /\ later \in SUBSET Nat
  OBVIOUS
<1>2. CASE later = {}
  BY <1>2 DEF After
<1>3. CASE later # {}
  <2>1. Min(later) \in later /\ \A y \in later : Min(later) <= y
    BY <1>1, <1>3, LeastElement
  <2>2. After(e, t) = Min(later)
    BY <1>3 DEF After
  <2> HIDE DEF later
  <2>3. Min(later) \in Times
    BY <1>1, <2>1
  <2>4. t < Min(later) /\ \A o \in Occurs[e] : t < o => Min(later) <= o
    BY <1>1, <2>1 DEF later
  <2> QED BY <2>2, <2>3, <2>4
<1> QED BY <1>2, <1>3

-----------------------------------------------------------------------------
(* A page of the listing. *)

LEMMA ListedType == Listed \subseteq Tasks /\ Usable \subseteq Listed
  BY DEF Listed, Usable

LEMMA ListedFinite == Listed \subseteq Nat /\ IsFiniteSet(Listed)
<1>1. Listed \subseteq Tasks
  BY ListedType
<1>2. IsFiniteSet(Listed)
  BY <1>1, TasksAssumption, FS_Subset
<1> QED BY <1>1, <1>2, TasksAssumption

\* What lies above a member of the page, and below the cursor, is in the page.
LEMMA PageIsDense ==
  ASSUME NEW c \in Int, NEW m \in Page(c), NEW t \in Listed, m <= t, t < c
  PROVE  t \in Page(c)
<1> DEFINE Above(x) == {u \in Listed : x < u /\ u < c}
<1>1. t \in Nat /\ m \in Nat /\ Listed \subseteq Nat /\ IsFiniteSet(Listed)
  BY ListedFinite DEF Page
<1>2. Above(t) \subseteq Above(m)
  <2> SUFFICES ASSUME NEW u \in Above(t) PROVE u \in Above(m)
    OBVIOUS
  <2>1. u \in Nat /\ u \in Listed /\ t < u /\ u < c
    BY <1>1
  <2>2. m < u
    BY <1>1, <2>1
  <2> QED BY <2>1, <2>2
<1>3. IsFiniteSet(Above(m)) /\ IsFiniteSet(Above(t))
  BY <1>1, FS_Subset
<1>4. Cardinality(Above(t)) <= Cardinality(Above(m))
  BY <1>2, <1>3, FS_Subset
<1>5. Cardinality(Above(m)) < Limit /\ Cardinality(Above(m)) \in Nat /\ Cardinality(Above(t)) \in Nat
  BY <1>3, FS_CardinalityType DEF Page
<1> HIDE DEF Above
<1>6. Cardinality(Above(t)) < Limit
  BY <1>4, <1>5, BoundsAssumption
<1> QED BY <1>6 DEF Page, Above

\* A page that is not full is the rest of the listing.
LEMMA ShortPageIsLast ==
  ASSUME NEW c \in Int, IsLast(Page(c)), NEW t \in Listed, t < c
  PROVE  t \in Page(c)
<1> DEFINE Missing == {u \in Listed : u < c /\ u \notin Page(c)}
<1>1. Listed \subseteq Nat /\ IsFiniteSet(Listed)
  BY ListedFinite
<1>2. SUFFICES ASSUME Missing # {} PROVE FALSE
  OBVIOUS
<1>3. IsFiniteSet(Missing) /\ Missing \in SUBSET Nat
  BY <1>1, FS_Subset
<1>4. PICK m \in Missing : \A y \in Missing : m >= y
  <2> HIDE DEF Missing
  <2> QED BY <1>2, <1>3, GreatestExists
<1> DEFINE Above == {u \in Listed : m < u /\ u < c}
<1>5. Above \subseteq Page(c)
  <2> SUFFICES ASSUME NEW u \in Above, u \notin Page(c) PROVE FALSE
    OBVIOUS
  <2>1. u \in Missing
    OBVIOUS
  <2>2. m >= u /\ m \in Nat /\ u \in Nat
    BY <1>1, <1>4, <2>1
  <2> QED BY <2>2
<1>6. IsFiniteSet(Page(c)) /\ Page(c) \subseteq Listed
  BY <1>1, FS_Subset DEF Page
<1>7. IsFiniteSet(Above) /\ Cardinality(Above) <= Cardinality(Page(c))
  BY <1>5, <1>6, FS_Subset
<1>8. Cardinality(Above) \in Nat /\ Cardinality(Page(c)) \in Nat
  BY <1>6, <1>7, FS_CardinalityType
<1>9. Cardinality(Page(c)) < Limit
  BY DEF IsLast
<1> HIDE DEF Above
<1>10. Cardinality(Above) < Limit
  BY <1>7, <1>8, <1>9, BoundsAssumption
<1>11. m \in Page(c)
  BY <1>4, <1>10 DEF Page, Above
<1> QED BY <1>4, <1>11

\* A full page has a least element, which is the next cursor.
LEMMA NextCursor ==
  ASSUME NEW c \in Int, ~IsLast(Page(c))
  PROVE  /\ Min(Page(c)) \in Page(c) /\ \A t \in Page(c) : Min(Page(c)) <= t
         /\ Min(Page(c)) \in Nat /\ Min(Page(c)) < c
<1>1. Page(c) \in SUBSET Nat
  BY TasksAssumption, ListedType DEF Page
<1>2. Page(c) # {}
  BY FS_EmptySet, BoundsAssumption DEF IsLast
<1>3. Min(Page(c)) \in Page(c) /\ \A t \in Page(c) : Min(Page(c)) <= t
  BY <1>1, <1>2, LeastElement
<1> QED BY <1>1, <1>3 DEF Page

-----------------------------------------------------------------------------
(* The inductive invariant. *)

Scan == {"scan", "commit"}

\* The clock does not go back: what has been started was seen by now, and by
\* the `now' of the scan in progress.
Clock ==
    /\ now <= time
    /\ \A x \in starts \cup todo : x.at <= time
    /\ pc \in Scan => \A x \in starts \cup todo : x.at <= now

Phase == pc = "idle" => todo = {}

\* The next_run of an entry lies after every start of the same expression.
Ahead(m, S) ==
    \A t \in Tasks : m[t] # NoEntry =>
        \A x \in S : (x.task = t /\ x.expr = m[t].expr) => x.at < m[t].next

EntriesAhead ==
    /\ Ahead(scheduled, starts)
    /\ pc = "run" => Ahead(scheduled, starts \cup todo)
    /\ pc \in Scan => Ahead(draft, starts \cup todo)

\* The pages go down: what was read lies at or above the cursor, and every task
\* that a scan must see and has passed was seen.
Downwards ==
    pc = "scan" =>
        /\ \A t \in observed : cursor <= t
        /\ \A t \in stable : t \in Usable /\ (cursor <= t => t \in observed)

Covers(S, t, o) == \E x \in S : x.task = t /\ x.due <= o /\ o <= x.at

CoveredFrom(f, entry, S, t) ==
    \A o \in Occurs[entry.expr] : (f < o /\ o < entry.next) => Covers(S, t, o)

\* When a scan that puts its draft in place has first observed a task.
NewFirst(t) ==
    IF scheduled[t] = NoEntry \/ scheduled[t].expr # draft[t].expr THEN now ELSE first[t]

DraftIsCovered ==
    pc \in Scan =>
        /\ \A t \in Tasks \ observed : draft[t] = scheduled[t]
        /\ \A t \in observed :
              /\ draft[t] # NoEntry /\ NewFirst(t) < draft[t].next
              /\ CoveredFrom(NewFirst(t), draft[t], starts \cup todo, t)
        /\ \A x \in todo :
              /\ x.task \in observed /\ scheduled[x.task] # NoEntry
              /\ scheduled[x.task].expr = draft[x.task].expr

FirstBefore == \A t \in Tasks : scheduled[t] # NoEntry => first[t] < scheduled[t].next

IInv ==
    /\ TypeOK /\ IsFiniteSet(busy)
    /\ Clock /\ Phase
    /\ EntriesAhead
    /\ Downwards /\ ScanIsComplete
    /\ DraftIsCovered
    /\ FirstBefore
    /\ NoOccurrenceSkipped /\ OccurrenceRunsOnce /\ DueAfterObserved

-----------------------------------------------------------------------------
(* Type correctness. *)

LEMMA Zero == 0 \in Times /\ \A t \in Times : t \in Nat /\ t # Never
  BY BoundsAssumption DEF Times, Never

LEMMA UsableRow ==
  ASSUME TypeOK, NEW t \in Usable
  PROVE  t \in Tasks /\ row[t] \in Row /\ row[t].expr \in Exprs
<1>1. t \in Tasks /\ row[t] \in Row \cup {NoTask, Deleted} /\ row[t] \notin {NoTask, Deleted}
  BY DEF TypeOK, Usable, Listed, Exists
<1>2. row[t] \in Row /\ row[t].expr # NoExpr
  BY <1>1 DEF Usable, Listed
<1> QED BY <1>1, <1>2 DEF Row

LEMMA EntryParts ==
  ASSUME NEW e, e \in Entry \cup {NoEntry}, e # NoEntry
  PROVE  e \in Entry /\ e.expr \in Exprs /\ e.next \in Times \cup {Never} /\ e.next \in Nat
<1>1. e \in Entry
  OBVIOUS
<1>2. e.expr \in Exprs /\ e.next \in Times \cup {Never}
  BY <1>1 DEF Entry
<1> QED BY <1>1, <1>2, BoundsAssumption DEF Times, Never

LEMMA NewEntry ==
  ASSUME NEW e \in Exprs, NEW t \in Times
  PROVE  /\ [expr |-> e, next |-> After(e, t)] \in Entry
         /\ [expr |-> e, next |-> After(e, t)] # NoEntry
  BY NextOccurrence, NamesAssumption DEF Entry

LEMMA UpdatedType ==
  ASSUME NEW old \in Entry \cup {NoEntry}, NEW e \in Exprs, now \in Times
  PROVE  Updated(old, e) \in Entry /\ Updated(old, e) # NoEntry /\ Updated(old, e).expr = e
<1>1. CASE old = NoEntry \/ old.expr # e \/ ShouldRun(old, e)
  BY <1>1, NewEntry DEF Updated
<1>2. CASE ~(old = NoEntry \/ old.expr # e \/ ShouldRun(old, e))
  BY <1>2 DEF Updated
<1> QED BY <1>1, <1>2

LEMMA StartParts ==
  ASSUME NEW x \in Start
  PROVE  x.task \in Tasks /\ x.expr \in Exprs /\ x.due \in Nat /\ x.at \in Nat
  BY BoundsAssumption DEF Start, Times

\* The starts a page adds.
Due(page) == {t \in page \cap Usable : ShouldRun(draft[t], row[t].expr)}
StartOf(t) == [task |-> t, expr |-> row[t].expr, due |-> draft[t].next, at |-> now]

LEMMA DueParts ==
  ASSUME TypeOK, NEW page, NEW t \in Due(page)
  PROVE  /\ t \in Usable /\ t \in Tasks /\ draft[t] # NoEntry /\ draft[t].expr = row[t].expr
         /\ draft[t].next <= now /\ draft[t].next \in Times
         /\ StartOf(t) \in Start
<1>1. t \in Usable /\ t \in Tasks /\ row[t].expr \in Exprs
  BY UsableRow DEF Due
<1>2. draft[t] # NoEntry /\ draft[t].expr = row[t].expr /\ now >= draft[t].next /\ now \in Times
  BY DEF Due, ShouldRun, TypeOK
<1>3. draft[t].next \in Times \cup {Never} /\ draft[t].next \in Nat
  BY <1>1, <1>2, EntryParts DEF TypeOK
<1>4. draft[t].next \in Times /\ draft[t].next <= now
  BY <1>2, <1>3, BoundsAssumption DEF Times, Never
<1> QED BY <1>1, <1>2, <1>4 DEF StartOf, Start

LEMMA TypeInit == Init => TypeOK /\ IsFiniteSet(busy)
<1> SUFFICES ASSUME Init PROVE TypeOK /\ IsFiniteSet(busy)
  OBVIOUS
<1>1. IsFiniteSet(busy) /\ Cardinality(busy) <= MaxParallel
  BY FS_EmptySet, BoundsAssumption DEF Init
<1>2. \A e \in Exprs : [expr |-> e, enabled |-> TRUE] \in Row
  BY DEF Row
<1>3. row \in [Tasks -> Row \cup {NoTask, Deleted}]
  BY <1>2 DEF Init
<1>4. edit \in [Editors -> Edits]
  BY DEF Init, Edits
<1> QED BY <1>1, <1>3, <1>4, Zero, BoundsAssumption DEF Init, TypeOK

\* A request changes rows, and no row that a scan must see goes unnoticed.
LEMMA EditorFrame ==
  ASSUME TypeOK, NEW u \in Editors, Create(u) \/ EditRead(u) \/ EditWrite(u)
  PROVE  /\ UNCHANGED <<time, scheduled, pc, scanVars, todo, busy, failures, restarts, first, starts>>
         /\ row' \in [Tasks -> Row \cup {NoTask, Deleted}] /\ edit' \in [Editors -> Edits]
         /\ stable' \subseteq stable /\ \A t \in stable' : row'[t] = row[t]
<1>0. [task |-> 0, row |-> Deleted] \in Edits
  BY DEF Edits
<1>1. CASE Create(u)
  <2>1. PICK t \in Tasks, e \in Exprs \cup {NoExpr} : Write(t, [expr |-> e, enabled |-> TRUE])
    BY <1>1 DEF Create
  <2>2. [expr |-> e, enabled |-> TRUE] \in Row
    BY DEF Row
  <2>3. UNCHANGED <<time, scheduled, pc, scanVars, todo, busy, failures, restarts, first, starts>>
        /\ Finish(u)
    BY <1>1 DEF Create
  <2> QED BY <1>0, <2>1, <2>2, <2>3 DEF Write, Finish, TypeOK
<1>2. CASE EditRead(u)
  <2>1. UNCHANGED <<time, row, stable, scheduled, pc, scanVars, todo, busy, failures, restarts, first, starts>>
    BY <1>2 DEF EditRead
  <2>2. PICK t \in Tasks, e \in Exprs \cup {NoExpr}, b \in BOOLEAN :
          /\ Exists(t)
          /\ \E x \in {[row[t] EXCEPT !.enabled = b], [row[t] EXCEPT !.expr = e], Deleted} :
                edit' = [edit EXCEPT ![u] = [task |-> t, row |-> x]]
    BY <1>2 DEF EditRead
  <2>3. row[t] \in Row
    BY <2>2 DEF Exists, TypeOK
  <2>4. {[row[t] EXCEPT !.enabled = b], [row[t] EXCEPT !.expr = e], Deleted} \subseteq Row \cup {Deleted}
    BY <2>3 DEF Row
  <2>5. PICK x \in Row \cup {Deleted} : edit' = [edit EXCEPT ![u] = [task |-> t, row |-> x]]
    BY <2>2, <2>4
  <2>6. [task |-> t, row |-> x] \in Edits
    BY DEF Edits
  <2> QED BY <2>1, <2>5, <2>6 DEF TypeOK
<1>3. CASE EditWrite(u)
  <2>1. /\ UNCHANGED <<time, scheduled, pc, scanVars, todo, busy, failures, restarts, first, starts>>
        /\ Finish(u) /\ edit[u].task # 0
    BY <1>3 DEF EditWrite
  <2>2. CASE Exists(edit[u].task)
    <3>1. Write(edit[u].task, edit[u].row)
      BY <1>3, <2>2 DEF EditWrite
    <3>2. edit[u].task \in Tasks /\ edit[u].row \in Row \cup {Deleted}
      BY <2>1 DEF TypeOK, Edits, Idle
    <3> QED BY <1>0, <2>1, <3>1, <3>2 DEF Write, Finish, TypeOK
  <2>3. CASE ~Exists(edit[u].task)
    BY <1>0, <1>3, <2>1, <2>3 DEF EditWrite, Finish, TypeOK
  <2> QED BY <2>2, <2>3
<1> QED BY <1>1, <1>2, <1>3

\* What reading a page does.
LEMMA PageFacts ==
  ASSUME TypeOK, LoadPage
  PROVE  LET page == Page(cursor)
             good == page \cap Usable
         IN  /\ good \subseteq Tasks /\ \A t \in good : t < cursor /\ t \in Usable
             /\ \A t \in Tasks \ good : draft'[t] = draft[t]
             /\ \A t \in good : draft'[t] = Updated(draft[t], row[t].expr)
             /\ observed' = observed \cup good
             /\ todo' = todo \cup {StartOf(t) : t \in Due(page)}
             /\ pc = "scan"
             /\ IF IsLast(page) THEN pc' = "commit" /\ cursor' = cursor
                                ELSE pc' = "scan" /\ cursor' = Min(page)
             /\ UNCHANGED <<time, rowVars, scheduled, now, busy, failures, restarts, first, starts>>
  BY ListedType DEF LoadPage, Page, Due, StartOf

LEMMA TypeLoadPage ==
  ASSUME TypeOK, LoadPage
  PROVE  TypeOK'
<1> DEFINE page == Page(cursor)
           good == page \cap Usable
<1>1. draft' \in [Tasks -> Entry \cup {NoEntry}]
  <2>1. ASSUME NEW t \in good PROVE Updated(draft[t], row[t].expr) \in Entry
    <3>1. t \in Tasks /\ row[t].expr \in Exprs
      BY UsableRow
    <3>2. draft[t] \in Entry \cup {NoEntry} /\ now \in Times
      BY <3>1 DEF TypeOK
    <3> QED BY <3>1, <3>2, UpdatedType
  <2>2. draft' = [t \in Tasks |-> IF t \in good THEN Updated(draft[t], row[t].expr) ELSE draft[t]]
    BY DEF LoadPage
  <2> HIDE DEF good
  <2> QED BY <2>1, <2>2 DEF TypeOK
<1>2. todo' \subseteq Start
  <2>1. \A t \in Due(page) : StartOf(t) \in Start
    BY DueParts
  <2> QED BY <2>1, PageFacts DEF TypeOK
<1>3. cursor' \in Int /\ pc' \in {"idle", "scan", "commit", "run"}
  BY PageFacts, NextCursor DEF TypeOK
<1>4. observed' \subseteq Tasks
  BY PageFacts DEF TypeOK
<1> QED BY <1>1, <1>2, <1>3, <1>4, PageFacts DEF TypeOK

LEMMA ReturnTypes ==
  ASSUME TypeOK, ScanReturns
  PROVE  /\ now' \in Times /\ draft' \in [Tasks -> Entry \cup {NoEntry}]
         /\ observed' \subseteq Tasks /\ cursor' \in Int /\ stable' \subseteq Tasks
  BY Zero DEF ScanReturns, TypeOK

LEMMA TypeStep ==
  ASSUME TypeOK, IsFiniteSet(busy), Next
  PROVE  TypeOK' /\ IsFiniteSet(busy')
<1>1. CASE ScanStart
  <2>1. cursor' \in Int
    BY <1>1, GreatestElement, TasksAssumption DEF ScanStart
  <2>2. stable' \subseteq Tasks
    BY <1>1, ListedType DEF ScanStart
  <2> QED BY <1>1, <2>1, <2>2 DEF ScanStart, TypeOK
<1>2. CASE LoadPage
  <2>1. busy' = busy
    BY <1>2, PageFacts
  <2> QED BY <1>2, <2>1, TypeLoadPage
<1>3. CASE Commit
  <2>1. now \in Times /\ first \in [Tasks -> Times]
    BY DEF TypeOK
  <2>2. first' \in [Tasks -> Times] /\ scheduled' \in [Tasks -> Entry \cup {NoEntry}]
    BY <1>3, <2>1 DEF Commit, TypeOK
  <2> QED BY <1>3, <2>2, ReturnTypes DEF Commit, TypeOK
<1>4. CASE PageFails
  <2>1. failures' \in 0..MaxFailures
    BY <1>4, BoundsAssumption DEF PageFails, TypeOK
  <2> QED BY <1>4, <2>1, ReturnTypes DEF PageFails, TypeOK
<1>5. CASE Execute
  <2>1. PICK x \in todo : /\ todo' = todo \ {x} /\ busy' = busy \cup {x} /\ starts' = starts \cup {x}
    BY <1>5 DEF Execute
  <2>2. /\ UNCHANGED <<time, rowVars, scheduled, pc, scanVars, failures, restarts, first>>
        /\ Cardinality(busy) < MaxParallel
    BY <1>5 DEF Execute
  <2>3. /\ IsFiniteSet(busy') /\ Cardinality(busy) \in Nat
        /\ Cardinality(busy') = Cardinality(busy) \/ Cardinality(busy') = Cardinality(busy) + 1
    BY <2>1, FS_AddElement, FS_CardinalityType
  <2>4. Cardinality(busy') <= MaxParallel
    BY <2>2, <2>3, BoundsAssumption
  <2> QED BY <2>1, <2>2, <2>3, <2>4 DEF TypeOK
<1>6. CASE ExecuteEnds
  <2>1. PICK x \in busy : busy' = busy \ {x}
    BY <1>6 DEF ExecuteEnds
  <2>2. IsFiniteSet(busy') /\ Cardinality(busy') = Cardinality(busy) - 1 /\ Cardinality(busy) \in Nat
    BY <2>1, FS_RemoveElement, FS_CardinalityType
  <2>3. Cardinality(busy') <= MaxParallel
    BY <2>2, BoundsAssumption DEF TypeOK
  <2> QED BY <1>6, <2>1, <2>2, <2>3 DEF ExecuteEnds, TypeOK
<1>7. CASE RoundEnds
  BY <1>7 DEF RoundEnds, TypeOK
<1>8. ASSUME NEW u \in Editors, Create(u) \/ EditRead(u) \/ EditWrite(u)
      PROVE  TypeOK' /\ IsFiniteSet(busy')
  BY <1>8, EditorFrame DEF TypeOK
<1>9. CASE Tick
  <2>1. time' \in Times
    BY <1>9, BoundsAssumption DEF Tick, TypeOK, Times
  <2> QED BY <1>9, <2>1 DEF Tick, TypeOK
<1>10. CASE Restart
  <2>1. IsFiniteSet(busy') /\ Cardinality(busy') <= MaxParallel
    BY <1>10, FS_EmptySet, BoundsAssumption DEF Restart
  <2>2. restarts' \in 0..MaxRestarts
    BY <1>10, BoundsAssumption DEF Restart, TypeOK
  <2> QED BY <1>10, <2>1, <2>2, ReturnTypes DEF Restart, TypeOK
<1> QED BY <1>1, <1>2, <1>3, <1>4, <1>5, <1>6, <1>7, <1>8, <1>9, <1>10 DEF Next, Scanning

-----------------------------------------------------------------------------
(* The steps that leave the scheduler's own state alone. *)

LEMMA InvInit == Init => IInv
<1> SUFFICES ASSUME Init PROVE IInv
  OBVIOUS
<1>1. TypeOK /\ IsFiniteSet(busy)
  BY TypeInit
<1>2. Clock /\ Phase /\ EntriesAhead
  BY DEF Init, Clock, Phase, EntriesAhead, Ahead, Scan
<1>3. Downwards /\ ScanIsComplete /\ DraftIsCovered /\ FirstBefore
  BY DEF Init, Downwards, ScanIsComplete, DraftIsCovered, FirstBefore, Scan
<1>4. NoOccurrenceSkipped /\ OccurrenceRunsOnce /\ DueAfterObserved
  BY DEF Init, NoOccurrenceSkipped, OccurrenceRunsOnce, DueAfterObserved
<1> QED BY <1>1, <1>2, <1>3, <1>4 DEF IInv

LEMMA Kept ==
  ASSUME IInv, UNCHANGED <<scheduled, pc, now, draft, observed, todo, starts, first>>,
         time' \in Nat, time <= time'
  PROVE  (Clock /\ Phase /\ EntriesAhead /\ DraftIsCovered /\ FirstBefore
          /\ NoOccurrenceSkipped /\ OccurrenceRunsOnce /\ DueAfterObserved)'
<1>1. Clock'
  <2>1. now \in Nat /\ time \in Nat /\ \A x \in starts \cup todo : x.at \in Nat
    BY StartParts, Zero DEF IInv, TypeOK
  <2> QED BY <2>1 DEF IInv, Clock
<1>2. (Phase /\ EntriesAhead /\ FirstBefore)'
  BY DEF IInv, Phase, EntriesAhead, Ahead, FirstBefore
<1>3. DraftIsCovered'
  BY DEF IInv, DraftIsCovered, NewFirst, CoveredFrom, Covers
<1>4. (NoOccurrenceSkipped /\ OccurrenceRunsOnce /\ DueAfterObserved)'
  BY DEF IInv, NoOccurrenceSkipped, OccurrenceRunsOnce, DueAfterObserved
<1> QED BY <1>1, <1>2, <1>3, <1>4

LEMMA InvEditors ==
  ASSUME IInv, NEW u \in Editors, Create(u) \/ EditRead(u) \/ EditWrite(u)
  PROVE  IInv'
<1>1. /\ UNCHANGED <<time, scheduled, pc, scanVars, todo, busy, failures, restarts, first, starts>>
      /\ stable' \subseteq stable /\ \A t \in stable' : row'[t] = row[t]
  BY EditorFrame DEF IInv
<1>2. TypeOK' /\ IsFiniteSet(busy')
  BY TypeStep DEF IInv, Next
<1>3. time' \in Nat /\ time <= time'
  BY <1>1, Zero DEF IInv, TypeOK
<1>4. ScanIsComplete'
  BY <1>1 DEF IInv, ScanIsComplete
<1>5. Downwards'
  <2>1. \A t \in stable' : t \in Usable => t \in Usable'
    BY <1>1 DEF Usable, Listed, Exists
  <2> QED BY <1>1, <2>1 DEF IInv, Downwards
<1> QED BY <1>1, <1>2, <1>3, <1>4, <1>5, Kept DEF IInv

LEMMA InvQuiet ==
  ASSUME IInv, Tick \/ ExecuteEnds \/ UNCHANGED vars
  PROVE  IInv'
<1>1. /\ UNCHANGED <<scheduled, pc, now, draft, observed, todo, starts, first, row, stable, cursor>>
      /\ time' = time \/ time' = time + 1
  BY DEF Tick, ExecuteEnds, vars
<1>2. time' \in Nat /\ time <= time'
  BY <1>1, Zero DEF IInv, TypeOK
<1>3. TypeOK' /\ IsFiniteSet(busy')
  <2>1. CASE Tick \/ ExecuteEnds
    BY <2>1, TypeStep DEF IInv, Next
  <2>2. CASE UNCHANGED vars
    BY <2>2 DEF IInv, vars, TypeOK
  <2> QED BY <2>1, <2>2
<1>4. (Downwards /\ ScanIsComplete)'
  BY <1>1 DEF IInv, Downwards, ScanIsComplete, Usable, Listed, Exists
<1> QED BY <1>1, <1>2, <1>3, <1>4, Kept DEF IInv

-----------------------------------------------------------------------------
(* A round. *)

LEMMA InvScanStart ==
  ASSUME IInv, ScanStart
  PROVE  IInv'
<1> USE DEF IInv
<1>1. TypeOK' /\ IsFiniteSet(busy')
  BY TypeStep DEF Next, Scanning
<1>2. /\ pc = "idle" /\ pc' = "scan" /\ now' = time /\ draft' = scheduled /\ observed' = {}
      /\ cursor' = 1 + Max(Tasks) /\ stable' = Usable /\ todo = {}
      /\ UNCHANGED <<time, row, edit, scheduled, todo, busy, failures, restarts, first, starts>>
  BY DEF ScanStart, Phase
<1>3. Clock' /\ Phase'
  <2>1. time \in Nat
    BY Zero DEF TypeOK
  <2> QED BY <1>2, <2>1 DEF Clock, Phase
<1>4. EntriesAhead'
  BY <1>2 DEF EntriesAhead, Ahead
<1>5. Downwards'
  <2>1. ASSUME NEW t \in Tasks PROVE ~(cursor' <= t)
    <3>1. Max(Tasks) \in Nat /\ t \in Nat /\ Max(Tasks) >= t
      BY GreatestElement, TasksAssumption
    <3> QED BY <1>2, <3>1
  <2>2. Usable' = Usable /\ Usable \subseteq Tasks
    BY <1>2 DEF Usable, Listed, Exists
  <2> QED BY <1>2, <2>1, <2>2 DEF Downwards
<1>6. (ScanIsComplete /\ DraftIsCovered /\ FirstBefore)'
  BY <1>2 DEF ScanIsComplete, DraftIsCovered, FirstBefore
<1>7. (NoOccurrenceSkipped /\ OccurrenceRunsOnce /\ DueAfterObserved)'
  BY <1>2 DEF NoOccurrenceSkipped, OccurrenceRunsOnce, DueAfterObserved
<1> QED BY <1>1, <1>3, <1>4, <1>5, <1>6, <1>7

LEMMA InvReset ==
  ASSUME IInv, PageFails \/ Restart
  PROVE  IInv'
<1> USE DEF IInv
<1>1. TypeOK' /\ IsFiniteSet(busy')
  BY TypeStep DEF Next
<1>2. /\ pc' = "idle" /\ todo' = {} /\ now' = 0 /\ stable' = {}
      /\ UNCHANGED <<time, first, starts>>
      /\ \A t \in Tasks : scheduled'[t] # NoEntry => pc = "scan" /\ scheduled'[t] = scheduled[t]
  BY DEF PageFails, Restart, ScanReturns
<1>3. Clock' /\ Phase'
  BY <1>2, Zero DEF Clock, Phase, Scan, TypeOK
<1>4. EntriesAhead'
  BY <1>2 DEF EntriesAhead, Ahead, Scan
<1>5. (Downwards /\ ScanIsComplete /\ DraftIsCovered /\ FirstBefore)'
  BY <1>2 DEF Downwards, ScanIsComplete, DraftIsCovered, FirstBefore, Scan
<1>6. NoOccurrenceSkipped'
  BY <1>2 DEF NoOccurrenceSkipped
<1>7. (OccurrenceRunsOnce /\ DueAfterObserved)'
  BY <1>2 DEF OccurrenceRunsOnce, DueAfterObserved
<1> QED BY <1>1, <1>3, <1>4, <1>5, <1>6, <1>7

LEMMA InvCommit ==
  ASSUME IInv, Commit
  PROVE  IInv'
<1> USE DEF IInv
<1>1. TypeOK' /\ IsFiniteSet(busy')
  BY TypeStep DEF Next, Scanning
<1>2. /\ pc = "commit" /\ pc' = "run" /\ now' = 0
      /\ UNCHANGED <<time, todo, starts>>
      /\ \A t \in Tasks \ observed : scheduled'[t] = NoEntry
      /\ \A t \in observed : scheduled'[t] = draft[t] /\ first'[t] = NewFirst(t)
      /\ observed \subseteq Tasks
  BY DEF Commit, ScanReturns, NewFirst, TypeOK
<1>3. Clock' /\ Phase'
  BY <1>2, Zero DEF Clock, Phase, Scan, TypeOK
<1>4. EntriesAhead'
  <2>1. Ahead(draft, starts \cup todo)
    BY <1>2 DEF EntriesAhead, Scan
  <2> QED BY <1>2, <2>1 DEF EntriesAhead, Ahead, Scan
<1>5. (Downwards /\ ScanIsComplete /\ DraftIsCovered)'
  BY <1>2 DEF Downwards, ScanIsComplete, DraftIsCovered, Scan
<1>6. FirstBefore'
  BY <1>2 DEF FirstBefore, DraftIsCovered, Scan
<1>7. NoOccurrenceSkipped'
  <2> SUFFICES ASSUME NEW t \in observed, NEW o \in Occurs[draft[t].expr],
                      NewFirst(t) < o, o < draft[t].next
               PROVE  \E x \in starts \cup todo : x.task = t /\ x.due <= o /\ o <= x.at
    BY <1>2 DEF NoOccurrenceSkipped
  <2>1. CoveredFrom(NewFirst(t), draft[t], starts \cup todo, t)
    BY <1>2 DEF DraftIsCovered, Scan
  <2> QED BY <2>1 DEF CoveredFrom, Covers
<1>8. OccurrenceRunsOnce'
  BY <1>2 DEF OccurrenceRunsOnce
<1>9. DueAfterObserved'
  <2>1. \A x \in todo : first'[x.task] = first[x.task]
    BY <1>2 DEF DraftIsCovered, Scan, NewFirst
  <2> QED BY <1>2, <2>1 DEF DueAfterObserved
<1> QED BY <1>1, <1>3, <1>4, <1>5, <1>6, <1>7, <1>8, <1>9

LEMMA InvRun ==
  ASSUME IInv, Execute \/ RoundEnds
  PROVE  IInv'
<1> USE DEF IInv
<1>1. TypeOK' /\ IsFiniteSet(busy')
  BY TypeStep DEF Next
<1>2. /\ pc = "run" /\ UNCHANGED <<time, now, scheduled, first>>
      /\ starts \subseteq starts' /\ todo' \subseteq todo /\ starts' \cup todo' = starts \cup todo
      /\ pc' = "run" \/ (pc' = "idle" /\ todo' = {})
  <2>1. CASE Execute
    <3>1. PICK x \in todo : todo' = todo \ {x} /\ starts' = starts \cup {x}
      BY <2>1 DEF Execute
    <3>2. starts' \cup todo' = starts \cup todo
      BY <3>1
    <3> QED BY <2>1, <3>1, <3>2 DEF Execute
  <2>2. CASE RoundEnds
    BY <2>2 DEF RoundEnds
  <2> QED BY <2>1, <2>2
<1>3. Clock' /\ Phase'
  BY <1>2 DEF Clock, Phase, Scan
<1>4. EntriesAhead'
  <2>1. Ahead(scheduled, starts' \cup todo')
    BY <1>2 DEF EntriesAhead
  <2> QED BY <1>2, <2>1 DEF EntriesAhead, Ahead, Scan
<1>5. (Downwards /\ ScanIsComplete /\ DraftIsCovered /\ FirstBefore)'
  BY <1>2 DEF Downwards, ScanIsComplete, DraftIsCovered, FirstBefore, Scan
<1>6. NoOccurrenceSkipped'
  <2>1. starts' \cup (IF pc' = "run" THEN todo' ELSE {}) = starts \cup todo
    BY <1>2
  <2> QED BY <1>2, <2>1 DEF NoOccurrenceSkipped
<1>7. (OccurrenceRunsOnce /\ DueAfterObserved)'
  BY <1>2 DEF OccurrenceRunsOnce, DueAfterObserved
<1> QED BY <1>1, <1>3, <1>4, <1>5, <1>6, <1>7

-----------------------------------------------------------------------------
(* Reading a page. *)

LEMMA InvLoadPage ==
  ASSUME IInv, LoadPage
  PROVE  IInv'
<1> DEFINE page == Page(cursor)
           good == page \cap Usable
           new == {StartOf(t) : t \in Due(page)}
<1> USE DEF IInv
<1>1. TypeOK' /\ IsFiniteSet(busy')
  BY TypeStep DEF Next, Scanning
<1>2. /\ good \subseteq Tasks /\ \A t \in good : t < cursor /\ t \in Usable
      /\ \A t \in Tasks \ good : draft'[t] = draft[t]
      /\ \A t \in good : draft'[t] = Updated(draft[t], row[t].expr)
      /\ observed' = observed \cup good
      /\ todo' = todo \cup new
      /\ pc = "scan" /\ pc' \in {"scan", "commit"}
      /\ UNCHANGED <<time, rowVars, scheduled, now, busy, failures, restarts, first, starts>>
  BY PageFacts
<1>3. /\ \A t \in good : t \in Nat /\ t \notin observed /\ draft[t] = scheduled[t]
      /\ cursor \in Int /\ now \in Times /\ now \in Nat /\ time \in Nat
      /\ observed \subseteq Tasks
  <2>1. cursor \in Int /\ now \in Times /\ time \in Times /\ observed \subseteq Tasks
    BY DEF TypeOK
  <2>2. \A t \in good : t \in Nat
    BY <1>2, TasksAssumption
  <2>3. \A t \in good : t \notin observed
    BY <1>2, <2>1, <2>2, TasksAssumption DEF Downwards
  <2>4. \A t \in good : draft[t] = scheduled[t]
    BY <1>2, <2>3 DEF DraftIsCovered, Scan
  <2> QED BY <2>1, <2>2, <2>3, <2>4, Zero
<1>4. ASSUME NEW t \in good PROVE row[t].expr \in Exprs /\ draft[t] \in Entry \cup {NoEntry}
  BY <1>2, UsableRow DEF TypeOK
<1>5. ASSUME NEW x \in new
      PROVE  /\ x \in Start /\ x.task \in good /\ x.at = now /\ x.expr = row[x.task].expr
             /\ draft[x.task] # NoEntry /\ draft[x.task].expr = x.expr
             /\ x.due = draft[x.task].next /\ x.due <= now
             /\ ShouldRun(draft[x.task], row[x.task].expr)
  <2>1. PICK t \in Due(page) : x = StartOf(t)
    OBVIOUS
  <2>2. /\ t \in Usable /\ draft[t] # NoEntry /\ draft[t].expr = row[t].expr
        /\ draft[t].next <= now /\ StartOf(t) \in Start
    BY <2>1, DueParts
  <2>3. t \in page /\ ShouldRun(draft[t], row[t].expr)
    BY DEF Due
  <2> HIDE DEF page
  <2> QED BY <2>1, <2>2, <2>3 DEF StartOf
<1>6. \A x \in starts \cup todo : x.task \in Tasks /\ x.at \in Nat /\ x.due \in Nat
  BY StartParts DEF TypeOK
<1> HIDE DEF new, good
<1>7. Clock' /\ Phase'
  <2>1. \A x \in new : x.at = now
    BY <1>5
  <2>2. now <= time /\ \A x \in starts \cup todo : x.at <= now /\ x.at <= time
    BY <1>2 DEF Clock, Scan
  <2> QED BY <1>2, <1>3, <2>1, <2>2 DEF Clock, Phase
<1>8. EntriesAhead'
  <2> SUFFICES ASSUME NEW t \in Tasks, draft'[t] # NoEntry, NEW x \in starts \cup todo \cup new,
                      x.task = t, x.expr = draft'[t].expr
               PROVE  x.at < draft'[t].next
    BY <1>2 DEF EntriesAhead, Ahead, Scan
  <2>1. Ahead(draft, starts \cup todo)
    BY <1>2 DEF EntriesAhead, Scan
  <2>2. x.at <= now /\ x.at \in Nat
    BY <1>2, <1>3, <1>5, <1>6 DEF Clock, Scan
  <2>3. CASE t \notin good
    <3>1. x \in starts \cup todo /\ draft'[t] = draft[t]
      BY <1>2, <1>5, <2>3
    <3> QED BY <2>1, <3>1 DEF Ahead
  <2>4. CASE t \in good
    <3> DEFINE e == row[t].expr
    <3>1. draft'[t] = Updated(draft[t], e) /\ e \in Exprs
      BY <1>2, <1>4, <2>4
    <3>2. CASE draft[t] = NoEntry \/ draft[t].expr # e \/ ShouldRun(draft[t], e)
      <4>1. draft'[t].next = After(e, now)
        BY <3>1, <3>2 DEF Updated
      <4>2. now < After(e, now) /\ After(e, now) \in Nat
        BY <1>3, <3>1, NextOccurrence, BoundsAssumption DEF Times, Never
      <4> QED BY <1>3, <2>2, <4>1, <4>2
    <3>3. CASE ~(draft[t] = NoEntry \/ draft[t].expr # e \/ ShouldRun(draft[t], e))
      <4>1. draft'[t] = draft[t]
        BY <3>1, <3>3 DEF Updated
      <4>2. x \in starts \cup todo
        BY <1>5, <3>3
      <4> QED BY <2>1, <4>1, <4>2 DEF Ahead
    <3> QED BY <3>2, <3>3
  <2> QED BY <2>3, <2>4
<1>9. Downwards'
  <2> SUFFICES ASSUME pc' = "scan"
               PROVE  /\ \A t \in observed' : cursor' <= t
                      /\ \A t \in stable : t \in Usable' /\ (cursor' <= t => t \in observed')
    BY <1>2 DEF Downwards
  <2>1. ~IsLast(page) /\ cursor' = Min(page)
    BY PageFacts
  <2>2. /\ Min(page) \in page /\ \A t \in page : Min(page) <= t
        /\ Min(page) \in Nat /\ Min(page) < cursor
    BY <1>3, <2>1, NextCursor
  <2>3. \A t \in observed' : cursor' <= t
    <3>1. \A t \in observed : cursor <= t /\ t \in Nat
      BY <1>2, <1>3, TasksAssumption DEF Downwards
    <3>2. \A t \in good : Min(page) <= t
      BY <2>2 DEF good
    <3> HIDE DEF page
    <3> QED BY <1>2, <1>3, <2>1, <2>2, <3>1, <3>2
  <2>4. ASSUME NEW t \in stable, cursor' <= t PROVE t \in observed'
    <3>1. t \in Usable /\ t \in Listed /\ t \in Nat /\ (cursor <= t => t \in observed)
      BY <1>2, ListedType, TasksAssumption DEF Downwards
    <3>2. CASE cursor <= t
      BY <1>2, <3>1, <3>2
    <3>3. CASE t < cursor
      <4>1. t \in page
        BY <1>3, <2>1, <2>2, <2>4, <3>1, <3>3, PageIsDense
      <4> QED BY <1>2, <3>1, <4>1 DEF good
    <3> QED BY <1>3, <3>1, <3>2, <3>3
  <2>5. \A t \in stable : t \in Usable'
    BY <1>2 DEF Downwards, Usable, Listed, Exists
  <2> QED BY <2>3, <2>4, <2>5
<1>10. ScanIsComplete'
  <2> SUFFICES ASSUME pc' = "commit", NEW t \in stable PROVE t \in observed'
    BY <1>2 DEF ScanIsComplete
  <2>1. IsLast(page)
    BY PageFacts
  <2>2. t \in Usable /\ t \in Listed /\ t \in Nat /\ (cursor <= t => t \in observed)
    BY <1>2, ListedType, TasksAssumption DEF Downwards
  <2>3. CASE cursor <= t
    BY <1>2, <2>2, <2>3
  <2>4. CASE t < cursor
    <3>1. t \in page
      BY <1>3, <2>1, <2>2, <2>4, ShortPageIsLast
    <3> QED BY <1>2, <2>2, <3>1 DEF good
  <2> QED BY <1>3, <2>2, <2>3, <2>4
<1>11. DraftIsCovered'
  <2>1. \A t \in Tasks \ observed' : draft'[t] = scheduled'[t]
    BY <1>2 DEF DraftIsCovered, Scan
  <2>2. ASSUME NEW t \in observed
        PROVE  /\ draft'[t] # NoEntry /\ NewFirst(t)' < draft'[t].next
               /\ CoveredFrom(NewFirst(t)', draft'[t], starts \cup todo \cup new, t)
    <3>1. draft'[t] = draft[t]
      BY <1>2, <1>3
    <3>2. NewFirst(t)' = NewFirst(t)
      BY <1>2, <3>1 DEF NewFirst
    <3>3. /\ draft[t] # NoEntry /\ NewFirst(t) < draft[t].next
          /\ CoveredFrom(NewFirst(t), draft[t], starts \cup todo, t)
      BY <1>2 DEF DraftIsCovered, Scan
    <3> QED BY <3>1, <3>2, <3>3 DEF CoveredFrom, Covers
  <2>3. ASSUME NEW t \in good
        PROVE  /\ draft'[t] # NoEntry /\ NewFirst(t)' < draft'[t].next
               /\ CoveredFrom(NewFirst(t)', draft'[t], starts \cup todo \cup new, t)
    <3> DEFINE e == row[t].expr
               old == draft[t]
    <3>1. /\ draft'[t] = Updated(old, e) /\ e \in Exprs /\ old \in Entry \cup {NoEntry}
          /\ t \in Tasks /\ scheduled[t] = old /\ scheduled'[t] = old /\ now' = now
          /\ first'[t] = first[t] /\ first[t] \in Nat
      BY <1>2, <1>3, <1>4, Zero DEF TypeOK
    <3>2. draft'[t] # NoEntry /\ draft'[t].expr = e
      BY <1>3, <3>1, UpdatedType
    <3>3. /\ now < After(e, now) /\ After(e, now) \in Nat
          /\ \A o \in Occurs[e] : o \in Nat /\ (now < o => After(e, now) <= o)
      BY <1>3, <3>1, NextOccurrence, BoundsAssumption, ExprsAssumption DEF Times, Never
    <3>4. CASE old = NoEntry \/ old.expr # e
      <4>1. NewFirst(t)' = now /\ draft'[t].next = After(e, now)
        BY <3>1, <3>2, <3>4 DEF NewFirst, Updated
      <4>2. \A o \in Occurs[e] : ~(now < o /\ o < After(e, now))
        BY <1>3, <3>3
      <4> QED BY <3>2, <3>3, <4>1, <4>2 DEF CoveredFrom
    <3>5. CASE old # NoEntry /\ old.expr = e
      <4>1. NewFirst(t)' = first[t]
        BY <3>1, <3>2, <3>5 DEF NewFirst
      <4>2. first[t] < old.next /\ old.next \in Nat
        BY <3>1, <3>5, EntryParts DEF FirstBefore
      <4>3. ASSUME NEW o \in Occurs[e], first[t] < o, o < old.next
            PROVE  Covers(starts \cup todo \cup new, t, o)
        BY <1>2, <3>1, <3>5, <4>3 DEF NoOccurrenceSkipped, Covers
      <4>4. CASE ShouldRun(old, e)
        <5>1. old.next <= now /\ draft'[t].next = After(e, now)
          BY <1>3, <3>1, <4>2, <4>4 DEF ShouldRun, Updated
        <5>2. t \in Due(page)
          BY <4>4 DEF Due, good
        <5>3. StartOf(t) \in new
          BY <5>2 DEF new
        <5>4. ASSUME NEW o \in Occurs[e], first[t] < o, o < After(e, now)
              PROVE  Covers(starts \cup todo \cup new, t, o)
          <6>1. CASE o < old.next
            BY <4>3, <5>4, <6>1
          <6>2. CASE old.next <= o
            <7>1. o <= now
              BY <1>3, <3>3, <5>4
            <7>2. StartOf(t).task = t /\ StartOf(t).due = old.next /\ StartOf(t).at = now
              BY DEF StartOf
            <7> QED BY <5>3, <6>2, <7>1, <7>2 DEF Covers
          <6> QED BY <3>3, <4>2, <6>1, <6>2
        <5>5. first[t] < After(e, now)
          BY <1>3, <3>1, <3>3, <4>2, <5>1
        <5> QED BY <3>2, <4>1, <5>1, <5>4, <5>5 DEF CoveredFrom
      <4>5. CASE ~ShouldRun(old, e)
        <5>1. draft'[t] = old
          BY <3>1, <3>5, <4>5 DEF Updated
        <5> QED BY <3>2, <3>5, <4>1, <4>2, <4>3, <5>1 DEF CoveredFrom
      <4> QED BY <4>4, <4>5
    <3> QED BY <3>4, <3>5
  <2>4. ASSUME NEW x \in todo
        PROVE  /\ x.task \in observed' /\ scheduled'[x.task] # NoEntry
               /\ scheduled'[x.task].expr = draft'[x.task].expr
    <3>1. /\ x.task \in observed /\ scheduled[x.task] # NoEntry
          /\ scheduled[x.task].expr = draft[x.task].expr
      BY <1>2 DEF DraftIsCovered, Scan
    <3>2. draft'[x.task] = draft[x.task]
      BY <1>2, <1>3, <3>1
    <3> QED BY <1>2, <3>1, <3>2
  <2>5. ASSUME NEW x \in new
        PROVE  /\ x.task \in observed' /\ scheduled'[x.task] # NoEntry
               /\ scheduled'[x.task].expr = draft'[x.task].expr
    <3>1. /\ x.task \in good /\ draft[x.task] # NoEntry /\ draft[x.task].expr = row[x.task].expr
          /\ draft[x.task] = scheduled[x.task]
      BY <1>3, <1>5
    <3>2. draft'[x.task].expr = row[x.task].expr
      BY <1>2, <1>3, <1>4, <3>1, UpdatedType
    <3> QED BY <1>2, <3>1, <3>2
  <2>6. starts' \cup todo' = starts \cup todo \cup new
    BY <1>2
  <2> QED BY <1>2, <2>1, <2>2, <2>3, <2>4, <2>5, <2>6 DEF DraftIsCovered
<1>12. FirstBefore' /\ NoOccurrenceSkipped'
  BY <1>2 DEF FirstBefore, NoOccurrenceSkipped
<1>13. OccurrenceRunsOnce'
  <2>1. ASSUME NEW x \in new, NEW y \in starts \cup todo, x.task = y.task, x.expr = y.expr
        PROVE  y.at < x.due
    <3>1. /\ x.task \in Tasks /\ draft[x.task] # NoEntry /\ draft[x.task].expr = y.expr
          /\ x.due = draft[x.task].next
      BY <1>5, <1>6, <2>1
    <3>2. Ahead(draft, starts \cup todo)
      BY <1>2 DEF EntriesAhead, Scan
    <3> QED BY <2>1, <3>1, <3>2 DEF Ahead
  <2>2. ASSUME NEW x \in new, NEW y \in new, x.task = y.task PROVE x = y
    BY <2>2 DEF new, StartOf
  <2>3. starts' \cup todo' = starts \cup todo \cup new
    BY <1>2
  <2> QED BY <2>1, <2>2, <2>3 DEF OccurrenceRunsOnce
<1>14. DueAfterObserved'
  <2>1. ASSUME NEW x \in new PROVE first[x.task] < x.due /\ x.due <= x.at
    BY <1>2, <1>3, <1>5 DEF FirstBefore
  <2> QED BY <1>2, <2>1 DEF DueAfterObserved
<1> QED BY <1>1, <1>7, <1>8, <1>9, <1>10, <1>11, <1>12, <1>13, <1>14

LEMMA InvNext == IInv /\ [Next]_vars => IInv'
<1> SUFFICES ASSUME IInv, [Next]_vars PROVE IInv'
  OBVIOUS
<1>1. ASSUME NEW u \in Editors, Create(u) \/ EditRead(u) \/ EditWrite(u) PROVE IInv'
  BY <1>1, InvEditors
<1> QED BY <1>1, InvScanStart, InvLoadPage, InvCommit, InvReset, InvRun, InvQuiet
           DEF Next, Scanning

\* IInv holds in every reachable state of the scheduler.
THEOREM Invariance == Spec => []IInv
<1>1. Init /\ [][Next]_vars => []IInv
  BY InvInit, InvNext, PTL
<1> QED BY <1>1, PTL DEF Spec

-----------------------------------------------------------------------------
(* The results. *)

\* Every variable keeps its type, and for_each_concurrent never runs more than
\* TASK_SCHEDULED_MAX_CONCURRENT_EXECUTIONS tasks at a time.
THEOREM TypeCorrect == Spec => []TypeOK
<1>1. IInv => TypeOK
  BY DEF IInv
<1> QED BY <1>1, Invariance, PTL

\* A task whose row is there, enabled and unchanged during a whole scan is seen
\* by it, whatever the page size and whatever other rows do between the pages.
THEOREM ScansAreComplete == Spec => []ScanIsComplete
<1>1. IInv => ScanIsComplete
  BY DEF IInv
<1> QED BY <1>1, Invariance, PTL

\* No occurrence of an expression is run twice for a task.
THEOREM OccurrencesRunOnce == Spec => []OccurrenceRunsOnce
<1>1. IInv => OccurrenceRunsOnce
  BY DEF IInv
<1> QED BY <1>1, Invariance, PTL

\* next_run never moves past an occurrence that no start covers.
THEOREM OccurrencesAreCovered == Spec => []NoOccurrenceSkipped
<1>1. IInv => NoOccurrenceSkipped
  BY DEF IInv
<1> QED BY <1>1, Invariance, PTL

\* What a scan starts became due after an earlier scan had observed the task
\* with this expression.
THEOREM NothingRunsAtOnce == Spec => []DueAfterObserved
<1>1. IInv => DueAfterObserved
  BY DEF IInv
<1> QED BY <1>1, Invariance, PTL
=============================================================================

------------------------------ MODULE IoRegistry ------------------------------
(***************************************************************************)
(* The registry of Agents' IO streams and of the server-side subscribers   *)
(* to the logical streams inside them (terminals, NAT tunnels): IoRegistry *)
(* in crates/server/src/grpc/session.rs, the io_stream RPC that registers  *)
(* an Agent (grpc/mod.rs) and the bridges that subscribe (terminal.rs,     *)
(* nat/tunnel.rs).                                                         *)
(*                                                                         *)
(* A subscription belongs to the connection its Agent has when it is made: *)
(* when that connection is replaced, ends or is disconnected, the          *)
(* subscribers are taken out, woken and closed.  Three locks are nested,   *)
(* revoked_agents, agent_streams, stream_subscribers, in this order; only  *)
(* sections under the last one are free of awaits.  Who holds the first    *)
(* two is a function of the program counters.                              *)
(*                                                                         *)
(* A bridge stands for its stream id: terminal sessions are taken once and *)
(* tunnel ids are fresh, so no id is subscribed twice.  Sending to the     *)
(* Agent is send_to_current, which module SessionRegistry models.          *)
(***************************************************************************)
EXTENDS Naturals, FiniteSets

CONSTANTS
    Agents,
    Chans,         \* calls of the io_stream RPC
    Owner,         \* the Agent that makes each call
    Bridges,       \* terminal sockets and NAT tunnels
    AgentOf,       \* the Agent each bridge talks to
    Disconnecters, \* calls of disconnect_agent
    DTarget,       \* the Agent each of them is for
    MaxStreams,    \* MAX_ACTIVE_IO_STREAMS, 1024 in the code
    Cap,           \* frames a subscriber's queue holds, 128 in the code
    NoChan, NoBridge

ASSUME OwnerAssumption ==
    /\ Owner \in [Chans -> Agents]
    /\ AgentOf \in [Bridges -> Agents]
    /\ DTarget \in [Disconnecters -> Agents]
ASSUME LimitAssumption == MaxStreams \in Nat /\ Cap \in Nat \ {0}
ASSUME IoNamesAssumption ==
    /\ NoChan \notin Chans /\ NoBridge \notin Bridges
    /\ Chans \cap Disconnecters = {}

VARIABLES
    streams,  \* IoRegistry::agent_streams
    revoked,  \* IoRegistry::revoked_agents
    subs,     \* IoRegistry::stream_subscribers
    woken,    \* bridges whose IoSubscriber::changes was bumped
    cpc,      \* where each io_stream RPC is
    fwd,      \* the subscriber a reader task is delivering a frame to
    dpc,      \* where each disconnect_agent is
    taken,    \* the subscribers a process took out and has yet to notify
    bpc,      \* where each bridge is
    rx,       \* bridges that still hold their receiver
    queue,    \* frames waiting in each bridge's queue
    gen,      \* history: the connection a subscription was made under
    torn      \* history: Agents for which an RPC or a request was dropped
              \* between changing agent_streams and taking the subscribers

connVars == <<streams, cpc>>
subVars == <<subs, woken, rx, queue, gen>>
ioVars == <<streams, revoked, subs, woken, cpc, fwd, dpc, taken, bpc, rx, queue, gen, torn>>

Procs == Chans \cup Disconnecters

ConnPC == {"new", "check", "clear", "notify", "live", "ended", "uclear", "unotify", "closed"}
DiscPC == {"mark", "remove", "clear", "notify", "done", "dropped"}
BridgePC == {"idle", "streams", "insert", "open", "unsub", "done"}

IoTypeOK ==
    /\ streams \in [Agents -> Chans \cup {NoChan}]
    /\ revoked \subseteq Agents
    /\ subs \subseteq Bridges /\ woken \subseteq Bridges /\ rx \subseteq Bridges
    /\ cpc \in [Chans -> ConnPC]
    /\ fwd \in [Chans -> Bridges \cup {NoBridge}]
    /\ dpc \in [Disconnecters -> DiscPC]
    /\ taken \in [Procs -> SUBSET Bridges]
    /\ bpc \in [Bridges -> BridgePC]
    /\ queue \in [Bridges -> 0..Cap]
    /\ gen \in [Bridges -> Chans \cup {NoChan}]
    /\ torn \subseteq Agents

IoInit ==
    /\ streams = [a \in Agents |-> NoChan]
    /\ revoked = {} /\ subs = {} /\ woken = {} /\ rx = {} /\ torn = {}
    /\ cpc = [c \in Chans |-> "new"]
    /\ fwd = [c \in Chans |-> NoBridge]
    /\ dpc = [d \in Disconnecters |-> "mark"]
    /\ taken = [p \in Procs |-> {}]
    /\ bpc = [b \in Bridges |-> "idle"]
    /\ queue = [b \in Bridges |-> 0]
    /\ gen = [b \in Bridges |-> NoChan]

-----------------------------------------------------------------------------
(* Locks and channels. *)

\* Read guards on revoked_agents.
RevokedReaders ==
    {c \in Chans : cpc[c] \in {"check", "clear"}}
    \cup {b \in Bridges : bpc[b] \in {"streams", "insert"}}

\* Variant: the subscriber's guard on agent_streams is not kept.
StreamsReaders_None == {}

\* Read and write guards on agent_streams that are held across an await.
StreamsReaders == {b \in Bridges : bpc[b] = "insert"}

StreamsWriters ==
    {c \in Chans : cpc[c] \in {"clear", "uclear"}} \cup {d \in Disconnecters : dpc[d] = "clear"}

StreamsFree == StreamsReaders = {} /\ StreamsWriters = {}

\* Somebody holds a sender for b's queue: recv does not return None.
HasSender(b) ==
    \/ b \in subs
    \/ \E p \in Procs : b \in taken[p]
    \/ \E c \in Chans : fwd[c] = b

SubscribersOf(a) == {b \in subs : AgentOf[b] = a}

\* prune_closed_io_subscribers: entries without a receiver are woken and go.
Pruned == subs \cap rx
WokenByPrune == woken \cup (subs \ rx)

\* Variant: the subscribers are told by a frame only, and not woken.
Notify_Silent(p) ==
    /\ queue' = [b \in Bridges |->
                    IF b \in taken[p] \cap rx /\ queue[b] < Cap THEN queue[b] + 1 ELSE queue[b]]
    /\ taken' = [taken EXCEPT ![p] = {}]
    /\ UNCHANGED woken

\* notify_closed_subscribers: wake and, if the queue has room, say why; the
\* senders are dropped with the list.
Notify(p) ==
    /\ woken' = woken \cup taken[p]
    /\ queue' = [b \in Bridges |->
                    IF b \in taken[p] \cap rx /\ queue[b] < Cap THEN queue[b] + 1 ELSE queue[b]]
    /\ taken' = [taken EXCEPT ![p] = {}]

\* take_agent_subscribers, under the last lock.
Take(p, a) ==
    /\ taken' = [taken EXCEPT ![p] = SubscribersOf(a)]
    /\ subs' = subs \ SubscribersOf(a)

-----------------------------------------------------------------------------
(* The io_stream RPC and its reader task. *)

RegisterCheck(c) ==
    /\ cpc[c] = "new"
    /\ cpc' = [cpc EXCEPT ![c] = IF Owner[c] \in revoked THEN "closed" ELSE "check"]
    /\ UNCHANGED <<streams, revoked, subVars, fwd, dpc, taken, bpc, torn>>

\* Variant: the subscribers of a replaced connection stay.
RegisterInsert_KeepsSubscribers(c) ==
    /\ cpc[c] = "check" /\ StreamsFree
    /\ streams' = [streams EXCEPT ![Owner[c]] = c]
    /\ cpc' = [cpc EXCEPT ![c] = "live"]
    /\ UNCHANGED <<revoked, subVars, fwd, dpc, taken, bpc, torn>>

\* Insert; if an entry was replaced, its subscribers are to be closed, with
\* the write guard kept while waiting for the next lock.
RegisterInsert(c) ==
    /\ cpc[c] = "check" /\ StreamsFree
    /\ streams' = [streams EXCEPT ![Owner[c]] = c]
    /\ cpc' = [cpc EXCEPT ![c] = IF streams[Owner[c]] = NoChan THEN "live" ELSE "clear"]
    /\ UNCHANGED <<revoked, subVars, fwd, dpc, taken, bpc, torn>>

RegisterClear(c) ==
    /\ cpc[c] = "clear"
    /\ Take(c, Owner[c])
    /\ cpc' = [cpc EXCEPT ![c] = "notify"]
    /\ UNCHANGED <<streams, revoked, woken, rx, queue, gen, fwd, dpc, bpc, torn>>

\* register_agent returns and the RPC spawns its reader.
RegisterNotify(c) ==
    /\ cpc[c] = "notify"
    /\ Notify(c)
    /\ cpc' = [cpc EXCEPT ![c] = "live"]
    /\ UNCHANGED <<streams, revoked, subs, rx, gen, fwd, dpc, bpc, torn>>

\* The caller resets the RPC while register_agent awaits a lock.  No reader
\* was spawned, so nothing will unregister what was inserted.
RegisterAborted(c) ==
    /\ cpc[c] \in {"new", "check", "clear"}
    /\ cpc' = [cpc EXCEPT ![c] = "closed"]
    /\ torn' = IF cpc[c] = "clear" THEN torn \cup {Owner[c]} ELSE torn
    /\ UNCHANGED <<streams, revoked, subVars, fwd, dpc, taken, bpc>>

\* The reader delivers one frame at a time, so the stream ends between two.
StreamEnds(c) ==
    /\ cpc[c] = "live" /\ fwd[c] = NoBridge
    /\ cpc' = [cpc EXCEPT ![c] = "ended"]
    /\ UNCHANGED <<streams, revoked, subVars, fwd, dpc, taken, bpc, torn>>

\* unregister_agent: only the current connection cleans up.
Unregister(c) ==
    /\ cpc[c] = "ended" /\ StreamsFree
    /\ IF streams[Owner[c]] = c
       THEN /\ streams' = [streams EXCEPT ![Owner[c]] = NoChan]
            /\ cpc' = [cpc EXCEPT ![c] = "uclear"]
       ELSE cpc' = [cpc EXCEPT ![c] = "closed"] /\ UNCHANGED streams
    /\ UNCHANGED <<revoked, subVars, fwd, dpc, taken, bpc, torn>>

UnregisterClear(c) ==
    /\ cpc[c] = "uclear"
    /\ Take(c, Owner[c])
    /\ cpc' = [cpc EXCEPT ![c] = "unotify"]
    /\ UNCHANGED <<streams, revoked, woken, rx, queue, gen, fwd, dpc, bpc, torn>>

UnregisterNotify(c) ==
    /\ cpc[c] = "unotify"
    /\ Notify(c)
    /\ cpc' = [cpc EXCEPT ![c] = "closed"]
    /\ UNCHANGED <<streams, revoked, subs, rx, gen, fwd, dpc, bpc, torn>>

\* deliver_from_agent: clone the subscriber's sender, subscribe to its counter.
\* Without a live subscriber of this Agent the map is pruned instead.
DeliverLookup(c) ==
    /\ cpc[c] = "live" /\ fwd[c] = NoBridge
    /\ \E b \in Bridges :
          IF b \in subs \cap rx /\ AgentOf[b] = Owner[c]
          THEN fwd' = [fwd EXCEPT ![c] = b] /\ UNCHANGED <<subs, woken>>
          ELSE subs' = Pruned /\ woken' = WokenByPrune /\ UNCHANGED fwd
    /\ UNCHANGED <<streams, revoked, rx, queue, gen, cpc, dpc, taken, bpc, torn>>

\* select!, biased towards the wakeup.
DeliverWoken(c) ==
    /\ fwd[c] # NoBridge /\ fwd[c] \in woken
    /\ fwd' = [fwd EXCEPT ![c] = NoBridge]
    /\ UNCHANGED <<connVars, revoked, subVars, dpc, taken, bpc, torn>>

DeliverSend(c) ==
    /\ fwd[c] # NoBridge /\ fwd[c] \notin woken
    /\ fwd[c] \in rx /\ queue[fwd[c]] < Cap
    /\ queue' = [queue EXCEPT ![fwd[c]] = @ + 1]
    /\ fwd' = [fwd EXCEPT ![c] = NoBridge]
    /\ UNCHANGED <<connVars, revoked, subs, woken, rx, gen, dpc, taken, bpc, torn>>

\* The receiver is gone: the send fails and the map is pruned.
DeliverFails(c) ==
    /\ fwd[c] # NoBridge /\ fwd[c] \notin woken /\ fwd[c] \notin rx
    /\ subs' = Pruned /\ woken' = WokenByPrune
    /\ fwd' = [fwd EXCEPT ![c] = NoBridge]
    /\ UNCHANGED <<connVars, revoked, rx, queue, gen, dpc, taken, bpc, torn>>

\* IO_SUBSCRIBER_SEND_TIMEOUT on a full queue: the frame is dropped.
DeliverTimeout(c) ==
    /\ fwd[c] # NoBridge
    /\ fwd' = [fwd EXCEPT ![c] = NoBridge]
    /\ UNCHANGED <<connVars, revoked, subVars, dpc, taken, bpc, torn>>

-----------------------------------------------------------------------------
(* disconnect_agent. *)

MarkRevoked(d) ==
    /\ dpc[d] = "mark" /\ RevokedReaders = {}
    /\ revoked' = revoked \cup {DTarget[d]}
    /\ dpc' = [dpc EXCEPT ![d] = "remove"]
    /\ UNCHANGED <<connVars, subVars, fwd, taken, bpc, torn>>

RemoveStream(d) ==
    /\ dpc[d] = "remove" /\ StreamsFree
    /\ streams' = [streams EXCEPT ![DTarget[d]] = NoChan]
    /\ dpc' = [dpc EXCEPT ![d] = "clear"]
    /\ UNCHANGED <<revoked, subVars, cpc, fwd, taken, bpc, torn>>

DisconnectClear(d) ==
    /\ dpc[d] = "clear"
    /\ Take(d, DTarget[d])
    /\ dpc' = [dpc EXCEPT ![d] = "notify"]
    /\ UNCHANGED <<connVars, revoked, woken, rx, queue, gen, fwd, bpc, torn>>

DisconnectNotify(d) ==
    /\ dpc[d] = "notify"
    /\ Notify(d)
    /\ dpc' = [dpc EXCEPT ![d] = "done"]
    /\ UNCHANGED <<connVars, revoked, subs, rx, gen, fwd, bpc, torn>>

\* The administrator's request is aborted while disconnect_agent awaits a lock.
DisconnectAborted(d) ==
    /\ dpc[d] \in {"mark", "remove", "clear"}
    /\ dpc' = [dpc EXCEPT ![d] = "dropped"]
    /\ torn' = IF dpc[d] = "clear" THEN torn \cup {DTarget[d]} ELSE torn
    /\ UNCHANGED <<connVars, revoked, subVars, fwd, taken, bpc>>

-----------------------------------------------------------------------------
(* A bridge: subscribe, read until the stream ends or it leaves, unsubscribe. *)

\* A refused bridge has a receiver whose sender is gone.
Refused(b) == bpc' = [bpc EXCEPT ![b] = "open"]

SubscribeCheck(b) ==
    /\ bpc[b] = "idle"
    /\ rx' = rx \cup {b}
    /\ IF AgentOf[b] \in revoked THEN Refused(b) ELSE bpc' = [bpc EXCEPT ![b] = "streams"]
    /\ UNCHANGED <<connVars, revoked, subs, woken, queue, gen, fwd, dpc, taken, torn>>

SubscribeStreams(b) ==
    /\ bpc[b] = "streams" /\ StreamsWriters = {}
    /\ IF streams[AgentOf[b]] = NoChan THEN Refused(b) ELSE bpc' = [bpc EXCEPT ![b] = "insert"]
    /\ UNCHANGED <<connVars, revoked, subVars, fwd, dpc, taken, torn>>

RoomForStream == Cardinality(Pruned) < MaxStreams

SubscribeInsert(b) ==
    /\ bpc[b] = "insert"
    /\ subs' = IF RoomForStream THEN Pruned \cup {b} ELSE Pruned
    /\ woken' = WokenByPrune
    /\ gen' = IF RoomForStream THEN [gen EXCEPT ![b] = streams[AgentOf[b]]] ELSE gen
    /\ bpc' = [bpc EXCEPT ![b] = "open"]
    /\ UNCHANGED <<connVars, revoked, rx, queue, fwd, dpc, taken, torn>>

BridgeReads(b) ==
    /\ bpc[b] = "open" /\ queue[b] > 0
    /\ queue' = [queue EXCEPT ![b] = @ - 1]
    /\ UNCHANGED <<connVars, revoked, subs, woken, rx, gen, fwd, dpc, taken, bpc, torn>>

\* recv returned None.
BridgeEnds(b) ==
    /\ bpc[b] = "open" /\ queue[b] = 0 /\ ~HasSender(b)
    /\ bpc' = [bpc EXCEPT ![b] = "unsub"]
    /\ rx' = rx \ {b}
    /\ UNCHANGED <<connVars, revoked, subs, woken, queue, gen, fwd, dpc, taken, torn>>

\* The browser or the public connection is gone, the Agent said close, or the
\* opening frame could not be sent.
BridgeLeaves(b) ==
    /\ bpc[b] = "open"
    /\ bpc' = [bpc EXCEPT ![b] = "unsub"]
    /\ rx' = rx \ {b}
    /\ queue' = [queue EXCEPT ![b] = 0]
    /\ UNCHANGED <<connVars, revoked, subs, woken, gen, fwd, dpc, taken, torn>>

Unsubscribe(b) ==
    /\ bpc[b] = "unsub"
    /\ subs' = Pruned \ {b}
    /\ woken' = WokenByPrune
    /\ bpc' = [bpc EXCEPT ![b] = "done"]
    /\ UNCHANGED <<connVars, revoked, rx, queue, gen, fwd, dpc, taken, torn>>

-----------------------------------------------------------------------------
Cleaning(c) ==
    \/ RegisterInsert(c) \/ RegisterClear(c) \/ RegisterNotify(c)
    \/ Unregister(c) \/ UnregisterClear(c) \/ UnregisterNotify(c)

Delivering(c) == DeliverWoken(c) \/ DeliverSend(c) \/ DeliverFails(c)

Disconnecting(d) ==
    MarkRevoked(d) \/ RemoveStream(d) \/ DisconnectClear(d) \/ DisconnectNotify(d)

Bridging(b) ==
    \/ SubscribeStreams(b) \/ SubscribeInsert(b)
    \/ BridgeReads(b) \/ BridgeEnds(b) \/ Unsubscribe(b)

IoNext ==
    \/ \E c \in Chans :
          \/ RegisterCheck(c) \/ RegisterAborted(c) \/ StreamEnds(c) \/ DeliverLookup(c)
          \/ DeliverTimeout(c) \/ Cleaning(c) \/ Delivering(c)
    \/ \E d \in Disconnecters : Disconnecting(d) \/ DisconnectAborted(d)
    \/ \E b \in Bridges : SubscribeCheck(b) \/ BridgeLeaves(b) \/ Bridging(b)

\* The runtime drives what is ready.  A bridge reads what is queued for it;
\* no timer, no frame and no end of a connection is assumed.
IoFairness ==
    /\ \A c \in Chans : WF_ioVars(Cleaning(c)) /\ WF_ioVars(Delivering(c))
    /\ \A d \in Disconnecters : WF_ioVars(dpc[d] # "mark" /\ Disconnecting(d))
    /\ \A b \in Bridges : WF_ioVars(Bridging(b))

IoSpec == IoInit /\ [][IoNext]_ioVars /\ IoFairness

-----------------------------------------------------------------------------
(* Properties. *)

\* Somebody is about to take the subscribers of Agent a.
Clearing(a) ==
    \/ \E c \in Chans : Owner[c] = a /\ cpc[c] \in {"clear", "uclear"}
    \/ \E d \in Disconnecters : DTarget[d] = a /\ dpc[d] = "clear"

\* A subscription lives under the connection it was made under.  When that is
\* no longer the Agent's current one, whoever changed it is about to take the
\* subscription out, or was dropped on the way.
SubscriberIsCurrent ==
    \A b \in subs :
        streams[AgentOf[b]] = gen[b] \/ Clearing(AgentOf[b]) \/ AgentOf[b] \in torn

\* The test concurrent_subscribe_and_disconnect_leaves_no_stale_subscribers,
\* for every interleaving: after disconnect_agent the Agent has no stream and
\* no subscriber, and gets none.
DisconnectedIsEmpty ==
    \A d \in Disconnecters :
        dpc[d] \in {"notify", "done"} =>
            streams[DTarget[d]] = NoChan /\ SubscribersOf(DTarget[d]) = {}

\* The number of active streams is bounded, whoever subscribes when.
WithinStreamLimit == Cardinality(subs) <= MaxStreams

\* A delivery that is blocked on a subscriber's full queue does not outlive
\* the subscription unnoticed: when the entry is gone, the delivery has been
\* woken, or whoever took the entry out is about to wake it.
NoSleepingDelivery ==
    \A c \in Chans :
        fwd[c] # NoBridge =>
            \/ fwd[c] \in subs \/ fwd[c] \in woken
            \/ \E p \in Procs : fwd[c] \in taken[p]

\* A bridge whose Agent's connection was replaced, ended or disconnected comes
\* to its end, although its queue may be full, a delivery may be blocked on it
\* and no timer fires.
StaleBridgeEnds ==
    \A b \in Bridges :
        (bpc[b] = "open" /\ streams[AgentOf[b]] # gen[b])
            ~> (bpc[b] = "done" \/ AgentOf[b] \in torn)
=============================================================================

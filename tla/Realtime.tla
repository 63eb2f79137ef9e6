------------------------------ MODULE Realtime -------------------------------
(***************************************************************************)
(* The broadcast of Agent reports to dashboards: realtime/mod.rs and the   *)
(* WebSocket of realtime/ws.rs, beside the other readers of Readers.       *)
(*                                                                         *)
(* publish writes the cache of newest reports and then sends; a socket     *)
(* subscribes and then copies the cache.  A socket that is slower than the *)
(* channel is long loses reports and starts again from the cache.          *)
(* A publication and a socket are requests of the workload, like the       *)
(* readers; reports are numbered in the order they are made.               *)
(***************************************************************************)
EXTENDS Readers

CONSTANTS
    Capacity,  \* BROADCAST_CAPACITY
    MaxLatest, \* LATEST_CACHE_MAX_AGENTS
    MaxFails   \* bound on reads that fail

ASSUME RealtimeAssumption == Capacity \in Nat \ {0} /\ MaxLatest \in Nat \ {0} /\ MaxFails \in Nat

VARIABLES
    latest,   \* the newest report of each Agent; 0 without one
    channel,  \* reports sent: Agent and number
    reports,  \* reports made
    fails

hub == <<latest, channel, reports, fails>>

RealtimeTypeOK ==
    /\ latest \in [Agents -> Nat] /\ Cardinality({a \in Agents : latest[a] # 0}) <= MaxLatest
    /\ channel \in Seq([agent : Agents, n : Nat]) /\ reports \in Nat /\ fails \in 0..MaxFails

RealtimeInit ==
    /\ latest = [a \in Agents |-> 0] /\ channel = <<>> /\ reports = 0 /\ fails = 0

-----------------------------------------------------------------------------
(* publish, on the reader task of an Agent's session: one report after the other. *)

Publishing(a) == {r \in live : r.q.op = "publish" /\ r.q.agent = a}

\* The Agent that is dropped from a full cache: the one not heard of for the longest time.
Evicted(a) ==
    LET cached == {b \in Agents : latest[b] # 0} IN
    IF Cardinality(cached) >= MaxLatest /\ a \notin cached
    THEN {b \in cached : \A c \in cached : latest[b] <= latest[c]} ELSE {}

publish(r) ==
    /\ At(r, "publish", "start")
    /\ \A p \in Publishing(r.q.agent) : p.at = "start" /\ p.q.k >= r.q.k
    /\ reports' = reports + 1
    /\ latest' = [b \in Agents |-> IF b = r.q.agent THEN reports + 1
                                   ELSE IF b \in Evicted(r.q.agent) THEN 0 ELSE latest[b]]
    /\ Goto(r, [r EXCEPT !.at = "send", !.n = reports + 1])
    /\ UNCHANGED <<tables, frames, channel, fails>>

\* tx.send: to the receivers there are.
Sends(r) ==
    /\ At(r, "publish", "send")
    /\ channel' = Append(channel, [agent |-> r.q.agent, n |-> r.n])
    /\ Refuse(r)
    /\ UNCHANGED <<tables, frames, latest, reports, fails>>

-----------------------------------------------------------------------------
(* ws_servers and handle_socket. *)

\* realtime_visible_agent_ids
LiveIds(q) == {a \in ListedRows(q) : agent_visible(q, a) /\ ~agents[a].revoked}

ws_servers(r) ==
    /\ At(r, "ws", "start")
    /\ Goto(r, [r EXCEPT !.at = "subscribe", !.ids = LiveIds(r.q)])
    /\ UNCHANGED <<tables, frames, hub>>

subscribe(r) ==
    /\ At(r, "ws", "subscribe")
    /\ Goto(r, [r EXCEPT !.at = "snapshot", !.n = Len(channel)])
    /\ UNCHANGED <<tables, frames, hub>>

\* filter_realtime_events of latest_snapshot, which the client merges into what it shows.
Snapshot(r) == [a \in Agents |-> IF a \in r.ids /\ latest[a] # 0 THEN latest[a] ELSE r.view[a]]
Snapped(r) == {a \in r.ids : latest[a] # 0}

SendsSnapshot(r) ==
    /\ At(r, "ws", "snapshot")
    /\ live' = (live \ {r}) \cup {[r EXCEPT !.at = "recv", !.view = Snapshot(r), !.ever = {}]}
    /\ answer' = [items |-> Snapped(r), ever |-> r.ever]
    /\ UNCHANGED <<tables, frames, hub>>

\* A report that is still in the channel; from here its visibility counts.
Receives(r) ==
    /\ At(r, "ws", "recv") /\ r.n < Len(channel) /\ Len(channel) - r.n <= Capacity
    /\ Goto(r, [r EXCEPT !.at = "check", !.n = @ + 1, !.ever = Sees(r.q)])
    /\ UNCHANGED <<tables, frames, hub>>

realtime_event_visible(r, a) == agent_visible(r.q, a) /\ ~agents[a].revoked

\* The Agent is read again for each report; one that is revoked leaves the cache too.
ForwardsEvent(r) ==
    LET e == channel[r.n]
        a == e.agent
        allowed == r.q.scope # Nothing => a \in r.q.scope
    IN
    /\ At(r, "ws", "check")
    /\ IF realtime_event_visible(r, a)
       THEN /\ live' = (live \ {r}) \cup
                 {[r EXCEPT !.at = "recv", !.ids = @ \cup {a}, !.view[a] = e.n, !.ever = {}]}
            /\ answer' = [items |-> {a}, ever |-> r.ever]
       ELSE Goto(r, [r EXCEPT !.at = "recv", !.ids = @ \ {a}, !.ever = {}])
    /\ latest' = IF allowed /\ agents[a].revoked THEN [latest EXCEPT ![a] = 0] ELSE latest
    /\ UNCHANGED <<tables, frames, channel, reports, fails>>

\* A read that fails drops the report, and with it the promise to the client.
CheckFails(r) ==
    /\ At(r, "ws", "check") /\ fails < MaxFails /\ fails' = fails + 1
    /\ LET a == channel[r.n].agent IN
       /\ r.q.scope # Nothing => a \in r.q.scope
       /\ Goto(r, [r EXCEPT !.at = "recv", !.ids = @ \ {a}, !.always = @ \ {a}, !.ever = {}])
    /\ UNCHANGED <<tables, frames, latest, channel, reports>>

\* Variant: the socket goes on with what the channel still has.
Lagged_GoesOn(r) ==
    /\ At(r, "ws", "recv") /\ Len(channel) - r.n > Capacity
    /\ Goto(r, [r EXCEPT !.n = Len(channel) - Capacity])
    /\ UNCHANGED <<tables, frames, hub>>

\* RecvError::Lagged: what is visible now, and the cache once more.
Lagged(r) ==
    /\ At(r, "ws", "recv") /\ Len(channel) - r.n > Capacity
    /\ Goto(r, [r EXCEPT !.at = "snapshot", !.n = Len(channel) - Capacity, !.ids = LiveIds(r.q), !.ever = Sees(r.q)])
    /\ UNCHANGED <<tables, frames, hub>>

\* The client closes, does not take a message in time, or the refresh fails.
SocketCloses(r) ==
    /\ r.q.op = "ws" /\ r.at # "start" /\ Refuse(r)
    /\ UNCHANGED <<tables, frames, hub>>

-----------------------------------------------------------------------------

RealtimeStep(r) ==
    \/ publish(r) \/ Sends(r) \/ ws_servers(r) \/ subscribe(r) \/ SendsSnapshot(r) \/ Receives(r)
    \/ ForwardsEvent(r) \/ CheckFails(r) \/ Lagged(r) \/ SocketCloses(r)

-----------------------------------------------------------------------------
(* Properties. *)

\* A dashboard that has received everything shows the newest report of each Agent it could
\* see all the time, whatever was published while it subscribed, copied the cache or fell
\* behind (unless a report of that Agent was dropped because its row could not be read).
CaughtUp ==
    \A r \in live :
        At(r, "ws", "recv") /\ r.n = Len(channel)
        => \A a \in r.always \cap Agents :
              latest[a] # 0 /\ (\A p \in Publishing(a) : p.at = "start") => r.view[a] = latest[a]
=============================================================================

------------------------------- MODULE Remote --------------------------------
(***************************************************************************)
(* Remote access to an Agent's host: NAT mappings and the listeners,       *)
(* tunnels and rate windows that serve them (api/v1/nat.rs, nat/tunnel.rs, *)
(* db/repository/nat.rs), web terminals (api/v1/terminal.rs), and the      *)
(* Agent's end of both (agent/src/main.rs), under the Agent's local policy *)
(* (AgentHost).                                                            *)
(*                                                                         *)
(* As in Transfers a handler is a program of steps.  A connection to a     *)
(* public port is one too: its accept loop takes the first steps, one      *)
(* connection at a time, and a task of its own the others.  Frames of a    *)
(* stream wait in two queues, one each way.                                *)
(***************************************************************************)
EXTENDS Transfers, AgentHost

CONSTANTS
    Ports,       \* public ports
    Streams,     \* ids of tunnels and terminal sessions
    Shells,      \* those of terminal sessions
    Windows,     \* rate limit windows
    Work(_),     \* jobs of the host that go with a workload of requests
    MaxTunnels,  \* XLSTATUS_NAT_MAX_ACTIVE_TUNNELS
    MapLimit,    \* max_active_tunnels of a mapping
    WindowLimit, \* max_connections_per_window of each mapping
    WindowBytes, \* max_bytes_per_window of a mapping
    TunnelBytes, \* max_bytes_per_tunnel of a mapping
    MaxSources,  \* MAX_TRACKED_SOURCE_IPS_PER_MAPPING
    MaxPending,  \* MAX_PENDING_TERMINAL_SESSIONS
    MaxShells,   \* MAX_TERMINAL_SESSIONS
    MaxData      \* bound on the data of each stream

\* A row of nat_mappings.
MappingRows == [kind : {"nat"}, server : Agents, port : Ports, on : BOOLEAN]

ASSUME RemoteAssumption ==
    /\ Shells \subseteq Streams /\ Windows \subseteq Nat /\ 0 \in Windows /\ Ports \subseteq Nat /\ Nothing \notin MappingRows
    /\ {MaxTunnels, MapLimit, MaxSources, MaxPending, MaxShells} \subseteq Nat \ {0}
    /\ {WindowBytes, TunnelBytes} \subseteq Nat /\ MaxData \in [Streams -> Nat] /\ WindowLimit \in [Rows -> Nat]

ASSUME MappingsAssumption ==
    \A x \in Stored : /\ TablesOK(x.users, x.creds, x.agents, x.tokens) /\ x.rows \in [Rows -> MappingRows \cup {Nothing}]

(***************************************************************************)
(* What a request names.  An id is a request's own; so are the stream that *)
(* a connection brings and the terminal session that is created.  Agents   *)
(* are revoked by revoke_agent and mappings changed by the requests below, *)
(* not by others.                                                          *)
(***************************************************************************)
Mapping == {"nat_create", "nat_update", "nat_delete", "revoke_agent"}
Asked == {"nat_get", "nat_list", "nat_all", "connect", "terminal", "socket", "flip", "tick", "role", "leave", "owner"} \cup Mapping
IsRequest(q) ==
    /\ q.op \in Asked /\ q.by \in Creds /\ q.user \in Users /\ q.agent \in Agents /\ q.row \in Rows /\ q.ip \in Ips /\ q.via = "api"
    /\ q.port \in Ports \cup {Nothing} /\ q.on \in BOOLEAN \cup {Nothing}
    /\ q.op \in {"nat_create", "connect"} => q.port \in Ports
    /\ q.op = "connect" => q.stream \in Streams \ Shells
    /\ q.op \in {"terminal", "socket"} => q.stream \in Shells
ASSUME RequestsAssumption ==
    \A w \in Workloads :
        /\ \A q \in w : IsRequest(q)
        /\ \A p, q \in w : p.id = q.id \/ (p.op = q.op /\ p.op \in {"connect", "terminal"} /\ p.stream = q.stream) => p = q

VARIABLES
    sock,      \* the public ports' sockets: free, starting, on, told to stop
    listed,    \* NatTunnelManager.listeners
    busy,      \* the connection an accept loop is at
    tunnels,   \* active_tunnels: streams and their mappings
    tracked,   \* rate_limits: a source's window, connections and bytes
    used,      \* nat_usage_windows: the same in the database
    win,       \* the present window
    pending,   \* TerminalSessionRegistry: who may open it, and on which Agent
    subs,      \* streams that are subscribed to in the IO registry
    down, up,  \* frames on their way to the Agent and from it
    sess,      \* what the Agent keeps for a stream
    spent,     \* data moved through a stream
    admitted,  \* history: connections let through, by mapping, source and window
    opened,    \* history: terminal sessions that were opened, and by which request
    silent,    \* history: streams the server left without a word to the Agent
    clash      \* history: reloads overlapped, were dropped or found a port taken

listening == <<sock, listed, busy, clash>>
rates == <<tracked, used, win, admitted>>
frames == <<down, up, sess, spent, silent>>
streams == <<tunnels, subs, pending, opened>>
remoteVars == <<listening, rates, frames, streams>>
still == <<tables, tokens, hits, sent, torn, faults>>

stream(r) == r.q.stream
Enabled == {m \in Rows : rows[m] # Nothing /\ rows[m].on /\ ~agents[rows[m].server].revoked}

-----------------------------------------------------------------------------
(* Programs. *)

reload == <<Step("load", Nothing), Step("retain", Nothing), Step("start", Nothing)>>
require_nat_sensitive_scope_or_403 == <<Step("auth", Nothing), Step("totp", Nothing)>>
create_nat_mapping ==
    require_nat_sensitive_scope_or_403 \o <<Step("nat_active", Nothing), Step("port", Nothing), Step("insert", Nothing)>> \o reload
get_nat_mapping == <<Step("auth", Nothing), Step("get", Nothing), Step("nat_agent", Nothing), Step("mapping", Nothing)>>
list_nat_mappings == <<Step("auth", Nothing), Step("nat_agent", Nothing), Step("mappings", Nothing)>>
list_all_nat_mappings == <<Step("auth", Nothing), Step("runtime", Nothing)>>
update_nat_mapping ==
    require_nat_sensitive_scope_or_403
    \o <<Step("get", Nothing), Step("nat_agent", Nothing), Step("port", Nothing), Step("nat_active", Nothing), Step("update", Nothing)>>
    \o reload
delete_nat_mapping ==
    require_nat_sensitive_scope_or_403 \o <<Step("get", Nothing), Step("nat_agent", Nothing), Step("remove", Nothing)>> \o reload
\* revoke_agent, as far as mappings and streams are concerned.
revoke_agent == <<Step("ban", Nothing), Step("leave", Nothing)>> \o reload

accept_loop == <<Step("accept", Nothing), Step("policy", Nothing), Step("room", Nothing), Step("track", Nothing), Step("record", Nothing)>>
handle_connection ==
    <<Step("reach", Nothing), Step("reserve", Nothing), Step("subscribe", Nothing), Step("open", Nothing), Step("bridge", Nothing),
      Step("unsubscribe", Nothing), Step("release", Nothing), Step("bytes", Nothing)>>

require_terminal_session_scope == <<Step("auth", Nothing), Step("totp", Nothing)>>
create_terminal_session == require_terminal_session_scope \o <<Step("allowed", Nothing), Step("reach", Nothing), Step("pend", Nothing)>>
handle_terminal_socket == <<Step("subscribe", Nothing), Step("open", Nothing), Step("bridge", Nothing), Step("unsubscribe", Nothing)>>
ws_terminal == <<Step("auth", Nothing), Step("take", Nothing), Step("allowed", Nothing)>> \o handle_terminal_socket

Program(q) ==
    CASE q.op = "nat_create" -> create_nat_mapping [] q.op = "nat_get" -> get_nat_mapping
      [] q.op = "nat_list" -> list_nat_mappings [] q.op = "nat_all" -> list_all_nat_mappings
      [] q.op = "nat_update" -> update_nat_mapping [] q.op = "nat_delete" -> delete_nat_mapping
      [] q.op = "revoke_agent" -> revoke_agent
      [] q.op = "connect" -> accept_loop \o handle_connection
      [] q.op = "terminal" -> create_terminal_session [] q.op = "socket" -> ws_terminal
      [] q.op \in {"flip", "tick"} -> <<Step(q.op, Nothing)>>
      [] OTHER -> <<Step("change", Nothing)>>

Scopes(op) ==
    CASE op \in {"nat_get", "nat_list", "nat_all"} -> {"nat:read"} [] op \in {"nat_create", "nat_update"} -> {"nat:write"}
      [] op = "nat_delete" -> {"nat:delete"} [] op \in {"terminal", "socket"} -> {"server:exec"}

Init ==
    /\ TransfersInit(Program) /\ \E w \in Work({r.q : r \in live}) : HostInit(w)
    /\ listed = {rows[m].port : m \in Enabled}
    /\ sock = [p \in Ports |-> IF p \in listed THEN "on" ELSE "free"] /\ busy = [p \in Ports |-> Nothing]
    /\ tunnels = {} /\ subs = {} /\ opened = {} /\ silent = {} /\ clash = FALSE
    /\ pending = [s \in Shells |-> Nothing]
    /\ tracked = [k \in Rows \X Ips |-> Nothing] /\ win = 0
    /\ used = [k \in Rows \X Ips \X Windows |-> [n |-> 0, b |-> 0]] /\ admitted = [k \in Rows \X Ips \X Windows |-> 0]
    /\ down = [s \in Streams |-> <<>>] /\ up = [s \in Streams |-> <<>>]
    /\ sess = [s \in Streams |-> "none"] /\ spent = [s \in Streams |-> 0]

-----------------------------------------------------------------------------
(* api/v1/nat.rs *)

TheAgent(r) == IF r.got = Nothing THEN r.q.agent ELSE r.got.server
AndReads(r) == Reads /\ UNCHANGED remoteVars

\* get_by_id
FindMapping(r) ==
    /\ At(r, "get") /\ AndReads(r)
    /\ IF rows[r.q.row] = Nothing THEN Ends(r) ELSE Goto(r, [Next_(r) EXCEPT !.got = rows[r.q.row]])

\* A token is held to its list of Agents and to its user's own.
load_authorized_nat_agent_or_403(r, a) ==
    LET c == creds[r.q.by] IN
    /\ c.servers # Nothing => a \in c.servers
    /\ (c.kind = "session" /\ r.admin) \/ agents[a].owner = c.user

FindNatAgent(r) ==
    /\ At(r, "nat_agent") /\ AndReads(r)
    /\ IF load_authorized_nat_agent_or_403(r, TheAgent(r)) THEN Proceeds(r) ELSE Ends(r)

\* The row as it will be written: what was read, with the fields of the request.
Updated(r) == [r.got EXCEPT !.port = IF r.q.port = Nothing THEN @ ELSE r.q.port, !.on = IF r.q.on = Nothing THEN @ ELSE r.q.on]

\* Asked of a mapping that will be enabled.
FindActiveNatAgent(r) ==
    /\ At(r, "nat_active") /\ AndReads(r)
    /\ IF r.q.op = "nat_update" /\ ~Updated(r).on THEN Proceeds(r)
       ELSE IF load_authorized_nat_agent_or_403(r, TheAgent(r)) /\ ~agents[TheAgent(r)].revoked THEN Proceeds(r) ELSE Ends(r)

\* get_by_public_port: among the enabled ones.
FindPort(r) ==
    /\ At(r, "port") /\ AndReads(r)
    /\ LET p == IF r.q.op = "nat_update" THEN Updated(r).port ELSE r.q.port IN
       IF (r.got # Nothing => p # r.got.port) /\ \E m \in Rows : rows[m] # Nothing /\ rows[m].on /\ rows[m].port = p
       THEN Ends(r) ELSE Proceeds(r)

\* public_port is unique, enabled or not.
Taken(p, m) == \E x \in Rows \ {m} : rows[x] # Nothing /\ rows[x].port = p
ActsOnMapping(r, a, on) ==
    acted' = [needs |-> {<<"credential", r.q.by>>, <<"sees", r.q.by, a>>, <<"admin", creds[r.q.by].user>>}
                        \cup (IF on THEN {<<"active", a>>} ELSE {}), ever |-> r.ever]
Writes(r, row) ==
    /\ rows' = [rows EXCEPT ![r.q.row] = row]
    /\ UNCHANGED <<users, creds, agents, tokens, hits, sent, torn, faults, remoteVars>>

CreateMapping(r) ==
    /\ At(r, "insert")
    /\ IF Taken(r.q.port, r.q.row) THEN AndReads(r) /\ Ends(r)
       ELSE /\ Writes(r, [kind |-> "nat", server |-> r.q.agent, port |-> r.q.port, on |-> TRUE])
            /\ ActsOnMapping(r, r.q.agent, TRUE) /\ Proceeds(r)

\* All fields are written, by id: nothing if the row is gone.
UpdateMapping(r) ==
    /\ At(r, "update")
    /\ IF rows[r.q.row] = Nothing THEN AndReads(r) /\ Proceeds(r)
       ELSE IF Taken(Updated(r).port, r.q.row) THEN AndReads(r) /\ Ends(r)
       ELSE Writes(r, Updated(r)) /\ ActsOnMapping(r, r.got.server, Updated(r).on) /\ Proceeds(r)

DeleteMapping(r) ==
    /\ At(r, "remove")
    /\ Writes(r, Nothing) /\ ActsOnMapping(r, r.got.server, FALSE) /\ Proceeds(r)

ShowsMapping(r) == At(r, "mapping") /\ AndReads(r) /\ Shows(r, {<<"sees", r.q.by, r.got.server>>})
ListsMappings(r) == At(r, "mappings") /\ AndReads(r) /\ Shows(r, {<<"sees", r.q.by, r.q.agent>>})
list_runtime_nat_mappings(r) == At(r, "runtime") /\ AndReads(r) /\ Shows(r, {<<"admin", creds[r.q.by].user>>})

-----------------------------------------------------------------------------
(* NatTunnelManager::reload *)

Reloading(r) == r.todo # <<>> /\ r.todo[1][1] \in {"retain", "start", "list"}

\* list_enabled_for_active_agents
LoadMappings(r) ==
    /\ At(r, "load") /\ Reads
    /\ clash' = (clash \/ \E x \in live \ {r} : Reloading(x))
    /\ UNCHANGED <<sock, listed, busy, rates, frames, streams>>
    /\ Goto(r, [Next_(r) EXCEPT !.among = {<<m, rows[m].port>> : m \in Enabled}])

Stale(r) == listed \ {x[2] : x \in r.among}

\* Variant: listeners that are no longer wanted are left to end by themselves.
RetainListeners_Kept(r) ==
    /\ At(r, "retain") /\ Reads
    /\ listed' = listed \ Stale(r)
    /\ UNCHANGED <<sock, busy, clash, rates, frames, streams>> /\ Proceeds(r)

\* Counts of other mappings are forgotten; listeners on other ports leave the list and are told to stop.
RetainListeners(r) ==
    /\ At(r, "retain") /\ Reads
    /\ tracked' = [k \in Rows \X Ips |-> IF \E x \in r.among : x[1] = k[1] THEN tracked[k] ELSE Nothing]
    /\ listed' = listed \ Stale(r)
    /\ sock' = [p \in Ports |-> IF p \in Stale(r) THEN "told" ELSE sock[p]]
    /\ UNCHANGED <<busy, clash, used, win, admitted, frames, streams>> /\ Proceeds(r)

\* The next port by number: skipped if listed, bound if nobody holds it.
start_listener(r) ==
    /\ At(r, "start") /\ Reads
    /\ IF r.among = {} THEN UNCHANGED remoteVars /\ Proceeds(r)
       ELSE LET x == CHOOSE y \in r.among : \A z \in r.among : y[2] <= z[2]
                rest == [r EXCEPT !.among = @ \ {x}] IN
            /\ UNCHANGED <<listed, busy, rates, frames, streams>>
            /\ IF x[2] \in listed THEN UNCHANGED <<sock, clash>> /\ Goto(r, rest)
               ELSE IF sock[x[2]] # "free" THEN UNCHANGED sock /\ clash' = TRUE /\ Goto(r, rest)
               ELSE /\ sock' = [sock EXCEPT ![x[2]] = "starting"] /\ UNCHANGED clash
                    /\ Goto(r, [rest EXCEPT !.todo = <<Step("list", x[2])>> \o @])

\* The listener is listed, and its loop begins.
ListListener(r) ==
    /\ At(r, "list") /\ Reads
    /\ listed' = listed \cup {On(r)} /\ sock' = [sock EXCEPT ![On(r)] = "on"]
    /\ UNCHANGED <<busy, clash, rates, frames, streams>> /\ Proceeds(r)

\* A loop that waits for connections sees that it is to stop.
StopListener(p) ==
    /\ sock[p] = "told" /\ busy[p] = Nothing
    /\ sock' = [sock EXCEPT ![p] = "free"]
    /\ UNCHANGED <<listed, busy, clash, rates, frames, streams, transferVars>>

\* A client that goes away takes the rest of its request with it, and a listener not yet listed.
DropRequest(r) ==
    /\ r.begun /\ r.todo # <<>> /\ r.q.op \in {"nat_create", "nat_update", "nat_delete", "revoke_agent", "terminal"}
    /\ faults < MaxFaults /\ faults' = faults + 1
    /\ sock' = IF At(r, "list") THEN [sock EXCEPT ![On(r)] = "free"] ELSE sock
    /\ clash' = (clash \/ r.todo[1][1] \in {"leave", "load", "retain", "start", "list"})
    /\ UNCHANGED <<tables, tokens, hits, sent, torn, acted, listed, busy, rates, frames, streams>>
    /\ Ends(r)

-----------------------------------------------------------------------------
(* accept_loop: one connection at a time. *)

\* It may take another connection before it sees that it is to stop.
Accept(r) ==
    /\ At(r, "accept") /\ sock[r.q.port] \in {"on", "told"} /\ busy[r.q.port] = Nothing
    /\ busy' = [busy EXCEPT ![r.q.port] = stream(r)]
    /\ Reads /\ UNCHANGED <<sock, listed, clash, rates, frames, streams>> /\ Proceeds(r)

Rejects(r) == busy' = [busy EXCEPT ![r.q.port] = Nothing] /\ UNCHANGED <<sock, listed, clash>> /\ Ends(r)

\* Variant: the mapping is taken whatever has become of it.
current_mapping_for_port_Found(p) == {m \in Rows : rows[m] # Nothing /\ rows[m].port = p}

current_mapping_for_port(p) == {m \in Enabled : rows[m].port = p}

ReadPolicy(r) ==
    /\ At(r, "policy") /\ Reads /\ UNCHANGED <<rates, frames, streams>>
    /\ IF current_mapping_for_port(r.q.port) = {} THEN Rejects(r)
       ELSE LET m == CHOOSE x \in current_mapping_for_port(r.q.port) : TRUE IN
            UNCHANGED listening /\ Goto(r, [Next_(r) EXCEPT !.got = [id |-> m, row |-> rows[m], win |-> win]])

active_tunnel_count_for_mapping(m) == Cardinality({t \in tunnels : t[2] = m})

CountTunnels(r) ==
    /\ At(r, "room") /\ Reads /\ UNCHANGED <<rates, frames, streams>>
    /\ IF Cardinality(tunnels) >= MaxTunnels \/ active_tunnel_count_for_mapping(r.got.id) >= MapLimit
       THEN Rejects(r) ELSE UNCHANGED listening /\ Proceeds(r)

prune_expired_source_rate_windows(m, w) ==
    [k \in Rows \X Ips |-> IF k[1] = m /\ tracked[k] # Nothing /\ tracked[k].win < w THEN Nothing ELSE tracked[k]]
SourcesOf(t, m) == {i \in Ips : t[<<m, i>>] # Nothing}

\* The source's count of this window, in memory.
record_source_connection_in_map(r) ==
    /\ At(r, "track") /\ Reads /\ UNCHANGED <<used, win, admitted, frames, streams>>
    /\ LET k == <<r.got.id, r.q.ip>>
           kept == prune_expired_source_rate_windows(k[1], win)
           have == IF kept[k] # Nothing /\ kept[k].win = win THEN kept[k] ELSE [win |-> win, n |-> 0, b |-> 0]
           counted == [kept EXCEPT ![k] = [have EXCEPT !.n = @ + 1]] IN
       IF kept[k] = Nothing /\ Cardinality(SourcesOf(kept, k[1])) >= MaxSources THEN tracked' = kept /\ Rejects(r)
       ELSE IF have.n + 1 > WindowLimit[k[1]] THEN tracked' = counted /\ Rejects(r)
       ELSE IF have.b > WindowBytes THEN tracked' = kept /\ Rejects(r)
       ELSE tracked' = counted /\ UNCHANGED listening /\ Goto(r, [Next_(r) EXCEPT !.got.win = win])

WithinWindow(m, u) == u.n <= WindowLimit[m] /\ u.b <= WindowBytes

record_connection_window(k) == [used EXCEPT ![k].n = @ + 1]

\* The loop is free for the next connection.
record_nat_connection(r) ==
    /\ At(r, "record") /\ Reads /\ UNCHANGED <<tracked, win, sock, listed, clash, frames, streams>>
    /\ LET k == <<r.got.id, r.q.ip, r.got.win>> IN
       /\ used' = record_connection_window(k)
       /\ busy' = [busy EXCEPT ![r.q.port] = Nothing]
       /\ IF WithinWindow(k[1], used'[k]) THEN admitted' = [admitted EXCEPT ![k] = @ + 1] /\ Proceeds(r)
          ELSE UNCHANGED admitted /\ Ends(r)

-----------------------------------------------------------------------------
(* handle_connection and handle_terminal_socket *)

IsTunnel(r) == r.q.op = "connect"
StreamAgent(r) == IF IsTunnel(r) THEN r.got.row.server ELSE r.q.agent
Online(r) == agents[StreamAgent(r)].online

ReachesAgentIo(r) == At(r, "reach") /\ AndReads(r) /\ IF Online(r) THEN Proceeds(r) ELSE Ends(r)

\* Variant: the accept loop has counted.
reserve_active_tunnel_Counted(m) == TRUE

\* Under the lock of active_tunnels.
reserve_active_tunnel(m) == Cardinality(tunnels) < MaxTunnels /\ active_tunnel_count_for_mapping(m) < MapLimit

ReserveTunnel(r) ==
    /\ At(r, "reserve") /\ Reads /\ UNCHANGED <<listening, rates, frames, subs, pending, opened>>
    /\ IF reserve_active_tunnel(r.got.id) THEN tunnels' = tunnels \cup {<<stream(r), r.got.id>>} /\ Proceeds(r)
       ELSE UNCHANGED tunnels /\ Ends(r)

SubscribeStream(r) ==
    /\ At(r, "subscribe") /\ Reads
    /\ subs' = subs \cup {stream(r)}
    /\ UNCHANGED <<listening, rates, frames, tunnels, pending, opened>> /\ Proceeds(r)

\* What is sent reaches the connection there is, or fails.
Tells(r, fs) == down' = IF Online(r) THEN [down EXCEPT ![stream(r)] = @ \o fs] ELSE down

\* The Agent is asked to open; without one the rest is cleaning up.
SendOpen(r) ==
    /\ At(r, "open") /\ UNCHANGED <<still, listening, rates, up, sess, spent, silent, tunnels, subs, pending>>
    /\ Tells(r, <<"open">>)
    /\ IF Online(r)
       THEN /\ acted' = [needs |-> IF IsTunnel(r)
                                   THEN {<<"row", r.got.id, [r.got.row EXCEPT !.on = TRUE]>>, <<"active", r.got.row.server>>}
                                   ELSE Needs(r.q.by, "server:exec", r.q.agent),
                         ever |-> r.ever]
            /\ opened' = IF IsTunnel(r) THEN opened ELSE opened \cup {<<stream(r), r.q.id, r.q.by>>}
            /\ Proceeds(r)
       ELSE /\ UNCHANGED <<acted, opened>>
            /\ Goto(r, [Next_(r) EXCEPT !.todo = Tail(@), !.out = "failed"])

Leaves(r, out) == Goto(r, [Next_(r) EXCEPT !.out = out])
InBridge(r) == At(r, "bridge") /\ Reads /\ UNCHANGED <<listening, rates, streams, sess>>
\* The stream ends with a Close to the Agent, or without one.
CloseAnd(r, out) == Tells(r, <<"close">>) /\ UNCHANGED silent /\ Leaves(r, out)
Silently(r, out) == silent' = silent \cup {stream(r)} /\ UNCHANGED down /\ Leaves(r, out)
ensure_nat_byte_limit(n) == n <= TunnelBytes

\* Data from the client or the browser.
ClientSends(r) ==
    /\ InBridge(r) /\ UNCHANGED up
    /\ spent[stream(r)] < MaxData[stream(r)] /\ spent' = [spent EXCEPT ![stream(r)] = @ + 1]
    /\ IF IsTunnel(r) /\ ~Online(r) THEN UNCHANGED <<down, silent>> /\ Leaves(r, "failed")
       ELSE IF IsTunnel(r) /\ ~ensure_nat_byte_limit(spent'[stream(r)])
       THEN Tells(r, <<"data", "close">>) /\ UNCHANGED silent /\ Leaves(r, "failed")
       ELSE Tells(r, <<"data">>) /\ UNCHANGED <<silent, live>>

ClientCloses(r) == InBridge(r) /\ UNCHANGED <<up, spent>> /\ CloseAnd(r, "success")

\* Only a tunnel's read may fail without a Close being sent.
ClientFails(r) == InBridge(r) /\ IsTunnel(r) /\ UNCHANGED <<up, spent>> /\ Silently(r, "failed")

\* No handshake in time, or idle for too long.
TunnelTimesOut(r) == InBridge(r) /\ IsTunnel(r) /\ UNCHANGED <<up, spent>> /\ CloseAnd(r, "failed")

\* The next frame from the Agent; none will come once the subscription is gone.
AgentFrameArrives(r) ==
    /\ InBridge(r)
    /\ LET s == stream(r) IN
       \/ /\ up[s] # <<>> /\ up' = [up EXCEPT ![s] = Tail(@)]
          /\ \/ /\ Head(up[s]) = "ready" /\ UNCHANGED <<down, silent, spent, live>>
             \/ /\ Head(up[s]) = "data" /\ spent' = [spent EXCEPT ![s] = @ + 1]
                /\ \/ /\ IsTunnel(r) => ensure_nat_byte_limit(spent'[s])
                      /\ UNCHANGED <<down, silent, live>>
                   \/ IsTunnel(r) /\ ~ensure_nat_byte_limit(spent'[s]) /\ CloseAnd(r, "failed")
                   \/ Silently(r, "failed")
             \/ /\ Head(up[s]) = "close" /\ UNCHANGED <<down, silent, spent>> /\ Leaves(r, "success")
             \/ /\ Head(up[s]) = "error" /\ UNCHANGED spent
                /\ \/ Silently(r, "failed")
                   \/ ~IsTunnel(r) /\ UNCHANGED <<down, silent, live>>
       \/ /\ up[s] = <<>> /\ s \notin subs
          /\ UNCHANGED <<up, spent>> /\ Silently(r, "success")

UnsubscribeStream(r) ==
    /\ At(r, "unsubscribe") /\ Reads
    /\ subs' = subs \ {stream(r)} /\ up' = [up EXCEPT ![stream(r)] = <<>>]
    /\ UNCHANGED <<listening, rates, down, sess, spent, silent, tunnels, pending, opened>> /\ Proceeds(r)

ReleaseTunnel(r) ==
    /\ At(r, "release") /\ Reads
    /\ tunnels' = {t \in tunnels : t[1] # stream(r)}
    /\ UNCHANGED <<listening, rates, frames, subs, pending, opened>> /\ Proceeds(r)

\* A window that has passed takes the place of the source's present one in memory.
record_source_bytes_in_map(k, w, n) ==
    LET kept == prune_expired_source_rate_windows(k[1], w)
        have == IF kept[k] # Nothing /\ kept[k].win = w THEN kept[k] ELSE [win |-> w, n |-> 0, b |-> 0] IN
    IF SourcesOf(tracked, k[1]) = {} THEN tracked
    ELSE IF kept[k] = Nothing /\ Cardinality(SourcesOf(kept, k[1])) >= MaxSources THEN kept
    ELSE [kept EXCEPT ![k] = [have EXCEPT !.b = @ + n]]

record_window_bytes(k, n) == [used EXCEPT ![k].b = @ + n]

record_nat_window_bytes(r) ==
    /\ At(r, "bytes") /\ Reads /\ UNCHANGED <<listening, win, admitted, frames, streams>>
    /\ LET k == <<r.got.id, r.q.ip>> IN
       IF r.out = "success" /\ spent[stream(r)] > 0
       THEN /\ tracked' = record_source_bytes_in_map(k, r.got.win, spent[stream(r)])
            /\ used' = record_window_bytes(<<k[1], k[2], r.got.win>>, spent[stream(r)])
       ELSE UNCHANGED <<tracked, used>>
    /\ Ends(r)

-----------------------------------------------------------------------------
(* api/v1/terminal.rs *)

\* By one read: visible and not revoked.
ensure_terminal_agent_active(r) ==
    /\ At(r, "allowed") /\ AndReads(r)
    /\ IF CanSee(r.q.by, r.admin, r.q.agent) /\ ~agents[r.q.agent].revoked THEN Proceeds(r) ELSE Ends(r)

\* create: expired ones make room.
CreatePending(r) ==
    /\ At(r, "pend") /\ Reads /\ UNCHANGED <<listening, rates, frames, tunnels, subs, opened>>
    /\ IF Cardinality({s \in Shells : pending[s] # Nothing}) >= MaxPending THEN UNCHANGED pending /\ Ends(r)
       ELSE pending' = [pending EXCEPT ![stream(r)] = r.q.by] /\ Proceeds(r)

\* Taken by the credential that created it, once.
take_for_auth(r) ==
    /\ At(r, "take") /\ Reads /\ UNCHANGED <<listening, rates, frames, tunnels, subs, opened>>
    /\ IF pending[stream(r)] # r.q.by THEN UNCHANGED pending /\ Ends(r)
       ELSE pending' = [pending EXCEPT ![stream(r)] = Nothing] /\ Proceeds(r)

-----------------------------------------------------------------------------
(* The Agent: frames are handled one at a time. *)

Kept == {"nat", "mute", "deaf", "shell", "exited"}
Opening == {"opening", "cut"}
Free == \A s \in Streams : sess[s] \notin Opening
FromAgent(s, fs) == up' = IF s \in subs THEN [up EXCEPT ![s] = @ \o fs] ELSE up
Becomes(s, x) == sess' = [sess EXCEPT ![s] = x]
OnAgent == UNCHANGED <<transferVars, listening, rates, streams, silent, spent>>
Takes(s, f) == OnAgent /\ Free /\ down[s] # <<>> /\ Head(down[s]) = f /\ down' = [down EXCEPT ![s] = Tail(@)]

\* The target is connected to and its reader started, before the session is kept.
handle_nat_control_message(s) ==
    /\ s \notin Shells /\ Takes(s, "open")
    /\ \/ "nat" \notin mem.off /\ Becomes(s, "opening") /\ UNCHANGED up
       \/ UNCHANGED sess /\ FromAgent(s, <<"error">>)

KeepNatSession(s) ==
    /\ sess[s] \in Opening /\ OnAgent /\ UNCHANGED down
    /\ Becomes(s, IF sess[s] = "cut" THEN "deaf" ELSE "nat") /\ FromAgent(s, <<"ready">>)

\* The target answers, closes or fails.
TargetSpeaks(s) ==
    /\ OnAgent /\ UNCHANGED down
    /\ \/ /\ sess[s] \in {"nat", "mute"} /\ Len(up[s]) < MaxData[s] /\ spent[s] < MaxData[s]
          /\ FromAgent(s, <<"data">>) /\ UNCHANGED sess
       \/ /\ sess[s] \in {"nat", "mute"} /\ Becomes(s, "none")
          /\ (FromAgent(s, <<"close">>) \/ FromAgent(s, <<"error">>))
       \/ /\ sess[s] = "opening" /\ Becomes(s, "cut")
          /\ (FromAgent(s, <<"close">>) \/ FromAgent(s, <<"error">>))

\* Data for a tunnel: written, or the writer fails and the next finds it gone.
handle_nat_data(s) ==
    /\ s \notin Shells /\ Takes(s, "data")
    /\ \/ sess[s] = "none" /\ FromAgent(s, <<"error">>) /\ UNCHANGED sess
       \/ /\ sess[s] \in Kept /\ "nat" \in mem.off
          /\ Becomes(s, "none") /\ FromAgent(s, <<"error">>)
       \/ /\ sess[s] \in {"nat", "deaf"} /\ "nat" \notin mem.off
          /\ \/ UNCHANGED <<up, sess>>
             \/ sess[s] = "nat" /\ Becomes(s, "mute") /\ FromAgent(s, <<"error">>)
       \/ /\ sess[s] = "mute" /\ "nat" \notin mem.off
          /\ Becomes(s, "none") /\ FromAgent(s, <<"close">>)

\* A session that is kept is closed, and says so.
handle_io_close(s) ==
    /\ Takes(s, "close")
    /\ IF sess[s] \in Kept THEN Becomes(s, "none") /\ FromAgent(s, <<"close">>) ELSE UNCHANGED <<sess, up>>

TerminalSlots == Cardinality({s \in Shells : sess[s] \in Kept})

handle_new_terminal_session(s) ==
    /\ s \in Shells /\ Takes(s, "open")
    /\ \/ /\ "exec" \notin mem.off /\ TerminalSlots < MaxShells
          /\ Becomes(s, "shell") /\ UNCHANGED up
       \/ UNCHANGED sess /\ FromAgent(s, <<"error">>)

handle_terminal_message(s) ==
    /\ s \in Shells /\ Takes(s, "data")
    /\ \/ sess[s] = "none" /\ UNCHANGED sess /\ FromAgent(s, <<"error">>)
       \/ sess[s] \in Kept /\ "exec" \in mem.off /\ Becomes(s, "none") /\ FromAgent(s, <<"error", "close">>)
       \/ sess[s] = "shell" /\ "exec" \notin mem.off /\ UNCHANGED <<sess, up>>
       \/ sess[s] = "exited" /\ "exec" \notin mem.off /\ UNCHANGED sess /\ FromAgent(s, <<"error">>)

\* The shell prints, or exits: the session and its slot are kept.
terminal_output_loop(s) ==
    /\ sess[s] = "shell" /\ OnAgent /\ UNCHANGED down
    /\ \/ Len(up[s]) < MaxData[s] /\ spent[s] < MaxData[s] /\ FromAgent(s, <<"data">>) /\ UNCHANGED sess
       \/ Becomes(s, "exited") /\ FromAgent(s, <<"close">>)

-----------------------------------------------------------------------------
(* What else happens. *)

\* The connection ends: both ends forget, and what was on the way may be lost.
CleanUp ==
    /\ subs' = {} /\ down' = [s \in Streams |-> <<>>] /\ sess' = [s \in Streams |-> "none"]
    /\ (UNCHANGED up \/ up' = [s \in Streams |-> <<>>])

FlipAgent(r) ==
    /\ At(r, "flip") \/ At(r, "leave")
    /\ LET a == r.q.agent IN
       /\ agents' = [agents EXCEPT ![a].online = At(r, "flip") /\ ~@ /\ ~agents[a].revoked]
       /\ IF agents[a].online THEN CleanUp ELSE UNCHANGED <<subs, down, sess, up>>
    /\ UNCHANGED <<users, creds, rows, tokens, hits, listening, rates, spent, silent, tunnels, pending, opened>> /\ Quiet
    /\ Proceeds(r)

BanAgent(r) ==
    /\ At(r, "ban") /\ agents' = [agents EXCEPT ![r.q.agent].revoked = TRUE]
    /\ UNCHANGED <<users, creds, rows, tokens, hits, remoteVars>> /\ Quiet /\ Proceeds(r)

\* The next window begins; a terminal session not taken by then has expired.
NextWindow(r) ==
    /\ At(r, "tick") /\ win + 1 \in Windows
    /\ win' = win + 1 /\ pending' = [s \in Shells |-> Nothing]
    /\ Reads /\ UNCHANGED <<tracked, used, admitted, listening, frames, tunnels, subs, opened>> /\ Ends(r)

RequestStep(r) ==
    \/ FindMapping(r) \/ FindNatAgent(r) \/ FindActiveNatAgent(r) \/ FindPort(r)
    \/ CreateMapping(r) \/ UpdateMapping(r) \/ DeleteMapping(r)
    \/ ShowsMapping(r) \/ ListsMappings(r) \/ list_runtime_nat_mappings(r)
    \/ LoadMappings(r) \/ RetainListeners(r) \/ start_listener(r) \/ ListListener(r) \/ DropRequest(r)
    \/ Accept(r) \/ ReadPolicy(r) \/ CountTunnels(r) \/ record_source_connection_in_map(r) \/ record_nat_connection(r)
    \/ ReachesAgentIo(r) \/ ReserveTunnel(r) \/ SubscribeStream(r) \/ SendOpen(r)
    \/ ClientSends(r) \/ ClientCloses(r) \/ ClientFails(r) \/ TunnelTimesOut(r) \/ AgentFrameArrives(r)
    \/ UnsubscribeStream(r) \/ ReleaseTunnel(r) \/ record_nat_window_bytes(r)
    \/ ensure_terminal_agent_active(r) \/ CreatePending(r) \/ take_for_auth(r)
    \/ FlipAgent(r) \/ BanAgent(r) \/ NextWindow(r)

AgentStep(s) ==
    \/ handle_nat_control_message(s) \/ KeepNatSession(s) \/ TargetSpeaks(s) \/ handle_nat_data(s) \/ handle_io_close(s)
    \/ handle_new_terminal_session(s) \/ handle_terminal_message(s) \/ terminal_output_loop(s)

\* A client that does one thing after another.
InTurn(r) == \A x \in live : x.q.id # r.q.after

Next ==
    \/ \E r \in live : /\ InTurn(r) /\ UNCHANGED hostVars
                       /\ \/ RequestStep(r)
                          \/ UNCHANGED remoteVars /\ Authenticated(r, Scopes(r.q.op))
                          \/ UNCHANGED remoteVars /\ (AsksForCode(r) \/ Responds(r) \/ Change(r))
    \/ \E p \in Ports : UNCHANGED hostVars /\ StopListener(p)
    \/ \E s \in Streams : UNCHANGED hostVars /\ AgentStep(s)
    \/ \E j \in jobs : UNCHANGED <<transferVars, remoteVars>> /\ HostStep(j)

Spec == Init /\ [][Next]_<<transferVars, remoteVars, hostVars>>

-----------------------------------------------------------------------------
(* Properties. *)

TypeOK ==
    /\ sock \in [Ports -> {"free", "starting", "on", "told"}] /\ listed \subseteq Ports
    /\ busy \in [Ports -> Streams \cup {Nothing}] /\ tunnels \subseteq Streams \X Rows
    /\ subs \subseteq Streams /\ win \in Windows /\ spent \in [Streams -> Nat]
    /\ sess \in [Streams -> Kept \cup Opening \cup {"none"}]
    /\ mem.off \subseteq Flags /\ disk.off \subseteq Flags
    /\ TerminalSlots <= MaxShells

(***************************************************************************)
(* Whatever is written to a mapping, shown of one, or opened on an Agent   *)
(* through a tunnel or a terminal was so at some moment since it was asked *)
(* for: the session stood and saw the Agent, and the mapping a connection  *)
(* uses was enabled and its Agent not revoked, whatever listeners are left *)
(* over.  api/v1/nat.rs, accept_loop, ws_terminal.                         *)
(***************************************************************************)
RemoteIsEntitled == acted.needs \subseteq acted.ever

(***************************************************************************)
(* A listener that has not been told to stop is one that a reload can      *)
(* find, and one that is listed has its socket; and when nobody is at work *)
(* on mappings, those that are enabled are the ones listened for, unless   *)
(* reloads overlapped, were dropped or found a port still taken.           *)
(* NatTunnelManager::reload, start_listener.                               *)
(***************************************************************************)
ListenersFollowMappings ==
    /\ \A p \in Ports : p \in listed <=> sock[p] = "on"
    /\ ~clash /\ (\A r \in live : r.begun => r.q.op \notin {"nat_create", "nat_update", "nat_delete", "revoke_agent"})
          => listed = {rows[m].port : m \in Enabled}

(***************************************************************************)
(* There are never more tunnels than the server's limit and the mapping's, *)
(* however many connections were counted in before the first of them is    *)
(* inserted; and every one belongs to a connection that will remove it.    *)
(* accept_loop, reserve_active_tunnel.                                     *)
(***************************************************************************)
TunnelsAreBounded ==
    /\ Cardinality(tunnels) <= MaxTunnels
    /\ \A m \in Rows : active_tunnel_count_for_mapping(m) <= MapLimit
    /\ \A t \in tunnels : \E r \in live : r.begun /\ IsTunnel(r) /\ stream(r) = t[1] /\ r.todo # <<>>

(***************************************************************************)
(* No source is let through more often than the mapping allows within a    *)
(* window, although a reload forgets the counts in memory and the end of   *)
(* an old connection resets them.  record_nat_connection.                  *)
(***************************************************************************)
WindowIsBounded == \A k \in Rows \X Ips \X Windows : admitted[k] <= WindowLimit[k[1]]

(***************************************************************************)
(* A pending terminal session is opened by one socket, and that of the     *)
(* session that asked for it.  TerminalSessionRegistry::take_for_auth.     *)
(***************************************************************************)
TerminalOpensOnce == \A x, y \in opened : x[1] = y[1] => x = y

(***************************************************************************)
(* What the Agent keeps for a stream has the server's end under way, a     *)
(* Close coming to it, or was left without a word, as happens when a read  *)
(* or a write of the public side fails, or the subscription went with an   *)
(* earlier connection.  A target that closes before its session is kept,   *)
(* and a shell that exits, leave theirs behind.                            *)
(* bridge_over_iostream, handle_terminal_socket, handle_io_frame.          *)
(***************************************************************************)
SessionIsAnswered ==
    \A s \in Streams :
        sess[s] \in {"nat", "mute", "shell"} /\ s \notin silent =>
            \/ \E i \in DOMAIN down[s] : down[s][i] = "close"
            \/ \E r \in live : r.begun /\ r.q.op \in {"connect", "socket"} /\ stream(r) = s

(***************************************************************************)
(* The limits on tunnels, connections and terminals hold, although each is *)
(* checked by one task and used by another.                                *)
(***************************************************************************)
RemoteIsBounded == TunnelsAreBounded /\ WindowIsBounded /\ TerminalOpensOnce

(***************************************************************************)
(* Neither a listener nor an Agent's session outlives what it is there for.*)
(***************************************************************************)
NothingIsLeftBehind == ListenersFollowMappings /\ SessionIsAnswered
=============================================================================

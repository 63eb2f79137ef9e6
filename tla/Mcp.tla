-------------------------------- MODULE Mcp ----------------------------------
(***************************************************************************)
(* The MCP server (api/v1/mcp.rs, mcp/executor.rs, mcp/tools.rs): tools,   *)
(* resources and prompts that read the fleet's data and tools that run     *)
(* commands and read files, over the operations of Transfers.              *)
(***************************************************************************)
EXTENDS Transfers

-----------------------------------------------------------------------------
(* Programs: mcp/executor.rs. *)

load_all_visible_agents_with_state == <<Step("agents", Nothing)>>
build_enriched_server_json == <<Step("inventory", Nothing)>>
Tell == <<Step("tell", Nothing)>>
Found == load_all_visible_agents_with_state \o <<Step("services", Nothing)>>

exec_whoami == <<>>
exec_server_list == load_all_visible_agents_with_state \o build_enriched_server_json
exec_server_resolve == load_all_visible_agents_with_state \o build_enriched_server_json
exec_server_get(a) == <<Step("state", a)>>
exec_server_metrics(a) == <<Step("state", a)>>
exec_service_list == Found \o Tell
exec_service_history == Found \o Tell \o load_all_visible_agents_with_state \o <<Step("results", Nothing)>>
exec_alert_events == load_all_visible_agents_with_state \o Found \o <<Step("events", Nothing)>>
exec_alert_rules == load_all_visible_agents_with_state \o Found \o <<Step("rules", Nothing)>>
exec_task_list == load_all_visible_agents_with_state \o <<Step("tasks", Nothing)>>
exec_network_topology == load_all_visible_agents_with_state \o <<Step("nat", Nothing), Step("ddns", Nothing)>>
exec_cluster_overview == exec_server_list \o exec_service_list \o exec_alert_events
exec_cluster_diagnose == exec_server_list \o exec_service_list

ensure_agent_active(a) == <<Step("both", a)>>
dispatch_shell(a) == <<Step("online", a), Step("send", a), Step("reply", a)>>
dispatch_mcp_file_task(a) == <<Step("online", a), Step("send", a), Step("reply", a)>>
exec_server_exec(a) == ensure_agent_active(a) \o dispatch_shell(a)
exec_server_inspect(a) == ensure_agent_active(a) \o dispatch_shell(a)
exec_fs_list(a) == ensure_agent_active(a) \o dispatch_mcp_file_task(a)
exec_fs_read(a) == ensure_agent_active(a) \o dispatch_mcp_file_task(a)
exec_fs_download_url(a) == ensure_agent_active(a) \o <<Step("create", a)>>
\* The Agents that were named, or all that are online.
exec_server_batch_exec(a, b) == ensure_agent_active(a) \o ensure_agent_active(b) \o <<Step("batch", Nothing)>>
exec_batch_online == <<Step("online_all", Nothing), Step("batch", Nothing)>>

read_resource(q) ==
    CASE q.item = "overview" -> exec_cluster_overview
      [] q.item = "inventory" -> exec_server_list
      [] q.item = "health" -> exec_service_list
      [] q.item = "active" -> exec_alert_events \o exec_alert_rules
      [] q.item = "topology" -> exec_network_topology
      [] q.item = "telemetry" -> exec_server_get(q.agent) \o exec_server_metrics(q.agent)

get_prompt(q) ==
    CASE q.item = "audit" -> exec_cluster_overview \o exec_cluster_diagnose
      [] q.item = "troubleshoot" -> exec_server_resolve \o exec_server_get(q.agent) \o exec_server_metrics(q.agent)
      [] q.item = "triage" -> exec_cluster_diagnose \o exec_alert_events \o exec_service_list
      [] q.item = "capacity" -> exec_cluster_overview \o exec_server_list \o exec_network_topology

\* fs.write, fs.delete and fs.upload_url are refused.
execute(t, q) ==
    CASE t = "whoami" -> exec_whoami
      [] t = "servers" -> exec_server_list [] t = "resolve" -> exec_server_resolve
      [] t = "server" -> exec_server_get(q.agent) [] t = "metrics" -> exec_server_metrics(q.agent)
      [] t = "services" -> exec_service_list [] t = "history" -> exec_service_history
      [] t = "events" -> exec_alert_events [] t = "rules" -> exec_alert_rules
      [] t = "task" -> exec_task_list [] t = "topology" -> exec_network_topology
      [] t = "overview" -> exec_cluster_overview [] t = "diagnose" -> exec_cluster_diagnose
      [] t = "exec" -> exec_server_exec(q.agent) [] t = "inspect" -> exec_server_inspect(q.agent)
      [] t = "batch" -> exec_server_batch_exec(q.agent, q.other) [] t = "batch_online" -> exec_batch_online
      [] t = "fs_list" -> exec_fs_list(q.agent) [] t = "fs_read" -> exec_fs_read(q.agent)
      [] t = "fs_url" -> exec_fs_download_url(q.agent)
      [] t = "fs_write" -> <<Step("refused", Nothing)>>

\* check_mcp_tool_scope: any of these will do.
check_mcp_tool_scope(t) ==
    CASE t = "whoami" -> {"any"}
      [] t \in {"overview", "diagnose", "servers", "server", "resolve", "metrics"} -> {"server:read"}
      [] t \in {"services", "history"} -> {"service:read"}
      [] t \in {"events", "rules"} -> {"alert:read", "server:read"}
      [] t = "task" -> {"task:read"}
      [] t = "topology" -> {"nat:read", "ddns:read", "server:read"}
      [] t \in {"exec", "batch", "batch_online", "inspect"} -> {"server:exec"}
      [] t \in {"fs_list", "fs_read", "fs_url"} -> {"transfer:read"}
      [] t = "fs_write" -> {"transfer:write"}

check_mcp_resource_scope(item) ==
    CASE item = "health" -> {"service:read"} [] item = "active" -> {"alert:read", "server:read"}
      [] item = "topology" -> {"nat:read", "ddns:read", "server:read"} [] OTHER -> {"server:read"}

(* Programs: api/v1/mcp.rs. *)

Scoped(t) == <<Step("scope", t)>>
\* A batch of JSON-RPC requests runs one after the other, under one authentication.
handle_jsonrpc_request(t, q) == Scoped(t) \o execute(t, q)
handle_mcp_jsonrpc(q) ==
    <<Step("auth", Nothing)>> \o handle_jsonrpc_request(q.tool, q)
    \o (IF q.then = "none" THEN <<>> ELSE handle_jsonrpc_request(q.then, q))
\* A command of a cookie session takes a code.
check_mcp_studio_sensitive_totp(q) ==
    IF creds[q.by].kind = "session" /\ q.tool \in {"exec", "batch", "batch_online"} THEN <<Step("totp", Nothing)>> ELSE <<>>
execute_mcp_studio(q) == <<Step("auth", Nothing)>> \o check_mcp_studio_sensitive_totp(q) \o handle_jsonrpc_request(q.tool, q)

Changes == {"role", "leave", "owner", "ban", "flip", "expire", "assign", "window"}
Program(q) ==
    CASE q.op \in Changes -> <<Step("change", Nothing)>>
      [] q.op = "mcp" -> IF q.via = "rpc" THEN handle_mcp_jsonrpc(q) ELSE execute_mcp_studio(q)
      [] q.op = "resource" -> <<Step("auth", Nothing)>> \o read_resource(q)
      [] q.op = "prompt" -> <<Step("auth", Nothing)>> \o get_prompt(q)
      [] OTHER -> Operation(q)

Scopes(q) ==
    CASE q.op = "mcp" -> {"server:read", "service:read", "alert:read", "task:read", "nat:read", "ddns:read", "server:exec", "transfer:read"}
      [] q.op = "resource" -> check_mcp_resource_scope(q.item)
      [] q.op = "prompt" -> {"server:read"}
      [] OTHER -> {Scope(q.op)}
\* The scope an operation on an Agent stands on.
ActsUnder(r) == IF r.q.op # "mcp" THEN Scope(r.q.op)
                ELSE IF r.tool \in {"fs_list", "fs_read", "fs_url"} THEN "transfer:read" ELSE "server:exec"

-----------------------------------------------------------------------------
(* What a tool may do and show. *)

\* Authentication alone: PATs come with any scopes.
StartsTools(r) ==
    /\ At(r, "auth") /\ r.q.op = "mcp"
    /\ Reads
    /\ LET u == creds[r.q.by].user IN
       IF creds[r.q.by].valid /\ users[u] # Nothing /\ (r.q.via = "rpc" => creds[r.q.by].kind = "pat")
       THEN Goto(r, [Next_(r) EXCEPT !.admin = IsAdmin(u)]) ELSE Ends(r)

\* A call begins with nothing from the call before it in the batch.
execute_tool(r) ==
    /\ At(r, "scope")
    /\ Reads
    /\ IF \E s \in check_mcp_tool_scope(On(r)) : s = "any" \/ has_scope(r.q.by, r.admin, s)
       THEN Goto(r, [Next_(r) EXCEPT !.tool = On(r), !.among = {}, !.svcs = {}]) ELSE Refuses(r)

reject_mcp_file_write_tool(r) == At(r, "refused") /\ Reads /\ Refuses(r)

ensure_agent_with_state_visible(r) ==
    /\ At(r, "state")
    /\ Reads
    /\ IF agent_visible(r, On(r)) THEN Shows(r, {<<"sees", r.q.by, On(r)>>}) ELSE Refuses(r)

\* Visible and not revoked, by one read.
EnsureAgentActive(r) ==
    /\ At(r, "both")
    /\ Reads
    /\ IF agent_visible(r, On(r)) /\ ~agents[On(r)].revoked
       THEN Goto(r, [Next_(r) EXCEPT !.among = @ \cup {On(r)}]) ELSE Refuses(r)

\* The targets that load_all_visible_agents_with_state finds, not revoked and online.
FindOnline(r) ==
    /\ At(r, "online_all")
    /\ Reads
    /\ Goto(r, [Next_(r) EXCEPT !.among = {a \in Agents : agent_visible(r, a) /\ ~agents[a].revoked /\ agents[a].online}])

\* The loop over the targets.
RunsBatch(r) == At(r, "batch") /\ Reads /\ Goto(r, [Next_(r) EXCEPT !.todo = <<Step("each", Nothing)>> \o @])

\* One after the other: what fails for one is left to the next.
NextItem(r) ==
    /\ At(r, "each")
    /\ Reads
    /\ \/ r.among = {} /\ Proceeds(r)
       \/ \E a \in r.among : Goto(r, [r EXCEPT !.todo = dispatch_shell(a) \o @, !.among = @ \ {a}])

LoadVisible(r) ==
    /\ At(r, "agents")
    /\ Reads
    /\ Goto(r, [Next_(r) EXCEPT !.among = {a \in Agents : agent_visible(r, a)}])

ListsInventory(r) ==
    /\ At(r, "inventory")
    /\ Reads
    /\ Shows(r, {<<"sees", r.q.by, a>> : a \in r.among})

\* Rows are narrowed for members and for tokens with a list of Agents.
Restricted(r) == ~r.admin \/ creds[r.q.by].servers # Nothing
Listed(r) == creds[r.q.by].servers # Nothing
Asker(r) == creds[r.q.by].user
OfKind(k) == {x \in Rows : rows[x].kind = k}
Owned(r, k) == {x \in OfKind(k) : r.admin \/ rows[x].owner = Asker(r)}
About(r, x) == rows[x].server \in r.among

ServiceRows(r) ==
    {x \in Owned(r, "service") : Restricted(r) => About(r, x) \/ (rows[x].server = Nothing /\ ~Listed(r) /\ ~r.admin)}

FindServices(r) ==
    /\ At(r, "services")
    /\ Reads
    /\ Goto(r, [Next_(r) EXCEPT !.svcs = {<<x, rows[x]>> : x \in ServiceRows(r)}])

\* What showing a row takes: that it was so, and that its Agent and its owner are the asker's.
NeedsOfRow(r, x, row) ==
    {<<"row", x, row>>}
    \cup (IF row.server # Nothing THEN {<<"sees", r.q.by, row.server>>} ELSE IF Listed(r) THEN {<<"never">>} ELSE {})
    \cup (IF row.kind = "nat" \/ r.admin \/ row.owner = Asker(r) THEN {} ELSE {<<"never">>})
ShowsRows(r, xs) == Shows(r, UNION {NeedsOfRow(r, x, rows[x]) : x \in xs})

TellsServices(r) ==
    /\ At(r, "tell")
    /\ Reads
    /\ Shows(r, UNION {NeedsOfRow(r, x[1], x[2]) : x \in r.svcs})

\* The results of a service the asker may see: by visible Agents.
ListsResults(r) ==
    /\ At(r, "results")
    /\ Reads
    /\ LET mine == {x \in OfKind("result") : \E s \in r.svcs : s[1] = rows[x].of}
       IN Shows(r, {<<"sees", r.q.by, rows[x].server>> : x \in {y \in mine : Restricted(r) => About(r, y)}})

\* list_recent and its kin: an Agent's events, or those of a service without one.
ListsEvents(r) ==
    /\ At(r, "events")
    /\ Reads
    /\ ShowsRows(r, {x \in Owned(r, "event") :
          /\ Listed(r) => rows[x].server \in creds[r.q.by].servers
          /\ Restricted(r) => About(r, x) \/ (rows[x].server = Nothing /\ \E s \in r.svcs : s[1] = rows[x].of)})

\* Rules over everything are hidden from tokens with a list.
ListsRules(r) ==
    /\ At(r, "rules")
    /\ Reads
    /\ ShowsRows(r, {x \in Owned(r, "rule") :
          Restricted(r) => About(r, x) \/ (rows[x].server = Nothing /\ ~Listed(r))})

\* list_by_user: one's own, an administrator's too.
ListsTasks(r) ==
    /\ At(r, "tasks")
    /\ Reads
    /\ ShowsRows(r, {x \in {y \in OfKind("task") : rows[y].owner = Asker(r)} :
          Restricted(r) => About(r, x) \/ (rows[x].server = Nothing /\ ~Listed(r))})

ListsNat(r) ==
    /\ At(r, "nat")
    /\ Reads
    /\ ShowsRows(r, {x \in OfKind("nat") : About(r, x)})

ListsDdns(r) ==
    /\ At(r, "ddns")
    /\ Reads
    /\ ShowsRows(r, {x \in Owned(r, "ddns") : IF rows[x].server = Nothing THEN ~Listed(r) ELSE About(r, x)})

-----------------------------------------------------------------------------

(***************************************************************************)
(* What a request names.  An id is a request's own; so is the token that   *)
(* it draws, which no table holds yet.                                     *)
(***************************************************************************)
Tools == {"whoami", "servers", "resolve", "server", "metrics", "services", "history", "events", "rules", "task", "topology",
          "overview", "diagnose", "exec", "inspect", "batch", "batch_online", "fs_list", "fs_read", "fs_url", "fs_write"}
Items == [resource |-> {"overview", "inventory", "health", "active", "topology", "telemetry"},
          prompt |-> {"audit", "troubleshoot", "triage", "capacity"}]
Operations == {"list", "read", "write", "delete", "download_url", "upload_url", "config", "apply", "sensitive", "update",
               "download", "upload", "tokens", "revoke"}
Requests == [id : Nat, op : Operations \cup Changes \cup {"mcp", "resource", "prompt"}, by : Creds, user : Users,
             agent : Agents, other : Agents, token : Tokens, ip : Ips, row : Rows, via : {"api", "rpc", "studio"},
             tool : Tools \cup {"none"}, then : Tools \cup {"none"}, item : STRING]
Draws(q) == q.op \in {"download_url", "upload_url"} \/ (q.op = "mcp" /\ "fs_url" \in {q.tool, q.then})
ReadRows == [kind : STRING, owner : Users, server : Agents \cup {Nothing}, of : Rows \cup {Nothing}]

ASSUME StoredAssumption ==
    \A x \in Stored :
        /\ TablesOK(x.users, x.creds, x.agents, x.tokens) /\ x.rows \in [Rows -> ReadRows]
        /\ \A y \in Rows : x.rows[y].kind = "result" => x.rows[y].server # Nothing
        /\ \A t \in Tokens : x.tokens[t] # Nothing => x.tokens[t].used \in {"no", "failed"} /\ ~x.tokens[t].dead
        /\ \A w \in Workloads : \A q \in w : Draws(q) => x.tokens[q.token] = Nothing

ASSUME WorkloadsAssumption ==
    \A w \in Workloads :
        /\ w \subseteq Requests
        /\ \A p, q \in w : p.id = q.id \/ (Draws(p) /\ Draws(q) /\ p.token = q.token) => p = q
        /\ \A q \in w : /\ q.op = "mcp" => q.tool # "none" /\ (q.tool = "fs_url" => q.then # "fs_url")
                        /\ q.op \in {"resource", "prompt"} => q.item \in Items[q.op]

OperationsInit == TransfersInit(Program)

\* A step of a request, of a change or of a fault.
OperationsNext ==
    \E r \in live :
        \/ (r.q.op # "mcp" /\ Authenticated(r, Scopes(r.q))) \/ StartsTools(r)
        \/ AsksForCode(r) \/ FindVisible(r) \/ FindActive(r) \/ IsOnline(r)
        \/ ShowsAgent(r) \/ Send(r, ActsUnder(r)) \/ Reply(r)
        \/ CreateToken(r, ActsUnder(r)) \/ CheckRateLimit(r) \/ FindRecord(r) \/ FindIssuer(r)
        \/ FindIssuersCredential(r) \/ FindServer(r) \/ consume_temporary_transfer(r)
        \/ reserve_upload_once(r) \/ ReadsBody(r) \/ commit_temporary_upload(r) \/ ReachesAgent(r)
        \/ record_temporary_transfer_result(r) \/ ListsTokens(r) \/ FindToken(r) \/ MayRevoke(r) \/ RevokeToken(r)
        \/ execute_tool(r) \/ reject_mcp_file_write_tool(r) \/ ensure_agent_with_state_visible(r)
        \/ EnsureAgentActive(r) \/ FindOnline(r) \/ RunsBatch(r) \/ NextItem(r)
        \/ LoadVisible(r) \/ ListsInventory(r) \/ FindServices(r) \/ TellsServices(r) \/ ListsResults(r)
        \/ ListsEvents(r) \/ ListsRules(r) \/ ListsTasks(r) \/ ListsNat(r) \/ ListsDdns(r)
        \/ Dropped(r) \/ Responds(r) \/ Change(r)

OperationsSpec == OperationsInit /\ [][OperationsNext]_transferVars

-----------------------------------------------------------------------------
(* Properties. *)

OperationsTypeOK == TransfersTypeOK /\ rows \in [Rows -> ReadRows]

(***************************************************************************)
(* Whatever is sent to an Agent, created or shown, the asker (for a        *)
(* temporary URL: whoever issued it) was entitled to it at some moment     *)
(* since it was asked for: their credential stood, the Agent was theirs to *)
(* see and not revoked, the rows shown were theirs.  server_ops.rs,        *)
(* transfers.rs and mcp/executor.rs check these by separate reads.         *)
(***************************************************************************)
OperationsAreEntitled == acted.needs \subseteq acted.ever

(***************************************************************************)
(* A temporary URL moves one file: however many clients use it at once and *)
(* wherever they are dropped, one operation is sent for it, and a token    *)
(* revoked while nothing had been sent for it never sends anything.        *)
(* mark_used_once, reserve_upload_once and commit_upload_reservation.      *)
(***************************************************************************)
TokenServesOnce ==
    \A t \in Tokens : tokens[t] # Nothing =>
        Cardinality({x \in sent : x[1] = t}) <= (IF tokens[t].dead THEN 0 ELSE 1)

(***************************************************************************)
(* A token in use is in the hands of a request that is still under way,    *)
(* one given back is free again, and one that says success was answered    *)
(* so: unless the client went away or a write failed, an upload's          *)
(* reservation always ends.  run_temp_upload, record_use_result.           *)
(***************************************************************************)
TokenIsAccountedFor ==
    \A t \in Tokens : tokens[t] # Nothing =>
        /\ tokens[t].used \in {"receiving", "started"} /\ t \notin torn =>
              \E r \in live : r.begun /\ r.q.token = t /\ r.q.id = tokens[t].by
        /\ tokens[t].used = "success" => \E x \in sent : x = <<t, tokens[t].by>>

(***************************************************************************)
(* A temporary URL's token is used once, and its use comes to an end.      *)
(***************************************************************************)
TokenIsUsedOnce == TokenServesOnce /\ TokenIsAccountedFor
=============================================================================

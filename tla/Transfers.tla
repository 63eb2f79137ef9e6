------------------------------ MODULE Transfers ------------------------------
(***************************************************************************)
(* Operations on an Agent that a user asks for: its files, configuration   *)
(* and update (api/v1/server_ops.rs), and the temporary URLs that let      *)
(* whoever holds one move a single file (api/v1/transfers.rs,              *)
(* db/repository/temporary_transfer.rs).                                   *)
(*                                                                         *)
(* A handler is a program: the sequence of the accesses it makes, each an  *)
(* action of this module.  Roles, owners, credentials, Agents and tokens   *)
(* change in between.  As history a request carries what was true at some  *)
(* moment since it was made.                                               *)
(***************************************************************************)
EXTENDS Integers, FiniteSets, Sequences

CONSTANTS
    Users, Creds, Agents, Tokens, Ips, Rows,
    Nothing,    \* no value
    Workloads,  \* sets of requests that are made
    Stored,     \* tables the server may start with
    RateLimit,  \* TEMP_TRANSFER_RATE_LIMIT
    MaxFaults   \* bound on requests that are dropped and writes that fail

\* What the tables hold.
CredRows == [user : Users, kind : {"session", "pat"}, scopes : SUBSET STRING, servers : (SUBSET Agents) \cup {Nothing},
             valid : BOOLEAN]
AgentRows == [owner : Users, revoked : BOOLEAN, online : BOOLEAN]
TokenRows == [server : Agents, op : {"download", "upload"}, cred : Creds, expired : BOOLEAN,
              used : {"no", "receiving", "started", "success", "failed"}, by : Nat \cup {Nothing},
              revoked : BOOLEAN, dead : BOOLEAN]

ASSUME TransfersAssumption ==
    /\ RateLimit \in Nat /\ MaxFaults \in Nat
    /\ Nothing \notin Users \cup Creds \cup Agents \cup Tokens \cup Ips \cup Rows \cup Nat \cup TokenRows \cup {"admin", "member"}

VARIABLES
    users,   \* users: their role
    creds,   \* sessions and api_tokens
    agents,  \* agents and their connection: owner, revoked, online
    tokens,  \* temporary_transfer_tokens
    rows,    \* services, alert events and rules, tasks, NAT mappings, DDNS entries
    hits,    \* TEMP_TRANSFER_RATE_STATE: uses by address and by token in this window
    live,    \* requests under way, and changes still to come
    sent,    \* history: operations that were sent for a token
    torn,    \* history: tokens whose request was dropped or could not write
    acted,   \* history: what the last operation needed, and what was so since it was asked for
    faults

tables == <<users, creds, agents, rows>>
transferVars == <<tables, tokens, hits, live, sent, torn, acted, faults>>

\* Cookie sessions of members reach the scopes that read.
member_cookie_scope_allowed(s) == s \in {"server:read", "service:read", "alert:read", "task:read",
                                         "nat:read", "ddns:read", "transfer:read"}
has_scope(c, admin, s) ==
    IF creds[c].kind = "session" THEN admin \/ member_cookie_scope_allowed(s) ELSE s \in creds[c].scopes

IsAdmin(u) == users[u] = "admin"
CanSee(c, admin, a) ==
    /\ creds[c].servers # Nothing => a \in creds[c].servers
    /\ admin \/ agents[a].owner = creds[c].user

\* What is so now, as far as it can entitle anyone to anything.
Usable(t) == tokens[t] # Nothing /\ ~tokens[t].revoked /\ ~tokens[t].expired
Facts ==
    {<<"credential", c>> : c \in {x \in Creds : creds[x].valid /\ users[creds[x].user] # Nothing}}
    \cup {<<"sees", x[1], x[2]>> : x \in {y \in Creds \X Agents : CanSee(y[1], IsAdmin(creds[y[1]].user), y[2])}}
    \cup {<<"active", a>> : a \in {x \in Agents : ~agents[x].revoked}}
    \cup {<<"admin", u>> : u \in {x \in Users : IsAdmin(x)}}
    \cup {<<"usable", t>> : t \in {x \in Tokens : Usable(x)}}
    \cup {<<"row", x, rows[x]>> : x \in Rows}

\* A step of a program: what it does, and to which Agent.
Step(s, a) == <<s, a>>
Needs(c, s, a) == {<<"credential", c>>, <<"sees", c, a>>, <<"active", a>>}
                  \cup (IF creds[c].kind = "pat" \/ member_cookie_scope_allowed(s) THEN {}
                        ELSE {<<"admin", creds[c].user>>})
                  \cup (IF creds[c].kind = "pat" /\ s \notin creds[c].scopes THEN {<<"never">>} ELSE {})

\* Requests not yet begun know nothing; the others remember.
Noted(rs) == {[r EXCEPT !.ever = IF r.begun THEN r.ever \cup Facts' ELSE Facts'] : r \in rs}
Goto(r, x) == live' = Noted((live \ {r}) \cup {x})
Next_(r) == [r EXCEPT !.todo = Tail(r.todo), !.begun = TRUE]
Proceeds(r) == Goto(r, Next_(r))
Ends(r) == live' = Noted(live \ {r})

\* An error ends a request, or only the item of a batch that it is about.
Marks(r) == {i \in 2..Len(r.todo) : r.todo[i][1] \in {"scope", "each"}}
Refuses(r) ==
    IF Marks(r) = {} THEN Ends(r)
    ELSE Goto(r, [r EXCEPT !.todo = SubSeq(@, CHOOSE i \in Marks(r) : \A j \in Marks(r) : i <= j, Len(@))])
Shows(r, items) == Goto(r, [Next_(r) EXCEPT !.show = @ \cup items])
At(r, s) == r.todo # <<>> /\ r.todo[1][1] = s
On(r) == r.todo[1][2]
Quiet == UNCHANGED <<sent, torn, acted, faults>>
Reads == UNCHANGED <<tables, tokens, hits>> /\ Quiet

-----------------------------------------------------------------------------
(* Programs: api/v1/server_ops.rs. *)

ensure_server_visible(a) == <<Step("visible", a)>>
ensure_server_active(a) == ensure_server_visible(a) \o <<Step("active", a)>>
ensure_server_online(a) == ensure_server_active(a) \o <<Step("online", a)>>
dispatch_file_task(a) == <<Step("send", a), Step("reply", a)>>
require_transfer_write_sensitive_auth(a) == <<Step("auth", a), Step("totp", a)>>

list_files(a) == <<Step("auth", a)>> \o ensure_server_online(a) \o dispatch_file_task(a)
read_file(a) == <<Step("auth", a)>> \o ensure_server_online(a) \o dispatch_file_task(a)
write_file(a) == require_transfer_write_sensitive_auth(a) \o ensure_server_online(a) \o dispatch_file_task(a)
delete_file(a) == require_transfer_write_sensitive_auth(a) \o ensure_server_online(a) \o dispatch_file_task(a)
build_temp_url(a) == ensure_server_active(a) \o <<Step("create", a)>>
download_url(a) == <<Step("auth", a)>> \o build_temp_url(a)
upload_url(a) == require_transfer_write_sensitive_auth(a) \o build_temp_url(a)
get_config(a) == <<Step("auth", a)>> \o ensure_server_visible(a) \o <<Step("agent", a)>>
\* A patch of low risk fields, and one with others.
apply_config(a) == <<Step("auth", a)>> \o ensure_server_online(a) \o <<Step("send", a)>>
require_remote_config_patch_auth(a) == <<Step("auth", a), Step("totp", a)>>
apply_sensitive(a) == require_remote_config_patch_auth(a) \o ensure_server_online(a) \o <<Step("send", a)>>
require_force_update_auth(a) == <<Step("auth", a), Step("totp", a)>>
force_update(a) == require_force_update_auth(a) \o ensure_server_online(a) \o <<Step("send", a)>>

(* Programs: api/v1/transfers.rs. *)

validate_temporary_transfer == <<Step("record", Nothing), Step("issuer", Nothing), Step("held", Nothing), Step("server", Nothing)>>
dispatch_server_task == <<Step("reach", Nothing), Step("send", Nothing), Step("reply", Nothing), Step("result", Nothing)>>
run_temp_download ==
    <<Step("ip", Nothing)>> \o validate_temporary_transfer \o <<Step("limit", Nothing), Step("consume", Nothing)>>
    \o dispatch_server_task
run_temp_upload ==
    <<Step("ip", Nothing)>> \o validate_temporary_transfer
    \o <<Step("limit", Nothing), Step("reserve", Nothing), Step("body", Nothing), Step("commit", Nothing)>>
    \o dispatch_server_task
list_temporary_transfers == <<Step("auth", Nothing), Step("tokens", Nothing)>>
revoke_temporary_transfer == <<Step("auth", Nothing), Step("find", Nothing), Step("mine", Nothing), Step("revoke", Nothing)>>

Operation(q) ==
    CASE q.op = "list" -> list_files(q.agent) [] q.op = "read" -> read_file(q.agent)
      [] q.op = "write" -> write_file(q.agent) [] q.op = "delete" -> delete_file(q.agent)
      [] q.op = "download_url" -> download_url(q.agent) [] q.op = "upload_url" -> upload_url(q.agent)
      [] q.op = "config" -> get_config(q.agent) [] q.op = "apply" -> apply_config(q.agent)
      [] q.op = "sensitive" -> apply_sensitive(q.agent) [] q.op = "update" -> force_update(q.agent)
      [] q.op = "download" -> run_temp_download [] q.op = "upload" -> run_temp_upload
      [] q.op = "tokens" -> list_temporary_transfers [] q.op = "revoke" -> revoke_temporary_transfer

Scope(op) ==
    CASE op \in {"list", "read", "download_url", "download", "tokens"} -> "transfer:read"
      [] op \in {"write", "delete", "upload_url", "upload", "revoke"} -> "transfer:write"
      [] op = "config" -> "server:read" [] op \in {"apply", "sensitive"} -> "server:write"
      [] op = "update" -> "server:exec"
CookieOnly == {"write", "delete", "upload_url", "sensitive", "update", "nat_create", "nat_update", "nat_delete", "nat_all",
               "terminal", "socket"}

TransfersInit(Program(_)) ==
    /\ \E x \in Stored : users = x.users /\ creds = x.creds /\ agents = x.agents /\ tokens = x.tokens /\ rows = x.rows
    /\ hits = [k \in Ips \cup Tokens |-> 0] /\ sent = {} /\ torn = {} /\ faults = 0
    /\ acted = [needs |-> {}, ever |-> {}]
    /\ live \in {{[q |-> q, todo |-> Program(q), begun |-> FALSE, admin |-> FALSE, out |-> "none",
                   tool |-> "none", got |-> Nothing, among |-> {}, svcs |-> {}, show |-> {}, ever |-> Facts] : q \in w} : w \in Workloads}

-----------------------------------------------------------------------------
(* Who asks: the session or token, its user and their role, scope and kind. *)

MayAsk(r, admin, scopes) ==
    /\ \E s \in scopes : has_scope(r.q.by, admin, s)
    /\ r.q.op \in CookieOnly => creds[r.q.by].kind = "session"
    /\ r.q.op \in {"sensitive", "nat_all"} => admin
    /\ r.q.via = "rpc" => creds[r.q.by].kind = "pat"

Authenticated(r, scopes) ==
    /\ At(r, "auth")
    /\ Reads
    /\ LET u == creds[r.q.by].user IN
       IF creds[r.q.by].valid /\ users[u] # Nothing /\ MayAsk(r, IsAdmin(u), scopes)
       THEN Goto(r, [Next_(r) EXCEPT !.admin = IsAdmin(u)]) ELSE Ends(r)

\* require_sensitive_totp: the user's code, which may be wrong.
AsksForCode(r) ==
    /\ At(r, "totp")
    /\ Reads
    /\ \/ users[creds[r.q.by].user] # Nothing /\ Proceeds(r)
       \/ Ends(r)

-----------------------------------------------------------------------------
(* The Agent that is asked for. *)

agent_visible(r, a) == CanSee(r.q.by, r.admin, a)

FindVisible(r) ==
    /\ At(r, "visible")
    /\ Reads
    /\ IF agent_visible(r, On(r)) THEN Proceeds(r) ELSE Refuses(r)

\* find_by_id again, for revoked_at.
FindActive(r) ==
    /\ At(r, "active")
    /\ Reads
    /\ IF agents[On(r)].revoked THEN Ends(r) ELSE Proceeds(r)

IsOnline(r) ==
    /\ At(r, "online")
    /\ Reads
    /\ IF agents[On(r)].online THEN Proceeds(r) ELSE Refuses(r)

\* find_by_id_with_state, and what it last reported.
ShowsAgent(r) ==
    /\ At(r, "agent")
    /\ Reads
    /\ Shows(r, {<<"sees", r.q.by, On(r)>>})

\* The Agent of an operation: of the request, or of the token.
Target(r) == IF r.q.token # Nothing /\ r.q.op \in {"download", "upload"} THEN tokens[r.q.token].server ELSE On(r)
Entitling(r, scope) ==
    IF r.q.op \in {"download", "upload"}
    THEN Needs(tokens[r.q.token].cred, Scope(tokens[r.q.token].op), Target(r)) \cup {<<"usable", r.q.token>>}
    ELSE Needs(r.q.by, scope, Target(r))

\* send: to the Agent's connection, which may be gone or full.
Send(r, scope) ==
    /\ At(r, "send")
    /\ UNCHANGED <<tables, tokens, hits, torn, faults>>
    /\ \/ /\ agents[Target(r)].online
          /\ acted' = [needs |-> Entitling(r, scope), ever |-> r.ever]
          /\ sent' = sent \cup (IF r.q.op \in {"download", "upload"} THEN {<<r.q.token, r.q.id>>} ELSE {})
          /\ Proceeds(r)
       \/ /\ UNCHANGED <<acted, sent>>
          /\ IF r.q.op \in {"download", "upload"}
             THEN Goto(r, [Next_(r) EXCEPT !.todo = <<Step("result", Nothing)>>, !.out = "failed"])
             ELSE Refuses(r)

\* The Agent's answer; it may have failed, gone away or not answered in time.
Reply(r) ==
    /\ At(r, "reply")
    /\ Reads
    /\ \/ Goto(r, [Next_(r) EXCEPT !.out = "success"])
       \/ Goto(r, [Next_(r) EXCEPT !.out = "failed"])

-----------------------------------------------------------------------------
(* Temporary URLs. *)

\* create
CreateToken(r, scope) ==
    /\ At(r, "create")
    /\ tokens' = [tokens EXCEPT ![r.q.token] =
          [server |-> On(r), op |-> IF r.q.op = "upload_url" THEN "upload" ELSE "download", cred |-> r.q.by,
           expired |-> FALSE, used |-> "no", by |-> Nothing, revoked |-> FALSE, dead |-> FALSE]]
    /\ acted' = [needs |-> Needs(r.q.by, scope, On(r)), ever |-> r.ever]
    /\ UNCHANGED <<tables, hits, sent, torn, faults>>
    /\ Proceeds(r)

check_rate_limit_in(k) == hits[k] + 1 > RateLimit

CheckRateLimit(r) ==
    /\ At(r, "ip") \/ At(r, "limit")
    /\ LET k == IF At(r, "ip") THEN r.q.ip ELSE r.q.token IN
       /\ hits' = [hits EXCEPT ![k] = @ + 1]
       /\ UNCHANGED <<tables, tokens>> /\ Quiet
       /\ IF check_rate_limit_in(k) THEN Ends(r) ELSE Proceeds(r)

validate_transfer_record_state(t, op) ==
    /\ t # Nothing
    /\ t.op = op /\ (op = "upload" => creds[t.cred].kind = "session")
    /\ ~t.expired /\ t.used = "no" /\ ~t.revoked

FindRecord(r) ==
    /\ At(r, "record")
    /\ Reads
    /\ IF validate_transfer_record_state(tokens[r.q.token], r.q.op) THEN Proceeds(r) ELSE Ends(r)

\* validate_transfer_issuer: the user, their session or token, and the Agent.
FindIssuer(r) ==
    /\ At(r, "issuer")
    /\ Reads
    /\ LET u == creds[tokens[r.q.token].cred].user IN
       IF users[u] = Nothing THEN Ends(r) ELSE Goto(r, [Next_(r) EXCEPT !.admin = IsAdmin(u)])

\* Variant: a session that ended still answers for its URLs.
FindIssuersCredential_Trusting(r) == At(r, "held") /\ Reads /\ Proceeds(r)

FindIssuersCredential(r) ==
    /\ At(r, "held")
    /\ Reads
    /\ LET t == tokens[r.q.token] IN
       IF creds[t.cred].valid /\ has_scope(t.cred, r.admin, Scope(t.op)) THEN Proceeds(r) ELSE Ends(r)

FindServer(r) ==
    /\ At(r, "server")
    /\ Reads
    /\ LET t == tokens[r.q.token] IN
       IF ~agents[t.server].revoked /\ CanSee(t.cred, r.admin, t.server) THEN Proceeds(r) ELSE Ends(r)

\* mark_used_once
consume_temporary_transfer(r) ==
    /\ At(r, "consume")
    /\ UNCHANGED <<tables, hits>> /\ Quiet
    /\ IF Usable(r.q.token) /\ tokens[r.q.token].used = "no"
       THEN /\ tokens' = [tokens EXCEPT ![r.q.token].used = "started", ![r.q.token].by = r.q.id]
            /\ Proceeds(r)
       ELSE UNCHANGED tokens /\ Ends(r)

reserve_upload_once(r) ==
    /\ At(r, "reserve")
    /\ UNCHANGED <<tables, hits>> /\ Quiet
    /\ IF Usable(r.q.token) /\ tokens[r.q.token].used = "no"
       THEN /\ tokens' = [tokens EXCEPT ![r.q.token].used = "receiving", ![r.q.token].by = r.q.id]
            /\ Proceeds(r)
       ELSE UNCHANGED tokens /\ Ends(r)

Reserved(r) == tokens[r.q.token].used = "receiving" /\ tokens[r.q.token].by = r.q.id

release_upload_reservation(r) ==
    IF Reserved(r) THEN [tokens EXCEPT ![r.q.token].used = "no", ![r.q.token].by = Nothing] ELSE tokens

\* read_limited_upload_body: all of it arrives, or an error releases the reservation.
ReadsBody(r) ==
    /\ At(r, "body")
    /\ UNCHANGED <<tables, hits>> /\ Quiet
    /\ \/ UNCHANGED tokens /\ Proceeds(r)
       \/ tokens' = release_upload_reservation(r) /\ Ends(r)

\* Variant: the reservation is enough.
commit_upload_reservation_Revoked(r) == Reserved(r)

commit_upload_reservation(r) == Reserved(r) /\ Usable(r.q.token)

\* Refused, the reservation is released; a write that fails leaves it.
commit_temporary_upload(r) ==
    /\ At(r, "commit")
    /\ UNCHANGED <<tables, hits, sent, acted>>
    /\ \/ /\ commit_upload_reservation(r)
          /\ tokens' = [tokens EXCEPT ![r.q.token].used = "started"]
          /\ UNCHANGED <<torn, faults>> /\ Proceeds(r)
       \/ /\ ~commit_upload_reservation(r)
          /\ tokens' = release_upload_reservation(r)
          /\ UNCHANGED <<torn, faults>> /\ Ends(r)
       \/ /\ faults < MaxFaults /\ faults' = faults + 1 /\ torn' = torn \cup {r.q.token}
          /\ UNCHANGED tokens /\ Ends(r)

\* is_online, before a run is registered.
ReachesAgent(r) ==
    /\ At(r, "reach")
    /\ Reads
    /\ IF agents[Target(r)].online THEN Proceeds(r)
       ELSE Goto(r, [Next_(r) EXCEPT !.todo = <<Step("result", Nothing)>>, !.out = "failed"])

record_temporary_transfer_result(r) ==
    /\ At(r, "result")
    /\ UNCHANGED <<tables, hits, sent, acted>>
    /\ \/ tokens' = [tokens EXCEPT ![r.q.token].used = r.out] /\ UNCHANGED <<torn, faults>> /\ Ends(r)
       \/ /\ faults < MaxFaults /\ faults' = faults + 1 /\ torn' = torn \cup {r.q.token}
          /\ UNCHANGED tokens /\ Ends(r)

\* list, list_for_owner and list_for_owner_server_ids
VisibleTokens(r) ==
    LET c == creds[r.q.by] IN
    {t \in {x \in Tokens : tokens[x] # Nothing} :
        \/ r.admin /\ c.servers = Nothing
        \/ /\ creds[tokens[t].cred].user = c.user
           /\ c.servers # Nothing => tokens[t].server \in c.servers}

\* Tokens are their issuer's and the administrators'.
NeedsOfToken(r, t) == {<<"credential", r.q.by>>}
                      \cup (IF creds[r.q.by].user = creds[tokens[t].cred].user THEN {} ELSE {<<"admin", creds[r.q.by].user>>})

ListsTokens(r) ==
    /\ At(r, "tokens")
    /\ Reads
    /\ Shows(r, UNION {NeedsOfToken(r, t) : t \in VisibleTokens(r)})

FindToken(r) ==
    /\ At(r, "find")
    /\ Reads
    /\ IF tokens[r.q.token] = Nothing THEN Ends(r) ELSE Proceeds(r)

temporary_transfer_visible_to_auth(r) ==
    LET c == creds[r.q.by] IN
    \/ r.admin /\ c.servers = Nothing
    \/ creds[tokens[r.q.token].cred].user = c.user /\ CanSee(r.q.by, r.admin, tokens[r.q.token].server)

MayRevoke(r) ==
    /\ At(r, "mine")
    /\ Reads
    /\ IF temporary_transfer_visible_to_auth(r) THEN Proceeds(r) ELSE Ends(r)

\* The token is dead if nothing had been sent for it: consumed or committed it is under way.
RevokeToken(r) ==
    /\ At(r, "revoke")
    /\ UNCHANGED <<tables, hits, sent, torn, faults>>
    /\ tokens' = [tokens EXCEPT ![r.q.token].revoked = TRUE,
                                ![r.q.token].dead = tokens[r.q.token].used \in {"no", "receiving"}]
    /\ acted' = [needs |-> NeedsOfToken(r, r.q.token), ever |-> r.ever]
    /\ Proceeds(r)

-----------------------------------------------------------------------------
(* What else happens. *)

\* The client goes away: the handler is dropped where it waits.
Dropped(r) ==
    /\ r.begun /\ r.todo # <<>> /\ faults < MaxFaults
    /\ faults' = faults + 1
    /\ torn' = torn \cup (IF r.q.op \in {"download", "upload"} THEN {r.q.token} ELSE {})
    /\ UNCHANGED <<tables, tokens, hits, sent, acted>>
    /\ Ends(r)

\* An answer is given.
Responds(r) ==
    /\ r.todo = <<>>
    /\ acted' = IF r.show = {} THEN acted ELSE [needs |-> r.show, ever |-> r.ever]
    /\ UNCHANGED <<tables, tokens, hits, sent, torn, faults>>
    /\ Ends(r)

\* Changes made by other handlers and by time.
Change(r) ==
    /\ At(r, "change") /\ Quiet
    /\ \/ /\ r.q.op = "role" /\ users' = [users EXCEPT ![r.q.user] = IF @ = "admin" THEN "member" ELSE @]
          /\ UNCHANGED <<creds, agents, tokens, rows, hits>>
       \/ /\ r.q.op = "leave" /\ creds' = [creds EXCEPT ![r.q.by].valid = FALSE]
          /\ UNCHANGED <<users, agents, tokens, rows, hits>>
       \/ /\ r.q.op = "owner" /\ agents' = [agents EXCEPT ![r.q.agent].owner = r.q.user]
          /\ UNCHANGED <<users, creds, tokens, rows, hits>>
       \/ /\ r.q.op = "ban" /\ agents' = [agents EXCEPT ![r.q.agent].revoked = TRUE]
          /\ UNCHANGED <<users, creds, tokens, rows, hits>>
       \/ /\ r.q.op = "flip" /\ agents' = [agents EXCEPT ![r.q.agent].online = ~@ /\ ~agents[r.q.agent].revoked]
          /\ UNCHANGED <<users, creds, tokens, rows, hits>>
       \/ /\ r.q.op = "expire"
          /\ tokens' = IF tokens[r.q.token] = Nothing THEN tokens ELSE [tokens EXCEPT ![r.q.token].expired = TRUE]
          /\ UNCHANGED <<tables, hits>>
       \/ /\ r.q.op = "assign" /\ rows' = [rows EXCEPT ![r.q.row].server = r.q.agent]
          /\ UNCHANGED <<users, creds, agents, tokens, hits>>
       \/ /\ r.q.op = "window" /\ hits' = [k \in Ips \cup Tokens |-> 0]
          /\ UNCHANGED <<tables, tokens>>
    /\ Ends(r)

\* The tables, as far as they are written here.
TablesOK(us, cs, as, ts) ==
    /\ us \in [Users -> {"admin", "member", Nothing}] /\ cs \in [Creds -> CredRows] /\ as \in [Agents -> AgentRows]
    /\ ts \in [Tokens -> TokenRows \cup {Nothing}]
    /\ \A t \in Tokens : ts[t] # Nothing => (ts[t].by = Nothing) = (ts[t].used = "no")

TransfersTypeOK ==
    /\ TablesOK(users, creds, agents, tokens)
    /\ hits \in [Ips \cup Tokens -> Nat] /\ sent \subseteq Tokens \X Nat /\ faults \in 0..MaxFaults

=============================================================================

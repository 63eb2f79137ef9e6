---------------------------- MODULE Credentials ------------------------------
(***************************************************************************)
(* Who a request acts for: auth/middleware.rs, auth/session.rs, the tokens *)
(* of db/repository/pat.rs, TOTP and the WAF of api/v1/auth.rs.            *)
(*                                                                         *)
(* A request is a record that goes from database access to database access *)
(* and carries what it has read; sessions, tokens, roles and passwords     *)
(* change in between.  `ever' is history: what has been true at some       *)
(* moment since a request came in.                                         *)
(***************************************************************************)
EXTENDS Integers, FiniteSets, TLC

CONSTANTS
    Users, Agents, Pats, Secrets, Passwords, Ips, Subjects,
    Nothing,
    Stored,      \* tables the server may start with
    Workloads,   \* sets of requests that are made
    Threshold,   \* LOGIN_FAILURE_THRESHOLD
    Window,      \* TOTP_WINDOW, in steps of the code's clock
    Horizon,     \* TOTP_REPLAY_HORIZON_MINUTES, in steps
    MaxSessions, \* MAX_ACTIVE_SESSIONS_PER_USER
    MaxTtl,      \* MAX_PAT_TTL_DAYS
    MaxFaults    \* bound on requests dropped and accesses failed

\* The rows of users (ver is history: it counts changes of password and role), of
\* personal_access_tokens (late: issued by a request that had begun before such a change)
\* and of sessions (n is the order in which they were made).
UserRows == [role : {"admin", "member"}, pw : Passwords, secret : Secrets \cup {Nothing}, totp : BOOLEAN, ver : Nat]
PatRows == [user : Users, servers : (SUBSET Agents) \cup {Nothing}, admin : BOOLEAN, scoped : BOOLEAN,
            revoked : BOOLEAN, expired : BOOLEAN, ver : Nat, late : BOOLEAN]
SessionRows(ids) == [id : ids, user : Users, ver : Nat, late : BOOLEAN, expired : BOOLEAN, n : Nat]

ASSUME CredentialsAssumption ==
    /\ Nothing \notin UserRows /\ Nothing \notin PatRows
    /\ Nothing \notin Users \cup Secrets \cup Agents \cup Passwords \cup {"admin"}
    /\ Threshold \in Nat \ {0} /\ Window \in Nat
    /\ Horizon \in Nat /\ Horizon >= 2 * Window
    /\ {MaxSessions, MaxTtl} \subseteq Nat \ {0} /\ MaxFaults \in Nat

VARIABLES
    users,    \* users
    sessions, \* sessions
    pats,     \* personal_access_tokens
    used,     \* totp_used: user, secret, step of the code and of the clock
    refused,  \* totp_failed of each user
    failed,   \* login_failed, oauth_failed and pat_failed of each address
    bans,     \* waf_bans
    bound,    \* oauth_accounts: the user of each subject
    owner,    \* agents.owner_user_id
    lock,     \* the request that holds totp_verification_lock
    now,      \* the clock, in steps of TOTP codes
    live,     \* requests
    faults,
    acted,    \* what the last effect took, and what entitled its request
    torn,     \* history: users and addresses whose change was cut short
    ever      \* history: what has been true since each request came in

tables == <<users, sessions, pats, bound, owner>>
waf == <<used, refused, failed, bans>>
vars == <<tables, waf, lock, now, live, faults, acted, torn, ever>>

-----------------------------------------------------------------------------
(* Requests. *)

Role(u) == IF users[u] = Nothing THEN Nothing ELSE users[u].role

Opens(s, q) == s.id = q.by /\ ~s.expired
Valid(p) == p # Nothing /\ ~p.revoked /\ ~p.expired

\* What may entitle a request: the user of its session or token, who the administrators
\* and the owners are, and the user its subject is bound to.
Facts(q) ==
    {<<"user", s.user>> : s \in {x \in sessions : Opens(x, q)}}
    \cup {<<"user", pats[p].user>> : p \in {x \in Pats : x = q.by /\ Valid(pats[x])}}
    \cup {<<"admin", u>> : u \in {v \in Users : Role(v) = "admin"}}
    \cup {<<"agent", owner[a], a>> : a \in Agents}
    \cup {<<"bound", bound[x]>> : x \in {y \in Subjects : y = q.subject /\ bound[y] # Nothing}}

Request(q) == [q |-> q, at |-> "start", then |-> Nothing, user |-> Nothing, admin |-> FALSE, ver |-> 0,
               secret |-> Nothing, pat |-> Nothing, was |-> Nothing, time |-> 0, seen |-> 0, todo |-> {}]

\* A request goes on, ends, or ends with an effect that took these entitlements.
Goto(r, x) == live' = (live \ {r}) \cup {x} /\ UNCHANGED acted
Ends(r) == live' = live \ {r} /\ UNCHANGED acted
Acts(r, xs, needs) == live' = (live \ {r}) \cup xs /\ acted' = [needs |-> needs, ever |-> ever[r.q]]

\* A request that has not begun has met nothing but what is true now.
Watch == ever' = [q \in {x.q : x \in live'} |-> (IF Request(q) \in live' THEN {} ELSE ever[q]) \cup Facts(q)']

At(r, at) == r.at = at
Reads == UNCHANGED <<tables, waf, lock, now, faults, torn>>

-----------------------------------------------------------------------------
(* WAF. *)

active_waf_ban(r) == r.q.ip \in bans

\* register_login_failure, register_oauth_failure, register_pat_failure: the event,
\* then the count, then the ban.
record_waf_event(r) ==
    /\ At(r, "failed")
    /\ failed' = [failed EXCEPT ![r.q.ip] = @ + 1]
    /\ UNCHANGED <<tables, used, refused, bans, lock, now, faults, torn>>
    /\ Goto(r, [r EXCEPT !.at = "count"])

RegisterFailure(r) ==
    /\ At(r, "count")
    /\ UNCHANGED <<tables, waf, lock, now, faults, torn>>
    /\ IF failed[r.q.ip] >= Threshold THEN Goto(r, [r EXCEPT !.at = "ban"]) ELSE Ends(r)

upsert_waf_ban(r) ==
    /\ At(r, "ban")
    /\ bans' = bans \cup {r.q.ip}
    /\ UNCHANGED <<tables, used, refused, failed, lock, now, faults, torn>>
    /\ Ends(r)

Fails(r) == [r EXCEPT !.at = "failed"]

-----------------------------------------------------------------------------
(* TOTP: verify_and_consume_user_totp, under one lock for the process. *)

\* totp_config and, where TOTP is on, the time the code is checked for.
totp_config(r) ==
    /\ At(r, "totp")
    /\ Reads
    /\ LET row == users[r.user]
           on == row # Nothing /\ row.totp
           secret == IF row = Nothing THEN Nothing ELSE row.secret
       IN IF ~on THEN Goto(r, [r EXCEPT !.at = r.then, !.secret = secret])
          ELSE IF secret = Nothing \/ r.q.code = Nothing THEN Ends(r)
          ELSE Goto(r, [r EXCEPT !.at = "lock", !.secret = secret, !.time = now])

\* Variant: requests of one user check their codes side by side.
totp_verification_lock_None(r) ==
    /\ At(r, "lock")
    /\ UNCHANGED <<tables, waf, lock, now, faults, torn>>
    /\ Goto(r, [r EXCEPT !.at = "guess"])

totp_verification_lock(r) ==
    /\ At(r, "lock") /\ lock = Nothing
    /\ lock' = r.q
    /\ UNCHANGED <<tables, waf, now, faults, torn>>
    /\ Goto(r, [r EXCEPT !.at = "guess"])

\* A wrong code of a login counts for its address too.
TotpRefused(r) == IF r.q.op = "login" THEN Goto(r, Fails(r)) ELSE Ends(r)
Release == lock' = Nothing

count_recent_user_totp_failures(r) ==
    /\ At(r, "guess")
    /\ UNCHANGED <<tables, waf, now, faults, torn>>
    /\ IF refused[r.user] >= Threshold
       THEN Release /\ TotpRefused(r)
       ELSE Goto(r, [r EXCEPT !.at = "code"]) /\ UNCHANGED lock

\* verify_totp_code_step: the step of the code, within the window around the time.
Matches(r) == r.q.code.secret = r.secret /\ r.q.code.step \in (r.time - Window)..(r.time + Window)

is_totp_step_replayed(r) ==
    \E e \in used : /\ e.user = r.user /\ e.secret = r.secret
                    /\ e.step >= r.q.code.step /\ e.at >= r.time - Horizon

TotpChecked(r) ==
    /\ At(r, "code")
    /\ UNCHANGED <<tables, used, failed, bans, now, faults, torn>>
    /\ IF Matches(r) /\ ~is_totp_step_replayed(r)
       THEN Goto(r, [r EXCEPT !.at = "use"]) /\ UNCHANGED <<refused, lock>>
       ELSE /\ refused' = [refused EXCEPT ![r.user] = @ + 1]
            /\ Release /\ TotpRefused(r)

TotpUsed(r) ==
    /\ At(r, "use")
    /\ used' = used \cup {[user |-> r.user, secret |-> r.secret, step |-> r.q.code.step, at |-> now, q |-> r.q]}
    /\ Release
    /\ UNCHANGED <<tables, refused, failed, bans, now, faults, torn>>
    /\ Goto(r, [r EXCEPT !.at = r.then])

-----------------------------------------------------------------------------
(* session_middleware: the session's row and then its user, or the token's. *)

\* Where a request goes once its user is known; most that write ask for a TOTP code.
Shown == {"list", "users", "bans", "pats", "bindings", "status"}
Plain == Shown \cup {"logout", "setup", "enable", "disable", "use"}

\* session_request_requires_csrf and csrf_token_matches: a request that changes something
\* carries a header that only a page of the same session can know.
csrf_token_matches(r) == r.q.op \in Shown \/ r.q.csrf = r.q.by

Authenticated(r, u) ==
    [r EXCEPT !.user = u, !.admin = users[u].role = "admin", !.ver = users[u].ver,
              !.at = IF r.q.op \in Plain THEN "run" ELSE "allow"]

find_by_token_hash(r) ==
    /\ At(r, "start") /\ r.q.op \notin {"login", "signin", "callback", "seed"} /\ r.q.by \notin Pats
    /\ Reads
    /\ LET ss == {s \in sessions : Opens(s, r.q)} IN
       IF ss = {} THEN Ends(r)
       ELSE \E s \in ss : Goto(r, [r EXCEPT !.at = "user", !.user = s.user])

find_by_id(r) ==
    /\ At(r, "user")
    /\ Reads
    /\ IF users[r.user] = Nothing \/ ~csrf_token_matches(r) THEN Ends(r) ELSE Goto(r, Authenticated(r, r.user))

\* A token: its address is not banned, it is neither revoked nor expired.
PatFound(r) ==
    /\ At(r, "start") /\ r.q.by \in Pats
    /\ Reads
    /\ LET p == pats[r.q.by] IN
       IF active_waf_ban(r) THEN Ends(r)
       ELSE IF ~Valid(p) THEN Goto(r, Fails(r))
       ELSE Goto(r, [r EXCEPT !.at = "token", !.user = p.user, !.pat = p])

validate_scopes(p, admin) == p.admin => admin
validate_servers(p, admin) == ~admin /\ p.scoped => p.servers \notin {Nothing, {}}

\* What its scopes and its list of Agents ask of the user's role now.
validate_pat_runtime(p, admin) == validate_scopes(p, admin) /\ validate_servers(p, admin)

PatUser(r) ==
    /\ At(r, "token")
    /\ Reads
    /\ LET row == users[r.user] IN
       IF row = Nothing \/ ~validate_pat_runtime(r.pat, row.role = "admin") THEN Goto(r, Fails(r))
       ELSE Goto(r, [r EXCEPT !.at = "allowlist", !.admin = row.role = "admin", !.ver = row.ver,
                              !.todo = IF r.pat.servers = Nothing THEN {} ELSE r.pat.servers])

\* Variant: the list was checked when the token was made.
validate_server_allowlist_ownership_Once(r, a) == TRUE

validate_server_allowlist_ownership(r, a) == r.admin \/ owner[a] = r.user

\* The list's Agents one by one, for a token that is used and for one that is made.
AllowlistStep(r) ==
    /\ At(r, "allowlist") /\ r.todo # {}
    /\ Reads
    /\ \E a \in r.todo :
          IF validate_server_allowlist_ownership(r, a) THEN Goto(r, [r EXCEPT !.todo = @ \ {a}])
          ELSE IF r.q.by \in Pats THEN Goto(r, Fails(r)) ELSE Ends(r)

\* mark_used, whose failure is ignored, and then the handler.
PatAccepted(r) ==
    /\ At(r, "allowlist") /\ r.todo = {} /\ r.q.by \in Pats
    /\ Reads
    /\ Goto(r, [r EXCEPT !.at = IF r.q.op \in Plain THEN "run" ELSE "allow"])

\* A handler that works with the token's Agents; an administrator reaches all of them.
UsesToken(r) ==
    /\ At(r, "run") /\ r.q.op = "use"
    /\ UNCHANGED <<tables, waf, lock, now, faults, torn>>
    /\ Acts(r, {}, {<<"user", r.user>>} \cup
                   (IF r.admin THEN {<<"admin", r.user>>}
                    ELSE IF r.q.by \in Pats /\ r.pat.servers # Nothing THEN {<<"agent", r.user, a>> : a \in r.pat.servers}
                    ELSE {}))

-----------------------------------------------------------------------------
(* Sessions and tokens. *)

\* Sessions of a user that stay when one more is made: the newest.
Kept(u) ==
    LET own == {s \in sessions : s.user = u /\ ~s.expired} IN
    {s \in own : Cardinality({x \in own : x.n > s.n}) < MaxSessions - 1}

Newest == CHOOSE n \in {0} \cup {s.n : s \in sessions} : \A s \in sessions : s.n <= n

\* SessionRepository::create, one transaction; the foreign key wants the user.
CreateSession(r) ==
    /\ users[r.user] # Nothing
    /\ sessions' = {s \in sessions : s.user # r.user /\ ~s.expired} \cup Kept(r.user)
                   \cup {[id |-> r.q, user |-> r.user, ver |-> r.ver, late |-> r.ver # users[r.user].ver, expired |-> FALSE,
                          n |-> 1 + Newest]}

\* delete_for_user and revoke_all_for_user: two statements, of which an error may keep the second.
delete_for_user(u) == sessions' = {s \in sessions : s.user # u}
revoke_all_for_user(u) ==
    pats' = [p \in Pats |-> IF pats[p] # Nothing /\ pats[p].user = u THEN [pats[p] EXCEPT !.revoked = TRUE] ELSE pats[p]]

-----------------------------------------------------------------------------
(* Time, and requests that are dropped. *)

\* What a change leaves undone if it is cut short here.
Unfinished(r) ==
    (IF r.at \in {"count", "ban"} THEN {r.q.ip} ELSE {}) \cup (IF r.at \in {"revoke", "tokens"} THEN {r.q.target} ELSE {})

\* The client goes away, or an access fails.
Dropped(r) ==
    /\ faults < MaxFaults /\ faults' = faults + 1 /\ ~At(r, "start")
    /\ lock' = IF lock = r.q THEN Nothing ELSE lock
    /\ torn' = torn \cup Unfinished(r)
    /\ UNCHANGED <<tables, waf, now>>
    /\ Ends(r)

Tick(r) ==
    /\ At(r, "start") /\ r.q.op = "tick"
    /\ now' = now + 1
    /\ UNCHANGED <<tables, waf, lock, faults, torn>>
    /\ Ends(r)

\* Sessions and tokens run out; agents change hands (Fleet has the request).
Expires(r) ==
    /\ At(r, "start") /\ r.q.op = "expire"
    /\ sessions' = {IF s.id = r.q.target THEN [s EXCEPT !.expired = TRUE] ELSE s : s \in sessions}
    /\ pats' = [p \in Pats |-> IF p = r.q.target /\ pats[p] # Nothing THEN [pats[p] EXCEPT !.expired = TRUE] ELSE pats[p]]
    /\ UNCHANGED <<users, bound, owner, waf, lock, now, faults, torn>>
    /\ Ends(r)
delete_expired(r) ==
    /\ At(r, "start") /\ r.q.op = "sweep"
    /\ sessions' = {s \in sessions : ~s.expired}
    /\ UNCHANGED <<users, pats, bound, owner, waf, lock, now, faults, torn>>
    /\ Ends(r)
OwnerChanges(r) ==
    /\ At(r, "start") /\ r.q.op = "owner"
    /\ owner' = [owner EXCEPT ![r.q.agent] = r.q.target]
    /\ UNCHANGED <<users, sessions, pats, bound, waf, lock, now, faults, torn>>
    /\ Ends(r)

CredentialStep(r) ==
    \/ record_waf_event(r) \/ RegisterFailure(r) \/ upsert_waf_ban(r)
    \/ totp_config(r) \/ totp_verification_lock(r) \/ count_recent_user_totp_failures(r) \/ TotpChecked(r) \/ TotpUsed(r)
    \/ find_by_id(r) \/ PatFound(r) \/ PatUser(r) \/ AllowlistStep(r) \/ PatAccepted(r) \/ UsesToken(r)
    \/ Dropped(r) \/ Expires(r) \/ delete_expired(r) \/ OwnerChanges(r) \/ Tick(r)
    \/ (r.q.op \notin {"expire", "sweep", "owner", "tick"} /\ find_by_token_hash(r))
=============================================================================

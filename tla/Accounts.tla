------------------------------ MODULE Accounts -------------------------------
(***************************************************************************)
(* Signing in and managing accounts: api/v1/auth.rs, pat.rs and            *)
(* db/repository/user.rs, over the credentials of Credentials.  OAuth adds *)
(* the sign-in through a provider.                                         *)
(***************************************************************************)
EXTENDS Credentials

\* What the tables hold: sessions in the order they were made, no user with more than there
\* may be; a subject is bound to one user, and a user to one subject.
TablesOK(us, ss, ps, bd, own) ==
    /\ us \in [Users -> UserRows \cup {Nothing}] /\ ps \in [Pats -> PatRows \cup {Nothing}]
    /\ \A s \in ss : s \in SessionRows({s.id})
    /\ IsFiniteSet(ss) /\ \A s, t \in ss : s.n = t.n => s = t
    /\ \A u \in Users : Cardinality({s \in ss : s.user = u /\ ~s.expired}) <= MaxSessions
    /\ bd \in [Subjects -> Users \cup {Nothing}] /\ own \in [Agents -> Users \cup {Nothing}]
    /\ \A x, y \in Subjects : x # y /\ bd[x] # Nothing => bd[x] # bd[y]

AccountsTypeOK ==
    /\ TablesOK(users, sessions, pats, bound, owner)
    /\ refused \in [Users -> Nat] /\ failed \in [Ips -> Nat] /\ bans \subseteq Ips
    /\ now \in Nat /\ faults \in 0..MaxFaults

\* A session or token belongs to a user who is there, and knows the version it was issued under.
Issued(us, c) == us[c.user] # Nothing /\ (c.late \/ c.ver = us[c.user].ver)

\* The server starts with tables that earlier runs left in order, with an administrator.
ASSUME StoredAssumption ==
    \A x \in Stored :
        /\ TablesOK(x.users, x.sessions, x.pats, x.bound, x.owner)
        /\ \E u \in Users : x.users[u] # Nothing /\ x.users[u].role = "admin"
        /\ \A s \in x.sessions : Issued(x.users, s)
        /\ \A p \in Pats : x.pats[p] # Nothing => Issued(x.users, x.pats[p])

\* The parameters of a request, by what it asks for.
AccountRequest(q) ==
    /\ q # Nothing /\ q.ip \in Ips /\ q.fresh \in Secrets
    /\ q.op \in {"login", "update", "delete", "user", "seed"} => q.target \in Users
    /\ q.op = "owner" => q.target \in Users \cup {Nothing}
    /\ q.op = "ban" => q.target \in Ips
    /\ q.op = "update" => q.role \in {"admin", "member", Nothing} /\ q.pw \in Passwords \cup {Nothing}
    /\ q.op \in {"user", "seed"} => q.pw \in Passwords
    /\ q.op = "user" => q.role \in {"admin", "member"}
    /\ q.op = "pat" => q.pat \in [servers : (SUBSET Agents) \cup {Nothing}, admin : BOOLEAN, scoped : BOOLEAN]
    /\ q.op \in {"login", "signin", "callback", "seed", "expire", "sweep", "owner", "tick"} => q.by \notin Pats
    /\ q.code = Nothing \/ q.code.step \in Nat

ASSUME RequestsAssumption == \A w \in Workloads : \A q \in w : AccountRequest(q)

AccountsInit ==
    /\ \E x \in Stored : users = x.users /\ sessions = x.sessions /\ pats = x.pats /\ bound = x.bound /\ owner = x.owner
    /\ used = {} /\ refused = [u \in Users |-> 0] /\ failed = [i \in Ips |-> 0] /\ bans = {}
    /\ lock = Nothing /\ now = 1 /\ faults = 0 /\ torn = {}
    /\ acted = [needs |-> {}, ever |-> {}]
    /\ live \in {{Request(q) : q \in w} : w \in Workloads}
    /\ ever = [q \in {r.q : r \in live} |-> Facts(q)]

-----------------------------------------------------------------------------
(* login. *)

login(r) ==
    /\ At(r, "start") /\ r.q.op = "login"
    /\ Reads
    /\ IF active_waf_ban(r) THEN Ends(r) ELSE Goto(r, [r EXCEPT !.at = "lookup"])

\* find_by_username and the password; then TOTP, if the user has it.
find_by_username(r) ==
    /\ At(r, "lookup")
    /\ Reads
    /\ LET u == r.q.target IN
       IF users[u] = Nothing \/ users[u].pw # r.q.pw THEN Goto(r, Fails(r))
       ELSE Goto(r, [r EXCEPT !.at = "totp", !.then = "create", !.user = u, !.ver = users[u].ver])

\* The session, or an error when the user is gone.
CreateLoginSession(r) ==
    /\ At(r, "create") /\ r.q.op = "login"
    /\ UNCHANGED <<users, pats, bound, owner, waf, lock, now, faults, torn>>
    /\ \/ CreateSession(r) /\ Acts(r, {}, {})
       \/ users[r.user] = Nothing /\ UNCHANGED sessions /\ Ends(r)

-----------------------------------------------------------------------------
(* What may run: cookie sessions, most of an administrator, with a TOTP code. *)

AdminOps == {"update", "delete", "user", "ban", "unban", "users", "bans"}

\* require_admin_cookie_session, or require_cookie_session.
MayRun(r) ==
    /\ r.q.by \notin Pats
    /\ r.q.op \in AdminOps => r.admin
    /\ r.q.op = "unsession" => r.admin \/ r.q.target = r.q.by

require_sensitive_totp(r) ==
    /\ At(r, "allow")
    /\ Reads
    /\ IF MayRun(r) THEN Goto(r, [r EXCEPT !.at = "totp", !.then = "run"]) ELSE Ends(r)

Runs(r, op) == At(r, "run") /\ r.q.op = op
Others == UNCHANGED <<waf, lock, now, faults>>
Own(r) == {<<"user", r.user>>}
Admin(r) == Own(r) \cup {<<"admin", r.user>>}

logout(r) ==
    /\ Runs(r, "logout")
    /\ sessions' = {s \in sessions : s.id # r.q.by}
    /\ UNCHANGED <<users, pats, bound, owner, torn>> /\ Others
    /\ Acts(r, {}, {})

delete_session(r) ==
    /\ Runs(r, "unsession")
    /\ sessions' = {s \in sessions : s.id # r.q.target}
    /\ UNCHANGED <<users, pats, bound, owner, torn>> /\ Others
    /\ Acts(r, {}, IF r.q.target = r.q.by THEN {} ELSE Admin(r))

unbind_oauth_provider(r) ==
    /\ Runs(r, "unbind")
    /\ bound' = [x \in Subjects |-> IF bound[x] = r.user THEN Nothing ELSE bound[x]]
    /\ UNCHANGED <<users, sessions, pats, owner, torn>> /\ Others
    /\ Acts(r, {}, Own(r))

\* create_waf_bans, for one address; delete_waf_ban.
create_waf_bans(r) ==
    /\ Runs(r, "ban")
    /\ bans' = bans \cup {r.q.target}
    /\ UNCHANGED <<tables, used, refused, failed, lock, now, faults, torn>>
    /\ Acts(r, {}, Admin(r))
delete_waf_ban(r) ==
    /\ Runs(r, "unban")
    /\ bans' = bans \ {r.q.target} /\ torn' = torn \cup {r.q.target}
    /\ UNCHANGED <<tables, used, refused, failed, lock, now, faults>>
    /\ Acts(r, {}, Admin(r))

\* list_sessions: all of them to an administrator, one's own to everybody else.
list_sessions(r) ==
    /\ Runs(r, "list") /\ r.q.by \notin Pats
    /\ Reads
    /\ Acts(r, {}, IF \E s \in sessions : s.user # r.user /\ (r.admin \/ s.user = r.user) THEN Admin(r) ELSE {})

\* What a session is shown without a code.
Shows(r, op, needs) == Runs(r, op) /\ Reads /\ IF MayRun(r) THEN Acts(r, {}, needs) ELSE Ends(r)

list_users(r) == Shows(r, "users", Admin(r))
list_waf_bans(r) == Shows(r, "bans", Admin(r))
list_by_user(r) == Shows(r, "pats", Own(r))
get_totp_status(r) == Shows(r, "status", Own(r))

-----------------------------------------------------------------------------
(* Users. *)

UserRow(role, pw) == [role |-> role, pw |-> pw, secret |-> Nothing, totp |-> FALSE, ver |-> 0]

\* seed_admin_user, when the server starts: a name that is taken is left alone.
seed_admin_user(r) ==
    /\ r.q.op = "seed" /\ r.at \in {"start", "seed"}
    /\ IF users[r.q.target] # Nothing THEN Reads /\ Ends(r)
       ELSE IF At(r, "start") THEN Reads /\ Goto(r, [r EXCEPT !.at = "seed"])
       ELSE /\ users' = [users EXCEPT ![r.q.target] = UserRow("admin", r.q.pw)]
            /\ UNCHANGED <<sessions, pats, bound, owner, torn>> /\ Others
            /\ Ends(r)

create_user(r) ==
    /\ Runs(r, "user")
    /\ users' = IF users[r.q.target] # Nothing THEN users
                ELSE [users EXCEPT ![r.q.target] = UserRow(r.q.role, r.q.pw)]
    /\ UNCHANGED <<sessions, pats, bound, owner, torn>> /\ Others
    /\ Acts(r, {}, Admin(r))

\* update_user reads the user; who is to lose the role is counted first.
UpdateReads(r) ==
    /\ Runs(r, "update")
    /\ Reads
    /\ LET row == users[r.q.target] IN
       IF row = Nothing THEN Ends(r)
       ELSE IF r.q.role = "member" /\ row.role = "admin"
       THEN IF r.q.target = r.user THEN Ends(r) ELSE Goto(r, [r EXCEPT !.at = "admins", !.was = row.role])
       ELSE Goto(r, [r EXCEPT !.at = IF r.q.role = Nothing THEN "password" ELSE "write", !.was = row.role])

DeleteReads(r) ==
    /\ Runs(r, "delete")
    /\ Reads
    /\ LET row == users[r.q.target] IN
       IF r.q.target = r.user \/ row = Nothing THEN Ends(r)
       ELSE Goto(r, [r EXCEPT !.at = IF row.role = "admin" THEN "admins" ELSE "revoke", !.then = "erase", !.was = row.role])

\* Requests that have counted the administrators and are about to take one away.
Counted(r) == r.seen > 0 /\ r.at \in {"write", "revoke", "tokens", "erase"}

count_admins(r) == Cardinality({u \in Users : Role(u) = "admin"}) > 1

CountsAdmins(r) ==
    /\ At(r, "admins")
    /\ torn' = torn \cup (IF \E x \in live : Counted(x) THEN {"admins"} ELSE {})
    /\ UNCHANGED tables /\ Others
    /\ IF count_admins(r) THEN Goto(r, [r EXCEPT !.at = IF r.q.op = "update" THEN "write" ELSE "revoke", !.seen = 1])
       ELSE Ends(r)

\* A role that is not the one that was read goes by no count, here and in delete_user.
update_role(r) ==
    LET u == r.q.target
        changed == r.was # r.q.role
    IN
    /\ At(r, "write")
    /\ users' = IF users[u] = Nothing THEN users
                ELSE [users EXCEPT ![u].role = r.q.role, ![u].ver = IF changed THEN @ + 1 ELSE @]
    /\ torn' = torn \cup (IF Role(u) # r.was THEN {"admins"} ELSE {})
    /\ UNCHANGED <<sessions, pats, bound, owner>> /\ Others
    /\ IF users[u] = Nothing THEN Ends(r)
       ELSE Acts(r, {[r EXCEPT !.at = IF changed THEN "revoke" ELSE "password", !.then = "password"]}, Admin(r))

\* revoke_user_credentials: sessions, and then tokens.
RevokesSessions(r) ==
    /\ At(r, "revoke")
    /\ delete_for_user(r.q.target)
    /\ UNCHANGED <<users, pats, bound, owner, torn>> /\ Others
    /\ Goto(r, [r EXCEPT !.at = "tokens"])

\* Variant: sessions are what a password opens.
RevokesTokens_Skipped(r) ==
    /\ At(r, "tokens")
    /\ UNCHANGED <<tables, torn>> /\ Others
    /\ Goto(r, [r EXCEPT !.at = r.then])

RevokesTokens(r) ==
    /\ At(r, "tokens")
    /\ revoke_all_for_user(r.q.target)
    /\ UNCHANGED <<users, sessions, bound, owner, torn>> /\ Others
    /\ Goto(r, [r EXCEPT !.at = r.then])

reset_password(r) ==
    LET u == r.q.target IN
    /\ At(r, "password") /\ r.q.pw # Nothing
    /\ users' = IF users[u] = Nothing THEN users ELSE [users EXCEPT ![u].pw = r.q.pw, ![u].ver = @ + 1]
    /\ UNCHANGED <<sessions, pats, bound, owner, torn>> /\ Others
    /\ IF users[u] = Nothing THEN Ends(r) ELSE Acts(r, {[r EXCEPT !.at = "revoke", !.then = "end"]}, Admin(r))

UpdateAnswers(r) == (At(r, "end") \/ (At(r, "password") /\ r.q.pw = Nothing)) /\ Reads /\ Ends(r)

\* ON DELETE CASCADE of the tables that point to users.
Cascade(u) ==
    /\ sessions' = {s \in sessions : s.user # u}
    /\ pats' = [p \in Pats |-> IF pats[p] # Nothing /\ pats[p].user = u THEN Nothing ELSE pats[p]]
    /\ bound' = [x \in Subjects |-> IF bound[x] = u THEN Nothing ELSE bound[x]]
    /\ owner' = [a \in Agents |-> IF owner[a] = u THEN Nothing ELSE owner[a]]

delete_user(r) ==
    /\ At(r, "erase")
    /\ users' = [users EXCEPT ![r.q.target] = Nothing]
    /\ torn' = torn \cup (IF Role(r.q.target) # r.was THEN {"admins"} ELSE {})
    /\ Cascade(r.q.target) /\ Others
    /\ Acts(r, {}, Admin(r))

-----------------------------------------------------------------------------
(* TOTP endpoints and tokens. *)

\* They read the row; a change of what is on asks for a code, enabling always does.
TotpEndpoint(r) ==
    /\ At(r, "run") /\ r.q.op \in {"setup", "enable", "disable"} /\ r.q.by \notin Pats
    /\ Reads
    /\ LET row == users[r.user]
           on == row # Nothing /\ row.totp
           secret == IF row = Nothing THEN Nothing ELSE row.secret
       IN IF ~on /\ r.q.op # "enable" THEN Goto(r, [r EXCEPT !.at = "switch"])
          ELSE IF secret = Nothing \/ r.q.code = Nothing THEN Ends(r)
          ELSE Goto(r, [r EXCEPT !.at = "lock", !.then = "switch", !.secret = secret, !.time = now])

\* set_totp_secret, set_totp_enabled, disable_totp: of the row as it is by then.
SwitchTotp(r) ==
    /\ At(r, "switch")
    /\ users' = IF users[r.user] = Nothing THEN users
                ELSE CASE r.q.op = "setup" -> [users EXCEPT ![r.user].secret = r.q.fresh, ![r.user].totp = FALSE]
                       [] r.q.op = "enable" -> [users EXCEPT ![r.user].totp = TRUE]
                       [] r.q.op = "disable" -> [users EXCEPT ![r.user].secret = Nothing, ![r.user].totp = FALSE]
    /\ UNCHANGED <<sessions, pats, bound, owner, torn>> /\ Others
    /\ Acts(r, {}, Own(r))

\* A list that is given is not empty.
normalize_create_pat_request(p) == p.servers # {}

\* create_pat: the scopes and the list by the role of the session, the Agents one by one.
CreatePatChecks(r) ==
    /\ Runs(r, "pat")
    /\ Reads
    /\ IF /\ normalize_create_pat_request(r.q.pat)
          /\ validate_scopes(r.q.pat, r.admin) /\ validate_servers(r.q.pat, r.admin)
       THEN Goto(r, [r EXCEPT !.at = "allowlist", !.todo = IF r.q.pat.servers = Nothing THEN {} ELSE r.q.pat.servers])
       ELSE Ends(r)

\* Every token ends, and within the longest time there is.
resolve_pat_expires_at(ttl) == ttl \in 1..MaxTtl

create_pat(r) ==
    /\ At(r, "allowlist") /\ r.todo = {} /\ r.q.op = "pat" /\ r.q.by \notin Pats
    /\ pats' = IF users[r.user] = Nothing \/ ~resolve_pat_expires_at(r.q.ttl) THEN pats
               ELSE [pats EXCEPT ![r.q.target] =
                        [user |-> r.user, servers |-> r.q.pat.servers, admin |-> r.q.pat.admin, scoped |-> r.q.pat.scoped,
                         revoked |-> FALSE, expired |-> FALSE, ver |-> r.ver, late |-> r.ver # users[r.user].ver]]
    /\ UNCHANGED <<users, sessions, bound, owner, torn>> /\ Others
    /\ Acts(r, {}, Own(r))

revoke_pat(r) ==
    /\ Runs(r, "unpat")
    /\ LET p == pats[r.q.target] IN
       pats' = IF p # Nothing /\ p.user = r.user THEN [pats EXCEPT ![r.q.target].revoked = TRUE] ELSE pats
    /\ UNCHANGED <<users, sessions, bound, owner, torn>> /\ Others
    /\ Acts(r, {}, Own(r))

-----------------------------------------------------------------------------

AccountStep(r) ==
    \/ login(r) \/ find_by_username(r) \/ CreateLoginSession(r)
    \/ require_sensitive_totp(r) \/ logout(r) \/ delete_session(r) \/ unbind_oauth_provider(r)
    \/ create_waf_bans(r) \/ delete_waf_ban(r) \/ list_sessions(r)
    \/ list_users(r) \/ list_waf_bans(r) \/ list_by_user(r) \/ get_totp_status(r)
    \/ seed_admin_user(r) \/ create_user(r) \/ UpdateReads(r) \/ DeleteReads(r) \/ CountsAdmins(r) \/ update_role(r)
    \/ RevokesSessions(r) \/ RevokesTokens(r) \/ reset_password(r) \/ UpdateAnswers(r) \/ delete_user(r)
    \/ TotpEndpoint(r) \/ SwitchTotp(r) \/ CreatePatChecks(r) \/ create_pat(r) \/ revoke_pat(r)

-----------------------------------------------------------------------------
(* Properties. *)

\* Whatever a request writes, and whatever it is shown, its session, its role, its token's
\* Agents or its OAuth binding entitled it to at some moment since it came in.
ActsWithAuthority == acted.needs \subseteq acted.ever

\* A TOTP code is accepted once: requests that arrive together with the same code do not
\* both pass, and neither does one that comes later within the code's window.
CodeIsUsedOnce ==
    \A e, f \in used : e.user = f.user /\ e.secret = f.secret /\ e.step = f.step => e.q = f.q

\* No more wrong codes of a user are compared than the limit allows, however many requests
\* guess at the same time.
GuessesAreBounded == \A u \in Users : refused[u] <= Threshold

\* An address with as many failures as the limit is banned once its requests are through,
\* although each counts without a lock (unless one was cut short or the ban was lifted).
BanFollowsFailures ==
    \A i \in Ips :
        /\ failed[i] >= Threshold /\ i \notin torn
        /\ \A r \in live : r.q.ip = i => r.at \notin {"count", "ban"}
        => i \in bans

\* A change of password or role ends the sessions and tokens the user had: one that was
\* made under an older version is there only while the change is under way, if it was cut
\* short, or if it was made by a request that had begun before the change (late).
EarlierCredentialsEnd ==
    LET Settled(u) == u \notin torn /\ \A r \in live : r.at \in {"revoke", "tokens"} => r.q.target # u
        Current(c) == users[c.user] # Nothing /\ (Settled(c.user) => c.late \/ c.ver = users[c.user].ver)
    IN /\ \A s \in sessions : Current(s)
       /\ \A p \in Pats : pats[p] # Nothing /\ ~pats[p].revoked => Current(pats[p])

\* While the requests that take the role from an administrator do not overlap between
\* count and write, and each takes the role it has read, an administrator is left.
AdminRemains == (\E u \in Users : Role(u) = "admin") \/ "admins" \in torn

\* Guessing does not pay, however many requests guess at the same time: the limits on codes
\* and failures of auth.rs hold although each is checked and counted in separate statements.
GuessingIsBounded == CodeIsUsedOnce /\ GuessesAreBounded /\ BanFollowsFailures

\* A change of a user takes effect on what was issued before it, and leaves an administrator.
UserChangesHold == EarlierCredentialsEnd /\ AdminRemains
=============================================================================

--------------------------- MODULE AccountsProofs ----------------------------
(***************************************************************************)
(* Signing in, accounts, tokens, TOTP and OAuth for any users, requests    *)
(* and tables: the requests of Credentials, Accounts and OAuth interleave  *)
(* at every access, and any number of them may be dropped.                 *)
(*                                                                         *)
(* The argument has two layers.  What a request carries, and what it has   *)
(* met by then, depends on how far it has come (Fit); what the tables say  *)
(* must survive the steps of everyone: codes and guesses because one       *)
(* request at a time holds the lock, bans and revocations because whoever  *)
(* owes one is still on its way or was cut short, the last administrator   *)
(* because whoever takes the role from one has counted another.            *)
(***************************************************************************)
EXTENDS OAuth, FiniteSetTheorems, NaturalsInduction, TLAPS

-----------------------------------------------------------------------------
(* What a request carries. *)

Fields == {"q", "at", "then", "user", "admin", "ver", "secret", "pat", "was", "time", "seen", "todo"}
Shaped(r) == r = [f \in Fields |-> r[f]]

Unsigned == {"login", "signin", "callback", "seed", "expire", "sweep", "owner", "tick"}
Changing == {"admins", "write", "revoke", "tokens", "password", "end", "erase"}
Signed == {"user", "token", "allow", "run", "allowlist", "switch"} \cup Changing
Checking == {"totp", "lock", "guess", "code", "use"}
Holding == {"guess", "code", "use"}
Returned == {"cookie", "exchange", "bind", "bound", "profile"}
Switches == {"setup", "enable", "disable"}

\* Requests whose user is known, and those of a session or token.
KnowsUser(r) ==
    \/ r.at \in Signed \cup Checking \cup {"create", "profile", "bind"}
    \/ r.at = "exchange" /\ r.was.user # Nothing
HasUser(r) ==
    \/ r.at \in Signed \cup {"bind"}
    \/ r.at \in Checking /\ r.q.op # "login"
    \/ r.at = "exchange" /\ r.was.user # Nothing

Returning(r) == r.at \in Returned \/ (r.at = "create" /\ r.q.op = "callback")

\* Where a request may be, by what it asks for.
Placed(r) ==
    /\ r.at = "start" => r = Request(r.q)
    /\ r.at \in Signed => r.q.op \notin Unsigned
    /\ r.at = "lookup" => r.q.op = "login"
    /\ r.at \in Returned => r.q.op = "callback"
    /\ r.at = "create" => r.q.op \in {"login", "callback"}
    /\ r.at = "seed" => r.q.op = "seed"
    /\ r.at = "allow" => r.q.op \notin Plain
    /\ r.at = "switch" => r.q.op \in Switches
    /\ r.at \in Changing => r.q.op \in {"update", "delete"}
    /\ r.at \in {"write", "password", "end"} => r.q.op = "update"
    /\ r.at = "erase" => r.q.op = "delete"

\* Where a code leads, and who has been let through to it.
Coded(r) ==
    r.at \in Checking =>
        \/ r.q.op = "login" /\ r.then = "create"
        \/ r.q.op \in Switches /\ r.then = "switch"
        \/ r.q.op \notin Plain \cup Unsigned /\ r.then = "run" /\ MayRun(r)

\* What a change of a user has done and has yet to do.
Underway(r) ==
    /\ r.at \in Changing => r.admin
    /\ r.at = "run" /\ r.q.op \notin Plain => MayRun(r)
    /\ r.at = "admins" /\ r.q.op = "delete" => r.then = "erase"
    /\ r.at = "admins" /\ r.q.op = "update" => r.q.role = "member"
    /\ r.at \in {"revoke", "tokens"} => r.then = "erase" <=> r.q.op = "delete"
    /\ r.at \in {"revoke", "tokens"} => r.then \in {"erase", "password", "end"}
    /\ r.at = "write" => r.q.role \in {"admin", "member"}
    /\ r.seen \in {0, 1}
    /\ r.seen = 1 => r.at \in Changing
    /\ r.at = "admins" => r.seen = 0
    /\ r.at = "write" /\ r.q.role = "member" /\ r.was = "admin" => r.seen = 1
    /\ r.q.op = "delete" /\ r.at \in {"revoke", "tokens", "erase"} /\ r.was = "admin" => r.seen = 1

\* What a request has read.
Read(r) ==
    /\ KnowsUser(r) => r.user \in Users
    /\ r.admin \in BOOLEAN /\ r.ver \in Nat /\ r.time \in Nat
    /\ r.admin => r.q.op \notin {"login", "callback"}
    /\ Returning(r) => r.was.browser = r.q.browser
    /\ r.at \in {"exchange", "bind"} /\ r.was.user # Nothing => r.user = r.was.user
    /\ r.at \in {"lock", "guess", "code", "use"} => r.q.code # Nothing
    /\ r.at = "use" => Matches(r)
    /\ r.at = "user" => r.q.by \notin Pats
    /\ r.q.by \in Pats /\ r.at \in {"token", "allowlist", "run"} => r.pat \in PatRows
    /\ r.q.by \in Pats /\ r.at = "allowlist" => r.todo \subseteq Agents

Carried(r) == Placed(r) /\ Coded(r) /\ Underway(r) /\ Read(r)

\* What a request has met, if E is what has been true since it came in.
Met(r, E) ==
    /\ HasUser(r) => <<"user", r.user>> \in E
    /\ r.admin => <<"admin", r.user>> \in E
    /\ r.at \in {"profile", "create"} /\ r.q.op = "callback" => <<"bound", r.user>> \in E
    /\ r.q.by \in Pats /\ r.at = "allowlist" /\ ~r.admin /\ r.pat.servers # Nothing =>
          \A a \in r.pat.servers \ r.todo : <<"agent", r.user, a>> \in E
    /\ r.q.by \in Pats /\ r.at = "run" /\ ~r.admin /\ r.pat.servers # Nothing =>
          \A a \in r.pat.servers : <<"agent", r.user, a>> \in E

Fit(r, E) == Shaped(r) /\ Carried(r) /\ Met(r, E)

\* The requests are those of one workload, each once.
Asked ==
    /\ \E w \in Workloads : \A r \in live : r.q \in w
    /\ \A r, s \in live : r.q = s.q => r = s

RequestsFit ==
    /\ Asked
    /\ DOMAIN ever = {r.q : r \in live}
    /\ \A r \in live : Fit(r, ever[r.q]) /\ Facts(r.q) \subseteq ever[r.q]

-----------------------------------------------------------------------------
(* What the tables say. *)

\* One request at a time compares codes, and what it has found holds until it is done.
CodesInv ==
    /\ \A e \in used : e.step \in Nat /\ e.at \in Nat /\ e.at >= e.step - Window
    /\ \A r \in live : r.time <= now
    /\ \A r \in live : r.at \in Holding => lock = r.q
    /\ \A r \in live : r.at = "code" => refused[r.user] < Threshold
    /\ \A r \in live : r.at = "use" => ~is_totp_step_replayed(r)
    /\ CodeIsUsedOnce /\ GuessesAreBounded

\* An address that has failed too often is banned, or a request is on its way to ban it.
BansInv ==
    \A i \in Ips : failed[i] >= Threshold /\ i \notin torn =>
        i \in bans \/ \E r \in live : r.q.ip = i /\ r.at \in {"count", "ban"}

\* A credential that is out of date is about to be revoked.
Revoking(u, ats) == u \in torn \/ \E r \in live : r.at \in ats /\ r.q.target = u
SessionOK(s) == users[s.user] # Nothing /\ (Issued(users, s) \/ Revoking(s.user, {"revoke"}))
TokenOK(c) == users[c.user] # Nothing /\ (c.revoked \/ Issued(users, c) \/ Revoking(c.user, {"revoke", "tokens"}))
IssuedInv ==
    /\ \A s \in sessions : SessionOK(s)
    /\ \A p \in Pats : pats[p] # Nothing => TokenOK(pats[p])

\* Whoever has counted and not yet taken the role.
Taking(r) == r.seen = 1 /\ (r.at \in {"write", "erase"} \/ (r.q.op = "delete" /\ r.at \in {"revoke", "tokens"}))
Another(t) == \E u \in Users \ {t} : Role(u) = "admin"
AdminsInv ==
    "admins" \notin torn =>
        /\ \E u \in Users : Role(u) = "admin"
        /\ \A r, s \in live : Taking(r) /\ Taking(s) => r = s
        /\ \A r \in live : Taking(r) => Another(r.q.target)

FlowsInv ==
    /\ \A f \in flows : f.user \in Users \cup {Nothing} /\ f.browser \in Browsers
    /\ jar \in [Browsers -> flows \cup {Nothing}] /\ ended \subseteq flows \X Browsers
    /\ \A b \in Browsers : jar[b] # Nothing => jar[b].browser = b
    /\ \A r \in live : Returning(r) => r.was \in flows
    /\ FlowEndsWhereItBegan

AccountsInv ==
    /\ AccountsTypeOK /\ RequestsFit /\ ActsWithAuthority
    /\ CodesInv /\ BansInv /\ IssuedInv /\ AdminsInv /\ FlowsInv

-----------------------------------------------------------------------------
(* How a request goes on. *)

\* The stages that are reached in one way only.
Edge(a, b) ==
    /\ b # "start"
    /\ b = "guess" => a = "lock"
    /\ b = "code" => a = "guess"
    /\ b = "use" => a = "code"

Answered(r) == live' = live \ {r}
Becomes(r, x) ==
    /\ x.q = r.q /\ Fit(x, ever[r.q])
    /\ Edge(r.at, x.at) /\ x.time \in {r.time, now}
    /\ Taking(x) => Taking(r) \/ r.at = "admins"
    /\ Returning(x) => x.was \in flows \/ (Returning(r) /\ x.was = r.was)
GoesOn(r) == \E x : live' = (live \ {r}) \cup {x} /\ Becomes(r, x)
StepOK(r) == (Answered(r) \/ GoesOn(r)) /\ (acted' = acted \/ acted'.needs \subseteq acted'.ever)

\* What is known of a request that takes a step.
Known(r) ==
    /\ r \in live /\ Fit(r, ever[r.q]) /\ Facts(r.q) \subseteq ever[r.q]
    /\ AccountRequest(r.q) /\ r.q.browser \in Browsers /\ r.q.subject \in Subjects

LEMMA RequestKnown ==
  ASSUME RequestsFit, NEW r \in live
  PROVE  Known(r)
<1>1. PICK w \in Workloads : r.q \in w
  BY DEF RequestsFit, Asked
<1>2. AccountRequest(r.q) /\ r.q.browser \in Browsers /\ r.q.subject \in Subjects
  BY <1>1, RequestsAssumption, OAuthAssumption
<1> QED
  BY <1>2 DEF RequestsFit, Known

LEMMA EndsIsStep == ASSUME NEW r, Ends(r) PROVE StepOK(r)
  BY DEF Ends, StepOK, Answered

LEMMA GotoIsStep == ASSUME NEW r, NEW x, Goto(r, x), Becomes(r, x) PROVE StepOK(r)
  BY DEF Goto, StepOK, GoesOn

LEMMA ActsIsStep ==
  ASSUME NEW r, NEW needs, Acts(r, {}, needs), needs \subseteq ever[r.q]
  PROVE  StepOK(r)
  BY DEF Acts, StepOK, Answered

LEMMA ActsGoesOn ==
  ASSUME NEW r, NEW x, NEW needs, Acts(r, {x}, needs), needs \subseteq ever[r.q], Becomes(r, x)
  PROVE  StepOK(r)
  BY DEF Acts, StepOK, GoesOn

\* A request that has failed, or one of a sign-in, has to show nothing.
LEMMA FailsBecomes ==
  ASSUME NEW r, Known(r), NEW at \in {"failed", "count", "ban", "lookup", "seed"},
         NEW x, x = [r EXCEPT !.at = at],
         at = "lookup" => r.q.op = "login", at = "seed" => r.q.op = "seed",
         r.seen = 0
  PROVE  Becomes(r, x)
<1>1. /\ Shaped(x) /\ x.q = r.q /\ x.at = at /\ x.then = r.then /\ x.user = r.user /\ x.admin = r.admin
      /\ x.ver = r.ver /\ x.time = r.time /\ x.seen = r.seen
  BY DEF Known, Fit, Shaped, Fields
<1>2. Carried(x)
  BY <1>1 DEF Known, Fit, Carried, Placed, Coded, Underway, Read, Returning, KnowsUser, Signed, Checking, Changing, Returned
<1>3. Met(x, ever[r.q])
  BY <1>1 DEF Known, Fit, Met, HasUser, Signed, Checking, Changing
<1> QED
  BY <1>1, <1>2, <1>3 DEF Becomes, Returning, Returned, Fit, Edge, Taking

LEMMA NotSeen ==
  ASSUME NEW r, Known(r), r.at \notin Changing
  PROVE  r.seen = 0
  BY DEF Known, Fit, Carried, Underway

LEMMA RefusedGoes ==
  ASSUME NEW r, Known(r), r.at \notin Changing, Goto(r, Fails(r))
  PROVE  StepOK(r)
<1>1. r.seen = 0
  BY NotSeen
<1>2. ASSUME NEW x, x = [r EXCEPT !.at = "failed"], Goto(r, x) PROVE StepOK(r)
  BY <1>1, <1>2, FailsBecomes, GotoIsStep
<1> QED
  BY <1>2 DEF Fails

LEMMA WafSteps ==
  ASSUME NEW r, Known(r), record_waf_event(r) \/ RegisterFailure(r) \/ upsert_waf_ban(r)
  PROVE  StepOK(r)
<1>1. ASSUME NEW at \in {"count", "ban"}, NEW x, x = [r EXCEPT !.at = at], Goto(r, x), r.at \in {"failed", "count"}
      PROVE  StepOK(r)
  BY <1>1, NotSeen, FailsBecomes, GotoIsStep DEF Changing
<1>2. CASE record_waf_event(r)
  BY <1>1, <1>2 DEF record_waf_event, At
<1>3. CASE RegisterFailure(r)
  BY <1>1, <1>3, EndsIsStep DEF RegisterFailure, At
<1> QED
  BY <1>2, <1>3, EndsIsStep DEF upsert_waf_ban

\* From one stage of a check to the next, with the same user.
LEMMA CheckBecomes ==
  ASSUME NEW r, Known(r), r.at \in Checking, NEW x, Shaped(x), x.q = r.q, x.then = r.then, x.user = r.user,
         x.admin = r.admin, x.ver = r.ver, x.seen = r.seen, x.time \in {r.time, now}, now \in Nat,
         x.at \in {"lock", "guess", "code", "use"}, Edge(r.at, x.at), x.at = "use" => Matches(x), r.q.code # Nothing
  PROVE  Becomes(r, x)
<1>1. Carried(x)
  BY DEF Known, Fit, Carried, Placed, Coded, Underway, Read, Returning, KnowsUser, Signed, Checking, Changing, Returned, MayRun
<1>2. Met(x, ever[r.q])
  BY DEF Known, Fit, Met, HasUser, Signed, Checking, Changing
<1> QED
  BY <1>1, <1>2 DEF Becomes, Returning, Returned, Fit, Taking

\* A code that was right, or was not asked for, leads on.
LEMMA PassedBecomes ==
  ASSUME NEW r, Known(r), r.at \in Checking, NEW x, Shaped(x), x.q = r.q, x.at = r.then, x.then = r.then,
         x.user = r.user, x.admin = r.admin, x.ver = r.ver, x.seen = r.seen, x.time = r.time, x.pat = r.pat
  PROVE  Becomes(r, x)
<1>1. \/ r.q.op = "login" /\ r.then = "create"
      \/ r.q.op \in Switches /\ r.then = "switch"
      \/ r.q.op \notin Plain \cup Unsigned /\ r.then = "run" /\ MayRun(r)
  BY DEF Known, Fit, Carried, Coded
<1>2. Carried(x)
  BY <1>1 DEF Known, Fit, Carried, Placed, Coded, Underway, Read, Returning, KnowsUser, Signed, Checking, Changing,
              Returned, MayRun, Switches, Unsigned
<1>3. Met(x, ever[r.q])
  BY <1>1 DEF Known, Fit, Met, HasUser, Signed, Checking, Changing, MayRun, Switches, Unsigned
<1> QED
  BY <1>1, <1>2, <1>3 DEF Becomes, Returning, Returned, Fit, Edge, Taking

LEMMA Typed ==
  ASSUME AccountsTypeOK
  PROVE  /\ users \in [Users -> UserRows \cup {Nothing}] /\ pats \in [Pats -> PatRows \cup {Nothing}]
         /\ \A s \in sessions : s.user \in Users
         /\ bound \in [Subjects -> Users \cup {Nothing}] /\ owner \in [Agents -> Users \cup {Nothing}]
         /\ now \in Nat
  BY DEF AccountsTypeOK, TablesOK, SessionRows

LEMMA SessionTyped ==
  ASSUME AccountsTypeOK, NEW s \in sessions
  PROVE  s \in SessionRows({s.id})
  BY DEF AccountsTypeOK, TablesOK

LEMMA TotpSteps ==
  ASSUME AccountsTypeOK, NEW r, Known(r),
         totp_config(r) \/ totp_verification_lock(r) \/ count_recent_user_totp_failures(r) \/ TotpChecked(r) \/ TotpUsed(r)
  PROVE  StepOK(r)
<1>1. ASSUME TotpRefused(r), r.at \in Checking PROVE StepOK(r)
  BY <1>1, RefusedGoes, EndsIsStep DEF TotpRefused, Checking, Changing
<1>2. ASSUME NEW at \in {"guess", "code", "use"}, NEW x, x = [r EXCEPT !.at = at], Goto(r, x),
             r.at \in Checking, Edge(r.at, at), r.at # "totp", at = "use" => Matches(r)
      PROVE  StepOK(r)
  <2>1. /\ Shaped(x) /\ x.q = r.q /\ x.at = at /\ x.then = r.then /\ x.user = r.user /\ x.admin = r.admin
        /\ x.ver = r.ver /\ x.time = r.time /\ x.seen = r.seen /\ x.secret = r.secret
    BY <1>2 DEF Known, Fit, Shaped, Fields
  <2>2. r.q.code # Nothing /\ now \in Nat
    BY <1>2 DEF Known, Fit, Carried, Read, Returning, Checking, AccountsTypeOK
  <2>3. at = "use" => Matches(x)
    BY <1>2, <2>1 DEF Matches
  <2>4. Becomes(r, x)
    BY <1>2, <2>1, <2>2, <2>3, CheckBecomes
  <2> QED
    BY <1>2, <2>4, GotoIsStep
<1>3. CASE totp_config(r)
  <2> DEFINE row == users[r.user]
             secret == IF row = Nothing THEN Nothing ELSE row.secret
  <2>1. ASSUME NEW x, x = [r EXCEPT !.at = r.then, !.secret = secret], Goto(r, x) PROVE StepOK(r)
    <3>1. /\ Shaped(x) /\ x.q = r.q /\ x.at = r.then /\ x.then = r.then /\ x.user = r.user /\ x.admin = r.admin
          /\ x.ver = r.ver /\ x.time = r.time /\ x.seen = r.seen /\ x.pat = r.pat
      BY <2>1 DEF Known, Fit, Shaped, Fields
    <3>2. Becomes(r, x)
      BY <1>3, <3>1, PassedBecomes DEF totp_config, At, Checking
    <3> QED
      BY <2>1, <3>2, GotoIsStep
  <2>2. ASSUME NEW x, x = [r EXCEPT !.at = "lock", !.secret = secret, !.time = now], Goto(r, x), r.q.code # Nothing
        PROVE  StepOK(r)
    <3>1. /\ Shaped(x) /\ x.q = r.q /\ x.at = "lock" /\ x.then = r.then /\ x.user = r.user /\ x.admin = r.admin
          /\ x.ver = r.ver /\ x.time = now /\ x.seen = r.seen
      BY <2>2 DEF Known, Fit, Shaped, Fields
    <3>2. now \in Nat /\ r.at = "totp" /\ Edge(r.at, "lock") /\ r.q.code # Nothing
      BY <1>3, <2>2 DEF AccountsTypeOK, totp_config, At, Edge
    <3>3. Becomes(r, x)
      BY <3>1, <3>2, CheckBecomes DEF Checking
    <3> QED
      BY <2>2, <3>3, GotoIsStep
  <2>3. \/ Ends(r)
        \/ Goto(r, [r EXCEPT !.at = r.then, !.secret = secret])
        \/ r.q.code # Nothing /\ Goto(r, [r EXCEPT !.at = "lock", !.secret = secret, !.time = now])
    BY <1>3, Zenon DEF totp_config
  <2> HIDE DEF secret
  <2> QED
    BY <2>1, <2>2, <2>3, EndsIsStep
<1>4. CASE totp_verification_lock(r)
  BY <1>2, <1>4 DEF totp_verification_lock, At, Checking, Edge
<1>5. CASE count_recent_user_totp_failures(r)
  BY <1>1, <1>2, <1>5 DEF count_recent_user_totp_failures, At, Checking, Edge
<1>6. CASE TotpChecked(r)
  BY <1>1, <1>2, <1>6 DEF TotpChecked, At, Checking, Edge
<1>7. CASE TotpUsed(r)
  <2>1. ASSUME NEW x, x = [r EXCEPT !.at = r.then], Goto(r, x) PROVE StepOK(r)
    <3>1. /\ Shaped(x) /\ x.q = r.q /\ x.at = r.then /\ x.then = r.then /\ x.user = r.user /\ x.admin = r.admin
          /\ x.ver = r.ver /\ x.time = r.time /\ x.seen = r.seen /\ x.pat = r.pat
      BY <2>1 DEF Known, Fit, Shaped, Fields
    <3>2. Becomes(r, x)
      BY <1>7, <3>1, PassedBecomes DEF TotpUsed, At, Checking
    <3> QED
      BY <2>1, <3>2, GotoIsStep
  <2> QED
    BY <1>7, <2>1 DEF TotpUsed
<1> QED
  BY <1>3, <1>4, <1>5, <1>6, <1>7

\* What is in the tables is among what has been true.
LEMMA SessionMet ==
  ASSUME NEW q, NEW s \in sessions, Opens(s, q)
  PROVE  <<"user", s.user>> \in Facts(q)
  BY DEF Facts

LEMMA TokenMet ==
  ASSUME NEW q, q.by \in Pats, Valid(pats[q.by])
  PROVE  <<"user", pats[q.by].user>> \in Facts(q)
  BY DEF Facts

LEMMA AdminMet ==
  ASSUME NEW q, NEW u \in Users, Role(u) = "admin"
  PROVE  <<"admin", u>> \in Facts(q)
  BY DEF Facts

LEMMA OwnerMet ==
  ASSUME NEW q, NEW a \in Agents
  PROVE  <<"agent", owner[a], a>> \in Facts(q)
  BY DEF Facts

LEMMA BoundMet ==
  ASSUME NEW q, q.subject \in Subjects, bound[q.subject] # Nothing
  PROVE  <<"bound", bound[q.subject]>> \in Facts(q)
  BY DEF Facts

\* A request that has not begun carries nothing.
LEMMA AtStart ==
  ASSUME NEW r, Known(r), r.at = "start"
  PROVE  ~r.admin /\ r.admin \in BOOLEAN /\ r.seen = 0 /\ r.ver = 0 /\ r.time = 0
<1>1. r.admin = FALSE /\ r.seen = 0 /\ r.ver = 0 /\ r.time = 0
  BY DEF Known, Fit, Carried, Placed, Request
<1> QED
  BY <1>1

LEMMA SessionSteps ==
  ASSUME AccountsTypeOK, NEW r, Known(r),
         find_by_id(r) \/ (r.q.op \notin {"expire", "sweep", "owner", "tick"} /\ find_by_token_hash(r))
  PROVE  StepOK(r)
<1>1. CASE find_by_token_hash(r) /\ r.q.op \notin {"expire", "sweep", "owner", "tick"}
  <2>1. ASSUME NEW s \in sessions, Opens(s, r.q), NEW x, x = [r EXCEPT !.at = "user", !.user = s.user], Goto(r, x)
        PROVE  StepOK(r)
    <3>1. /\ Shaped(x) /\ x.q = r.q /\ x.at = "user" /\ x.user = s.user /\ x.admin = r.admin
          /\ x.ver = r.ver /\ x.time = r.time /\ x.seen = r.seen
      BY <2>1 DEF Known, Fit, Shaped, Fields
    <3>0. r.at = "start" /\ r.q.op \notin Unsigned /\ r.q.by \notin Pats
      BY <1>1, Zenon DEF find_by_token_hash, At, Unsigned
    <3>2. s.user \in Users /\ ~r.admin /\ r.admin \in BOOLEAN /\ r.seen = 0 /\ r.ver = 0 /\ r.time = 0
      BY <2>1, <3>0, AtStart, Typed
    <3>3. <<"user", s.user>> \in ever[r.q]
      BY <2>1, SessionMet DEF Known
    <3>4. Carried(x)
      BY <3>0, <3>1, <3>2 DEF Carried, Placed, Coded, Underway, Read, Returning, KnowsUser, Signed, Checking, Changing, Returned, Unsigned
    <3>5. Met(x, ever[r.q])
      BY <3>0, <3>1, <3>2, <3>3 DEF Met
    <3>6. Becomes(r, x)
      BY <3>0, <3>1, <3>2, <3>4, <3>5 DEF Becomes, Returning, Returned, Fit, Edge, Taking
    <3> QED
      BY <2>1, <3>6, GotoIsStep
  <2>2. Ends(r) \/ \E s \in sessions : Opens(s, r.q) /\ Goto(r, [r EXCEPT !.at = "user", !.user = s.user])
    BY <1>1, Zenon DEF find_by_token_hash
  <2>3. ASSUME NEW s \in sessions, Opens(s, r.q), Goto(r, [r EXCEPT !.at = "user", !.user = s.user]) PROVE StepOK(r)
    BY <2>1, <2>3, Zenon
  <2> QED
    BY <2>2, <2>3, EndsIsStep, Zenon
<1>2. CASE find_by_id(r)
  <2>1. ASSUME NEW x, x = Authenticated(r, r.user), Goto(r, x), users[r.user] # Nothing PROVE StepOK(r)
    <3>1. r.at = "user" /\ r.user \in Users /\ users[r.user] \in UserRows /\ r.q.op \notin Unsigned /\ r.q.by \notin Pats
      BY <1>2, <2>1, Typed DEF find_by_id, At, Known, Fit, Carried, Placed, Read, Returning, KnowsUser, Signed
    <3>2. /\ Shaped(x) /\ x.q = r.q /\ x.at = (IF r.q.op \in Plain THEN "run" ELSE "allow") /\ x.user = r.user
          /\ x.admin = (users[r.user].role = "admin") /\ x.ver = users[r.user].ver /\ x.time = r.time /\ x.seen = r.seen
      BY <2>1 DEF Known, Fit, Shaped, Fields, Authenticated
    <3>3. x.admin => <<"admin", r.user>> \in ever[r.q]
      BY <2>1, <3>1, <3>2, AdminMet DEF Known, Role
    <3>4. r.seen = 0
      BY <3>1, NotSeen DEF Changing
    <3>5. Carried(x)
      BY <3>1, <3>2, <3>4 DEF Known, Fit, Carried, Placed, Coded, Underway, Read, Returning, KnowsUser, Signed, Checking, Changing,
                              Returned, Unsigned, UserRows, Plain
    <3>6. Met(x, ever[r.q])
      BY <3>1, <3>2, <3>3 DEF Known, Fit, Met, HasUser, Signed
    <3>7. Becomes(r, x)
      BY <3>1, <3>2, <3>4, <3>5, <3>6 DEF Becomes, Returning, Returned, Fit, Edge, Taking
    <3> QED
      BY <2>1, <3>7, GotoIsStep
  <2> QED
    BY <1>2, <2>1, EndsIsStep DEF find_by_id
<1> QED
  BY <1>1, <1>2

LEMMA PatFoundStep ==
  ASSUME AccountsTypeOK, NEW r, Known(r), PatFound(r)
  PROVE  StepOK(r)
<1>1. r.at = "start" /\ r.q.by \in Pats /\ r.q.op \notin Unsigned
  BY DEF PatFound, At, Known, AccountRequest, Unsigned
<1>2. ASSUME NEW x, x = [r EXCEPT !.at = "token", !.user = pats[r.q.by].user, !.pat = pats[r.q.by]],
             Goto(r, x), Valid(pats[r.q.by])
      PROVE  StepOK(r)
  <2>1. /\ Shaped(x) /\ x.q = r.q /\ x.at = "token" /\ x.user = pats[r.q.by].user /\ x.pat = pats[r.q.by]
        /\ x.admin = r.admin /\ x.ver = r.ver /\ x.time = r.time /\ x.seen = r.seen
    BY <1>2 DEF Known, Fit, Shaped, Fields
  <2>2. pats[r.q.by] \in PatRows
    BY <1>1, <1>2, Typed DEF Valid
  <2>3. pats[r.q.by].user \in Users /\ ~r.admin /\ r.admin \in BOOLEAN /\ r.seen = 0 /\ r.ver = 0 /\ r.time = 0
    BY <1>1, <2>2, AtStart DEF PatRows
  <2>4. <<"user", pats[r.q.by].user>> \in ever[r.q]
    BY <1>1, <1>2, TokenMet DEF Known
  <2>5. Carried(x)
    BY <1>1, <2>1, <2>2, <2>3
       DEF Carried, Placed, Coded, Underway, Read, Returning, KnowsUser, Signed, Checking, Changing, Returned, Unsigned
  <2>6. Met(x, ever[r.q])
    BY <1>1, <2>1, <2>3, <2>4 DEF Met
  <2>7. Becomes(r, x)
    BY <1>1, <2>1, <2>3, <2>5, <2>6 DEF Becomes, Returning, Returned, Fit, Edge, Taking
  <2> QED
    BY <1>2, <2>7, GotoIsStep
<1>3. \/ Ends(r) \/ Goto(r, Fails(r))
      \/ Valid(pats[r.q.by]) /\ Goto(r, [r EXCEPT !.at = "token", !.user = pats[r.q.by].user, !.pat = pats[r.q.by]])
  BY Zenon DEF PatFound
<1>4. r.at \notin Changing
  BY <1>1 DEF Changing
<1> QED
  BY <1>2, <1>3, <1>4, EndsIsStep, RefusedGoes, Zenon

LEMMA PatUserStep ==
  ASSUME AccountsTypeOK, NEW r, Known(r), PatUser(r)
  PROVE  StepOK(r)
<1> DEFINE row == users[r.user]
           todo == IF r.pat.servers = Nothing THEN {} ELSE r.pat.servers
<1>1. r.at = "token" /\ r.user \in Users /\ r.q.op \notin Unsigned /\ r.seen = 0
  BY NotSeen DEF PatUser, At, Known, Fit, Carried, Placed, Read, Returning, KnowsUser, Signed, Changing
<1>2. ASSUME NEW x, x = [r EXCEPT !.at = "allowlist", !.admin = row.role = "admin", !.ver = row.ver, !.todo = todo],
             Goto(r, x), row # Nothing
      PROVE  StepOK(r)
  <2>1. /\ Shaped(x) /\ x.q = r.q /\ x.at = "allowlist" /\ x.user = r.user /\ x.pat = r.pat
        /\ x.admin = (row.role = "admin") /\ x.ver = row.ver /\ x.time = r.time /\ x.seen = r.seen /\ x.todo = todo
    BY <1>2 DEF Known, Fit, Shaped, Fields
  <2>2. row \in UserRows /\ row.ver \in Nat
    BY <1>1, <1>2, Typed DEF UserRows
  <2>3. r.q.by \in Pats => r.pat \in PatRows /\ todo \subseteq Agents
    BY <1>1 DEF Known, Fit, Carried, Read, Returning, PatRows
  <2>4. x.admin => <<"admin", r.user>> \in ever[r.q]
    BY <1>1, <1>2, <2>1, AdminMet DEF Known, Role
  <2>5. <<"user", r.user>> \in ever[r.q] /\ r.time \in Nat
    BY <1>1 DEF Known, Fit, Carried, Read, Returning, Met, HasUser, Signed
  <2>6. r.pat.servers # Nothing => r.pat.servers \ todo = {}
    OBVIOUS
  <2> HIDE DEF todo
  <2>7. Carried(x)
    BY <1>1, <2>1, <2>2, <2>3, <2>5
       DEF Carried, Placed, Coded, Underway, Read, Returning, KnowsUser, Signed, Checking, Changing, Returned, Unsigned
  <2>8. Met(x, ever[r.q])
    BY <2>1, <2>4, <2>5, <2>6 DEF Met
  <2>9. Becomes(r, x)
    BY <1>1, <2>1, <2>7, <2>8 DEF Becomes, Returning, Returned, Fit, Edge, Taking
  <2> QED
    BY <1>2, <2>9, GotoIsStep
<1>3. \/ Goto(r, Fails(r))
      \/ row # Nothing /\ Goto(r, [r EXCEPT !.at = "allowlist", !.admin = row.role = "admin", !.ver = row.ver, !.todo = todo])
  BY Zenon DEF PatUser
<1>4. r.at \notin Changing
  BY <1>1 DEF Changing
<1> HIDE DEF row, todo
<1> QED
  BY <1>2, <1>3, <1>4, RefusedGoes, Zenon

LEMMA AllowlistSteps ==
  ASSUME AccountsTypeOK, NEW r, Known(r), AllowlistStep(r)
  PROVE  StepOK(r)
<1>1. r.at = "allowlist" /\ r.at \notin Changing /\ r.user \in Users /\ r.q.op \notin Unsigned /\ r.seen = 0
  BY NotSeen DEF AllowlistStep, At, Known, Fit, Carried, Placed, Read, Returning, KnowsUser, Signed, Changing
<1>2. ASSUME NEW a \in r.todo, NEW x, x = [r EXCEPT !.todo = @ \ {a}], Goto(r, x), r.admin \/ owner[a] = r.user
      PROVE  StepOK(r)
  <2>1. /\ Shaped(x) /\ x.q = r.q /\ x.at = r.at /\ x.user = r.user /\ x.pat = r.pat /\ x.admin = r.admin
        /\ x.ver = r.ver /\ x.time = r.time /\ x.seen = r.seen /\ x.todo = r.todo \ {a} /\ x.then = r.then /\ x.was = r.was
    BY <1>2 DEF Known, Fit, Shaped, Fields
  <2>2. Carried(x)
    BY <1>1, <2>1 DEF Known, Fit, Carried, Placed, Coded, Underway, Read, Returning, KnowsUser, Signed, Checking, Changing, Returned
  <2>3. r.q.by \in Pats /\ ~r.admin => <<"agent", r.user, a>> \in ever[r.q]
    BY <1>1, <1>2, OwnerMet DEF Known, Fit, Carried, Read, Returning
  <2>4. Met(x, ever[r.q])
    BY <1>1, <2>1, <2>3 DEF Known, Fit, Met, HasUser
  <2>5. Becomes(r, x)
    BY <1>1, <2>1, <2>2, <2>4 DEF Becomes, Returning, Returned, Fit, Edge, Taking
  <2> QED
    BY <1>2, <2>5, GotoIsStep
<1>3. \/ Ends(r) \/ Goto(r, Fails(r))
      \/ \E a \in r.todo : (r.admin \/ owner[a] = r.user) /\ Goto(r, [r EXCEPT !.todo = @ \ {a}])
  BY Zenon DEF AllowlistStep, validate_server_allowlist_ownership
<1> QED
  BY <1>1, <1>2, <1>3, EndsIsStep, RefusedGoes, Zenon

LEMMA PatAcceptedStep ==
  ASSUME NEW r, Known(r), PatAccepted(r)
  PROVE  StepOK(r)
<1>1. r.at = "allowlist" /\ r.user \in Users /\ r.q.op \notin Unsigned /\ r.seen = 0 /\ r.todo = {} /\ r.q.by \in Pats
  BY NotSeen DEF PatAccepted, At, Known, Fit, Carried, Placed, Read, Returning, KnowsUser, Signed, Changing
<1>2. ASSUME NEW x, x = [r EXCEPT !.at = IF r.q.op \in Plain THEN "run" ELSE "allow"], Goto(r, x)
      PROVE  StepOK(r)
  <2>1. /\ Shaped(x) /\ x.q = r.q /\ x.at = (IF r.q.op \in Plain THEN "run" ELSE "allow") /\ x.user = r.user /\ x.pat = r.pat
        /\ x.admin = r.admin /\ x.ver = r.ver /\ x.time = r.time /\ x.seen = r.seen /\ x.then = r.then
    BY <1>2 DEF Known, Fit, Shaped, Fields
  <2>2. Carried(x)
    BY <1>1, <2>1 DEF Known, Fit, Carried, Placed, Coded, Underway, Read, Returning, KnowsUser, Signed, Checking, Changing, Returned
  <2>3. Met(x, ever[r.q])
    BY <1>1, <2>1 DEF Known, Fit, Met, HasUser, Signed
  <2>4. Becomes(r, x)
    BY <1>1, <2>1, <2>2, <2>3 DEF Becomes, Returning, Returned, Fit, Edge, Taking
  <2> QED
    BY <1>2, <2>4, GotoIsStep
<1> QED
  BY <1>2, Zenon DEF PatAccepted

LEMMA UsesTokenStep ==
  ASSUME NEW r, Known(r), UsesToken(r)
  PROVE  StepOK(r)
<1> DEFINE needs == {<<"user", r.user>>} \cup
                    (IF r.admin THEN {<<"admin", r.user>>}
                     ELSE IF r.q.by \in Pats /\ r.pat.servers # Nothing THEN {<<"agent", r.user, a>> : a \in r.pat.servers}
                     ELSE {})
<1>1. r.at = "run" /\ Acts(r, {}, needs)
  BY DEF UsesToken, At
<1>2. needs \subseteq ever[r.q]
  BY <1>1 DEF Known, Fit, Met, HasUser, Signed
<1> HIDE DEF needs
<1> QED
  BY <1>1, <1>2, ActsIsStep

LEMMA CredentialSteps ==
  ASSUME AccountsTypeOK, NEW r, Known(r), CredentialStep(r)
  PROVE  StepOK(r)
<1>1. CASE Dropped(r) \/ Expires(r) \/ delete_expired(r) \/ OwnerChanges(r) \/ Tick(r)
  BY <1>1, EndsIsStep DEF Dropped, Expires, delete_expired, OwnerChanges, Tick
<1> QED
  BY <1>1, WafSteps, TotpSteps, SessionSteps, PatFoundStep, PatUserStep, AllowlistSteps, PatAcceptedStep, UsesTokenStep, Zenon
     DEF CredentialStep

\* What a handler of a session may show, or ask for.
LEMMA RunMeets ==
  ASSUME NEW r, Known(r), r.at = "run"
  PROVE  /\ <<"user", r.user>> \in ever[r.q] /\ r.user \in Users
         /\ r.admin => Admin(r) \subseteq ever[r.q]
         /\ Own(r) \subseteq ever[r.q]
         /\ r.q.op \notin Plain => MayRun(r)
  BY DEF Known, Fit, Met, HasUser, Signed, Admin, Own, Carried, Underway, Read, Returning, KnowsUser

LEMMA LoginSteps ==
  ASSUME AccountsTypeOK, NEW r, Known(r), login(r) \/ find_by_username(r) \/ CreateLoginSession(r)
  PROVE  StepOK(r)
<1>1. CASE login(r)
  <2>1. r.at = "start" /\ r.q.op = "login" /\ r.seen = 0
    BY <1>1, AtStart DEF login, At
  <2>2. ASSUME NEW x, x = [r EXCEPT !.at = "lookup"], Goto(r, x) PROVE StepOK(r)
    BY <2>1, <2>2, FailsBecomes, GotoIsStep
  <2>3. Ends(r) \/ Goto(r, [r EXCEPT !.at = "lookup"])
    BY <1>1, Zenon DEF login
  <2> QED
    BY <2>2, <2>3, EndsIsStep, Zenon
<1>2. CASE find_by_username(r)
  <2>1. r.at = "lookup" /\ r.q.op = "login" /\ r.q.target \in Users /\ r.at \notin Changing /\ r.seen = 0
    BY <1>2, NotSeen DEF find_by_username, At, Known, Fit, Carried, Placed, AccountRequest, Changing
  <2>2. ASSUME NEW x, x = [r EXCEPT !.at = "totp", !.then = "create", !.user = r.q.target, !.ver = users[r.q.target].ver],
               Goto(r, x), users[r.q.target] # Nothing
        PROVE  StepOK(r)
    <3>1. /\ Shaped(x) /\ x.q = r.q /\ x.at = "totp" /\ x.then = "create" /\ x.user = r.q.target /\ x.admin = r.admin
          /\ x.ver = users[r.q.target].ver /\ x.time = r.time /\ x.seen = r.seen
      BY <2>2 DEF Known, Fit, Shaped, Fields
    <3>2. users[r.q.target].ver \in Nat /\ ~r.admin
      BY <2>1, <2>2, Typed DEF UserRows, Known, Fit, Carried, Read, Returning
    <3>3. Carried(x)
      BY <2>1, <3>1, <3>2 DEF Known, Fit, Carried, Placed, Coded, Underway, Read, Returning, KnowsUser, Signed, Checking, Changing, Returned
    <3>4. Met(x, ever[r.q])
      BY <2>1, <3>1, <3>2 DEF Met, HasUser, Signed, Changing, Checking
    <3>5. Becomes(r, x)
      BY <2>1, <3>1, <3>3, <3>4 DEF Becomes, Returning, Returned, Fit, Edge, Taking
    <3> QED
      BY <2>2, <3>5, GotoIsStep
  <2>3. \/ Goto(r, Fails(r))
        \/ /\ users[r.q.target] # Nothing
           /\ Goto(r, [r EXCEPT !.at = "totp", !.then = "create", !.user = r.q.target, !.ver = users[r.q.target].ver])
    BY <1>2, Zenon DEF find_by_username
  <2> QED
    BY <2>1, <2>2, <2>3, RefusedGoes, Zenon
<1>3. CASE CreateLoginSession(r)
  <2>1. Acts(r, {}, {}) \/ Ends(r)
    BY <1>3, Zenon DEF CreateLoginSession
  <2> QED
    BY <2>1, EndsIsStep, ActsIsStep
<1> QED
  BY <1>1, <1>2, <1>3

LEMMA AllowStep ==
  ASSUME NEW r, Known(r), require_sensitive_totp(r)
  PROVE  StepOK(r)
<1>1. r.at = "allow" /\ r.q.op \notin Plain \cup Unsigned /\ r.seen = 0
  BY NotSeen DEF require_sensitive_totp, At, Known, Fit, Carried, Placed, Signed, Changing
<1>2. ASSUME NEW x, x = [r EXCEPT !.at = "totp", !.then = "run"], Goto(r, x), MayRun(r) PROVE StepOK(r)
  <2>1. /\ Shaped(x) /\ x.q = r.q /\ x.at = "totp" /\ x.then = "run" /\ x.user = r.user /\ x.admin = r.admin
        /\ x.ver = r.ver /\ x.time = r.time /\ x.seen = r.seen
    BY <1>2 DEF Known, Fit, Shaped, Fields
  <2>2. MayRun(x)
    BY <1>2, <2>1 DEF MayRun
  <2>3. Carried(x)
    BY <1>1, <2>1, <2>2 DEF Known, Fit, Carried, Placed, Coded, Underway, Read, Returning, KnowsUser, Signed, Checking, Changing, Returned
  <2>4. Met(x, ever[r.q])
    BY <1>1, <2>1, <2>2 DEF Known, Fit, Met, HasUser, Signed, Checking, Changing
  <2>5. Becomes(r, x)
    BY <1>1, <2>1, <2>3, <2>4 DEF Becomes, Returning, Returned, Fit, Edge, Taking
  <2> QED
    BY <1>2, <2>5, GotoIsStep
<1>3. Ends(r) \/ (MayRun(r) /\ Goto(r, [r EXCEPT !.at = "totp", !.then = "run"]))
  BY Zenon DEF require_sensitive_totp
<1> QED
  BY <1>2, <1>3, EndsIsStep, Zenon

\* The handlers that are over with their effect.
LEMMA HandlerSteps ==
  ASSUME NEW r, Known(r),
         \/ logout(r) \/ delete_session(r) \/ unbind_oauth_provider(r) \/ create_waf_bans(r) \/ delete_waf_ban(r)
         \/ list_sessions(r) \/ list_users(r) \/ list_waf_bans(r) \/ list_by_user(r) \/ get_totp_status(r)
         \/ create_user(r) \/ create_pat(r) \/ revoke_pat(r)
  PROVE  StepOK(r)
<1>1. CASE logout(r)
  BY <1>1, ActsIsStep DEF logout
<1>2. CASE delete_session(r)
  <2>1. MayRun(r) /\ r.q.op = "unsession" /\ r.at = "run"
    BY <1>2, RunMeets DEF delete_session, Runs, At, Plain, Shown
  <2>2. Acts(r, {}, {}) \/ (r.admin /\ Acts(r, {}, Admin(r)))
    BY <1>2, <2>1 DEF delete_session, MayRun
  <2> QED
    BY <2>1, <2>2, ActsIsStep, RunMeets
<1>3. CASE unbind_oauth_provider(r) \/ revoke_pat(r)
  BY <1>3, ActsIsStep, RunMeets DEF unbind_oauth_provider, revoke_pat, Runs, At
<1>4. CASE create_waf_bans(r) \/ delete_waf_ban(r) \/ create_user(r)
  <2>1. r.at = "run" /\ r.q.op \in {"ban", "unban", "user"} /\ Acts(r, {}, Admin(r))
    BY <1>4 DEF create_waf_bans, delete_waf_ban, create_user, Runs, At
  <2>2. r.admin
    BY <2>1, RunMeets DEF MayRun, AdminOps, Plain, Shown
  <2> QED
    BY <2>1, <2>2, ActsIsStep, RunMeets
<1>5. CASE list_sessions(r)
  <2>1. r.at = "run" /\ (Acts(r, {}, {}) \/ (r.admin /\ Acts(r, {}, Admin(r))))
    BY <1>5, Zenon DEF list_sessions, Runs, At
  <2> QED
    BY <2>1, ActsIsStep, RunMeets
<1>6. CASE list_users(r) \/ list_waf_bans(r)
  <2>1. r.at = "run" /\ r.q.op \in {"users", "bans"} /\ (Ends(r) \/ (MayRun(r) /\ Acts(r, {}, Admin(r))))
    BY <1>6 DEF list_users, list_waf_bans, Shows, Runs, At
  <2> QED
    BY <2>1, ActsIsStep, EndsIsStep, RunMeets DEF MayRun, AdminOps
<1>7. CASE list_by_user(r) \/ get_totp_status(r)
  <2>1. r.at = "run" /\ (Ends(r) \/ Acts(r, {}, Own(r)))
    BY <1>7 DEF list_by_user, get_totp_status, Shows, Runs, At
  <2> QED
    BY <2>1, ActsIsStep, EndsIsStep, RunMeets
<1>8. CASE create_pat(r)
  <2>1. r.at = "allowlist" /\ Acts(r, {}, Own(r))
    BY <1>8 DEF create_pat, At
  <2>2. Own(r) \subseteq ever[r.q]
    BY <2>1 DEF Known, Fit, Met, HasUser, Signed, Own
  <2> QED
    BY <2>1, <2>2, ActsIsStep
<1> QED
  BY <1>1, <1>2, <1>3, <1>4, <1>5, <1>6, <1>7, <1>8

\* From one stage of a change of a user to another.
LEMMA ChangeBecomes ==
  ASSUME NEW r, Known(r), r.at \in {"run"} \cup Changing, r.q.op \in {"update", "delete"},
         NEW x, Shaped(x), x.q = r.q, x.user = r.user, x.admin = r.admin, x.ver = r.ver, x.time = r.time,
         x.at \in Changing, r.admin, Underway(x), Placed(x),
         Taking(x) => Taking(r) \/ r.at = "admins"
  PROVE  Becomes(r, x)
<1>1. Carried(x)
  BY DEF Known, Fit, Carried, Coded, Read, Returning, KnowsUser, Signed, Checking, Changing, Returned
<1>2. Met(x, ever[r.q])
  BY DEF Known, Fit, Met, HasUser, Signed, Checking, Changing
<1> QED
  BY <1>1, <1>2 DEF Becomes, Returning, Returned, Fit, Edge, Changing

LEMMA ChangeReads ==
  ASSUME NEW r, Known(r), UpdateReads(r) \/ DeleteReads(r)
  PROVE  StepOK(r)
<1>1. r.at = "run" /\ r.q.op \in {"update", "delete"} /\ r.seen = 0 /\ r.admin
  BY NotSeen, RunMeets DEF UpdateReads, DeleteReads, Runs, At, Changing, MayRun, AdminOps, Plain, Shown
<1>2. CASE UpdateReads(r)
  <2> DEFINE row == users[r.q.target]
  <2>1. ASSUME NEW at \in {"admins", "password", "write"}, NEW was, NEW x, x = [r EXCEPT !.at = at, !.was = was], Goto(r, x),
               at = "admins" => r.q.role = "member", at = "write" => r.q.role # Nothing,
               at = "write" /\ r.q.role = "member" => was # "admin"
        PROVE  StepOK(r)
    <3>1. /\ Shaped(x) /\ x.q = r.q /\ x.at = at /\ x.then = r.then /\ x.user = r.user /\ x.admin = r.admin
          /\ x.ver = r.ver /\ x.time = r.time /\ x.seen = r.seen /\ x.was = was
      BY <2>1 DEF Known, Fit, Shaped, Fields
    <3>2. r.q.op = "update" /\ r.q.role \in {"admin", "member", Nothing}
      BY <1>2 DEF UpdateReads, Runs, Known, AccountRequest
    <3>3. Underway(x) /\ Placed(x)
      BY <1>1, <2>1, <3>1, <3>2 DEF Underway, Placed, Changing, Signed, Returned, Unsigned
    <3>4. ~Taking(x) /\ x.at \in Changing
      BY <1>1, <2>1, <3>1 DEF Taking, Changing
    <3>5. Becomes(r, x)
      BY <1>1, <3>1, <3>3, <3>4, ChangeBecomes
    <3> QED
      BY <2>1, <3>5, GotoIsStep
  <2>2. \/ Ends(r)
        \/ r.q.role = "member" /\ Goto(r, [r EXCEPT !.at = "admins", !.was = row.role])
        \/ r.q.role = Nothing /\ Goto(r, [r EXCEPT !.at = "password", !.was = row.role])
        \/ /\ r.q.role # Nothing /\ (r.q.role = "member" => row.role # "admin")
           /\ Goto(r, [r EXCEPT !.at = "write", !.was = row.role])
    <3>1. CASE row = Nothing
      BY <1>2, <3>1, Zenon DEF UpdateReads
    <3>2. CASE row # Nothing /\ r.q.role = "member" /\ row.role = "admin"
      BY <1>2, <3>2, Zenon DEF UpdateReads
    <3>3. CASE row # Nothing /\ ~(r.q.role = "member" /\ row.role = "admin")
      <4>1. Goto(r, [r EXCEPT !.at = IF r.q.role = Nothing THEN "password" ELSE "write", !.was = row.role])
        BY <1>2, <3>3, Zenon DEF UpdateReads
      <4> QED
        BY <3>3, <4>1
    <3> QED
      BY <3>1, <3>2, <3>3
  <2> HIDE DEF row
  <2>3. CASE r.q.role = "member" /\ Goto(r, [r EXCEPT !.at = "admins", !.was = row.role])
    BY <2>1, <2>3, Zenon
  <2>4. CASE r.q.role = Nothing /\ Goto(r, [r EXCEPT !.at = "password", !.was = row.role])
    BY <2>1, <2>4, Zenon
  <2>5. CASE /\ r.q.role # Nothing /\ (r.q.role = "member" => row.role # "admin")
             /\ Goto(r, [r EXCEPT !.at = "write", !.was = row.role])
    BY <2>1, <2>5, Zenon
  <2> QED
    BY <2>2, <2>3, <2>4, <2>5, EndsIsStep
<1>3. CASE DeleteReads(r)
  <2> DEFINE row == users[r.q.target]
  <2>1. ASSUME NEW at \in {"admins", "revoke"}, NEW was, NEW x, x = [r EXCEPT !.at = at, !.then = "erase", !.was = was],
               Goto(r, x), at = "revoke" => was # "admin"
        PROVE  StepOK(r)
    <3>1. /\ Shaped(x) /\ x.q = r.q /\ x.at = at /\ x.then = "erase" /\ x.user = r.user /\ x.admin = r.admin
          /\ x.ver = r.ver /\ x.time = r.time /\ x.seen = r.seen /\ x.was = was
      BY <2>1 DEF Known, Fit, Shaped, Fields
    <3>2. r.q.op = "delete"
      BY <1>3 DEF DeleteReads, Runs
    <3>3. Underway(x) /\ Placed(x)
      BY <1>1, <2>1, <3>1, <3>2 DEF Underway, Placed, Changing, Signed, Returned, Unsigned
    <3>4. ~Taking(x) /\ x.at \in Changing
      BY <1>1, <2>1, <3>1 DEF Taking, Changing
    <3>5. Becomes(r, x)
      BY <1>1, <3>1, <3>3, <3>4, ChangeBecomes
    <3> QED
      BY <2>1, <3>5, GotoIsStep
  <2>2. \/ Ends(r)
        \/ Goto(r, [r EXCEPT !.at = IF row.role = "admin" THEN "admins" ELSE "revoke", !.then = "erase", !.was = row.role])
    BY <1>3, Zenon DEF DeleteReads
  <2> HIDE DEF row
  <2>3. CASE Goto(r, [r EXCEPT !.at = IF row.role = "admin" THEN "admins" ELSE "revoke", !.then = "erase", !.was = row.role])
    <3>1. CASE row.role = "admin"
      <4>1. Goto(r, [r EXCEPT !.at = "admins", !.then = "erase", !.was = row.role])
        BY <2>3, <3>1
      <4> QED
        BY <2>1, <4>1, Zenon
    <3>2. CASE row.role # "admin"
      <4>1. Goto(r, [r EXCEPT !.at = "revoke", !.then = "erase", !.was = row.role])
        BY <2>3, <3>2
      <4> QED
        BY <2>1, <3>2, <4>1, Zenon
    <3> QED
      BY <3>1, <3>2
  <2> QED
    BY <2>2, <2>3, EndsIsStep
<1> QED
  BY <1>2, <1>3

\* What is known of a request that changes a user.
LEMMA ChangingMeets ==
  ASSUME NEW r, Known(r), r.at \in Changing
  PROVE  r.admin /\ r.q.op \in {"update", "delete"} /\ Admin(r) \subseteq ever[r.q] /\ Underway(r) /\ Placed(r)
  BY DEF Known, Fit, Carried, Underway, Placed, Met, HasUser, Signed, Admin, Own

LEMMA ChangeSteps ==
  ASSUME NEW r, Known(r),
         \/ CountsAdmins(r) \/ update_role(r) \/ RevokesSessions(r) \/ RevokesTokens(r)
         \/ reset_password(r) \/ UpdateAnswers(r) \/ delete_user(r)
  PROVE  StepOK(r)
<1>1. CASE CountsAdmins(r)
  <2> DEFINE at == IF r.q.op = "update" THEN "write" ELSE "revoke"
  <2>1. r.at = "admins" /\ r.at \in Changing
    BY <1>1 DEF CountsAdmins, At, Changing
  <2>2. ASSUME NEW x, x = [r EXCEPT !.at = at, !.seen = 1], Goto(r, x) PROVE StepOK(r)
    <3>1. /\ Shaped(x) /\ x.q = r.q /\ x.at = at /\ x.then = r.then /\ x.user = r.user /\ x.admin = r.admin
          /\ x.ver = r.ver /\ x.time = r.time /\ x.seen = 1 /\ x.was = r.was
      BY <2>2 DEF Known, Fit, Shaped, Fields
    <3>2. Underway(x) /\ Placed(x)
      BY <2>1, <3>1, ChangingMeets DEF Underway, Placed, Changing, Signed, Returned, Unsigned
    <3>3. x.at \in Changing
      BY <3>1 DEF Changing
    <3>4. Becomes(r, x)
      BY <2>1, <3>1, <3>2, <3>3, ChangingMeets, ChangeBecomes
    <3> QED
      BY <2>2, <3>4, GotoIsStep
  <2>3. Ends(r) \/ Goto(r, [r EXCEPT !.at = at, !.seen = 1])
    BY <1>1, Zenon DEF CountsAdmins
  <2> HIDE DEF at
  <2> QED
    BY <2>2, <2>3, EndsIsStep, Zenon
<1>2. CASE update_role(r)
  <2> DEFINE at == IF r.was # r.q.role THEN "revoke" ELSE "password"
  <2>1. r.at = "write" /\ r.at \in Changing /\ r.q.op = "update"
    BY <1>2, ChangingMeets DEF update_role, At, Changing, Placed
  <2>2. ASSUME NEW x, x = [r EXCEPT !.at = at, !.then = "password"] PROVE Becomes(r, x)
    <3>1. /\ Shaped(x) /\ x.q = r.q /\ x.at = at /\ x.then = "password" /\ x.user = r.user /\ x.admin = r.admin
          /\ x.ver = r.ver /\ x.time = r.time /\ x.seen = r.seen
      BY <2>2 DEF Known, Fit, Shaped, Fields
    <3>2. Underway(x) /\ Placed(x)
      BY <2>1, <3>1, ChangingMeets DEF Underway, Placed, Changing, Signed, Returned, Unsigned
    <3>3. x.at \in Changing /\ ~Taking(x)
      BY <2>1, <3>1 DEF Changing, Taking
    <3> QED
      BY <2>1, <3>1, <3>2, <3>3, ChangingMeets, ChangeBecomes
  <2>3. Ends(r) \/ Acts(r, {[r EXCEPT !.at = at, !.then = "password"]}, Admin(r))
    BY <1>2, Zenon DEF update_role
  <2>4. Admin(r) \subseteq ever[r.q]
    BY <2>1, ChangingMeets
  <2> HIDE DEF at
  <2> QED
    BY <2>2, <2>3, <2>4, EndsIsStep, ActsGoesOn, Zenon
<1>3. CASE RevokesSessions(r)
  <2>1. r.at = "revoke" /\ r.at \in Changing
    BY <1>3 DEF RevokesSessions, At, Changing
  <2>2. ASSUME NEW x, x = [r EXCEPT !.at = "tokens"], Goto(r, x) PROVE StepOK(r)
    <3>1. /\ Shaped(x) /\ x.q = r.q /\ x.at = "tokens" /\ x.then = r.then /\ x.user = r.user /\ x.admin = r.admin
          /\ x.ver = r.ver /\ x.time = r.time /\ x.seen = r.seen /\ x.was = r.was
      BY <2>2 DEF Known, Fit, Shaped, Fields
    <3>2. Underway(x) /\ Placed(x)
      BY <2>1, <3>1, ChangingMeets DEF Underway, Placed, Changing, Signed, Returned, Unsigned
    <3>3. x.at \in Changing /\ (Taking(x) => Taking(r))
      BY <2>1, <3>1 DEF Changing, Taking
    <3>4. Becomes(r, x)
      BY <2>1, <3>1, <3>2, <3>3, ChangingMeets, ChangeBecomes
    <3> QED
      BY <2>2, <3>4, GotoIsStep
  <2> QED
    BY <1>3, <2>2, Zenon DEF RevokesSessions
<1>4. CASE RevokesTokens(r)
  <2>1. r.at = "tokens" /\ r.at \in Changing
    BY <1>4 DEF RevokesTokens, At, Changing
  <2>2. ASSUME NEW x, x = [r EXCEPT !.at = r.then], Goto(r, x) PROVE StepOK(r)
    <3>1. /\ Shaped(x) /\ x.q = r.q /\ x.at = r.then /\ x.then = r.then /\ x.user = r.user /\ x.admin = r.admin
          /\ x.ver = r.ver /\ x.time = r.time /\ x.seen = r.seen /\ x.was = r.was
      BY <2>2 DEF Known, Fit, Shaped, Fields
    <3>2. r.then \in {"erase", "password", "end"} /\ (r.then = "erase" <=> r.q.op = "delete")
      BY <2>1, ChangingMeets DEF Underway
    <3>3. Underway(x) /\ Placed(x)
      BY <2>1, <3>1, <3>2, ChangingMeets DEF Underway, Placed, Changing, Signed, Returned, Unsigned
    <3>4. x.at \in Changing /\ (Taking(x) => Taking(r))
      BY <2>1, <3>1, <3>2 DEF Changing, Taking
    <3>5. Becomes(r, x)
      BY <2>1, <3>1, <3>3, <3>4, ChangingMeets, ChangeBecomes
    <3> QED
      BY <2>2, <3>5, GotoIsStep
  <2> QED
    BY <1>4, <2>2, Zenon DEF RevokesTokens
<1>5. CASE reset_password(r)
  <2>1. r.at = "password" /\ r.at \in Changing /\ r.q.op = "update"
    BY <1>5, ChangingMeets DEF reset_password, At, Changing, Placed
  <2>2. ASSUME NEW x, x = [r EXCEPT !.at = "revoke", !.then = "end"] PROVE Becomes(r, x)
    <3>1. /\ Shaped(x) /\ x.q = r.q /\ x.at = "revoke" /\ x.then = "end" /\ x.user = r.user /\ x.admin = r.admin
          /\ x.ver = r.ver /\ x.time = r.time /\ x.seen = r.seen
      BY <2>2 DEF Known, Fit, Shaped, Fields
    <3>2. Underway(x) /\ Placed(x)
      BY <2>1, <3>1, ChangingMeets DEF Underway, Placed, Changing, Signed, Returned, Unsigned
    <3>3. x.at \in Changing /\ ~Taking(x)
      BY <2>1, <3>1 DEF Changing, Taking
    <3> QED
      BY <2>1, <3>1, <3>2, <3>3, ChangingMeets, ChangeBecomes
  <2>3. Ends(r) \/ Acts(r, {[r EXCEPT !.at = "revoke", !.then = "end"]}, Admin(r))
    BY <1>5, Zenon DEF reset_password
  <2>4. Admin(r) \subseteq ever[r.q]
    BY <2>1, ChangingMeets
  <2> QED
    BY <2>2, <2>3, <2>4, EndsIsStep, ActsGoesOn, Zenon
<1>6. CASE UpdateAnswers(r)
  BY <1>6, EndsIsStep DEF UpdateAnswers
<1>7. CASE delete_user(r)
  <2>1. r.at \in Changing /\ Acts(r, {}, Admin(r))
    BY <1>7 DEF delete_user, At, Changing
  <2> QED
    BY <2>1, ActsIsStep, ChangingMeets
<1> QED
  BY <1>1, <1>2, <1>3, <1>4, <1>5, <1>6, <1>7

LEMMA OwnSteps ==
  ASSUME AccountsTypeOK, NEW r, Known(r),
         seed_admin_user(r) \/ TotpEndpoint(r) \/ SwitchTotp(r) \/ CreatePatChecks(r)
  PROVE  StepOK(r)
<1>1. CASE seed_admin_user(r)
  <2>1. Ends(r) \/ (r.at = "start" /\ r.q.op = "seed" /\ Goto(r, [r EXCEPT !.at = "seed"]))
    BY <1>1, Zenon DEF seed_admin_user, At
  <2>2. ASSUME r.at = "start", r.q.op = "seed", NEW x, x = [r EXCEPT !.at = "seed"], Goto(r, x) PROVE StepOK(r)
    BY <2>2, AtStart, FailsBecomes, GotoIsStep
  <2> QED
    BY <2>1, <2>2, EndsIsStep, Zenon
<1>2. CASE TotpEndpoint(r)
  <2> DEFINE row == users[r.user]
             secret == IF row = Nothing THEN Nothing ELSE row.secret
  <2>1. r.at = "run" /\ r.q.op \in Switches /\ r.q.by \notin Pats /\ r.seen = 0
    BY <1>2, NotSeen DEF TotpEndpoint, At, Switches, Changing
  <2>2. ASSUME NEW x, Shaped(x), x.q = r.q, x.user = r.user, x.admin = r.admin, x.ver = r.ver, x.seen = r.seen,
               x.time \in {r.time, now}, x.at = "switch" \/ (x.at = "lock" /\ x.then = "switch" /\ r.q.code # Nothing)
        PROVE  Becomes(r, x)
    <3>1. now \in Nat
      BY Typed
    <3>2. Carried(x)
      BY <2>1, <2>2, <3>1 DEF Known, Fit, Carried, Placed, Coded, Underway, Read, Returning, KnowsUser, Signed, Checking, Changing, Returned
    <3>3. Met(x, ever[r.q])
      BY <2>1, <2>2 DEF Known, Fit, Met, HasUser, Signed, Checking, Changing, Switches
    <3> QED
      BY <2>1, <2>2, <3>2, <3>3 DEF Becomes, Returning, Returned, Fit, Edge, Taking
  <2>3. ASSUME NEW x, x = [r EXCEPT !.at = "switch"], Goto(r, x) PROVE StepOK(r)
    <3>1. /\ Shaped(x) /\ x.q = r.q /\ x.at = "switch" /\ x.user = r.user /\ x.admin = r.admin
          /\ x.ver = r.ver /\ x.time = r.time /\ x.seen = r.seen
      BY <2>3 DEF Known, Fit, Shaped, Fields
    <3>2. Becomes(r, x)
      BY <2>2, <3>1
    <3> QED
      BY <2>3, <3>2, GotoIsStep
  <2>4. ASSUME r.q.code # Nothing, NEW x, x = [r EXCEPT !.at = "lock", !.then = "switch", !.secret = secret, !.time = now], Goto(r, x)
        PROVE  StepOK(r)
    <3>1. /\ Shaped(x) /\ x.q = r.q /\ x.at = "lock" /\ x.then = "switch" /\ x.user = r.user /\ x.admin = r.admin
          /\ x.ver = r.ver /\ x.time = now /\ x.seen = r.seen
      BY <2>4 DEF Known, Fit, Shaped, Fields
    <3>2. Becomes(r, x)
      BY <2>2, <2>4, <3>1
    <3> QED
      BY <2>4, <3>2, GotoIsStep
  <2>5. \/ Ends(r) \/ Goto(r, [r EXCEPT !.at = "switch"])
        \/ r.q.code # Nothing /\ Goto(r, [r EXCEPT !.at = "lock", !.then = "switch", !.secret = secret, !.time = now])
    BY <1>2, Zenon DEF TotpEndpoint
  <2> HIDE DEF secret
  <2> QED
    BY <2>3, <2>4, <2>5, EndsIsStep, Zenon
<1>3. CASE SwitchTotp(r)
  <2>1. r.at = "switch" /\ Acts(r, {}, Own(r))
    BY <1>3 DEF SwitchTotp, At
  <2>2. Own(r) \subseteq ever[r.q]
    BY <2>1 DEF Known, Fit, Met, HasUser, Signed, Own
  <2> QED
    BY <2>1, <2>2, ActsIsStep
<1>4. CASE CreatePatChecks(r)
  <2> DEFINE todo == IF r.q.pat.servers = Nothing THEN {} ELSE r.q.pat.servers
  <2>1. r.at = "run" /\ r.q.op = "pat" /\ r.seen = 0
    BY <1>4, NotSeen DEF CreatePatChecks, Runs, At, Changing
  <2>2. r.q.by \notin Pats
    BY <2>1, RunMeets DEF MayRun, Plain, Shown
  <2>3. ASSUME NEW x, x = [r EXCEPT !.at = "allowlist", !.todo = todo], Goto(r, x) PROVE StepOK(r)
    <3>1. /\ Shaped(x) /\ x.q = r.q /\ x.at = "allowlist" /\ x.user = r.user /\ x.admin = r.admin
          /\ x.ver = r.ver /\ x.time = r.time /\ x.seen = r.seen
      BY <2>3 DEF Known, Fit, Shaped, Fields
    <3>2. Carried(x)
      BY <2>1, <2>2, <3>1 DEF Known, Fit, Carried, Placed, Coded, Underway, Read, Returning, KnowsUser, Signed, Checking, Changing, Returned
    <3>3. Met(x, ever[r.q])
      BY <2>1, <2>2, <3>1 DEF Known, Fit, Met, HasUser, Signed
    <3>4. Becomes(r, x)
      BY <2>1, <3>1, <3>2, <3>3 DEF Becomes, Returning, Returned, Fit, Edge, Taking
    <3> QED
      BY <2>3, <3>4, GotoIsStep
  <2>4. Ends(r) \/ Goto(r, [r EXCEPT !.at = "allowlist", !.todo = todo])
    BY <1>4, Zenon DEF CreatePatChecks
  <2> HIDE DEF todo
  <2> QED
    BY <2>3, <2>4, EndsIsStep, Zenon
<1> QED
  BY <1>1, <1>2, <1>3, <1>4

LEMMA AccountSteps ==
  ASSUME AccountsTypeOK, NEW r, Known(r), AccountStep(r)
  PROVE  StepOK(r)
  BY LoginSteps, AllowStep, HandlerSteps, ChangeReads, ChangeSteps, OwnSteps, Zenon DEF AccountStep

\* A callback is of a provider's answer, and never of an administrator.
LEMMA CallbackMeets ==
  ASSUME NEW r, Known(r), r.at \in Returned \/ (r.at = "start" /\ r.q.op = "callback")
  PROVE  r.q.op = "callback" /\ ~r.admin /\ r.admin \in BOOLEAN /\ r.seen = 0 /\ r.ver \in Nat /\ r.time \in Nat /\ r.q.by \notin Pats
  BY NotSeen DEF Known, Fit, Carried, Placed, Read, Returning, Returned, Changing, AccountRequest

\* From one stage of a callback to the next.
LEMMA CallbackBecomes ==
  ASSUME NEW r, Known(r), r.at \in Returned \/ (r.at = "start" /\ r.q.op = "callback"),
         NEW x, Shaped(x), x.q = r.q, x.admin = r.admin, x.seen = r.seen, x.time = r.time, x.ver \in Nat,
         x.at \in Returned \cup {"create"}, x.was.browser = r.q.browser, x.was \in flows \/ (Returning(r) /\ x.was = r.was),
         KnowsUser(x) => x.user \in Users,
         x.at \in {"exchange", "bind"} /\ x.was.user # Nothing => x.user = x.was.user,
         HasUser(x) => <<"user", x.user>> \in ever[r.q],
         x.at \in {"profile", "create"} => <<"bound", x.user>> \in ever[r.q]
  PROVE  Becomes(r, x)
<1>1. r.q.op = "callback" /\ ~r.admin /\ r.admin \in BOOLEAN /\ r.seen = 0 /\ r.time \in Nat /\ r.q.by \notin Pats
  BY CallbackMeets
<1>2. Carried(x)
  BY <1>1 DEF Carried, Placed, Coded, Underway, Read, Returning, Signed, Checking, Changing, Returned
<1>3. Met(x, ever[r.q])
  BY <1>1 DEF Met
<1> QED
  BY <1>1, <1>2, <1>3 DEF Becomes, Returning, Returned, Fit, Edge, Taking

LEMMA CallbackStart ==
  ASSUME FlowsInv, NEW r, Known(r), oauth_callback(r)
  PROVE  StepOK(r)
<1>0. r.at = "start" /\ r.q.op = "callback"
  BY Zenon DEF oauth_callback, At
<1>1. r.at = "start" /\ r.q.op = "callback" /\ r.at \notin Changing /\ r.q.browser \in Browsers
  BY <1>0 DEF Changing, Known
<1>2. ASSUME NEW f \in flows, f.browser = r.q.browser, NEW x,
             x = [r EXCEPT !.at = IF f.user = Nothing THEN "exchange" ELSE "cookie", !.was = f], Goto(r, x)
      PROVE  StepOK(r)
  <2>1. /\ Shaped(x) /\ x.q = r.q /\ x.at = (IF f.user = Nothing THEN "exchange" ELSE "cookie") /\ x.was = f
        /\ x.admin = r.admin /\ x.ver = r.ver /\ x.time = r.time /\ x.seen = r.seen
    BY <1>2 DEF Known, Fit, Shaped, Fields
  <2>2. ~KnowsUser(x) /\ ~HasUser(x) /\ x.at \in Returned /\ x.at \notin {"profile", "create", "bind"}
    BY <2>1 DEF KnowsUser, HasUser, Signed, Checking, Changing, Returned
  <2>3. (x.at = "exchange" => x.was.user = Nothing) /\ x.was.browser = r.q.browser
    BY <1>2, <2>1
  <2>4. Becomes(r, x)
    BY <1>1, <2>1, <2>2, <2>3, CallbackBecomes, CallbackMeets
  <2> QED
    BY <1>2, <2>4, GotoIsStep
<1>3. \/ Ends(r) \/ Goto(r, Fails(r))
      \/ \E f \in flows : /\ oauth_state_cookie_matches(r, f)
                          /\ Goto(r, [r EXCEPT !.at = IF f.user = Nothing THEN "exchange" ELSE "cookie", !.was = f])
  BY Zenon DEF oauth_callback
<1>4. ASSUME NEW f \in flows, oauth_state_cookie_matches(r, f) PROVE f.browser = r.q.browser
  BY <1>1, <1>4 DEF oauth_state_cookie_matches, FlowsInv
<1> QED
  BY <1>1, <1>2, <1>3, <1>4, EndsIsStep, RefusedGoes, Zenon

LEMMA CallbackSteps ==
  ASSUME AccountsTypeOK, NEW r, Known(r),
         \/ cookie_session_user_id(r) \/ exchange_code(r) \/ find_bound_user(r) \/ OAuthUser(r)
         \/ bind_oauth_account(r) \/ create_oauth_session(r)
  PROVE  StepOK(r)
<1>1. CASE cookie_session_user_id(r)
  <2>1. r.at = "cookie" /\ r.at \in Returned /\ r.at \notin Changing /\ r.was.browser = r.q.browser
    BY <1>1 DEF cookie_session_user_id, At, Returned, Changing, Known, Fit, Carried, Read, Returning
  <2>2. ASSUME NEW s \in sessions, Opens(s, r.q), s.user = r.was.user,
               NEW x, x = [r EXCEPT !.at = "exchange", !.user = r.was.user], Goto(r, x)
        PROVE  StepOK(r)
    <3>1. /\ Shaped(x) /\ x.q = r.q /\ x.at = "exchange" /\ x.user = r.was.user /\ x.was = r.was
          /\ x.admin = r.admin /\ x.ver = r.ver /\ x.time = r.time /\ x.seen = r.seen
      BY <2>2 DEF Known, Fit, Shaped, Fields
    <3>2. x.user \in Users
      BY <2>2, <3>1, Typed
    <3>3. <<"user", x.user>> \in ever[r.q]
      BY <2>2, <3>1, SessionMet DEF Known
    <3>4. Becomes(r, x)
      BY <2>1, <3>1, <3>2, <3>3, CallbackBecomes, CallbackMeets DEF Returned, Returning
    <3> QED
      BY <2>2, <3>4, GotoIsStep
  <2>3. \/ Goto(r, Fails(r))
        \/ /\ \E s \in sessions : Opens(s, r.q) /\ s.user = r.was.user
           /\ Goto(r, [r EXCEPT !.at = "exchange", !.user = r.was.user])
    BY <1>1, Zenon DEF cookie_session_user_id, bind_cookie_session_matches
  <2> QED
    BY <2>1, <2>2, <2>3, RefusedGoes, Zenon
<1>2. CASE exchange_code(r)
  <2> DEFINE at == IF r.was.user = Nothing THEN "bound" ELSE "bind"
  <2>1. r.at = "exchange" /\ r.at \in Returned /\ r.at \notin Changing /\ r.was.browser = r.q.browser
    BY <1>2 DEF exchange_code, At, Returned, Changing, Known, Fit, Carried, Read, Returning
  <2>2. ASSUME NEW x, x = [r EXCEPT !.at = at], Goto(r, x)
        PROVE  StepOK(r)
    <3>1. /\ Shaped(x) /\ x.q = r.q /\ x.at = at /\ x.user = r.user /\ x.was = r.was
          /\ x.admin = r.admin /\ x.ver = r.ver /\ x.time = r.time /\ x.seen = r.seen
      BY <2>2 DEF Known, Fit, Shaped, Fields
    <3>2. r.was.user # Nothing => r.user = r.was.user /\ r.user \in Users /\ <<"user", r.user>> \in ever[r.q]
      BY <2>1 DEF Known, Fit, Carried, Read, Returning, KnowsUser, Met, HasUser
    <3>3. x.at = "bind" => r.was.user # Nothing
      BY <3>1
    <3>4. x.at \in {"bound", "bind"}
      BY <3>1
    <3>5. (KnowsUser(x) => x.at = "bind") /\ (HasUser(x) => x.at = "bind")
      BY <3>4 DEF KnowsUser, HasUser, Signed, Checking, Changing
    <3> HIDE DEF at
    <3>6. Becomes(r, x)
      BY <2>1, <3>1, <3>2, <3>3, <3>4, <3>5, CallbackBecomes, CallbackMeets DEF Returned, Returning
    <3> QED
      BY <2>2, <3>6, GotoIsStep
  <2>3. Goto(r, Fails(r)) \/ Goto(r, [r EXCEPT !.at = at])
    BY <1>2, Zenon DEF exchange_code
  <2> HIDE DEF at
  <2> QED
    BY <2>1, <2>2, <2>3, RefusedGoes, Zenon
<1>3. CASE find_bound_user(r)
  <2>1. r.at = "bound" /\ r.at \in Returned /\ r.at \notin Changing /\ r.was.browser = r.q.browser
    BY <1>3 DEF find_bound_user, At, Returned, Changing, Known, Fit, Carried, Read, Returning
  <2>2. ASSUME bound[r.q.subject] # Nothing, NEW x, x = [r EXCEPT !.at = "profile", !.user = bound[r.q.subject]], Goto(r, x)
        PROVE  StepOK(r)
    <3>1. /\ Shaped(x) /\ x.q = r.q /\ x.at = "profile" /\ x.user = bound[r.q.subject] /\ x.was = r.was
          /\ x.admin = r.admin /\ x.ver = r.ver /\ x.time = r.time /\ x.seen = r.seen
      BY <2>2 DEF Known, Fit, Shaped, Fields
    <3>2. x.user \in Users
      BY <2>2, <3>1, Typed DEF Known
    <3>3. <<"bound", x.user>> \in ever[r.q]
      BY <2>2, <3>1, BoundMet DEF Known
    <3>4. ~HasUser(x)
      BY <3>1 DEF HasUser, Signed, Checking, Changing
    <3>5. Becomes(r, x)
      BY <2>1, <3>1, <3>2, <3>3, <3>4, CallbackBecomes, CallbackMeets DEF Returned, Returning
    <3> QED
      BY <2>2, <3>5, GotoIsStep
  <2>3. \/ Goto(r, Fails(r))
        \/ bound[r.q.subject] # Nothing /\ Goto(r, [r EXCEPT !.at = "profile", !.user = bound[r.q.subject]])
    BY <1>3, Zenon DEF find_bound_user
  <2> QED
    BY <2>1, <2>2, <2>3, RefusedGoes, Zenon
<1>4. CASE OAuthUser(r)
  <2>1. r.at = "profile" /\ r.at \in Returned /\ r.was.browser = r.q.browser /\ r.user \in Users
    BY <1>4 DEF OAuthUser, At, Returned, Known, Fit, Carried, Read, Returning, KnowsUser
  <2>2. ASSUME users[r.user] # Nothing, NEW x, x = [r EXCEPT !.at = "create", !.ver = users[r.user].ver], Goto(r, x)
        PROVE  StepOK(r)
    <3>1. /\ Shaped(x) /\ x.q = r.q /\ x.at = "create" /\ x.user = r.user /\ x.was = r.was
          /\ x.admin = r.admin /\ x.ver = users[r.user].ver /\ x.time = r.time /\ x.seen = r.seen
      BY <2>2 DEF Known, Fit, Shaped, Fields
    <3>2. users[r.user].ver \in Nat
      BY <2>1, <2>2, Typed DEF UserRows
    <3>3. <<"bound", r.user>> \in ever[r.q]
      BY <2>1, CallbackMeets DEF Known, Fit, Met
    <3>4. ~HasUser(x)
      BY <3>1 DEF HasUser, Signed, Checking, Changing
    <3>5. Becomes(r, x)
      BY <2>1, <3>1, <3>2, <3>3, <3>4, CallbackBecomes DEF Returning
    <3> QED
      BY <2>2, <3>5, GotoIsStep
  <2>3. Ends(r) \/ (users[r.user] # Nothing /\ Goto(r, [r EXCEPT !.at = "create", !.ver = users[r.user].ver]))
    BY <1>4, Zenon DEF OAuthUser
  <2> QED
    BY <2>2, <2>3, EndsIsStep, Zenon
<1>5. CASE bind_oauth_account(r)
  <2>1. r.at = "bind" /\ (Ends(r) \/ Acts(r, {}, {<<"user", r.user>>}))
    BY <1>5, Zenon DEF bind_oauth_account, At
  <2>2. <<"user", r.user>> \in ever[r.q]
    BY <2>1 DEF Known, Fit, Met, HasUser
  <2> QED
    BY <2>1, <2>2, EndsIsStep, ActsIsStep
<1>6. CASE create_oauth_session(r)
  <2>1. r.at = "create" /\ r.q.op = "callback" /\ (Ends(r) \/ Acts(r, {}, {<<"bound", r.user>>}))
    BY <1>6, Zenon DEF create_oauth_session, At
  <2>2. <<"bound", r.user>> \in ever[r.q]
    BY <2>1 DEF Known, Fit, Met
  <2> QED
    BY <2>1, <2>2, EndsIsStep, ActsIsStep
<1> QED
  BY <1>1, <1>2, <1>3, <1>4, <1>5, <1>6

LEMMA OAuthSteps ==
  ASSUME AccountsTypeOK, FlowsInv, NEW r, Known(r), OAuthStep(r)
  PROVE  StepOK(r)
<1>1. CASE start_oauth_login(r)
  BY <1>1, EndsIsStep DEF start_oauth_login
<1>2. CASE start_oauth_bind(r)
  <2>1. r.at = "run" /\ Acts(r, {}, Own(r))
    BY <1>2 DEF start_oauth_bind, Runs, At
  <2> QED
    BY <2>1, RunMeets, ActsIsStep
<1>3. CASE list_oauth_bindings(r)
  <2>1. r.at = "run" /\ (Ends(r) \/ Acts(r, {}, Own(r)))
    BY <1>3 DEF list_oauth_bindings, Shows, Runs, At
  <2> QED
    BY <2>1, RunMeets, ActsIsStep, EndsIsStep
<1> QED
  BY <1>1, <1>2, <1>3, CallbackStart, CallbackSteps, Zenon DEF OAuthStep

\* A step of a request, whichever it is.
Step(r) == OAuthStep(r) \/ (UNCHANGED oauth /\ (CredentialStep(r) \/ AccountStep(r)))

LEMMA EveryStep ==
  ASSUME AccountsTypeOK, FlowsInv, NEW r, Known(r), Step(r)
  PROVE  StepOK(r)
  BY OAuthSteps, CredentialSteps, AccountSteps DEF Step

-----------------------------------------------------------------------------
(* What requests carry and have met is kept. *)

LEMMA MetGrows ==
  ASSUME NEW r, NEW E, NEW F, Met(r, E), E \subseteq F
  PROVE  Met(r, F)
  BY DEF Met

LEMMA FreshMet ==
  ASSUME NEW r, Shaped(r), Carried(r), r.at = "start", NEW E
  PROVE  Met(r, E)
<1>1. r.admin = FALSE
  BY DEF Carried, Placed, Request
<1>2. ~r.admin
  BY <1>1
<1> QED
  BY <1>2 DEF Met, HasUser, Signed, Checking, Changing

LEMMA RequestShape == ASSUME NEW q PROVE Request(q).q = q /\ Request(q).at = "start"
  BY DEF Request

\* Every request of the next state was there, or is the one that went on.
LEMMA LiveNext ==
  ASSUME RequestsFit, NEW r \in live, StepOK(r)
  PROVE  /\ Asked'
         /\ \A y \in live' : /\ Shaped(y) /\ Carried(y) /\ Met(y, ever[y.q]) /\ y.q \in {o.q : o \in live}
                             /\ (y \in live /\ y # r) \/ (Becomes(r, y) /\ y \notin live \ {r})
         /\ \A y \in live : y # r => y \in live'
<1>1. PICK w \in Workloads : \A o \in live : o.q \in w
  BY DEF RequestsFit, Asked
<1>2. CASE Answered(r)
  BY <1>1, <1>2 DEF Answered, RequestsFit, Asked, Fit
<1>3. CASE GoesOn(r)
  <2>1. PICK x : live' = (live \ {r}) \cup {x} /\ Becomes(r, x)
    BY <1>3 DEF GoesOn
  <2>2. x.q = r.q /\ Shaped(x) /\ Carried(x) /\ Met(x, ever[x.q])
    BY <2>1 DEF Becomes, Fit
  <2>3. \A o, p \in live' : o.q = p.q => o = p
    BY <2>1, <2>2 DEF RequestsFit, Asked
  <2>4. \A o \in live' : o.q \in w
    BY <1>1, <2>1, <2>2
  <2>5. x \notin live \ {r}
    BY <2>2 DEF RequestsFit, Asked
  <2> QED
    BY <2>1, <2>2, <2>3, <2>4, <2>5 DEF RequestsFit, Asked, Fit
<1> QED
  BY <1>2, <1>3 DEF StepOK

LEMMA FitNext ==
  ASSUME RequestsFit, NEW r \in live, StepOK(r), Watch
  PROVE  RequestsFit'
<1>1. /\ Asked'
      /\ \A y \in live' : Shaped(y) /\ Carried(y) /\ Met(y, ever[y.q])
  BY LiveNext
<1>2. DOMAIN ever' = {y.q : y \in live'}
  BY DEF Watch
<1>3. ASSUME NEW y \in live'
      PROVE  Fit(y, ever'[y.q]) /\ Facts(y.q)' \subseteq ever'[y.q]
  <2>1. ever'[y.q] = (IF Request(y.q) \in live' THEN {} ELSE ever[y.q]) \cup Facts(y.q)'
    BY <1>3 DEF Watch
  <2>2. CASE y.at = "start"
    BY <1>1, <1>3, <2>1, <2>2, FreshMet DEF Fit
  <2>3. CASE y.at # "start"
    <3>1. Request(y.q) \notin live'
      BY <1>1, <1>3, <2>3, RequestShape DEF Asked
    <3>2. ever[y.q] \subseteq ever'[y.q]
      BY <2>1, <3>1
    <3>3. Met(y, ever'[y.q])
      BY <1>1, <1>3, <3>2, MetGrows
    <3> QED
      BY <1>1, <1>3, <2>1, <3>3 DEF Fit
  <2> QED
    BY <2>2, <2>3
<1> QED
  BY <1>1, <1>2, <1>3 DEF RequestsFit

LEMMA AuthorityNext ==
  ASSUME ActsWithAuthority, NEW r, StepOK(r)
  PROVE  ActsWithAuthority'
  BY DEF ActsWithAuthority, StepOK

-----------------------------------------------------------------------------
(* Which steps change what. *)

TotpStep(r) == totp_verification_lock(r) \/ count_recent_user_totp_failures(r) \/ TotpChecked(r) \/ TotpUsed(r)
BanStep(r) == record_waf_event(r) \/ upsert_waf_ban(r) \/ create_waf_bans(r) \/ delete_waf_ban(r)
SessionStep(r) == logout(r) \/ delete_session(r) \/ delete_expired(r) \/ CreateLoginSession(r) \/ create_oauth_session(r)
UserStep(r) == seed_admin_user(r) \/ create_user(r) \/ SwitchTotp(r) \/ update_role(r) \/ reset_password(r)
RevokeStep(r) == RevokesSessions(r) \/ RevokesTokens(r) \/ create_pat(r) \/ revoke_pat(r)
LinkStep(r) == OwnerChanges(r) \/ unbind_oauth_provider(r) \/ bind_oauth_account(r)
TableStep(r) == SessionStep(r) \/ UserStep(r) \/ RevokeStep(r) \/ LinkStep(r) \/ Expires(r) \/ delete_user(r)

LEMMA CredentialKinds ==
  ASSUME NEW r, CredentialStep(r)
  PROVE  Reads \/ TotpStep(r) \/ BanStep(r) \/ TableStep(r) \/ Dropped(r) \/ Tick(r)
<1>1. \/ totp_config(r) \/ find_by_id(r) \/ PatFound(r) \/ PatUser(r) \/ AllowlistStep(r) \/ PatAccepted(r) \/ find_by_token_hash(r)
      \/ RegisterFailure(r) \/ UsesToken(r)
      => Reads
  BY Zenon DEF totp_config, find_by_id, PatFound, PatUser, AllowlistStep, PatAccepted, find_by_token_hash,
               RegisterFailure, UsesToken, Reads
<1> QED
  BY <1>1, Zenon DEF CredentialStep, TotpStep, BanStep, TableStep, SessionStep, LinkStep

LEMMA AccountKinds ==
  ASSUME NEW r, AccountStep(r)
  PROVE  Reads \/ BanStep(r) \/ TableStep(r) \/ CountsAdmins(r)
<1>1. \/ login(r) \/ find_by_username(r) \/ require_sensitive_totp(r) \/ list_sessions(r)
      \/ list_users(r) \/ list_waf_bans(r) \/ list_by_user(r) \/ get_totp_status(r)
      \/ UpdateReads(r) \/ DeleteReads(r) \/ UpdateAnswers(r) \/ TotpEndpoint(r) \/ CreatePatChecks(r)
      => Reads
  BY Zenon DEF login, find_by_username, require_sensitive_totp, list_sessions, list_users, list_waf_bans, list_by_user,
               get_totp_status, Shows, UpdateReads, DeleteReads, UpdateAnswers, TotpEndpoint, CreatePatChecks
<1> QED
  BY <1>1, Zenon DEF AccountStep, BanStep, TableStep, SessionStep, UserStep, RevokeStep, LinkStep

LEMMA OAuthKinds ==
  ASSUME NEW r, OAuthStep(r)
  PROVE  Reads \/ TableStep(r)
<1>1. \/ start_oauth_login(r) \/ start_oauth_bind(r) \/ list_oauth_bindings(r) \/ oauth_callback(r) \/ cookie_session_user_id(r)
      \/ exchange_code(r) \/ find_bound_user(r) \/ OAuthUser(r)
      => Reads
  BY Zenon DEF start_oauth_login, start_oauth_bind, list_oauth_bindings, Shows, oauth_callback, cookie_session_user_id,
               exchange_code, find_bound_user, OAuthUser
<1> QED
  BY <1>1, Zenon DEF OAuthStep, TableStep, SessionStep, LinkStep

LEMMA Kinds ==
  ASSUME NEW r, Step(r)
  PROVE  Reads \/ TotpStep(r) \/ BanStep(r) \/ TableStep(r) \/ CountsAdmins(r) \/ Dropped(r) \/ Tick(r)
  BY CredentialKinds, AccountKinds, OAuthKinds, Zenon DEF Step

LEMMA ReadsFrame ==
  ASSUME Reads
  PROVE  UNCHANGED <<users, sessions, pats, bound, owner, used, refused, failed, bans, lock, now, faults, torn>>
  BY DEF Reads, tables, waf

LEMMA TotpFrame ==
  ASSUME NEW r, TotpStep(r)
  PROVE  UNCHANGED <<users, sessions, pats, bound, owner, failed, bans, now, faults, torn>>
<1>1. CASE totp_verification_lock(r)
  BY <1>1 DEF totp_verification_lock, tables, waf
<1>2. CASE count_recent_user_totp_failures(r)
  BY <1>2 DEF count_recent_user_totp_failures, tables, waf
<1>3. CASE TotpChecked(r)
  BY <1>3 DEF TotpChecked, tables
<1>4. CASE TotpUsed(r)
  BY <1>4 DEF TotpUsed, tables
<1> QED
  BY <1>1, <1>2, <1>3, <1>4 DEF TotpStep

LEMMA BanFrame ==
  ASSUME NEW r, BanStep(r)
  PROVE  UNCHANGED <<users, sessions, pats, bound, owner, used, refused, lock, now, faults>>
<1>1. CASE record_waf_event(r)
  BY <1>1 DEF record_waf_event, tables
<1>2. CASE upsert_waf_ban(r)
  BY <1>2 DEF upsert_waf_ban, tables
<1>3. CASE create_waf_bans(r)
  BY <1>3 DEF create_waf_bans, tables
<1>4. CASE delete_waf_ban(r)
  BY <1>4 DEF delete_waf_ban, tables
<1> QED
  BY <1>1, <1>2, <1>3, <1>4 DEF BanStep

LEMMA SessionFrame ==
  ASSUME NEW r, SessionStep(r)
  PROVE  UNCHANGED <<users, pats, bound, owner, used, refused, failed, bans, lock, now, faults, torn>>
<1>1. CASE logout(r)
  BY <1>1 DEF logout, Others, waf
<1>2. CASE delete_session(r)
  BY <1>2 DEF delete_session, Others, waf
<1>3. CASE delete_expired(r)
  BY <1>3 DEF delete_expired, waf
<1>4. CASE CreateLoginSession(r)
  BY <1>4 DEF CreateLoginSession, waf
<1>5. CASE create_oauth_session(r)
  BY <1>5 DEF create_oauth_session, waf
<1> QED
  BY <1>1, <1>2, <1>3, <1>4, <1>5 DEF SessionStep

LEMMA UserFrame ==
  ASSUME NEW r, UserStep(r)
  PROVE  UNCHANGED <<sessions, pats, bound, owner, used, refused, failed, bans, lock, now, faults>>
<1>1. CASE seed_admin_user(r)
  BY <1>1 DEF seed_admin_user, Reads, Others, tables, waf
<1>2. CASE create_user(r)
  BY <1>2 DEF create_user, Others, waf
<1>3. CASE SwitchTotp(r)
  BY <1>3 DEF SwitchTotp, Others, waf
<1>4. CASE update_role(r)
  BY <1>4 DEF update_role, Others, waf
<1>5. CASE reset_password(r)
  BY <1>5 DEF reset_password, Others, waf
<1> QED
  BY <1>1, <1>2, <1>3, <1>4, <1>5 DEF UserStep

LEMMA RevokeFrame ==
  ASSUME NEW r, RevokeStep(r)
  PROVE  UNCHANGED <<users, bound, owner, used, refused, failed, bans, lock, now, faults, torn>>
<1>1. CASE RevokesSessions(r)
  BY <1>1 DEF RevokesSessions, Others, waf
<1>2. CASE RevokesTokens(r)
  BY <1>2 DEF RevokesTokens, Others, waf
<1>3. CASE create_pat(r)
  BY <1>3 DEF create_pat, Others, waf
<1>4. CASE revoke_pat(r)
  BY <1>4 DEF revoke_pat, Others, waf
<1> QED
  BY <1>1, <1>2, <1>3, <1>4 DEF RevokeStep

LEMMA LinkFrame ==
  ASSUME NEW r, LinkStep(r)
  PROVE  UNCHANGED <<users, sessions, pats, used, refused, failed, bans, lock, now, faults, torn>>
<1>1. CASE OwnerChanges(r)
  BY <1>1 DEF OwnerChanges, waf
<1>2. CASE unbind_oauth_provider(r)
  BY <1>2 DEF unbind_oauth_provider, Others, waf
<1>3. CASE bind_oauth_account(r)
  BY <1>3 DEF bind_oauth_account, waf
<1> QED
  BY <1>1, <1>2, <1>3 DEF LinkStep

LEMMA TableFrame ==
  ASSUME NEW r, TableStep(r)
  PROVE  UNCHANGED <<used, refused, failed, bans, lock, now, faults>> /\ torn \subseteq torn'
<1>1. CASE UserStep(r)
  <2>1. torn \subseteq torn'
    BY <1>1 DEF UserStep, seed_admin_user, Reads, create_user, SwitchTotp, update_role, reset_password
  <2> QED
    BY <1>1, <2>1, UserFrame
<1>2. CASE Expires(r)
  BY <1>2 DEF Expires, waf
<1>3. CASE delete_user(r)
  BY <1>3 DEF delete_user, Others, waf
<1> QED
  BY <1>1, <1>2, <1>3, SessionFrame, RevokeFrame, LinkFrame DEF TableStep

LEMMA OtherFrame ==
  ASSUME NEW r, CountsAdmins(r) \/ Dropped(r) \/ Tick(r)
  PROVE  UNCHANGED <<users, sessions, pats, bound, owner, used, refused, failed, bans>> /\ torn \subseteq torn'
<1>1. CASE CountsAdmins(r)
  BY <1>1 DEF CountsAdmins, Others, tables, waf
<1>2. CASE Dropped(r)
  BY <1>2 DEF Dropped, tables, waf
<1>3. CASE Tick(r)
  BY <1>3 DEF Tick, tables, waf
<1> QED
  BY <1>1, <1>2, <1>3

\* Where each step is taken from.
LEMMA CredentialStages ==
  ASSUME NEW r
  PROVE  /\ record_waf_event(r) => r.at = "failed"
         /\ RegisterFailure(r) => r.at = "count"
         /\ upsert_waf_ban(r) => r.at = "ban"
         /\ totp_config(r) => r.at = "totp"
         /\ totp_verification_lock(r) => r.at = "lock"
         /\ count_recent_user_totp_failures(r) => r.at = "guess"
         /\ TotpChecked(r) => r.at = "code"
         /\ TotpUsed(r) => r.at = "use"
         /\ find_by_id(r) => r.at = "user"
         /\ PatUser(r) => r.at = "token"
         /\ AllowlistStep(r) \/ PatAccepted(r) => r.at = "allowlist"
         /\ UsesToken(r) => r.at = "run"
         /\ PatFound(r) \/ Expires(r) \/ delete_expired(r) \/ OwnerChanges(r) \/ Tick(r) \/ find_by_token_hash(r) => r.at = "start"
<1>1. PatFound(r) \/ Expires(r) \/ delete_expired(r) \/ OwnerChanges(r) \/ Tick(r) \/ find_by_token_hash(r) => r.at = "start"
  BY Zenon DEF At, PatFound, Expires, delete_expired, OwnerChanges, Tick, find_by_token_hash
<1>2. /\ record_waf_event(r) => r.at = "failed"
      /\ RegisterFailure(r) => r.at = "count"
      /\ upsert_waf_ban(r) => r.at = "ban"
  BY Zenon DEF At, record_waf_event, RegisterFailure, upsert_waf_ban
<1>3. /\ totp_config(r) => r.at = "totp"
      /\ totp_verification_lock(r) => r.at = "lock"
      /\ count_recent_user_totp_failures(r) => r.at = "guess"
      /\ TotpChecked(r) => r.at = "code"
      /\ TotpUsed(r) => r.at = "use"
  BY Zenon DEF At, totp_config, totp_verification_lock, count_recent_user_totp_failures, TotpChecked, TotpUsed
<1>4. /\ find_by_id(r) => r.at = "user"
      /\ PatUser(r) => r.at = "token"
      /\ AllowlistStep(r) \/ PatAccepted(r) => r.at = "allowlist"
      /\ UsesToken(r) => r.at = "run"
  BY Zenon DEF At, find_by_id, PatUser, AllowlistStep, PatAccepted, UsesToken
<1> QED
  BY <1>1, <1>2, <1>3, <1>4

Running == {"run", "switch", "allowlist"}
LEMMA AccountStages ==
  ASSUME NEW r
  PROVE  /\ login(r) => r.at = "start"
         /\ find_by_username(r) => r.at = "lookup"
         /\ CreateLoginSession(r) => r.at = "create"
         /\ require_sensitive_totp(r) => r.at = "allow"
         /\ (\/ logout(r) \/ delete_session(r) \/ unbind_oauth_provider(r) \/ create_waf_bans(r) \/ delete_waf_ban(r)
             \/ list_sessions(r) \/ list_users(r) \/ list_waf_bans(r) \/ list_by_user(r) \/ get_totp_status(r)
             \/ create_user(r) \/ UpdateReads(r) \/ DeleteReads(r) \/ TotpEndpoint(r) \/ SwitchTotp(r)
             \/ CreatePatChecks(r) \/ create_pat(r) \/ revoke_pat(r)) => r.at \in Running
         /\ seed_admin_user(r) => r.at \in {"start", "seed"}
         /\ CountsAdmins(r) => r.at = "admins"
         /\ update_role(r) => r.at = "write"
         /\ RevokesSessions(r) => r.at = "revoke"
         /\ RevokesTokens(r) => r.at = "tokens"
         /\ reset_password(r) => r.at = "password"
         /\ UpdateAnswers(r) => r.at \in {"end", "password"}
         /\ delete_user(r) => r.at = "erase"
<1>1. /\ login(r) => r.at = "start"
      /\ find_by_username(r) => r.at = "lookup"
      /\ CreateLoginSession(r) => r.at = "create"
      /\ require_sensitive_totp(r) => r.at = "allow"
      /\ seed_admin_user(r) => r.at \in {"start", "seed"}
      /\ UpdateAnswers(r) => r.at \in {"end", "password"}
  BY Zenon DEF At, login, find_by_username, CreateLoginSession, require_sensitive_totp, seed_admin_user, UpdateAnswers
<1>2. /\ CountsAdmins(r) => r.at = "admins"
      /\ update_role(r) => r.at = "write"
      /\ RevokesSessions(r) => r.at = "revoke"
      /\ RevokesTokens(r) => r.at = "tokens"
      /\ reset_password(r) => r.at = "password"
      /\ delete_user(r) => r.at = "erase"
  BY Zenon DEF At, CountsAdmins, update_role, RevokesSessions, RevokesTokens, reset_password, delete_user
<1>3. \/ logout(r) \/ delete_session(r) \/ unbind_oauth_provider(r) \/ create_waf_bans(r) \/ delete_waf_ban(r)
      \/ list_sessions(r) \/ list_users(r) \/ list_waf_bans(r) \/ list_by_user(r) \/ get_totp_status(r)
      \/ create_user(r) \/ UpdateReads(r) \/ DeleteReads(r) \/ TotpEndpoint(r) \/ CreatePatChecks(r) \/ revoke_pat(r)
      => r.at = "run"
  BY Zenon DEF At, Runs, Shows, logout, delete_session, unbind_oauth_provider, create_waf_bans, delete_waf_ban,
               list_sessions, list_users, list_waf_bans, list_by_user, get_totp_status, create_user, UpdateReads,
               DeleteReads, TotpEndpoint, CreatePatChecks, revoke_pat
<1>4. (SwitchTotp(r) => r.at = "switch") /\ (create_pat(r) => r.at = "allowlist")
  BY Zenon DEF At, SwitchTotp, create_pat
<1> QED
  BY <1>1, <1>2, <1>3, <1>4 DEF Running

LEMMA OAuthStages ==
  ASSUME NEW r, OAuthStep(r)
  PROVE  r.at \in {"start", "run", "create"} \cup Returned
<1>1. \/ start_oauth_login(r) \/ oauth_callback(r) => r.at = "start"
  BY Zenon DEF At, start_oauth_login, oauth_callback
<1>2. start_oauth_bind(r) \/ list_oauth_bindings(r) => r.at = "run"
  BY Zenon DEF At, Runs, Shows, start_oauth_bind, list_oauth_bindings
<1>3. /\ cookie_session_user_id(r) => r.at = "cookie"
      /\ exchange_code(r) => r.at = "exchange"
      /\ bind_oauth_account(r) => r.at = "bind"
      /\ find_bound_user(r) => r.at = "bound"
      /\ OAuthUser(r) => r.at = "profile"
      /\ create_oauth_session(r) => r.at = "create"
  BY Zenon DEF At, cookie_session_user_id, exchange_code, bind_oauth_account, find_bound_user, OAuthUser, create_oauth_session
<1> QED
  BY <1>1, <1>2, <1>3 DEF OAuthStep, Returned

\* The one step there is for a request that checks a code, counts failures or changes a user.
Owing == Holding \cup {"lock", "count", "ban", "admins", "write", "revoke", "tokens", "erase"}
OnlyStep(r) ==
    CASE r.at = "lock" -> totp_verification_lock(r)
      [] r.at = "guess" -> count_recent_user_totp_failures(r)
      [] r.at = "code" -> TotpChecked(r)
      [] r.at = "use" -> TotpUsed(r)
      [] r.at = "count" -> RegisterFailure(r)
      [] r.at = "ban" -> upsert_waf_ban(r)
      [] r.at = "admins" -> CountsAdmins(r)
      [] r.at = "write" -> update_role(r)
      [] r.at = "revoke" -> RevokesSessions(r)
      [] r.at = "tokens" -> RevokesTokens(r)
      [] r.at = "erase" -> delete_user(r)

LEMMA Owes ==
  ASSUME NEW r, Step(r), r.at \in Owing
  PROVE  Dropped(r) \/ OnlyStep(r)
<1>1. ~OAuthStep(r)
  BY OAuthStages DEF Owing, Holding, Returned
<1>2. CASE CredentialStep(r)
  BY <1>2, CredentialStages DEF CredentialStep, Owing, Holding, OnlyStep
<1>3. CASE AccountStep(r)
  <2>1. r.at \notin {"start", "lookup", "create", "allow", "seed", "end", "password"} /\ r.at \notin Running
    BY DEF Owing, Holding, Running
  <2>2. CountsAdmins(r) \/ update_role(r) \/ RevokesSessions(r) \/ RevokesTokens(r) \/ delete_user(r)
    BY <1>3, <2>1, AccountStages DEF AccountStep
  <2> QED
    BY <2>2, AccountStages DEF OnlyStep
<1> QED
  BY <1>1, <1>2, <1>3 DEF Step

-----------------------------------------------------------------------------
(* Codes and guesses. *)

LEMMA LiveTyped ==
  ASSUME RequestsFit, NEW r \in live
  PROVE  /\ r.q # Nothing /\ r.time \in Nat /\ r.q.ip \in Ips
         /\ r.at \in Checking => r.user \in Users
         /\ r.at \in {"lock", "guess", "code", "use"} => r.q.code # Nothing /\ r.q.code.step \in Nat
<1>1. Known(r)
  BY RequestKnown
<1> QED
  BY <1>1 DEF Known, Fit, Carried, Read, AccountRequest, KnowsUser

\* One request holds the lock.
LEMMA OneHolds ==
  ASSUME RequestsFit, CodesInv, NEW r \in live, NEW y \in live, y.at \in Holding, lock \in {r.q, Nothing}
  PROVE  y = r
<1>1. lock = y.q /\ y.q # Nothing
  BY LiveTyped DEF CodesInv
<1> QED
  BY <1>1 DEF RequestsFit, Asked

\* A step that leaves the lock and what it protects alone.
LEMMA CodesQuiet ==
  ASSUME AccountsTypeOK, RequestsFit, CodesInv, NEW r \in live, StepOK(r), r.at \notin Holding \cup {"lock"},
         UNCHANGED <<used, refused, lock>>, now' \in {now, now + 1}
  PROVE  CodesInv'
<1>1. now \in Nat /\ now' \in Nat /\ now <= now'
  BY DEF AccountsTypeOK
<1>2. ASSUME NEW y \in live'
      PROVE  /\ y.time <= now'
             /\ y.at \in Holding => y \in live
  <2>1. (y \in live /\ y # r) \/ Becomes(r, y)
    BY LiveNext
  <2>2. y.time \in {r.time, now} \/ y \in live
    BY <2>1 DEF Becomes
  <2>3. y.at \in Holding => y \in live
    BY <2>1 DEF Becomes, Edge, Holding
  <2> QED
    BY <1>1, <2>2, <2>3, LiveTyped DEF CodesInv
<1>3. \A y : is_totp_step_replayed(y)' <=> is_totp_step_replayed(y)
  BY DEF is_totp_step_replayed
<1> QED
  BY <1>2, <1>3 DEF CodesInv, CodeIsUsedOnce, GuessesAreBounded, Holding

\* A step of the request that holds the lock: nobody else compares codes.
LEMMA HolderAlone ==
  ASSUME RequestsFit, CodesInv, NEW r \in live, StepOK(r), lock \in {r.q, Nothing}
  PROVE  \A y \in live' : y.at \in Holding => Becomes(r, y) /\ y \notin live \ {r}
  BY LiveNext, OneHolds

LEMMA TimesNext ==
  ASSUME AccountsTypeOK, RequestsFit, CodesInv, NEW r \in live, StepOK(r)
  PROVE  \A y \in live' : y.time <= now
<1> SUFFICES ASSUME NEW y \in live' PROVE y.time <= now
  OBVIOUS
<1>1. y.time \in {r.time, now} \/ y \in live
  BY LiveNext DEF Becomes
<1> QED
  BY <1>1 DEF CodesInv, AccountsTypeOK

LEMMA CodesLock ==
  ASSUME AccountsTypeOK, RequestsFit, CodesInv, NEW r \in live, StepOK(r), totp_verification_lock(r)
  PROVE  CodesInv'
<1>1. r.at = "lock" /\ lock = Nothing /\ lock' = r.q /\ UNCHANGED <<used, refused, now>>
  BY DEF totp_verification_lock, At, waf
<1>2. ASSUME NEW y \in live', y.at \in Holding PROVE y.at = "guess" /\ y.q = r.q
  <2>1. Becomes(r, y)
    BY <1>1, <1>2, HolderAlone
  <2> QED
    BY <1>1, <1>2, <2>1 DEF Becomes, Edge, Holding
<1> QED
  BY <1>1, <1>2, TimesNext DEF CodesInv, CodeIsUsedOnce, GuessesAreBounded, Holding

\* The requests that compare no code by then.
LEMMA CodesRefused ==
  ASSUME AccountsTypeOK, RequestsFit, CodesInv, NEW r \in live, StepOK(r), r.at \in Holding, TotpRefused(r),
         UNCHANGED <<used, now>>, lock' = Nothing, GuessesAreBounded'
  PROVE  CodesInv'
<1>1. lock = r.q
  BY DEF CodesInv
<1>2. ASSUME NEW y \in live', y.at \in Holding PROVE FALSE
  <2>1. Becomes(r, y) /\ y \notin live \ {r}
    BY <1>1, <1>2, HolderAlone
  <2>2. live' = live \ {r} \/ live' = (live \ {r}) \cup {Fails(r)}
    BY DEF TotpRefused, Ends, Goto
  <2>3. y = Fails(r)
    BY <1>2, <2>1, <2>2
  <2>4. Fails(r).at = "failed"
    BY RequestKnown DEF Fails, Known, Fit, Shaped, Fields
  <2> QED
    BY <1>2, <2>3, <2>4 DEF Holding
<1> QED
  BY <1>1, <1>2, TimesNext DEF CodesInv, CodeIsUsedOnce, Holding

LEMMA CodesGuess ==
  ASSUME AccountsTypeOK, RequestsFit, CodesInv, NEW r \in live, StepOK(r), count_recent_user_totp_failures(r)
  PROVE  CodesInv'
<1>1. r.at = "guess" /\ r.at \in Holding /\ lock = r.q /\ UNCHANGED <<used, refused, now>>
  BY DEF count_recent_user_totp_failures, At, waf, Holding, CodesInv
<1>2. CASE refused[r.user] >= Threshold
  <2>1. lock' = Nothing /\ TotpRefused(r)
    BY <1>2 DEF count_recent_user_totp_failures, Release
  <2> QED
    BY <1>1, <2>1, CodesRefused DEF CodesInv, GuessesAreBounded
<1>3. CASE ~(refused[r.user] >= Threshold)
  <2>1. PICK x : x = [r EXCEPT !.at = "code"] /\ live' = (live \ {r}) \cup {x} /\ lock' = lock
    BY <1>3 DEF count_recent_user_totp_failures, Goto
  <2>2. x.q = r.q /\ x.user = r.user /\ x.at = "code"
    BY <2>1, RequestKnown DEF Known, Fit, Shaped, Fields
  <2>3. refused[r.user] < Threshold
    BY <1>1, <1>3, LiveTyped, CredentialsAssumption DEF AccountsTypeOK, Checking
  <2>4. ASSUME NEW y \in live', y.at \in Holding PROVE y = x
    BY <1>1, <2>1, <2>4, HolderAlone
  <2> QED
    BY <1>1, <2>1, <2>2, <2>3, <2>4, TimesNext DEF CodesInv, CodeIsUsedOnce, GuessesAreBounded, Holding
<1> QED
  BY <1>2, <1>3

LEMMA CodesChecked ==
  ASSUME AccountsTypeOK, RequestsFit, CodesInv, NEW r \in live, StepOK(r), TotpChecked(r)
  PROVE  CodesInv'
<1>1. r.at = "code" /\ r.at \in Holding /\ lock = r.q /\ UNCHANGED <<used, now>> /\ r.user \in Users
  BY LiveTyped DEF TotpChecked, At, Holding, CodesInv, Checking
<1>2. CASE Matches(r) /\ ~is_totp_step_replayed(r)
  <2>1. PICK x : x = [r EXCEPT !.at = "use"] /\ live' = (live \ {r}) \cup {x} /\ lock' = lock /\ refused' = refused
    BY <1>2 DEF TotpChecked, Goto
  <2>2. x.q = r.q /\ x.user = r.user /\ x.at = "use" /\ x.secret = r.secret /\ x.time = r.time
    BY <2>1, RequestKnown DEF Known, Fit, Shaped, Fields
  <2>3. ~is_totp_step_replayed(x)'
    BY <1>1, <1>2, <2>2 DEF is_totp_step_replayed
  <2>4. ASSUME NEW y \in live', y.at \in Holding PROVE y = x
    BY <1>1, <2>1, <2>4, HolderAlone
  <2> QED
    BY <1>1, <2>1, <2>2, <2>3, <2>4, TimesNext DEF CodesInv, CodeIsUsedOnce, GuessesAreBounded, Holding
<1>3. CASE ~(Matches(r) /\ ~is_totp_step_replayed(r))
  <2>1. lock' = Nothing /\ TotpRefused(r) /\ refused' = [refused EXCEPT ![r.user] = @ + 1]
    BY <1>3 DEF TotpChecked, Release
  <2>2. refused[r.user] < Threshold
    BY <1>1 DEF CodesInv
  <2>3. GuessesAreBounded'
    BY <1>1, <2>1, <2>2, CredentialsAssumption DEF CodesInv, GuessesAreBounded, AccountsTypeOK
  <2> QED
    BY <1>1, <2>1, <2>3, CodesRefused
<1> QED
  BY <1>2, <1>3

LEMMA CodesUsed ==
  ASSUME AccountsTypeOK, RequestsFit, CodesInv, NEW r \in live, StepOK(r), TotpUsed(r)
  PROVE  CodesInv'
<1> DEFINE e == [user |-> r.user, secret |-> r.secret, step |-> r.q.code.step, at |-> now, q |-> r.q]
<1>1. r.at = "use" /\ r.at \in Holding /\ lock = r.q /\ lock' = Nothing /\ UNCHANGED <<refused, now>>
  BY DEF TotpUsed, At, Holding, CodesInv, Release
<1>2. used' = used \cup {e}
  BY DEF TotpUsed
<1>3. ASSUME NEW y \in live', y.at \in Holding PROVE FALSE
  BY <1>1, <1>3, HolderAlone DEF Becomes, Edge, Holding
<1>4. /\ r.q.code.step \in Nat /\ r.time \in Nat /\ now \in Nat /\ r.time <= now
      /\ r.q.code.step >= r.time - Window /\ r.q.code.step <= r.time + Window
  <2>1. Matches(r)
    BY <1>1, RequestKnown DEF Known, Fit, Carried, Read
  <2> QED
    BY <1>1, <2>1, LiveTyped, CredentialsAssumption DEF Matches, CodesInv, AccountsTypeOK
<1>5. e.step \in Nat /\ e.at \in Nat /\ e.at >= e.step - Window
  BY <1>4, CredentialsAssumption
<1>6. ASSUME NEW f \in used, f.user = r.user, f.secret = r.secret, f.step = r.q.code.step PROVE FALSE
  <2>1. f.step \in Nat /\ f.at \in Nat /\ f.at >= f.step - Window
    BY <1>6 DEF CodesInv
  <2>2. f.at >= r.time - Horizon
    BY <1>4, <1>6, <2>1, CredentialsAssumption
  <2>3. f.step >= r.q.code.step
    BY <1>4, <1>6
  <2> QED
    BY <1>1, <1>6, <2>2, <2>3 DEF CodesInv, is_totp_step_replayed
<1>7. e.user = r.user /\ e.secret = r.secret /\ e.step = r.q.code.step
  OBVIOUS
<1> HIDE DEF e
<1>8. CodeIsUsedOnce'
  BY <1>2, <1>6, <1>7 DEF CodesInv, CodeIsUsedOnce
<1>9. \A f \in used' : f.step \in Nat /\ f.at \in Nat /\ f.at >= f.step - Window
  BY <1>2, <1>5 DEF CodesInv
<1>10. GuessesAreBounded'
  BY <1>1 DEF CodesInv, GuessesAreBounded
<1>11. \A y \in live' : y.at \notin Holding /\ y.time <= now'
  BY <1>1, <1>3, TimesNext
<1> QED
  BY <1>8, <1>9, <1>10, <1>11 DEF CodesInv, Holding

LEMMA CodesDropped ==
  ASSUME AccountsTypeOK, RequestsFit, CodesInv, NEW r \in live, StepOK(r), Dropped(r)
  PROVE  CodesInv'
<1>1. UNCHANGED <<used, refused, now>> /\ live' = live \ {r} /\ lock' = (IF lock = r.q THEN Nothing ELSE lock)
  BY DEF Dropped, waf, Ends
<1>2. ASSUME NEW y \in live', y.at \in Holding PROVE lock' = y.q
  BY <1>1, <1>2 DEF CodesInv, RequestsFit, Asked
<1>3. \A y : is_totp_step_replayed(y)' <=> is_totp_step_replayed(y)
  BY <1>1 DEF is_totp_step_replayed
<1> QED
  BY <1>1, <1>2, <1>3 DEF CodesInv, CodeIsUsedOnce, GuessesAreBounded

LEMMA CodesNext ==
  ASSUME AccountsTypeOK, RequestsFit, CodesInv, NEW r \in live, Step(r), StepOK(r)
  PROVE  CodesInv'
<1>1. CASE r.at \in Holding \cup {"lock"}
  <2>1. Dropped(r) \/ OnlyStep(r)
    BY <1>1, Owes DEF Owing
  <2>2. Dropped(r) \/ totp_verification_lock(r) \/ count_recent_user_totp_failures(r) \/ TotpChecked(r) \/ TotpUsed(r)
    BY <1>1, <2>1 DEF OnlyStep, Holding
  <2> QED
    BY <2>2, CodesLock, CodesGuess, CodesChecked, CodesUsed, CodesDropped
<1>2. CASE r.at \notin Holding \cup {"lock"}
  <2>1. ~TotpStep(r)
    BY <1>2, CredentialStages DEF TotpStep, Holding
  <2>2. ASSUME ~Dropped(r) PROVE UNCHANGED <<used, refused, lock>> /\ now' \in {now, now + 1}
    <3>1. CASE Tick(r)
      BY <3>1 DEF Tick, waf
    <3>2. CASE CountsAdmins(r)
      BY <3>2 DEF CountsAdmins, Others, waf
    <3> QED
      BY <2>1, <2>2, <3>1, <3>2, Kinds, ReadsFrame, BanFrame, TableFrame
  <2> QED
    BY <1>2, <2>2, CodesQuiet, CodesDropped
<1> QED
  BY <1>1, <1>2

-----------------------------------------------------------------------------
(* Bans. *)

\* A step that leaves failures alone and lifts no ban.
LEMMA BansQuiet ==
  ASSUME RequestsFit, BansInv, NEW r \in live, StepOK(r), failed' = failed,
         torn \subseteq torn', \A i \in bans : i \in bans' \/ i \in torn',
         r.at \in {"count", "ban"} => r.q.ip \in torn' \/ r.q.ip \in bans' \/ ~(failed[r.q.ip] >= Threshold)
  PROVE  BansInv'
<1> SUFFICES ASSUME NEW i \in Ips, failed[i] >= Threshold, i \notin torn', i \notin bans'
             PROVE  \E y \in live' : y.q.ip = i /\ y.at \in {"count", "ban"}
  BY DEF BansInv
<1>1. i \notin torn /\ i \notin bans
  OBVIOUS
<1>2. PICK y \in live : y.q.ip = i /\ y.at \in {"count", "ban"}
  BY <1>1 DEF BansInv
<1>3. y # r
  BY <1>2
<1>4. y \in live'
  BY <1>3, LiveNext
<1> QED
  BY <1>2, <1>4

LEMMA BansCount ==
  ASSUME RequestsFit, BansInv, NEW r \in live, RegisterFailure(r), StepOK(r)
  PROVE  BansInv'
<1>1. r.at = "count" /\ UNCHANGED <<failed, bans, torn>>
  BY DEF RegisterFailure, At, waf
<1>2. CASE failed[r.q.ip] >= Threshold
  <2>1. PICK x : x = [r EXCEPT !.at = "ban"] /\ live' = (live \ {r}) \cup {x}
    BY <1>2 DEF RegisterFailure, Goto
  <2>2. x.q = r.q /\ x.at = "ban"
    BY <2>1, RequestKnown DEF Known, Fit, Shaped, Fields
  <2>3. \A y \in live : y.at \in {"count", "ban"} => \E z \in live' : z.q.ip = y.q.ip /\ z.at \in {"count", "ban"}
    BY <2>1, <2>2
  <2> QED
    BY <1>1, <2>3 DEF BansInv
<1>3. CASE ~(failed[r.q.ip] >= Threshold)
  BY <1>1, <1>3, BansQuiet
<1> QED
  BY <1>2, <1>3

LEMMA BansEvent ==
  ASSUME AccountsTypeOK, RequestsFit, BansInv, NEW r \in live, record_waf_event(r), StepOK(r)
  PROVE  BansInv'
<1>1. r.at = "failed" /\ failed' = [failed EXCEPT ![r.q.ip] = @ + 1] /\ UNCHANGED <<bans, torn>>
  BY DEF record_waf_event, At
<1>2. PICK x : x = [r EXCEPT !.at = "count"] /\ live' = (live \ {r}) \cup {x}
  BY DEF record_waf_event, Goto
<1>3. x.q = r.q /\ x.at = "count"
  BY <1>2, RequestKnown DEF Known, Fit, Shaped, Fields
<1>4. ASSUME NEW i \in Ips, failed'[i] >= Threshold, i \notin torn, i \notin bans
      PROVE  \E y \in live' : y.q.ip = i /\ y.at \in {"count", "ban"}
  <2>1. CASE i = r.q.ip
    BY <1>2, <1>3, <2>1
  <2>2. CASE i # r.q.ip
    <3>1. failed'[i] = failed[i]
      BY <1>1, <1>4, <2>2 DEF AccountsTypeOK
    <3>2. PICK y \in live : y.q.ip = i /\ y.at \in {"count", "ban"}
      BY <1>4, <3>1 DEF BansInv
    <3> QED
      BY <1>1, <1>2, <3>2
  <2> QED
    BY <2>1, <2>2
<1> QED
  BY <1>1, <1>4 DEF BansInv

LEMMA BansNext ==
  ASSUME AccountsTypeOK, RequestsFit, BansInv, NEW r \in live, Step(r), StepOK(r)
  PROVE  BansInv'
<1>1. CASE Dropped(r)
  <2>1. torn \subseteq torn' /\ failed' = failed /\ bans' = bans
    BY <1>1, OtherFrame
  <2>2. r.at \in {"count", "ban"} => r.q.ip \in torn'
    BY <1>1 DEF Dropped, Unfinished
  <2> QED
    BY <2>1, <2>2, BansQuiet
<1>2. CASE r.at \in {"count", "ban"} /\ ~Dropped(r)
  <2>1. RegisterFailure(r) \/ upsert_waf_ban(r)
    BY <1>2, Owes DEF OnlyStep, Owing
  <2>2. CASE upsert_waf_ban(r)
    <3>1. failed' = failed /\ torn' = torn /\ bans' = bans \cup {r.q.ip}
      BY <2>2 DEF upsert_waf_ban
    <3> QED
      BY <3>1, BansQuiet
  <2> QED
    BY <2>1, <2>2, BansCount
<1>3. CASE r.at \notin {"count", "ban"} /\ ~Dropped(r)
  <2>1. CASE record_waf_event(r)
    BY <2>1, BansEvent
  <2>2. CASE create_waf_bans(r) \/ delete_waf_ban(r)
    <3>1. failed' = failed /\ torn \subseteq torn' /\ \A i \in bans : i \in bans' \/ i \in torn'
      BY <2>2 DEF create_waf_bans, delete_waf_ban
    <3> QED
      BY <1>3, <3>1, BansQuiet
  <2>3. CASE ~BanStep(r)
    <3>1. failed' = failed /\ torn \subseteq torn' /\ bans' = bans
      BY <1>3, <2>3, Kinds, ReadsFrame, TotpFrame, TableFrame, OtherFrame
    <3> QED
      BY <1>3, <3>1, BansQuiet
  <2>4. ~upsert_waf_ban(r)
    BY <1>3, CredentialStages
  <2> QED
    BY <2>1, <2>2, <2>3, <2>4 DEF BanStep
<1> QED
  BY <1>1, <1>2, <1>3

-----------------------------------------------------------------------------
(* Rows of users. *)

LEMMA RoleOf ==
  ASSUME AccountsTypeOK, NEW u \in Users
  PROVE  /\ users[u] # Nothing => users[u] \in UserRows /\ Role(u) = users[u].role
         /\ Role(u) = "admin" <=> users[u] # Nothing /\ users[u].role = "admin"
<1>1. users[u] # Nothing => users[u] \in UserRows
  BY Typed
<1>2. users[u] # Nothing => Role(u) = users[u].role
  BY DEF Role
<1>3. users[u] = Nothing => Role(u) = Nothing
  BY DEF Role
<1> QED
  BY <1>1, <1>2, <1>3, CredentialsAssumption

\* A step writes no row, a new one, or one with the same role and version.
Writes(t, row) == users' = [users EXCEPT ![t] = row] /\ row \in UserRows
Harmless(t, row) == users[t] # Nothing => row.role = users[t].role /\ row.ver = users[t].ver

LEMMA NewRow ==
  ASSUME NEW role \in {"admin", "member"}, NEW pw \in Passwords
  PROVE  UserRow(role, pw) \in UserRows
  BY DEF UserRow, UserRows

LEMMA UserWrites ==
  ASSUME AccountsTypeOK, NEW r, Known(r), seed_admin_user(r) \/ create_user(r) \/ SwitchTotp(r)
  PROVE  users' = users \/ \E t \in Users : \E row : Writes(t, row) /\ Harmless(t, row)
<1>1. CASE seed_admin_user(r)
  <2>1. r.q.target \in Users /\ r.q.pw \in Passwords
    BY <1>1 DEF seed_admin_user, Known, AccountRequest
  <2>2. \/ users' = users
        \/ users[r.q.target] = Nothing /\ users' = [users EXCEPT ![r.q.target] = UserRow("admin", r.q.pw)]
    BY <1>1 DEF seed_admin_user, Reads, tables
  <2> QED
    BY <2>1, <2>2, NewRow DEF Writes, Harmless
<1>2. CASE create_user(r)
  <2>1. r.q.target \in Users /\ r.q.pw \in Passwords /\ r.q.role \in {"admin", "member"}
    BY <1>2 DEF create_user, Runs, Known, AccountRequest
  <2>2. \/ users' = users
        \/ users[r.q.target] = Nothing /\ users' = [users EXCEPT ![r.q.target] = UserRow(r.q.role, r.q.pw)]
    BY <1>2 DEF create_user
  <2> QED
    BY <2>1, <2>2, NewRow DEF Writes, Harmless
<1>3. CASE SwitchTotp(r)
  <2>1. r.user \in Users /\ r.q.fresh \in Secrets /\ r.q.op \in Switches
    BY <1>3 DEF SwitchTotp, At, Known, AccountRequest, Fit, Carried, Placed, Read, KnowsUser, Signed
  <2>2. CASE users[r.user] = Nothing
    BY <1>3, <2>2 DEF SwitchTotp
  <2>3. ASSUME NEW secret \in Secrets \cup {Nothing}, NEW totp \in BOOLEAN, users[r.user] # Nothing,
               users' = [users EXCEPT ![r.user].secret = secret, ![r.user].totp = totp]
        PROVE  \E row : Writes(r.user, row) /\ Harmless(r.user, row)
    <3>1. users[r.user] \in UserRows
      BY <2>1, <2>3, Typed
    <3>2. PICK row : row = [users[r.user] EXCEPT !.secret = secret, !.totp = totp]
      OBVIOUS
    <3>3. row \in UserRows /\ row.role = users[r.user].role /\ row.ver = users[r.user].ver
      BY <3>1, <3>2 DEF UserRows
    <3>4. users' = [users EXCEPT ![r.user] = row]
      BY <2>1, <2>3, <3>2, Typed
    <3> QED
      BY <3>3, <3>4 DEF Writes, Harmless
  <2>4. ASSUME users[r.user] # Nothing, users' = [users EXCEPT ![r.user].totp = TRUE]
        PROVE  \E row : Writes(r.user, row) /\ Harmless(r.user, row)
    <3>1. users[r.user] \in UserRows
      BY <2>1, <2>4, Typed
    <3>2. PICK row : row = [users[r.user] EXCEPT !.totp = TRUE]
      OBVIOUS
    <3>3. row \in UserRows /\ row.role = users[r.user].role /\ row.ver = users[r.user].ver
      BY <3>1, <3>2 DEF UserRows
    <3>4. users' = [users EXCEPT ![r.user] = row]
      BY <2>1, <2>4, <3>2, Typed
    <3> QED
      BY <3>3, <3>4 DEF Writes, Harmless
  <2>5. users[r.user] # Nothing =>
          \/ users' = [users EXCEPT ![r.user].secret = r.q.fresh, ![r.user].totp = FALSE]
          \/ users' = [users EXCEPT ![r.user].totp = TRUE]
          \/ users' = [users EXCEPT ![r.user].secret = Nothing, ![r.user].totp = FALSE]
    BY <1>3, <2>1 DEF SwitchTotp, Switches
  <2> QED
    BY <2>1, <2>2, <2>3, <2>4, <2>5, Zenon
<1> QED
  BY <1>1, <1>2, <1>3

-----------------------------------------------------------------------------
(* Sessions and tokens that were issued before a change. *)

LEMMA RevokingStays ==
  ASSUME RequestsFit, NEW r \in live, StepOK(r), torn \subseteq torn', NEW u, NEW ats, Revoking(u, ats),
         r.at \in ats /\ r.q.target = u => u \in torn'
  PROVE  Revoking(u, ats)'
  BY LiveNext DEF Revoking

\* A user whose row keeps its version, or is about to lose what was issued before.
Keeps(u) == users'[u] # Nothing /\ (users'[u].ver = users[u].ver \/ Revoking(u, {"revoke"})')
Undisturbed(r) == torn \subseteq torn' /\ (r.at \in {"revoke", "tokens"} => r.q.target \in torn')

LEMMA CredentialStays ==
  ASSUME RequestsFit, NEW r \in live, StepOK(r), Undisturbed(r), NEW c, Keeps(c.user)
  PROVE  (SessionOK(c) => SessionOK(c)') /\ (TokenOK(c) => TokenOK(c)')
<1>1. Revoking(c.user, {"revoke"}) => Revoking(c.user, {"revoke"})'
  BY RevokingStays DEF Undisturbed
<1>2. Revoking(c.user, {"revoke", "tokens"}) => Revoking(c.user, {"revoke", "tokens"})'
  BY RevokingStays DEF Undisturbed
<1>3. Revoking(c.user, {"revoke"})' => Revoking(c.user, {"revoke", "tokens"})'
  BY DEF Revoking
<1> QED
  BY <1>1, <1>2, <1>3 DEF Keeps, SessionOK, TokenOK, Issued

LEMMA TokensNext ==
  ASSUME \A p \in Pats : \A c : c = pats'[p] /\ c # Nothing => TokenOK(c)',
         \A s \in sessions' : SessionOK(s)'
  PROVE  IssuedInv'
<1>1. ASSUME NEW p \in Pats, pats'[p] # Nothing
      PROVE  TokenOK(pats[p])'
  <2>1. PICK c : c = pats'[p]
    OBVIOUS
  <2>2. TokenOK(c)'
    BY <1>1, <2>1
  <2> QED
    BY <2>1, <2>2 DEF TokenOK, Issued, Revoking
<1> QED
  BY <1>1 DEF IssuedInv

\* A step that leaves rows of sessions and tokens or takes them away.
LEMMA IssuedStays ==
  ASSUME RequestsFit, IssuedInv, NEW r \in live, StepOK(r), Undisturbed(r),
         sessions' \subseteq sessions,
         \A p \in Pats : pats'[p] \in {pats[p], Nothing},
         \A s \in sessions' : Keeps(s.user),
         \A p \in Pats : pats'[p] # Nothing => Keeps(pats[p].user)
  PROVE  IssuedInv'
<1>1. ASSUME NEW s \in sessions' PROVE SessionOK(s)'
  BY <1>1, CredentialStays DEF IssuedInv
<1>2. ASSUME NEW p \in Pats, NEW c, c = pats'[p], c # Nothing PROVE TokenOK(c)'
  BY <1>2, CredentialStays DEF IssuedInv
<1> QED
  BY <1>1, <1>2, TokensNext

\* The user of what was issued is there.
LEMMA IssuedUsers ==
  ASSUME AccountsTypeOK, IssuedInv
  PROVE  /\ \A s \in sessions : s.user \in Users /\ users[s.user] # Nothing
         /\ \A p \in Pats : pats[p] # Nothing => pats[p].user \in Users /\ users[pats[p].user] # Nothing
<1>1. \A p \in Pats : pats[p] # Nothing => pats[p] \in PatRows
  BY Typed
<1>2. \A p \in Pats : pats[p] # Nothing => pats[p].user \in Users
  BY <1>1 DEF PatRows
<1> QED
  BY <1>2, Typed DEF IssuedInv, SessionOK, TokenOK

LEMMA IssuedSame ==
  ASSUME AccountsTypeOK, RequestsFit, IssuedInv, NEW r \in live, StepOK(r), Undisturbed(r),
         users' = users, pats' = pats, sessions' \subseteq sessions
  PROVE  IssuedInv'
<1>1. \A s \in sessions' : Keeps(s.user)
  BY IssuedUsers DEF Keeps
<1>2. \A p \in Pats : pats'[p] # Nothing => Keeps(pats[p].user)
  BY IssuedUsers DEF Keeps
<1> QED
  BY <1>1, <1>2, IssuedStays

LEMMA IssuedWrites ==
  ASSUME AccountsTypeOK, RequestsFit, IssuedInv, NEW r \in live, StepOK(r), Undisturbed(r),
         pats' = pats, sessions' = sessions,
         NEW t \in Users, NEW row, Writes(t, row),
         users[t] # Nothing => row.ver = users[t].ver \/ Revoking(t, {"revoke"})'
  PROVE  IssuedInv'
<1>1. ASSUME NEW u \in Users, users[u] # Nothing PROVE Keeps(u)
  <2>1. users'[u] = IF u = t THEN row ELSE users[u]
    BY Typed DEF Writes
  <2>2. row # Nothing
    BY CredentialsAssumption DEF Writes
  <2> QED
    BY <1>1, <2>1, <2>2 DEF Keeps
<1> QED
  BY <1>1, IssuedUsers, IssuedStays

\* A session or token that is made is of a user who is there, and late if the version is not the one that was read.
LEMMA IssuedSession ==
  ASSUME AccountsTypeOK, RequestsFit, IssuedInv, NEW r \in live, StepOK(r), Undisturbed(r),
         users' = users, pats' = pats, CreateSession(r)
  PROVE  IssuedInv'
<1>1. PICK new : /\ new = [id |-> r.q, user |-> r.user, ver |-> r.ver, late |-> r.ver # users[r.user].ver, expired |-> FALSE,
                           n |-> 1 + Newest]
                 /\ \A s \in sessions' : s \in sessions \/ s = new
  BY DEF CreateSession, Kept
<1>2. new.user = r.user /\ (new.late \/ new.ver = users[new.user].ver)
  BY <1>1
<1>3. SessionOK(new)'
  BY <1>2 DEF CreateSession, SessionOK, Issued
<1>4. ASSUME NEW s \in sessions PROVE SessionOK(s)'
  BY <1>4, IssuedUsers, CredentialStays DEF Keeps, IssuedInv
<1>5. ASSUME NEW p \in Pats, NEW c, c = pats'[p], c # Nothing PROVE TokenOK(c)'
  BY <1>5, IssuedUsers, CredentialStays DEF Keeps, IssuedInv
<1> QED
  BY <1>1, <1>3, <1>4, <1>5, TokensNext

LEMMA IssuedSessions ==
  ASSUME AccountsTypeOK, RequestsFit, IssuedInv, NEW r \in live, StepOK(r), Undisturbed(r), SessionStep(r)
  PROVE  IssuedInv'
<1>1. users' = users /\ pats' = pats
  BY SessionFrame
<1>2. sessions' \subseteq sessions \/ CreateSession(r)
  <2>1. CASE logout(r)
    BY <2>1 DEF logout
  <2>2. CASE delete_session(r)
    BY <2>2 DEF delete_session
  <2>3. CASE delete_expired(r)
    BY <2>3 DEF delete_expired
  <2>4. CASE CreateLoginSession(r)
    BY <2>4 DEF CreateLoginSession
  <2>5. CASE create_oauth_session(r)
    BY <2>5 DEF create_oauth_session
  <2> QED
    BY <2>1, <2>2, <2>3, <2>4, <2>5 DEF SessionStep
<1> QED
  BY <1>1, <1>2, IssuedSame, IssuedSession

\* A new version comes with a request that is about to revoke.
LEMMA RoleWrites ==
  ASSUME AccountsTypeOK, NEW r, Known(r), update_role(r)
  PROVE  \/ users' = users
         \/ \E row : /\ Writes(r.q.target, row) /\ row.role = r.q.role
                     /\ row.ver = users[r.q.target].ver \/ Revoking(r.q.target, {"revoke"})'
                     /\ users[r.q.target] # Nothing
<1>1. r.q.target \in Users /\ r.q.role \in {"admin", "member"} /\ r.at = "write"
  BY DEF update_role, At, Known, AccountRequest, Fit, Carried, Placed, Underway
<1>2. CASE users[r.q.target] = Nothing
  BY <1>2 DEF update_role
<1>3. CASE users[r.q.target] # Nothing
  <2>1. users[r.q.target] \in UserRows
    BY <1>1, <1>3, Typed
  <2>2. PICK ver : ver = IF r.was # r.q.role THEN users[r.q.target].ver + 1 ELSE users[r.q.target].ver
    OBVIOUS
  <2>3. PICK row : row = [users[r.q.target] EXCEPT !.role = r.q.role, !.ver = ver]
    OBVIOUS
  <2>4. users[r.q.target].ver \in Nat /\ ver \in Nat
    BY <2>1, <2>2 DEF UserRows
  <2>5. row \in UserRows /\ row.role = r.q.role /\ row.ver = ver
    BY <1>1, <2>1, <2>3, <2>4 DEF UserRows
  <2>6. users' = [users EXCEPT ![r.q.target] = row]
    BY <1>1, <1>3, <2>2, <2>3, Typed DEF update_role
  <2>7. ASSUME r.was # r.q.role PROVE Revoking(r.q.target, {"revoke"})'
    <3>1. PICK x : x = [r EXCEPT !.at = "revoke", !.then = "password"] /\ x \in live'
      BY <1>3, <2>7 DEF update_role, Acts
    <3>2. x.at = "revoke" /\ x.q = r.q
      BY <3>1 DEF Known, Fit, Shaped, Fields
    <3> QED
      BY <3>1, <3>2 DEF Revoking
  <2> QED
    BY <1>3, <2>2, <2>5, <2>6, <2>7 DEF Writes
<1> QED
  BY <1>2, <1>3

LEMMA PasswordWrites ==
  ASSUME AccountsTypeOK, NEW r, Known(r), reset_password(r)
  PROVE  \/ users' = users
         \/ \E row : /\ Writes(r.q.target, row) /\ row.role = users[r.q.target].role
                     /\ Revoking(r.q.target, {"revoke"})' /\ users[r.q.target] # Nothing
<1>0. r.at = "password" /\ r.at \in Changing /\ r.q.pw # Nothing
  BY DEF reset_password, At, Changing
<1>1. r.q.target \in Users /\ r.q.pw \in Passwords
  BY <1>0 DEF Known, AccountRequest, Fit, Carried, Placed
<1>2. CASE users[r.q.target] = Nothing
  BY <1>2 DEF reset_password
<1>3. CASE users[r.q.target] # Nothing
  <2>1. users[r.q.target] \in UserRows
    BY <1>1, <1>3, Typed
  <2>2. PICK ver : ver = users[r.q.target].ver + 1
    OBVIOUS
  <2>3. PICK row : row = [users[r.q.target] EXCEPT !.pw = r.q.pw, !.ver = ver]
    OBVIOUS
  <2>4. ver \in Nat
    BY <2>1, <2>2 DEF UserRows
  <2>5. row \in UserRows /\ row.role = users[r.q.target].role
    BY <1>1, <2>1, <2>3, <2>4 DEF UserRows
  <2>6. users' = [users EXCEPT ![r.q.target] = row]
    BY <1>1, <1>3, <2>2, <2>3, Typed DEF reset_password
  <2>7. PICK x : x = [r EXCEPT !.at = "revoke", !.then = "end"] /\ x \in live'
    BY <1>3 DEF reset_password, Acts
  <2>8. x.at = "revoke" /\ x.q = r.q
    BY <2>7 DEF Known, Fit, Shaped, Fields
  <2> QED
    BY <1>3, <2>5, <2>6, <2>7, <2>8 DEF Writes, Revoking
<1> QED
  BY <1>2, <1>3

LEMMA IssuedRows ==
  ASSUME AccountsTypeOK, RequestsFit, IssuedInv, NEW r \in live, StepOK(r), Undisturbed(r), UserStep(r)
  PROVE  IssuedInv'
<1>1. sessions' = sessions /\ pats' = pats
  BY UserFrame
<1>2. Known(r)
  BY RequestKnown
<1>3. CASE users' = users
  BY <1>1, <1>3, IssuedSame
<1>4. CASE users' # users /\ (seed_admin_user(r) \/ create_user(r) \/ SwitchTotp(r))
  <2>3. PICK t \in Users : \E row : Writes(t, row) /\ Harmless(t, row)
    BY <1>2, <1>4, UserWrites
  <2>1. PICK row : Writes(t, row) /\ Harmless(t, row)
    BY <2>3
  <2>2. users[t] # Nothing => row.ver = users[t].ver
    BY <2>1 DEF Harmless
  <2> QED
    BY <1>1, <2>1, <2>2, IssuedWrites
<1>5. CASE users' # users /\ (update_role(r) \/ reset_password(r))
  <2>1. r.q.target \in Users
    <3>1. r.at \in {"write", "password"} /\ r.at \in Changing
      BY <1>5, AccountStages DEF Changing
    <3> QED
      BY <1>2, <3>1 DEF Known, Fit, Carried, Placed, AccountRequest
  <2>2. PICK row : Writes(r.q.target, row) /\ (row.ver = users[r.q.target].ver \/ Revoking(r.q.target, {"revoke"})')
    BY <1>2, <1>5, RoleWrites, PasswordWrites
  <2> QED
    BY <1>1, <2>1, <2>2, IssuedWrites
<1> QED
  BY <1>3, <1>4, <1>5 DEF UserStep

LEMMA IssuedRevokes ==
  ASSUME AccountsTypeOK, RequestsFit, IssuedInv, NEW r \in live, StepOK(r), RevokesSessions(r)
  PROVE  IssuedInv'
<1> DEFINE u == r.q.target
<1>1. /\ users' = users /\ pats' = pats /\ torn' = torn /\ r.at = "revoke"
      /\ sessions' = {s \in sessions : s.user # u}
  BY RevokeFrame DEF RevokeStep, RevokesSessions, At, delete_for_user
<1>2. PICK x : x = [r EXCEPT !.at = "tokens"] /\ live' = (live \ {r}) \cup {x}
  BY DEF RevokesSessions, Goto
<1>3. x.q = r.q /\ x.at = "tokens"
  BY <1>2, RequestKnown DEF Known, Fit, Shaped, Fields
<1> HIDE DEF u
<1>4. ASSUME NEW s \in sessions' PROVE SessionOK(s)'
  <2>1. s \in sessions /\ s.user # u
    BY <1>1, <1>4
  <2>2. Revoking(s.user, {"revoke"}) => Revoking(s.user, {"revoke"})'
    BY <1>1, <2>1, RevokingStays DEF u
  <2> QED
    BY <1>1, <2>1, <2>2 DEF IssuedInv, SessionOK
<1>5. ASSUME NEW p \in Pats, NEW c, c = pats'[p], c # Nothing PROVE TokenOK(c)'
  <2>1. TokenOK(c)
    BY <1>1, <1>5 DEF IssuedInv
  <2>2. Revoking(c.user, {"revoke", "tokens"}) => Revoking(c.user, {"revoke", "tokens"})'
    BY <1>1, <1>2, <1>3 DEF Revoking
  <2> QED
    BY <1>1, <2>1, <2>2 DEF TokenOK
<1> QED
  BY <1>4, <1>5, TokensNext

LEMMA IssuedRevokesTokens ==
  ASSUME AccountsTypeOK, RequestsFit, IssuedInv, NEW r \in live, StepOK(r), RevokesTokens(r)
  PROVE  IssuedInv'
<1> DEFINE u == r.q.target
<1>1. users' = users /\ sessions' = sessions /\ torn' = torn /\ r.at = "tokens"
  BY RevokeFrame DEF RevokeStep, RevokesTokens, At
<1>2. pats' = [p \in Pats |-> IF pats[p] # Nothing /\ pats[p].user = u THEN [pats[p] EXCEPT !.revoked = TRUE] ELSE pats[p]]
  BY DEF RevokesTokens, revoke_all_for_user
<1> HIDE DEF u
<1>4. ASSUME NEW s \in sessions' PROVE SessionOK(s)'
  <2>1. SessionOK(s)
    BY <1>1, <1>4 DEF IssuedInv
  <2>2. Revoking(s.user, {"revoke"}) => Revoking(s.user, {"revoke"})'
    BY <1>1, RevokingStays
  <2> QED
    BY <1>1, <2>1, <2>2 DEF SessionOK
<1>5. ASSUME NEW p \in Pats, NEW c, c = pats'[p], c # Nothing PROVE TokenOK(c)'
  <2>1. CASE pats[p] # Nothing /\ pats[p].user = u
    <3>1. c = [pats[p] EXCEPT !.revoked = TRUE]
      BY <1>2, <1>5, <2>1
    <3>2. pats[p] \in PatRows
      BY <2>1, Typed
    <3>3. c.user = pats[p].user /\ c.revoked = TRUE
      BY <3>1, <3>2 DEF PatRows
    <3>4. users[c.user] # Nothing
      BY <2>1, <3>3, IssuedUsers
    <3> QED
      BY <1>1, <3>3, <3>4 DEF TokenOK
  <2>2. CASE ~(pats[p] # Nothing /\ pats[p].user = u)
    <3>1. c = pats[p] /\ c.user # u
      BY <1>2, <1>5, <2>2
    <3>2. TokenOK(c)
      BY <1>5, <3>1 DEF IssuedInv
    <3>3. Revoking(c.user, {"revoke", "tokens"}) => Revoking(c.user, {"revoke", "tokens"})'
      BY <1>1, <3>1, RevokingStays DEF u
    <3> QED
      BY <1>1, <3>2, <3>3 DEF TokenOK
  <2> QED
    BY <2>1, <2>2
<1> QED
  BY <1>4, <1>5, TokensNext

\* One row of the tokens is written.
LEMMA IssuedToken ==
  ASSUME AccountsTypeOK, RequestsFit, IssuedInv, NEW r \in live, StepOK(r), Undisturbed(r), create_pat(r) \/ revoke_pat(r)
  PROVE  IssuedInv'
<1>1. users' = users /\ sessions' = sessions
  BY DEF create_pat, revoke_pat
<1>2. ASSUME NEW s \in sessions' PROVE SessionOK(s)'
  BY <1>1, <1>2, IssuedUsers, CredentialStays DEF Keeps, IssuedInv
<1>3. ASSUME NEW p \in Pats, NEW c, c = pats'[p], c # Nothing PROVE TokenOK(c)'
  <2>1. CASE c = pats[p]
    BY <1>1, <1>3, <2>1, IssuedUsers, CredentialStays DEF Keeps, IssuedInv
  <2>2. CASE c # pats[p] /\ create_pat(r)
    <3>1. /\ users[r.user] # Nothing
          /\ c = [user |-> r.user, servers |-> r.q.pat.servers, admin |-> r.q.pat.admin, scoped |-> r.q.pat.scoped,
                  revoked |-> FALSE, expired |-> FALSE, ver |-> r.ver, late |-> r.ver # users[r.user].ver]
      BY <1>3, <2>2, Typed DEF create_pat
    <3>2. c.user = r.user /\ (c.late \/ c.ver = users[c.user].ver)
      BY <3>1
    <3> QED
      BY <1>1, <3>1, <3>2 DEF TokenOK, Issued
  <2>3. CASE c # pats[p] /\ revoke_pat(r)
    <3>1. pats[p] # Nothing /\ c = [pats[p] EXCEPT !.revoked = TRUE]
      BY <1>3, <2>3, Typed DEF revoke_pat
    <3>2. pats[p] \in PatRows
      BY <3>1, Typed
    <3>3. c.user = pats[p].user /\ c.revoked = TRUE
      BY <3>1, <3>2 DEF PatRows
    <3> QED
      BY <1>1, <3>1, <3>3, IssuedUsers DEF TokenOK
  <2> QED
    BY <2>1, <2>2, <2>3
<1> QED
  BY <1>2, <1>3, TokensNext

LEMMA IssuedExpires ==
  ASSUME AccountsTypeOK, RequestsFit, IssuedInv, NEW r \in live, StepOK(r), Undisturbed(r), Expires(r)
  PROVE  IssuedInv'
<1>1. /\ users' = users
      /\ sessions' = {IF s.id = r.q.target THEN [s EXCEPT !.expired = TRUE] ELSE s : s \in sessions}
      /\ pats' = [p \in Pats |-> IF p = r.q.target /\ pats[p] # Nothing THEN [pats[p] EXCEPT !.expired = TRUE] ELSE pats[p]]
  BY DEF Expires
<1>2. ASSUME NEW s \in sessions, NEW t \in {s, [s EXCEPT !.expired = TRUE]}
      PROVE  t.user = s.user /\ t.ver = s.ver /\ t.late = s.late
  BY SessionTyped DEF SessionRows
<1>3. ASSUME NEW t \in sessions' PROVE SessionOK(t)'
  <2>1. PICK s \in sessions : t \in {s, [s EXCEPT !.expired = TRUE]}
    BY <1>1, <1>3
  <2>2. t.user = s.user /\ t.ver = s.ver /\ t.late = s.late
    BY <1>2, <2>1
  <2>3. SessionOK(s)'
    BY <1>1, IssuedUsers, CredentialStays DEF Keeps, IssuedInv
  <2> QED
    BY <2>2, <2>3 DEF SessionOK, Issued
<1>4. ASSUME NEW p \in Pats, NEW c, c = pats'[p], c # Nothing PROVE TokenOK(c)'
  <2>1. pats[p] # Nothing /\ c \in {pats[p], [pats[p] EXCEPT !.expired = TRUE]}
    BY <1>1, <1>4
  <2>2. pats[p] \in PatRows
    BY <2>1, Typed
  <2>3. c.user = pats[p].user /\ c.ver = pats[p].ver /\ c.late = pats[p].late /\ c.revoked = pats[p].revoked
    BY <2>1, <2>2 DEF PatRows
  <2>4. PICK d : d = pats[p]
    OBVIOUS
  <2>5. TokenOK(d)'
    BY <1>1, <2>1, <2>4, IssuedUsers, CredentialStays DEF Keeps, IssuedInv
  <2> QED
    BY <2>3, <2>4, <2>5 DEF TokenOK, Issued
<1> QED
  BY <1>3, <1>4, TokensNext

LEMMA IssuedErased ==
  ASSUME AccountsTypeOK, RequestsFit, IssuedInv, NEW r \in live, StepOK(r), Undisturbed(r), delete_user(r)
  PROVE  IssuedInv'
<1> DEFINE u == r.q.target
<1>1. /\ users' = [users EXCEPT ![u] = Nothing]
      /\ sessions' = {s \in sessions : s.user # u}
      /\ pats' = [p \in Pats |-> IF pats[p] # Nothing /\ pats[p].user = u THEN Nothing ELSE pats[p]]
  BY DEF delete_user, Cascade
<1> HIDE DEF u
<1>2. ASSUME NEW v \in Users, users[v] # Nothing, v # u PROVE Keeps(v)
  BY <1>1, <1>2, Typed DEF Keeps
<1>3. \A s \in sessions' : Keeps(s.user)
  BY <1>1, <1>2, IssuedUsers
<1>4. \A p \in Pats : pats'[p] # Nothing => Keeps(pats[p].user)
  BY <1>1, <1>2, IssuedUsers
<1> QED
  BY <1>1, <1>3, <1>4, IssuedStays

LEMMA IssuedNext ==
  ASSUME AccountsTypeOK, RequestsFit, IssuedInv, NEW r \in live, Step(r), StepOK(r)
  PROVE  IssuedInv'
<1>1. CASE Dropped(r)
  <2>1. users' = users /\ sessions' = sessions /\ pats' = pats
    BY <1>1, OtherFrame
  <2>2. Undisturbed(r)
    BY <1>1 DEF Undisturbed, Dropped, Unfinished
  <2> QED
    BY <2>1, <2>2, IssuedSame
<1>2. CASE ~Dropped(r) /\ r.at \in {"revoke", "tokens"}
  <2>1. RevokesSessions(r) \/ RevokesTokens(r)
    BY <1>2, Owes DEF OnlyStep, Owing
  <2> QED
    BY <2>1, IssuedRevokes, IssuedRevokesTokens
<1>3. CASE ~Dropped(r) /\ r.at \notin {"revoke", "tokens"}
  <2>1. torn \subseteq torn'
    <3>1. BanStep(r) => torn \subseteq torn'
      BY DEF BanStep, record_waf_event, upsert_waf_ban, create_waf_bans, delete_waf_ban
    <3> QED
      BY <1>3, <3>1, Kinds, ReadsFrame, TotpFrame, TableFrame, OtherFrame
  <2>2. Undisturbed(r)
    BY <1>3, <2>1 DEF Undisturbed
  <2>3. CASE ~TableStep(r)
    <3>1. users' = users /\ sessions' = sessions /\ pats' = pats
      BY <2>3, Kinds, ReadsFrame, TotpFrame, BanFrame, OtherFrame
    <3> QED
      BY <2>2, <3>1, IssuedSame
  <2>4. CASE LinkStep(r)
    BY <2>2, <2>4, LinkFrame, IssuedSame
  <2>5. CASE RevokeStep(r)
    <3>1. create_pat(r) \/ revoke_pat(r)
      BY <1>3, <2>5, AccountStages DEF RevokeStep
    <3> QED
      BY <2>2, <3>1, IssuedToken
  <2> QED
    BY <2>2, <2>3, <2>4, <2>5, IssuedSessions, IssuedRows, IssuedExpires, IssuedErased DEF TableStep
<1> QED
  BY <1>1, <1>2, <1>3

-----------------------------------------------------------------------------
(* The last administrator. *)

Stays(v) == Role(v) = "admin" => Role(v)' = "admin"

\* Who is about to take a role in the next state was about to, or has just counted.
LEMMA TakingNext ==
  ASSUME RequestsFit, NEW r \in live, StepOK(r), r.at # "admins"
  PROVE  \A y \in live' : Taking(y) => \/ y \in live /\ y # r
                                       \/ Taking(r) /\ y.q = r.q
  BY LiveNext DEF Becomes

\* A step that takes the role from nobody.
LEMMA AdminsQuiet ==
  ASSUME RequestsFit, AdminsInv, NEW r \in live, StepOK(r), torn \subseteq torn', r.at # "admins",
         \A v \in Users : Stays(v)
  PROVE  AdminsInv'
<1> SUFFICES ASSUME "admins" \notin torn'
             PROVE  /\ \E u \in Users : Role(u)' = "admin"
                    /\ \A y, z \in live' : Taking(y) /\ Taking(z) => y = z
                    /\ \A y \in live' : Taking(y) => \E u \in Users \ {y.q.target} : Role(u)' = "admin"
  BY DEF AdminsInv, Another
<1>1. "admins" \notin torn
  OBVIOUS
<1>2. \E u \in Users : Role(u)' = "admin"
  BY <1>1 DEF AdminsInv, Stays
<1>3. ASSUME NEW y \in live', NEW z \in live', Taking(y), Taking(z) PROVE y = z
  <2>1. (y \in live /\ y # r) \/ (Taking(r) /\ y.q = r.q)
    BY <1>3, TakingNext
  <2>2. (z \in live /\ z # r) \/ (Taking(r) /\ z.q = r.q)
    BY <1>3, TakingNext
  <2>3. y.q = z.q
    BY <1>1, <1>3, <2>1, <2>2 DEF AdminsInv
  <2> QED
    BY <2>3, LiveNext DEF Asked
<1>4. ASSUME NEW y \in live', Taking(y) PROVE \E u \in Users \ {y.q.target} : Role(u)' = "admin"
  <2>1. (y \in live /\ y # r) \/ (Taking(r) /\ y.q = r.q)
    BY <1>4, TakingNext
  <2>2. \E u \in Users \ {y.q.target} : Role(u) = "admin"
    BY <1>1, <1>4, <2>1 DEF AdminsInv, Another
  <2> QED
    BY <2>2 DEF Stays
<1> QED
  BY <1>2, <1>3, <1>4

\* The request that has counted takes the role: another administrator is there.
LEMMA AdminsTaken ==
  ASSUME RequestsFit, AdminsInv, NEW r \in live, StepOK(r), torn \subseteq torn', Taking(r),
         \A v \in Users \ {r.q.target} : Stays(v),
         \A y \in live' : y.q = r.q => ~Taking(y)
  PROVE  AdminsInv'
<1> SUFFICES ASSUME "admins" \notin torn'
             PROVE  /\ \E u \in Users : Role(u)' = "admin"
                    /\ \A y \in live' : ~Taking(y)
  BY DEF AdminsInv
<1>1. "admins" \notin torn
  OBVIOUS
<1>2. \E u \in Users : Role(u)' = "admin"
  BY <1>1 DEF AdminsInv, Another, Stays
<1>3. ASSUME NEW y \in live', Taking(y) PROVE FALSE
  <2>1. y \in live /\ y # r
    BY <1>3, TakingNext DEF Taking
  <2> QED
    BY <1>1, <1>3, <2>1 DEF AdminsInv
<1> QED
  BY <1>2, <1>3

LEMMA CountFinds ==
  ASSUME NEW t, NEW r, count_admins(r)
  PROVE  Another(t)
<1> SUFFICES ASSUME ~Another(t) PROVE FALSE
  OBVIOUS
<1> DEFINE A == {u \in Users : Role(u) = "admin"}
<1>1. A = {} \/ A = {t}
  BY DEF Another
<1>2. Cardinality({}) = 0 /\ Cardinality({t}) = 1
  BY FS_EmptySet, FS_Singleton
<1>3. Cardinality(A) > 1
  BY DEF count_admins
<1> HIDE DEF A
<1> QED
  BY <1>1, <1>2, <1>3

LEMMA AdminsCounted ==
  ASSUME AccountsTypeOK, RequestsFit, AdminsInv, NEW r \in live, StepOK(r), CountsAdmins(r)
  PROVE  AdminsInv'
<1>1. users' = users
  BY OtherFrame
<1>2. \A v : Role(v)' = Role(v)
  BY <1>1 DEF Role
<1> SUFFICES ASSUME "admins" \notin torn'
             PROVE  /\ \E u \in Users : Role(u) = "admin"
                    /\ \A y, z \in live' : Taking(y) /\ Taking(z) => y = z
                    /\ \A y \in live' : Taking(y) => Another(y.q.target)
  BY <1>2 DEF AdminsInv, Another
<1>3. "admins" \notin torn /\ \A y \in live : ~Counted(y)
  BY DEF CountsAdmins
<1>4. \A y \in live : ~Taking(y)
  BY <1>3 DEF Counted, Taking
<1>5. ASSUME NEW y \in live', Taking(y) PROVE y.q = r.q /\ count_admins(r)
  <2>1. Becomes(r, y) /\ y \notin live
    BY <1>4, <1>5, LiveNext
  <2>2. count_admins(r)
    BY <1>5, <2>1 DEF CountsAdmins, Ends
  <2> QED
    BY <2>1, <2>2 DEF Becomes
<1>6. \A y, z \in live' : Taking(y) /\ Taking(z) => y = z
  BY <1>5, LiveNext DEF Asked
<1>7. \A y \in live' : Taking(y) => Another(y.q.target)
  BY <1>5, CountFinds
<1> QED
  BY <1>3, <1>6, <1>7 DEF AdminsInv

LEMMA WriteKeepsAdmins ==
  ASSUME AccountsTypeOK, NEW t \in Users, NEW row, Writes(t, row), NEW v \in Users,
         v # t \/ row.role = "admin" \/ Role(t) # "admin"
  PROVE  Stays(v)
<1>1. users'[v] = IF v = t THEN row ELSE users[v]
  BY Typed DEF Writes
<1>2. row # Nothing
  BY CredentialsAssumption DEF Writes
<1> QED
  BY <1>1, <1>2 DEF Stays, Role

LEMMA AdminsUpdated ==
  ASSUME AccountsTypeOK, RequestsFit, AdminsInv, NEW r \in live, StepOK(r), update_role(r)
  PROVE  AdminsInv'
<1>1. Known(r) /\ r.at = "write" /\ r.q.op = "update" /\ r.q.target \in Users /\ r.q.role \in {"admin", "member"}
  BY RequestKnown DEF update_role, At, Known, Fit, Carried, Placed, Underway, AccountRequest
<1>2. torn \subseteq torn' /\ (Role(r.q.target) # r.was => "admins" \in torn')
  BY DEF update_role
<1>3. CASE users' = users
  BY <1>1, <1>2, <1>3, AdminsQuiet DEF Stays, Role
<1>4. CASE users' # users
  <2>1. PICK row : Writes(r.q.target, row) /\ row.role = r.q.role /\ users[r.q.target] # Nothing
    BY <1>1, <1>4, RoleWrites
  <2>2. \A v \in Users \ {r.q.target} : Stays(v)
    BY <1>1, <2>1, WriteKeepsAdmins
  <2>3. CASE r.q.role = "admin" \/ Role(r.q.target) # "admin"
    <3>1. \A v \in Users : Stays(v)
      BY <1>1, <2>1, <2>3, WriteKeepsAdmins
    <3> QED
      BY <1>1, <1>2, <3>1, AdminsQuiet
  <2>4. CASE r.q.role = "member" /\ Role(r.q.target) = "admin" /\ r.was = "admin"
    <3>1. Taking(r)
      BY <1>1, <2>4 DEF Known, Fit, Carried, Underway, Taking
    <3>2. ASSUME NEW y \in live', y.q = r.q PROVE ~Taking(y)
      <4>1. PICK x : x = [r EXCEPT !.at = "revoke", !.then = "password"] /\ live' = (live \ {r}) \cup {x}
        BY <2>1, <2>4 DEF update_role, Acts
      <4>2. x.q = r.q /\ x.at = "revoke"
        BY <4>1, RequestKnown DEF Known, Fit, Shaped, Fields
      <4>3. y = x
        BY <3>2, <4>1 DEF RequestsFit, Asked
      <4> QED
        BY <1>1, <4>2, <4>3 DEF Taking
    <3> QED
      BY <1>2, <2>2, <3>1, <3>2, AdminsTaken
  <2>5. CASE r.was # Role(r.q.target)
    BY <1>2, <2>5 DEF AdminsInv
  <2> QED
    BY <1>1, <2>3, <2>4, <2>5
<1> QED
  BY <1>3, <1>4

LEMMA AdminsErased ==
  ASSUME AccountsTypeOK, RequestsFit, AdminsInv, NEW r \in live, StepOK(r), delete_user(r)
  PROVE  AdminsInv'
<1>1. Known(r) /\ r.at = "erase" /\ r.q.op = "delete"
  BY RequestKnown DEF delete_user, At, Known, Fit, Carried, Placed
<1>2. torn \subseteq torn' /\ (Role(r.q.target) # r.was => "admins" \in torn')
  BY DEF delete_user
<1>3. users' = [users EXCEPT ![r.q.target] = Nothing] /\ live' = live \ {r}
  BY DEF delete_user, Acts
<1>4. \A v \in Users \ {r.q.target} : Stays(v)
  BY <1>3, Typed DEF Stays, Role
<1>5. CASE Role(r.q.target) # "admin"
  <2>1. \A v \in Users : Stays(v)
    BY <1>4, <1>5 DEF Stays
  <2> QED
    BY <1>1, <1>2, <2>1, AdminsQuiet
<1>6. CASE Role(r.q.target) = "admin" /\ r.was = "admin"
  <2>1. Taking(r)
    BY <1>1, <1>6 DEF Known, Fit, Carried, Underway, Taking
  <2>2. \A y \in live' : y.q # r.q
    BY <1>3 DEF RequestsFit, Asked
  <2> QED
    BY <1>2, <1>4, <2>1, <2>2, AdminsTaken
<1>7. CASE r.was # Role(r.q.target)
  BY <1>2, <1>7 DEF AdminsInv
<1> QED
  BY <1>5, <1>6, <1>7

LEMMA AdminsNext ==
  ASSUME AccountsTypeOK, RequestsFit, AdminsInv, NEW r \in live, Step(r), StepOK(r)
  PROVE  AdminsInv'
<1>1. Known(r)
  BY RequestKnown
<1>2. torn \subseteq torn'
  <2>1. BanStep(r) => torn \subseteq torn'
    BY DEF BanStep, record_waf_event, upsert_waf_ban, create_waf_bans, delete_waf_ban
  <2> QED
    BY <2>1, Kinds, ReadsFrame, TotpFrame, TableFrame, OtherFrame
<1>3. CASE r.at = "admins"
  <2>1. CountsAdmins(r) \/ Dropped(r)
    BY <1>3, Owes DEF OnlyStep, Owing
  <2>2. CASE Dropped(r)
    <3>1. users' = users /\ live' = live \ {r}
      BY <2>2, OtherFrame DEF Dropped, Ends
    <3>2. \A v : Role(v)' = Role(v)
      BY <3>1 DEF Role
    <3> QED
      BY <1>2, <3>1, <3>2 DEF AdminsInv, Another
  <2> QED
    BY <2>1, <2>2, AdminsCounted
<1>4. CASE r.at # "admins" /\ users' = users
  BY <1>2, <1>4, AdminsQuiet DEF Stays, Role
<1>5. CASE r.at # "admins" /\ users' # users
  <2>1. UserStep(r) \/ delete_user(r)
    <3>1. Expires(r) => users' = users
      BY DEF Expires
    <3> QED
      BY <1>5, <3>1, Kinds, ReadsFrame, TotpFrame, BanFrame, OtherFrame, SessionFrame, RevokeFrame, LinkFrame DEF TableStep
  <2>2. CASE seed_admin_user(r) \/ create_user(r) \/ SwitchTotp(r)
    <3>1. PICK t \in Users : \E row : Writes(t, row) /\ Harmless(t, row)
      BY <1>1, <1>5, <2>2, UserWrites
    <3>2. PICK row : Writes(t, row) /\ Harmless(t, row)
      BY <3>1
    <3>3. row.role = "admin" \/ Role(t) # "admin"
      BY <3>2, RoleOf DEF Harmless
    <3>4. \A v \in Users : Stays(v)
      BY <3>2, <3>3, WriteKeepsAdmins
    <3> QED
      BY <1>2, <1>5, <3>4, AdminsQuiet
  <2>3. CASE reset_password(r)
    <3>1. r.at = "password" /\ r.at \in Changing
      BY <2>3, AccountStages DEF Changing
    <3>2. r.q.target \in Users
      BY <1>1, <3>1 DEF Known, Fit, Carried, Placed, AccountRequest
    <3>3. PICK row : Writes(r.q.target, row) /\ row.role = users[r.q.target].role /\ users[r.q.target] # Nothing
      BY <1>1, <1>5, <2>3, PasswordWrites
    <3>4. row.role = "admin" \/ Role(r.q.target) # "admin"
      BY <3>2, <3>3, RoleOf
    <3>5. \A v \in Users : Stays(v)
      BY <3>2, <3>3, <3>4, WriteKeepsAdmins
    <3> QED
      BY <1>2, <1>5, <3>5, AdminsQuiet
  <2> QED
    BY <2>1, <2>2, <2>3, AdminsUpdated, AdminsErased DEF UserStep
<1> QED
  BY <1>3, <1>4, <1>5

-----------------------------------------------------------------------------
(* Flows of a provider. *)

LEMMA FlowKinds ==
  ASSUME NEW r, Known(r), Step(r)
  PROVE  \/ UNCHANGED oauth
         \/ \E u \in Users \cup {Nothing} : oauth_start_response(r, u)
         \/ Returning(r) /\ oauth_redirect_with_state_cookie_clear(r)
<1>1. CASE start_oauth_login(r)
  BY <1>1 DEF start_oauth_login
<1>2. CASE start_oauth_bind(r)
  <2>1. r.user \in Users
    BY <1>2 DEF start_oauth_bind, Runs, At, Known, Fit, Carried, Read, KnowsUser, Signed
  <2> QED
    BY <1>2, <2>1 DEF start_oauth_bind
<1>3. CASE bind_oauth_account(r)
  BY <1>3 DEF bind_oauth_account, At, Returning, Returned, oauth
<1>4. CASE create_oauth_session(r)
  BY <1>4 DEF create_oauth_session, At, Returning, oauth
<1>5. CASE \/ list_oauth_bindings(r) \/ oauth_callback(r) \/ cookie_session_user_id(r)
           \/ exchange_code(r) \/ find_bound_user(r) \/ OAuthUser(r)
  BY <1>5, Zenon DEF list_oauth_bindings, oauth_callback, cookie_session_user_id, exchange_code, find_bound_user, OAuthUser
<1> QED
  BY <1>1, <1>2, <1>3, <1>4, <1>5 DEF Step, OAuthStep

LEMMA FlowsNext ==
  ASSUME RequestsFit, FlowsInv, NEW r \in live, Step(r), StepOK(r)
  PROVE  FlowsInv'
<1>0. Known(r)
  BY RequestKnown
<1>1. r.q.browser \in Browsers
  BY <1>0 DEF Known
<1>2. ASSUME flows \subseteq flows', NEW y \in live', Returning(y) PROVE y.was \in flows'
  <2>1. y \in live \/ Becomes(r, y)
    BY <1>2, LiveNext
  <2> QED
    BY <1>2, <2>1 DEF Becomes, FlowsInv
<1>3. CASE UNCHANGED oauth
  <2>1. UNCHANGED <<flows, jar, ended>>
    BY <1>3 DEF oauth
  <2> QED
    BY <1>2, <2>1 DEF FlowsInv, FlowEndsWhereItBegan
<1>4. ASSUME NEW u \in Users \cup {Nothing}, oauth_start_response(r, u) PROVE FlowsInv'
  <2>1. PICK f : /\ f = [id |-> r.q, user |-> u, browser |-> r.q.browser, exp |-> now + StateTtl]
                 /\ flows' = flows \cup {f} /\ jar' = [jar EXCEPT ![r.q.browser] = f] /\ ended' = ended
    BY <1>4 DEF oauth_start_response
  <2>2. f.user = u /\ f.browser = r.q.browser
    BY <2>1
  <2>3. \A g \in flows' : g.user \in Users \cup {Nothing} /\ g.browser \in Browsers
    BY <1>1, <2>1, <2>2 DEF FlowsInv
  <2>4. jar' \in [Browsers -> flows' \cup {Nothing}] /\ \A b \in Browsers : jar'[b] # Nothing => jar'[b].browser = b
    BY <1>1, <2>1, <2>2 DEF FlowsInv
  <2> QED
    BY <1>2, <2>1, <2>3, <2>4 DEF FlowsInv, FlowEndsWhereItBegan
<1>5. CASE Returning(r) /\ oauth_redirect_with_state_cookie_clear(r)
  <2>1. r.was \in flows /\ r.was.browser = r.q.browser
    BY <1>0, <1>5 DEF FlowsInv, Known, Fit, Carried, Read
  <2>2. /\ jar' = [jar EXCEPT ![r.q.browser] = Nothing] /\ flows' = flows
        /\ ended' = ended \cup {<<r.was, r.q.browser>>}
    BY <1>5 DEF oauth_redirect_with_state_cookie_clear
  <2>3. jar' \in [Browsers -> flows' \cup {Nothing}] /\ \A b \in Browsers : jar'[b] # Nothing => jar'[b].browser = b
    BY <1>1, <2>2 DEF FlowsInv
  <2>4. ended' \subseteq flows' \X Browsers /\ \A x \in ended' : x[1].browser = x[2]
    BY <1>1, <2>1, <2>2 DEF FlowsInv, FlowEndsWhereItBegan
  <2> QED
    BY <1>2, <2>2, <2>3, <2>4 DEF FlowsInv, FlowEndsWhereItBegan
<1> QED
  BY <1>0, <1>3, <1>4, <1>5, FlowKinds

LEMMA CookieNext ==
  ASSUME AccountsInv, NEW b \in Browsers, CookieGoes(b)
  PROVE  UNCHANGED vars /\ FlowsInv'
<1>1. jar' = [jar EXCEPT ![b] = Nothing] /\ flows' = flows /\ ended' = ended /\ live' = live /\ UNCHANGED vars
  BY DEF CookieGoes, vars
<1> QED
  BY <1>1 DEF AccountsInv, FlowsInv, FlowEndsWhereItBegan

LEMMA VarsStay ==
  ASSUME UNCHANGED vars, AccountsInv, FlowsInv'
  PROVE  AccountsInv'
<1>1. UNCHANGED <<users, sessions, pats, bound, owner, used, refused, failed, bans, lock, now, live, faults, acted, torn, ever>>
  BY DEF vars, tables, waf
<1>2. AccountsTypeOK'
  BY <1>1 DEF AccountsInv, AccountsTypeOK
<1>3. (\A v : Role(v)' = Role(v)) /\ (\A q : Facts(q)' = Facts(q))
  BY <1>1 DEF Role, Facts
<1>4. RequestsFit' /\ ActsWithAuthority'
  BY <1>1, <1>3 DEF AccountsInv, RequestsFit, Asked, ActsWithAuthority
<1>5. CodesInv'
  BY <1>1 DEF AccountsInv, CodesInv, is_totp_step_replayed, CodeIsUsedOnce, GuessesAreBounded
<1>6. BansInv'
  BY <1>1 DEF AccountsInv, BansInv
<1>7. IssuedInv'
  BY <1>1 DEF AccountsInv, IssuedInv, SessionOK, TokenOK, Revoking
<1>8. AdminsInv'
  BY <1>1, <1>3 DEF AccountsInv, AdminsInv, Another
<1> QED
  BY <1>2, <1>4, <1>5, <1>6, <1>7, <1>8 DEF AccountsInv

-----------------------------------------------------------------------------
(* The sessions of a user: numbered in the order they were made, and no more than the limit. *)

Numbered(K) == \A s \in K : s.n \in Nat

LEMMA OldestSession ==
  ASSUME NEW K, K # {}, Numbered(K)
  PROVE  \E m \in K : \A y \in K : m.n <= y.n
<1> DEFINE Below == {ss \in Nat \X Nat : ss[1] < ss[2]}
           N == {s.n : s \in K}
<1>1. IsWellFoundedOn(Below, Nat)
  BY NatLessThanWellFounded DEF OpToRel
<1>2. N # {} /\ N \subseteq Nat
  BY DEF Numbered
<1>3. PICK x \in N : \A y \in N : ~(<<y, x>> \in Below)
  <2> HIDE DEF Below, N
  <2> QED
    BY <1>1, <1>2, WFMin
<1>4. PICK m \in K : m.n = x
  BY <1>3
<1>5. ASSUME NEW y \in K PROVE m.n <= y.n
  <2>1. y.n \in N /\ y.n \in Nat /\ m.n \in Nat
    BY <1>5 DEF Numbered
  <2>2. ~(<<y.n, m.n>> \in Below)
    BY <1>3, <1>4, <2>1
  <2>3. ~(y.n < m.n)
    BY <2>1, <2>2
  <2> QED
    BY <2>1, <2>3
<1> QED
  BY <1>5

\* Of the sets of sessions above a number, one has no smaller one inside.
LEMMA NewestSession ==
  ASSUME NEW K, IsFiniteSet(K), Numbered(K)
  PROVE  \E n \in {0} \cup {s.n : s \in K} : \A s \in K : s.n <= n
<1> DEFINE N == {0} \cup {s.n : s \in K}
           Above(n) == {s \in K : s.n > n}
           T == {Above(n) : n \in N}
<1>1. IsWellFoundedOn(StrictSubsetOrdering(K), SUBSET K)
  BY FS_StrictSubsetOrderingWellFounded, FS_FiniteSubsetsOfFinite
<1>2. T \subseteq SUBSET K /\ T # {}
  OBVIOUS
<1>3. PICK X \in T : \A Y \in T : ~(<<Y, X>> \in StrictSubsetOrdering(K))
  <2> HIDE DEF T
  <2> QED
    BY <1>1, <1>2, WFMin
<1>4. PICK n \in N : X = Above(n)
  BY <1>3
<1>5. N \subseteq Nat
  BY DEF Numbered
<1>6. ASSUME NEW s \in K PROVE s.n <= n
  <2>1. s.n \in Nat /\ n \in Nat /\ s.n \in N
    BY <1>5, <1>6 DEF Numbered
  <2>2. SUFFICES ASSUME s.n > n PROVE FALSE
    BY <2>1
  <2>3. Above(s.n) \in T /\ s \in Above(n) /\ s \notin Above(s.n)
    BY <1>6, <2>1, <2>2
  <2>4. Above(s.n) \subseteq Above(n)
    BY <1>6, <2>1, <2>2 DEF Numbered
  <2>5. <<Above(s.n), X>> \in StrictSubsetOrdering(K)
    BY <1>4, <2>3, <2>4 DEF StrictSubsetOrdering
  <2> QED
    BY <1>3, <2>3, <2>5
<1> QED
  BY <1>6

\* Of those that have fewer than k others above them there are no more than k.
LEMMA KeptBound ==
  ASSUME NEW own, IsFiniteSet(own), Numbered(own), \A s, t \in own : s.n = t.n => s = t, NEW k \in Nat,
         NEW K, K = {s \in own : Cardinality({x \in own : x.n > s.n}) < k}
  PROVE  IsFiniteSet(K) /\ Cardinality(K) <= k
<1>1. K \subseteq own /\ IsFiniteSet(K) /\ Cardinality(K) \in Nat
  BY FS_Subset, FS_CardinalityType
<1>2. CASE K = {}
  <2>1. Cardinality(K) = 0
    BY <1>2, FS_EmptySet, Zenon
  <2> QED
    BY <1>1, <2>1
<1>3. CASE K # {}
  <2>1. PICK m \in K : \A y \in K : m.n <= y.n
    BY <1>1, <1>3, OldestSession DEF Numbered
  <2>2. PICK A : A = {x \in own : x.n > m.n}
    OBVIOUS
  <2>3. IsFiniteSet(A) /\ Cardinality(A) \in Nat /\ Cardinality(A) < k
    <3>1. A \in SUBSET own
      BY <2>2
    <3> QED
      BY <2>1, <2>2, <3>1, FS_Subset, FS_CardinalityType
  <2>4. K \ {m} \in SUBSET A
    <3>1. ASSUME NEW y \in K, y # m PROVE y.n > m.n /\ y \in own
      <4>1. y \in own /\ m \in own /\ y.n \in Nat /\ m.n \in Nat
        BY <1>1, <3>1 DEF Numbered
      <4> QED
        BY <2>1, <3>1, <4>1
    <3> QED
      BY <2>2, <3>1
  <2>5. Cardinality(K \ {m}) = Cardinality(K) - 1
    BY <1>1, <2>1, FS_RemoveElement
  <2>6. Cardinality(K \ {m}) <= Cardinality(A)
    BY <2>3, <2>4, FS_Subset
  <2> QED
    BY <1>1, <2>3, <2>5, <2>6
<1> QED
  BY <1>2, <1>3

\* What TablesOK says of sessions.
SessionsOK(ss) ==
    /\ \A s \in ss : s \in SessionRows({s.id})
    /\ IsFiniteSet(ss) /\ \A s, t \in ss : s.n = t.n => s = t
    /\ \A u \in Users : Cardinality({s \in ss : s.user = u /\ ~s.expired}) <= MaxSessions

LEMMA SessionsTyped ==
  ASSUME AccountsTypeOK
  PROVE  SessionsOK(sessions)
  BY DEF AccountsTypeOK, TablesOK, SessionsOK

LEMMA FewerSessions ==
  ASSUME SessionsOK(sessions), NEW ss, ss \subseteq sessions
  PROVE  SessionsOK(ss)
<1>1. IsFiniteSet(ss)
  BY FS_Subset DEF SessionsOK
<1>2. ASSUME NEW u \in Users PROVE Cardinality({s \in ss : s.user = u /\ ~s.expired}) <= MaxSessions
  <2> DEFINE A == {s \in ss : s.user = u /\ ~s.expired}
             B == {s \in sessions : s.user = u /\ ~s.expired}
  <2>1. A \in SUBSET B /\ B \in SUBSET sessions
    OBVIOUS
  <2>2. IsFiniteSet(B) /\ Cardinality(B) <= MaxSessions /\ IsFiniteSet(sessions)
    BY <1>2, <2>1, FS_Subset DEF SessionsOK
  <2> HIDE DEF A, B
  <2>3. Cardinality(A) <= Cardinality(B) /\ Cardinality(A) \in Nat /\ Cardinality(B) \in Nat
    BY <2>1, <2>2, FS_Subset, FS_CardinalityType
  <2>4. Cardinality(A) <= MaxSessions
    BY <2>2, <2>3, CredentialsAssumption
  <2> QED
    BY <2>4 DEF A
<1> QED
  BY <1>1, <1>2 DEF SessionsOK

LEMMA ExpiredSessions ==
  ASSUME SessionsOK(sessions), NEW target
  PROVE  SessionsOK({IF s.id = target THEN [s EXCEPT !.expired = TRUE] ELSE s : s \in sessions})
<1> DEFINE E(s) == IF s.id = target THEN [s EXCEPT !.expired = TRUE] ELSE s
           ss == {E(s) : s \in sessions}
<1>1. ASSUME NEW s \in sessions
      PROVE  /\ E(s) \in SessionRows({E(s).id}) /\ E(s).n = s.n /\ E(s).user = s.user
             /\ ~E(s).expired => E(s) = s
  <2>1. s \in SessionRows({s.id})
    BY DEF SessionsOK
  <2> QED
    BY <2>1 DEF SessionRows
<1>2. IsFiniteSet(ss)
  <2>1. PICK f : f = [s \in sessions |-> E(s)]
    OBVIOUS
  <2>2. f \in Surjection(sessions, ss)
    BY <2>1 DEF Surjection
  <2> HIDE DEF ss
  <2> QED
    BY <2>2, FS_Surjection DEF SessionsOK
<1>3. ASSUME NEW u \in Users PROVE Cardinality({s \in ss : s.user = u /\ ~s.expired}) <= MaxSessions
  <2> DEFINE A == {s \in ss : s.user = u /\ ~s.expired}
             B == {s \in sessions : s.user = u /\ ~s.expired}
  <2>1. A \in SUBSET B
    BY <1>1
  <2>2. B \in SUBSET sessions
    OBVIOUS
  <2>3. IsFiniteSet(B) /\ Cardinality(B) <= MaxSessions
    BY <1>3, <2>2, FS_Subset DEF SessionsOK
  <2> HIDE DEF A, B
  <2>4. Cardinality(A) <= Cardinality(B) /\ Cardinality(A) \in Nat /\ Cardinality(B) \in Nat
    BY <2>1, <2>3, FS_Subset, FS_CardinalityType
  <2>5. Cardinality(A) <= MaxSessions
    BY <2>3, <2>4, CredentialsAssumption
  <2> QED
    BY <2>5 DEF A
<1>4. \A s \in ss : s \in SessionRows({s.id})
  BY <1>1
<1>5. \A s, t \in ss : s.n = t.n => s = t
  <2>1. \A s, t \in sessions : E(s).n = E(t).n => s = t
    BY <1>1 DEF SessionsOK
  <2> HIDE DEF E
  <2> QED
    BY <2>1
<1> QED
  BY <1>2, <1>3, <1>4, <1>5 DEF SessionsOK

LEMMA AtMostOneMore ==
  ASSUME NEW K, IsFiniteSet(K), NEW x
  PROVE  IsFiniteSet(K \cup {x}) /\ Cardinality(K \cup {x}) <= Cardinality(K) + 1
<1>1. IsFiniteSet(K \cup {x}) /\ Cardinality(K \cup {x}) = IF x \in K THEN Cardinality(K) ELSE Cardinality(K) + 1
  BY FS_AddElement
<1>2. Cardinality(K) \in Nat
  BY FS_CardinalityType
<1> QED
  BY <1>1, <1>2

\* The new session is the newest, and what is kept leaves room for it.
LEMMA OneMoreSession ==
  ASSUME SessionsOK(sessions), NEW u \in Users, NEW ss, NEW new,
         ss = {s \in sessions : s.user # u /\ ~s.expired} \cup Kept(u) \cup {new},
         new \in SessionRows({new.id}), new.user = u, new.n = 1 + Newest
  PROVE  SessionsOK(ss)
<1> DEFINE own == {s \in sessions : s.user = u /\ ~s.expired}
           old == {s \in sessions : s.user # u /\ ~s.expired} \cup Kept(u)
<1>1. Kept(u) = {s \in own : Cardinality({x \in own : x.n > s.n}) < MaxSessions - 1}
  BY DEF Kept
<1>2. Kept(u) \subseteq own /\ own \in SUBSET sessions /\ old \subseteq sessions
  BY <1>1
<1>3. Numbered(sessions) /\ IsFiniteSet(sessions)
  BY DEF Numbered, SessionsOK, SessionRows
<1>4. IsFiniteSet(Kept(u)) /\ Cardinality(Kept(u)) <= MaxSessions - 1 /\ Cardinality(Kept(u)) \in Nat
  <2>1. IsFiniteSet(own)
    BY <1>2, <1>3, FS_Subset
  <2>2. Numbered(own) /\ \A s, t \in own : s.n = t.n => s = t
    BY <1>2, <1>3 DEF Numbered, SessionsOK
  <2>3. MaxSessions - 1 \in Nat
    BY CredentialsAssumption
  <2> HIDE DEF own
  <2>4. IsFiniteSet(Kept(u)) /\ Cardinality(Kept(u)) <= MaxSessions - 1
    BY <1>1, <2>1, <2>2, <2>3, KeptBound
  <2> QED
    BY <2>4, FS_CardinalityType
<1>5. Newest \in Nat /\ \A s \in sessions : s.n <= Newest
  <2>1. \E n \in {0} \cup {s.n : s \in sessions} : \A s \in sessions : s.n <= n
    BY <1>3, NewestSession
  <2>2. Newest \in {0} \cup {s.n : s \in sessions} /\ \A s \in sessions : s.n <= Newest
    BY <2>1 DEF Newest
  <2> QED
    BY <1>3, <2>2 DEF Numbered
<1> HIDE DEF own
<1>6. SessionsOK(old) /\ ss = old \cup {new}
  BY <1>2, FewerSessions
<1>7. IsFiniteSet(ss)
  BY <1>6, FS_AddElement DEF SessionsOK
<1>8. \A s, t \in ss : s.n = t.n => s = t
  <2>1. \A s \in old : s.n \in Nat /\ s.n < new.n
    BY <1>2, <1>3, <1>5 DEF Numbered
  <2> HIDE DEF old
  <2> QED
    BY <1>6, <2>1 DEF SessionsOK
<1>9. ASSUME NEW v \in Users PROVE Cardinality({s \in ss : s.user = v /\ ~s.expired}) <= MaxSessions
  <2> DEFINE A == {s \in ss : s.user = v /\ ~s.expired}
  <2>1. CASE v = u
    <3>1. \A s \in old : s.user = u => s \in Kept(u)
      OBVIOUS
    <3>2. A \in SUBSET (Kept(u) \cup {new})
      BY <1>6, <2>1, <3>1
    <3>3. IsFiniteSet(Kept(u) \cup {new}) /\ Cardinality(Kept(u) \cup {new}) <= Cardinality(Kept(u)) + 1
      BY <1>4, AtMostOneMore
    <3> HIDE DEF A
    <3>4. Cardinality(A) <= Cardinality(Kept(u) \cup {new}) /\ Cardinality(A) \in Nat /\ Cardinality(Kept(u) \cup {new}) \in Nat
      BY <3>2, <3>3, FS_Subset, FS_CardinalityType
    <3>5. Cardinality(A) <= MaxSessions
      BY <1>4, <3>3, <3>4, CredentialsAssumption
    <3> QED
      BY <3>5 DEF A
  <2>2. CASE v # u
    <3>1. A = {s \in old : s.user = v /\ ~s.expired}
      BY <1>6, <2>2
    <3> HIDE DEF old
    <3> QED
      BY <1>6, <1>9, <3>1 DEF SessionsOK
  <2> QED
    BY <2>1, <2>2
<1>10. \A s \in ss : s \in SessionRows({s.id})
  <2> HIDE DEF old
  <2> QED
    BY <1>6 DEF SessionsOK
<1> QED
  BY <1>7, <1>8, <1>9, <1>10 DEF SessionsOK

-----------------------------------------------------------------------------
(* Tables keep their types. *)

UsersOK(us) == us \in [Users -> UserRows \cup {Nothing}]
PatsOK(ps) == ps \in [Pats -> PatRows \cup {Nothing}]
BoundOK(bd) == bd \in [Subjects -> Users \cup {Nothing}] /\ \A x, y \in Subjects : x # y /\ bd[x] # Nothing => bd[x] # bd[y]
OwnerOK(own) == own \in [Agents -> Users \cup {Nothing}]

LEMMA Tables ==
  ASSUME NEW us, NEW ss, NEW ps, NEW bd, NEW own
  PROVE  TablesOK(us, ss, ps, bd, own) <=> UsersOK(us) /\ SessionsOK(ss) /\ PatsOK(ps) /\ BoundOK(bd) /\ OwnerOK(own)
  BY Zenon DEF TablesOK, UsersOK, SessionsOK, PatsOK, BoundOK, OwnerOK

LEMMA TablesParts ==
  ASSUME AccountsTypeOK
  PROVE  UsersOK(users) /\ SessionsOK(sessions) /\ PatsOK(pats) /\ BoundOK(bound) /\ OwnerOK(owner)
  BY Tables DEF AccountsTypeOK

LEMMA UsersNext ==
  ASSUME AccountsTypeOK, NEW r, Known(r), Step(r)
  PROVE  UsersOK(users')
<1>0. users \in [Users -> UserRows \cup {Nothing}]
  BY Typed
<1>1. ASSUME NEW t, NEW row, Writes(t, row) PROVE UsersOK(users')
  BY <1>0, <1>1 DEF Writes, UsersOK
<1>2. CASE users' = users
  BY <1>0, <1>2 DEF UsersOK
<1>3. CASE users' # users
  <2>1. UserStep(r) \/ delete_user(r)
    <3>1. Expires(r) => users' = users
      BY DEF Expires
    <3> QED
      BY <1>3, <3>1, Kinds, ReadsFrame, TotpFrame, BanFrame, OtherFrame, SessionFrame, RevokeFrame, LinkFrame DEF TableStep
  <2>2. CASE delete_user(r)
    BY <1>0, <2>2 DEF delete_user, UsersOK
  <2> QED
    BY <1>1, <1>3, <2>1, <2>2, UserWrites, RoleWrites, PasswordWrites DEF UserStep
<1> QED
  BY <1>2, <1>3

LEMMA SessionsNext ==
  ASSUME AccountsTypeOK, NEW r, Known(r), Step(r)
  PROVE  SessionsOK(sessions')
<1>0. SessionsOK(sessions)
  BY SessionsTyped
<1>1. ASSUME sessions' \subseteq sessions PROVE SessionsOK(sessions')
  BY <1>0, <1>1, FewerSessions
<1>2. CASE Expires(r)
  BY <1>0, <1>2, ExpiredSessions DEF Expires
<1>3. ASSUME CreateSession(r), r.at = "create" PROVE SessionsOK(sessions')
  <2>1. PICK new : /\ new = [id |-> r.q, user |-> r.user, ver |-> r.ver, late |-> r.ver # users[r.user].ver, expired |-> FALSE,
                             n |-> 1 + Newest]
                   /\ sessions' = {s \in sessions : s.user # r.user /\ ~s.expired} \cup Kept(r.user) \cup {new}
    BY <1>3 DEF CreateSession
  <2>2. r.user \in Users /\ r.ver \in Nat
    BY <1>3 DEF Known, Fit, Carried, Read, KnowsUser
  <2>3. Newest \in Nat
    <3>1. \E n \in {0} \cup {s.n : s \in sessions} : \A s \in sessions : s.n <= n
      BY <1>0, NewestSession DEF SessionsOK, SessionRows, Numbered
    <3> QED
      BY <1>0, <3>1 DEF Newest, SessionsOK, SessionRows
  <2>4. new \in SessionRows({new.id}) /\ new.user = r.user /\ new.n = 1 + Newest
    BY <2>1, <2>2, <2>3 DEF SessionRows
  <2> QED
    BY <1>0, <2>1, <2>2, <2>4, OneMoreSession
<1>4. sessions' \subseteq sessions \/ (CreateSession(r) /\ r.at = "create") \/ Expires(r)
  <2>1. logout(r) \/ delete_session(r) \/ delete_expired(r) => sessions' \subseteq sessions
    BY DEF logout, delete_session, delete_expired
  <2>2. CreateLoginSession(r) \/ create_oauth_session(r) => sessions' = sessions \/ (CreateSession(r) /\ r.at = "create")
    BY DEF CreateLoginSession, create_oauth_session, At
  <2>3. RevokesSessions(r) \/ delete_user(r) => sessions' \subseteq sessions
    BY DEF RevokesSessions, delete_for_user, delete_user, Cascade
  <2>4. RevokesTokens(r) \/ create_pat(r) \/ revoke_pat(r) => sessions' = sessions
    BY DEF RevokesTokens, create_pat, revoke_pat
  <2> QED
    BY <2>1, <2>2, <2>3, <2>4, Kinds, ReadsFrame, TotpFrame, BanFrame, OtherFrame, UserFrame, LinkFrame
       DEF TableStep, SessionStep, RevokeStep
<1> QED
  BY <1>1, <1>2, <1>3, <1>4

LEMMA PatsNext ==
  ASSUME AccountsTypeOK, NEW r, Known(r), Step(r)
  PROVE  PatsOK(pats')
<1>0. pats \in [Pats -> PatRows \cup {Nothing}]
  BY Typed
<1>1. CASE pats' = pats
  BY <1>0, <1>1 DEF PatsOK
<1>2. CASE RevokesTokens(r)
  <2>1. \A p \in Pats : pats[p] # Nothing => [pats[p] EXCEPT !.revoked = TRUE] \in PatRows
    BY <1>0 DEF PatRows
  <2> QED
    BY <1>0, <1>2, <2>1 DEF RevokesTokens, revoke_all_for_user, PatsOK
<1>3. CASE Expires(r)
  <2>1. \A p \in Pats : pats[p] # Nothing => [pats[p] EXCEPT !.expired = TRUE] \in PatRows
    BY <1>0 DEF PatRows
  <2> QED
    BY <1>0, <1>3, <2>1 DEF Expires, PatsOK
<1>4. CASE delete_user(r)
  BY <1>0, <1>4 DEF delete_user, Cascade, PatsOK
<1>5. CASE revoke_pat(r) /\ pats' # pats
  <2>1. PICK p : p = r.q.target
    OBVIOUS
  <2>2. pats[p] # Nothing /\ pats' = [pats EXCEPT ![p].revoked = TRUE]
    BY <1>5, <2>1 DEF revoke_pat
  <2>3. CASE p \in Pats
    <3>1. [pats[p] EXCEPT !.revoked = TRUE] \in PatRows
      BY <1>0, <2>2, <2>3 DEF PatRows
    <3> QED
      BY <1>0, <2>2, <2>3, <3>1 DEF PatsOK
  <2>4. CASE p \notin Pats
    BY <1>0, <2>2, <2>4 DEF PatsOK
  <2> QED
    BY <2>3, <2>4
<1>6. CASE create_pat(r) /\ pats' # pats
  <2>1. r.at = "allowlist" /\ r.q.op = "pat"
    BY <1>6 DEF create_pat, At
  <2>2. r.user \in Users /\ r.ver \in Nat
    BY <2>1 DEF Known, Fit, Carried, Read, KnowsUser, Signed
  <2>3. r.q.pat \in [servers : (SUBSET Agents) \cup {Nothing}, admin : BOOLEAN, scoped : BOOLEAN]
    BY <2>1 DEF Known, AccountRequest
  <2>4. PICK row : row = [user |-> r.user, servers |-> r.q.pat.servers, admin |-> r.q.pat.admin, scoped |-> r.q.pat.scoped,
                          revoked |-> FALSE, expired |-> FALSE, ver |-> r.ver, late |-> r.ver # users[r.user].ver]
    OBVIOUS
  <2>5. row \in PatRows
    BY <2>2, <2>3, <2>4 DEF PatRows
  <2>6. pats' = [pats EXCEPT ![r.q.target] = row]
    BY <1>6, <2>4 DEF create_pat
  <2> QED
    BY <1>0, <2>5, <2>6 DEF PatsOK
<1>7. \/ pats' = pats \/ RevokesTokens(r) \/ Expires(r) \/ delete_user(r) \/ revoke_pat(r) \/ create_pat(r)
  <2>1. RevokesSessions(r) => pats' = pats
    BY DEF RevokesSessions
  <2> QED
    BY <2>1, Kinds, ReadsFrame, TotpFrame, BanFrame, OtherFrame, UserFrame, SessionFrame, LinkFrame DEF TableStep, RevokeStep
<1> QED
  BY <1>1, <1>2, <1>3, <1>4, <1>5, <1>6, <1>7

LEMMA LinksNext ==
  ASSUME AccountsTypeOK, NEW r, Known(r), Step(r)
  PROVE  BoundOK(bound') /\ OwnerOK(owner')
<1>0. BoundOK(bound) /\ OwnerOK(owner)
  BY TablesParts
<1>1. CASE OwnerChanges(r)
  <2>1. r.q.target \in Users \cup {Nothing}
    BY <1>1 DEF OwnerChanges, Known, AccountRequest
  <2> QED
    BY <1>0, <1>1, <2>1 DEF OwnerChanges, OwnerOK
<1>2. CASE unbind_oauth_provider(r)
  BY <1>0, <1>2 DEF unbind_oauth_provider, BoundOK
<1>3. CASE bind_oauth_account(r)
  <2>1. r.user \in Users /\ owner' = owner
    BY <1>3 DEF bind_oauth_account, At, Known, Fit, Carried, Read, KnowsUser
  <2>2. CASE bound' = bound
    BY <1>0, <2>1, <2>2
  <2>3. CASE bound' = [x \in Subjects |-> IF x = r.q.subject THEN r.user ELSE IF bound[x] = r.user THEN Nothing ELSE bound[x]]
    BY <1>0, <2>1, <2>3 DEF BoundOK
  <2> QED
    BY <1>3, <2>2, <2>3 DEF bind_oauth_account
<1>4. CASE delete_user(r)
  BY <1>0, <1>4 DEF delete_user, Cascade, BoundOK, OwnerOK
<1>5. CASE Expires(r)
  BY <1>0, <1>5 DEF Expires
<1> QED
  BY <1>0, <1>1, <1>2, <1>3, <1>4, <1>5, Kinds, ReadsFrame, TotpFrame, BanFrame, OtherFrame, UserFrame, SessionFrame,
     RevokeFrame DEF TableStep, LinkStep

LEMMA TypeNext ==
  ASSUME AccountsTypeOK, RequestsFit, NEW r \in live, Step(r)
  PROVE  AccountsTypeOK'
<1>0. Known(r)
  BY RequestKnown
<1>1. TablesOK(users, sessions, pats, bound, owner)'
  BY <1>0, UsersNext, SessionsNext, PatsNext, LinksNext, Tables
<1>2. refused' \in [Users -> Nat]
  <2>1. CASE TotpChecked(r)
    <3>1. r.user \in Users
      BY <2>1, LiveTyped DEF TotpChecked, At, Checking
    <3> QED
      BY <2>1, <3>1 DEF TotpChecked, AccountsTypeOK
  <2>2. TotpStep(r) => TotpChecked(r) \/ refused' = refused
    BY DEF TotpStep, totp_verification_lock, count_recent_user_totp_failures, TotpUsed, waf
  <2> QED
    BY <2>1, <2>2, Kinds, ReadsFrame, BanFrame, TableFrame, OtherFrame DEF AccountsTypeOK
<1>3. failed' \in [Ips -> Nat] /\ bans' \subseteq Ips
  <2>1. r.q.ip \in Ips /\ (r.q.op = "ban" => r.q.target \in Ips)
    BY <1>0 DEF Known, AccountRequest
  <2>2. CASE record_waf_event(r)
    BY <2>1, <2>2 DEF record_waf_event, AccountsTypeOK
  <2>3. CASE upsert_waf_ban(r)
    BY <2>1, <2>3 DEF upsert_waf_ban, AccountsTypeOK
  <2>4. CASE create_waf_bans(r)
    BY <2>1, <2>4 DEF create_waf_bans, Runs, AccountsTypeOK
  <2>5. CASE delete_waf_ban(r)
    BY <2>5 DEF delete_waf_ban, AccountsTypeOK
  <2> QED
    BY <2>2, <2>3, <2>4, <2>5, Kinds, ReadsFrame, TotpFrame, TableFrame, OtherFrame DEF BanStep, AccountsTypeOK
<1>4. now' \in Nat /\ faults' \in 0..MaxFaults
  <2>1. CASE Dropped(r)
    BY <2>1, CredentialsAssumption DEF Dropped, AccountsTypeOK
  <2>2. CASE Tick(r)
    BY <2>2 DEF Tick, AccountsTypeOK
  <2>3. CASE CountsAdmins(r)
    BY <2>3 DEF CountsAdmins, Others, AccountsTypeOK
  <2> QED
    BY <2>1, <2>2, <2>3, Kinds, ReadsFrame, TotpFrame, BanFrame, TableFrame DEF AccountsTypeOK
<1> QED
  BY <1>1, <1>2, <1>3, <1>4 DEF AccountsTypeOK

-----------------------------------------------------------------------------
(* The invariant holds at first, and every step keeps it. *)

LEMMA RequestFits ==
  ASSUME NEW q, NEW E, NEW r, r = Request(q)
  PROVE  /\ Fit(r, E) /\ r.q = q /\ r.at = "start" /\ r.time = 0 /\ r.seen = 0
         /\ ~Taking(r) /\ ~Returning(r)
<1>1. r.q = q /\ r.at = "start" /\ r.time = 0 /\ r.seen = 0 /\ r.ver = 0 /\ r.admin = FALSE
  BY DEF Request
<1>5. ~r.admin /\ r.admin \in BOOLEAN /\ r = Request(r.q)
  BY <1>1
<1>2. Shaped(r)
  BY DEF Request, Shaped, Fields
<1>3. Carried(r)
  BY <1>1, <1>5 DEF Carried, Placed, Coded, Underway, Read, Returning, KnowsUser, Signed, Checking, Changing, Returned
<1>4. Met(r, E)
  BY <1>1, <1>2, <1>3, FreshMet
<1> QED
  BY <1>1, <1>2, <1>3, <1>4 DEF Fit, Taking, Returning, Returned

LEMMA InitFits ==
  ASSUME Init
  PROVE  RequestsFit /\ \A r \in live : r.at = "start" /\ r.time = 0 /\ r.seen = 0 /\ ~Taking(r) /\ ~Returning(r)
<1>1. PICK w \in Workloads : live = {Request(q) : q \in w}
  BY DEF Init, AccountsInit
<1>2. ever = [q \in {r.q : r \in live} |-> Facts(q)]
  BY DEF Init, AccountsInit
<1>3. ASSUME NEW r \in live
      PROVE  /\ r.q \in w /\ r = Request(r.q) /\ \A E : Fit(r, E)
             /\ r.at = "start" /\ r.time = 0 /\ r.seen = 0 /\ ~Taking(r) /\ ~Returning(r)
  <2>1. PICK q \in w : r = Request(q)
    BY <1>1, <1>3
  <2> QED
    BY <2>1, RequestFits
<1>4. Asked
  BY <1>3 DEF Asked
<1>5. \A r \in live : ever[r.q] = Facts(r.q)
  BY <1>2
<1> QED
  BY <1>2, <1>3, <1>4, <1>5 DEF RequestsFit

LEMMA InvInit == Init => AccountsInv
<1> SUFFICES ASSUME Init PROVE AccountsInv
  OBVIOUS
<1>1. PICK x \in Stored : users = x.users /\ sessions = x.sessions /\ pats = x.pats /\ bound = x.bound /\ owner = x.owner
  BY DEF Init, AccountsInit
<1>2. /\ used = {} /\ refused = [u \in Users |-> 0] /\ failed = [i \in Ips |-> 0] /\ bans = {}
      /\ lock = Nothing /\ now = 1 /\ faults = 0 /\ torn = {} /\ acted = [needs |-> {}, ever |-> {}]
      /\ flows = {} /\ jar = [b \in Browsers |-> Nothing] /\ ended = {}
  BY DEF Init, AccountsInit
<1>3. RequestsFit /\ \A r \in live : r.at = "start" /\ r.time = 0 /\ r.seen = 0 /\ ~Taking(r) /\ ~Returning(r)
  BY InitFits
<1>4. TablesOK(users, sessions, pats, bound, owner)
  BY <1>1, StoredAssumption
<1>5. AccountsTypeOK
  BY <1>2, <1>4, CredentialsAssumption DEF AccountsTypeOK
<1>6. ActsWithAuthority
  BY <1>2 DEF ActsWithAuthority
<1>7. CodesInv
  BY <1>2, <1>3, CredentialsAssumption DEF CodesInv, CodeIsUsedOnce, GuessesAreBounded, Holding
<1>8. BansInv
  BY <1>2, CredentialsAssumption DEF BansInv
<1>9. IssuedInv
  <2>1. (\A s \in sessions : Issued(users, s)) /\ (\A p \in Pats : pats[p] # Nothing => Issued(users, pats[p]))
    BY <1>1, StoredAssumption
  <2> QED
    BY <2>1 DEF IssuedInv, SessionOK, TokenOK, Issued
<1>10. AdminsInv
  <2>1. \E u \in Users : users[u] # Nothing /\ users[u].role = "admin"
    BY <1>1, StoredAssumption
  <2> QED
    BY <1>3, <2>1 DEF AdminsInv, Role
<1>11. FlowsInv
  BY <1>2, <1>3 DEF FlowsInv, FlowEndsWhereItBegan
<1> QED
  BY <1>3, <1>5, <1>6, <1>7, <1>8, <1>9, <1>10, <1>11 DEF AccountsInv

LEMMA InvNext == AccountsInv /\ [Next]_<<vars, oauth>> => AccountsInv'
<1> SUFFICES ASSUME AccountsInv, [Next]_<<vars, oauth>> PROVE AccountsInv'
  OBVIOUS
<1>1. ASSUME NEW r \in live, Step(r), Watch PROVE AccountsInv'
  <2>1. Known(r)
    BY RequestKnown DEF AccountsInv
  <2>2. StepOK(r)
    BY <1>1, <2>1, EveryStep DEF AccountsInv
  <2> QED
    BY <1>1, <2>2, TypeNext, FitNext, AuthorityNext, CodesNext, BansNext, IssuedNext, AdminsNext, FlowsNext DEF AccountsInv
<1>2. ASSUME NEW b \in Browsers, CookieGoes(b) PROVE AccountsInv'
  BY <1>2, CookieNext, VarsStay
<1>3. CASE UNCHANGED <<vars, oauth>>
  <2>1. UNCHANGED <<flows, jar, ended, live>> /\ UNCHANGED vars
    BY <1>3 DEF oauth, vars
  <2>2. FlowsInv'
    BY <2>1 DEF AccountsInv, FlowsInv, FlowEndsWhereItBegan
  <2> QED
    BY <2>1, <2>2, VarsStay
<1> QED
  BY <1>1, <1>2, <1>3 DEF Next, Step

LEMMA Invariance == Spec => []AccountsInv
  BY InvInit, InvNext, PTL DEF Spec

-----------------------------------------------------------------------------
(* What the invariant says. *)

LEMMA GuessingInv == AccountsInv => GuessingIsBounded
<1> SUFFICES ASSUME AccountsInv PROVE GuessingIsBounded
  OBVIOUS
<1>1. BanFollowsFailures
  BY DEF AccountsInv, BansInv, BanFollowsFailures
<1> QED
  BY <1>1 DEF AccountsInv, CodesInv, GuessingIsBounded

LEMMA ChangesInv == AccountsInv => UserChangesHold
<1> SUFFICES ASSUME AccountsInv PROVE UserChangesHold
  OBVIOUS
<1> DEFINE Settled(u) == u \notin torn /\ \A r \in live : r.at \in {"revoke", "tokens"} => r.q.target # u
           Current(c) == users[c.user] # Nothing /\ (Settled(c.user) => c.late \/ c.ver = users[c.user].ver)
<1>1. \A s \in sessions : Current(s)
  BY DEF AccountsInv, IssuedInv, SessionOK, Issued, Revoking
<1>2. \A p \in Pats : pats[p] # Nothing /\ ~pats[p].revoked => Current(pats[p])
  BY DEF AccountsInv, IssuedInv, TokenOK, Issued, Revoking
<1>3. EarlierCredentialsEnd
  BY <1>1, <1>2 DEF EarlierCredentialsEnd
<1>4. AdminRemains
  BY DEF AccountsInv, AdminsInv, AdminRemains
<1> QED
  BY <1>3, <1>4 DEF UserChangesHold

\* Type correctness of accounts and flows, for any users, tables and requests: among the rest,
\* no user has more sessions than MAX_ACTIVE_SESSIONS_PER_USER, and a provider's subject is
\* bound to one user only.
THEOREM TypeCorrect == Spec => []TypeOK
<1>1. AccountsInv => TypeOK
  BY DEF AccountsInv, FlowsInv, TypeOK
<1> QED
  BY <1>1, Invariance, PTL

\* session_middleware, require_admin_cookie_session, validate_server_allowlist_ownership and
\* bind_cookie_session_matches: whatever a request writes or is shown, it was entitled to at
\* some moment since it came in, although sessions, tokens, roles, owners and bindings change
\* between its accesses.
THEOREM Authority == Spec => []ActsWithAuthority
<1>1. AccountsInv => ActsWithAuthority
  BY DEF AccountsInv
<1> QED
  BY <1>1, Invariance, PTL

\* verify_and_consume_user_totp and register_login_failure: a code is accepted once, wrong codes
\* are bounded, and an address that fails too often is banned, for any number of requests that
\* guess at the same time.
THEOREM Guessing == Spec => []GuessingIsBounded
  BY Invariance, GuessingInv, PTL

\* update_user, reset_password and delete_user: what was issued before a change of password or
\* role ends with it, and an administrator is left, but for the changes that are cut short or
\* overlap.
THEOREM Changes == Spec => []UserChangesHold
  BY Invariance, ChangesInv, PTL

\* oauth_callback: a flow has an effect only in the browser it was begun in, however often and
\* in whatever order states come back.
THEOREM FlowsEnd == Spec => []FlowEndsWhereItBegan
<1>1. AccountsInv => FlowEndsWhereItBegan
  BY DEF AccountsInv, FlowsInv
<1> QED
  BY <1>1, Invariance, PTL
=============================================================================

-------------------------------- MODULE OAuth --------------------------------
(***************************************************************************)
(* Signing in through a provider, and binding a provider's account to a    *)
(* user: api/v1/oauth.rs, beside the accounts of Accounts.                 *)
(*                                                                         *)
(* A flow is a signed state that the browser takes to the provider and     *)
(* brings back.  The server stores nothing: it sets a cookie that must fit *)
(* the state, and a state is good until its time is over, for whoever      *)
(* brings it.  Flows overlap: a browser has one such cookie for all tabs.  *)
(***************************************************************************)
EXTENDS Accounts

CONSTANTS
    Browsers,
    StateTtl    \* OAUTH_STATE_TTL_SECONDS, in steps of the clock

ASSUME OAuthAssumption ==
    /\ StateTtl \in Nat
    /\ \A w \in Workloads : \A q \in w : q.browser \in Browsers /\ q.subject \in Subjects

VARIABLES
    flows,      \* the states that were signed
    jar,        \* xlstatus_oauth_state in each browser
    ended       \* history: flows that had an effect, and the browsers they came back from

oauth == <<flows, jar, ended>>

TypeOK ==
    /\ AccountsTypeOK
    /\ \A f \in flows : f.user \in Users \cup {Nothing} /\ f.browser \in Browsers
    /\ jar \in [Browsers -> flows \cup {Nothing}]
    /\ ended \subseteq flows \X Browsers

Init == AccountsInit /\ flows = {} /\ jar = [b \in Browsers |-> Nothing] /\ ended = {}

-----------------------------------------------------------------------------
(* start_oauth_login and start_oauth_bind. *)

\* oauth_start_response: the signed state, and the cookie that goes with it.
oauth_start_response(r, u) ==
    LET f == [id |-> r.q, user |-> u, browser |-> r.q.browser, exp |-> now + StateTtl] IN
    /\ flows' = flows \cup {f} /\ jar' = [jar EXCEPT ![r.q.browser] = f]
    /\ UNCHANGED ended

start_oauth_login(r) ==
    /\ At(r, "start") /\ r.q.op = "signin" /\ Reads /\ Ends(r)
    /\ IF active_waf_ban(r) THEN UNCHANGED oauth ELSE oauth_start_response(r, Nothing)

start_oauth_bind(r) ==
    /\ Runs(r, "bind") /\ Reads
    /\ oauth_start_response(r, r.user)
    /\ Acts(r, {}, Own(r))

list_oauth_bindings(r) == Shows(r, "bindings", Own(r)) /\ UNCHANGED oauth

-----------------------------------------------------------------------------
(* oauth_callback.  A request keeps the flow it came back with in was. *)

\* The signature is ours, which no other state has, and the time is not over.
decode_state(f) == now <= f.exp

\* Variant: a cookie shows that a flow was begun in this browser.
oauth_state_cookie_matches_Some(r, f) == jar[r.q.browser] # Nothing

oauth_state_cookie_matches(r, f) == jar[r.q.browser] # Nothing /\ jar[r.q.browser] = f

\* A state that was not signed here or does not fit the browser's cookie is a failure, and
\* so is an error of the provider.
oauth_callback(r) ==
    /\ At(r, "start") /\ r.q.op = "callback"
    /\ Reads /\ UNCHANGED oauth
    /\ IF active_waf_ban(r) THEN Ends(r)
       ELSE \/ Goto(r, Fails(r))
            \/ \E f \in flows :
                  /\ decode_state(f) /\ oauth_state_cookie_matches(r, f)
                  /\ Goto(r, [r EXCEPT !.at = IF f.user = Nothing THEN "exchange" ELSE "cookie", !.was = f])

bind_cookie_session_matches(r, u) == u = r.was.user

\* cookie_session_user_id: a binding belongs to whoever is signed in in this browser.
cookie_session_user_id(r) ==
    /\ At(r, "cookie")
    /\ Reads /\ UNCHANGED oauth
    /\ LET us == {s.user : s \in {x \in sessions : Opens(x, r.q)}} IN
       IF \E u \in us : bind_cookie_session_matches(r, u)
       THEN Goto(r, [r EXCEPT !.at = "exchange", !.user = r.was.user]) ELSE Goto(r, Fails(r))

\* exchange_code and fetch_userinfo ask the provider, which may refuse.
exchange_code(r) ==
    /\ At(r, "exchange")
    /\ Reads /\ UNCHANGED oauth
    /\ \/ Goto(r, [r EXCEPT !.at = IF r.was.user = Nothing THEN "bound" ELSE "bind"])
       \/ Goto(r, Fails(r))

\* oauth_redirect_with_state_cookie_clear: whatever flow the cookie is of by now.
oauth_redirect_with_state_cookie_clear(r) ==
    /\ jar' = [jar EXCEPT ![r.q.browser] = Nothing]
    /\ ended' = ended \cup {<<r.was, r.q.browser>>}
    /\ UNCHANGED flows

\* One transaction; the subject of another user is refused, the user's former one replaced.
bind_oauth_account(r) ==
    /\ At(r, "bind")
    /\ UNCHANGED <<users, sessions, pats, owner, waf, lock, now, faults, torn>>
    /\ IF bound[r.q.subject] \notin {Nothing, r.user} \/ users[r.user] = Nothing
       THEN UNCHANGED <<bound, oauth>> /\ Ends(r)
       ELSE /\ bound' = [x \in Subjects |-> IF x = r.q.subject THEN r.user
                                            ELSE IF bound[x] = r.user THEN Nothing ELSE bound[x]]
            /\ oauth_redirect_with_state_cookie_clear(r)
            /\ Acts(r, {}, {<<"user", r.user>>})

find_bound_user(r) ==
    /\ At(r, "bound")
    /\ Reads /\ UNCHANGED oauth
    /\ IF bound[r.q.subject] = Nothing THEN Goto(r, Fails(r))
       ELSE Goto(r, [r EXCEPT !.at = "profile", !.user = bound[r.q.subject]])

OAuthUser(r) ==
    /\ At(r, "profile")
    /\ Reads /\ UNCHANGED oauth
    /\ IF users[r.user] = Nothing THEN Ends(r)
       ELSE Goto(r, [r EXCEPT !.at = "create", !.ver = users[r.user].ver])

\* The session, or an error when the user is gone.
create_oauth_session(r) ==
    /\ At(r, "create") /\ r.q.op = "callback"
    /\ UNCHANGED <<users, pats, bound, owner, waf, lock, now, faults, torn>>
    /\ \/ CreateSession(r) /\ oauth_redirect_with_state_cookie_clear(r) /\ Acts(r, {}, {<<"bound", r.user>>})
       \/ users[r.user] = Nothing /\ UNCHANGED <<sessions, oauth>> /\ Ends(r)

\* The browser drops the cookie: its time is over, or the answer to a failed callback says so.
CookieGoes(b) ==
    /\ jar[b] # Nothing /\ \E r \in live : r.q.op \in {"callback", "signin", "bind"}
    /\ jar' = [jar EXCEPT ![b] = Nothing]
    /\ UNCHANGED <<vars, flows, ended>>

-----------------------------------------------------------------------------

OAuthStep(r) ==
    \/ start_oauth_login(r) \/ start_oauth_bind(r) \/ list_oauth_bindings(r) \/ oauth_callback(r) \/ cookie_session_user_id(r)
    \/ exchange_code(r) \/ bind_oauth_account(r) \/ find_bound_user(r) \/ OAuthUser(r) \/ create_oauth_session(r)

Next ==
    \/ \E r \in live : (OAuthStep(r) \/ (UNCHANGED oauth /\ (CredentialStep(r) \/ AccountStep(r)))) /\ Watch
    \/ \E b \in Browsers : CookieGoes(b)

Spec == Init /\ [][Next]_<<vars, oauth>>

-----------------------------------------------------------------------------
(* Properties. *)

\* A flow signs in, or binds, only in the browser it was begun in, and binds only for the
\* user who began it: a state that someone is sent by someone else comes to nothing,
\* although states are not stored and may come back twice, late or after another flow was
\* begun in the same browser.  oauth_state_cookie_matches, bind_cookie_session_matches.
FlowEndsWhereItBegan == \A x \in ended : x[1].browser = x[2]
=============================================================================

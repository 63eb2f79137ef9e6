----------------------------- MODULE Enrollment ------------------------------
(***************************************************************************)
(* How an Agent comes to be known and how it gets the tokens it connects   *)
(* with: enrolment tokens and enroll (api/v1/agent.rs), the signed          *)
(* challenge and the JWT (api/v1/agent_jwt.rs), and the first half of       *)
(* revoke_agent, which ends with the purge of the Agent's challenges.       *)
(*                                                                         *)
(* A request is in flight from the start, at "start" until its first       *)
(* access; every step is one access to a table or to the challenge store.  *)
(* Fleet adds the requests that change Agents, groups and owners.          *)
(***************************************************************************)
EXTENDS Integers, FiniteSets, Sequences, SequencesExt

CONSTANTS
    Agents, Users, Admins, Tokens, Nonces, Tags,
    Nothing,    \* no row, no value
    Deleted,    \* a row that is gone for good
    Stored,     \* agents tables the server may start with
    Workloads,  \* sets of requests that are made
    MaxPending, \* MAX_PENDING_CHALLENGES_PER_AGENT
    MaxRecords, \* MAX_PENDING_CHALLENGES, which counts records
    MaxFaults   \* bound on requests that fail or are dropped half-way

AgentRow == [owner : Users, revoked : BOOLEAN, tags : SUBSET Tags, hidden : BOOLEAN]
TokenRow == [by : Users, used : Agents \cup {Nothing}, fresh : BOOLEAN]

\* What a request names.
EnrollmentRequest(q) ==
    /\ q.op \in {"token", "enroll"} => q.token \in Tokens
    /\ q.op \in {"enroll", "challenge", "jwt", "revoke"} => q.agent \in Agents

ASSUME EnrollmentAssumption ==
    /\ Admins \subseteq Users /\ Nothing \notin Agents \cup Users \cup Nonces \cup Tokens
    /\ Nothing # Deleted /\ {Nothing, Deleted} \cap AgentRow = {} /\ Nothing \notin TokenRow
    /\ Stored \subseteq [Agents -> AgentRow \cup {Nothing, Deleted}]
    /\ MaxPending \in Nat /\ MaxRecords \in Nat /\ MaxFaults \in Nat

VARIABLES
    agents,     \* the agents table
    servers,    \* the servers table, which holds an Agent under its own id
    tokens,     \* enrollment_tokens
    challenges, \* AppState::agent_jwt_challenges
    live,       \* requests in flight
    faults,
    issued,     \* history: the challenges that JWTs were signed for, in order
    purged,     \* history: Agents out of service whose challenges were purged
    made        \* history: the token an Agent was enrolled with

rows == <<agents, servers, tokens>>
enrolment == <<agents, servers, tokens, challenges, issued, purged, made>>

Exists(a) == agents[a] \notin {Nothing, Deleted}
Request(q) == [q |-> q, at |-> "start", i |-> 1, saw |-> Nothing]

EnrollmentTypeOK ==
    /\ agents \in [Agents -> AgentRow \cup {Nothing, Deleted}]
    /\ servers \subseteq Agents
    /\ tokens \in [Tokens -> TokenRow \cup {Nothing}]
    /\ \A c \in challenges : c.agent \in Agents /\ c.nonce \in Nonces /\ c.kind \in {"request", "challenge"}
    /\ Cardinality({<<c.agent, c.nonce, c.kind>> : c \in challenges}) = Cardinality(challenges)
    /\ Cardinality(challenges) <= MaxRecords
    /\ \A a \in Agents : Cardinality({c \in challenges : c.agent = a}) <= 2 * MaxPending

EnrollmentInit ==
    /\ agents \in Stored
    /\ servers = {a \in Agents : Exists(a)}
    /\ tokens = [t \in Tokens |-> Nothing] /\ challenges = {}
    /\ faults = 0 /\ issued = <<>> /\ purged = {}
    /\ made = [a \in Agents |-> Nothing]

\* A request goes on to its next access with what it has read, or is answered.
Goto(r, at, saw) == live' = (live \ {r}) \cup {[r EXCEPT !.at = at, !.saw = saw]}
Answer(r) == live' = live \ {r}
At(r, op, at) == r.q.op = op /\ r.at = at

-----------------------------------------------------------------------------
(* Enrolment. *)

\* require_admin_cookie_session: an administrator, and not with an API token.
AdminSession(q) == q.user \in Admins /\ q.scope = Nothing

create_enrollment_token(r) ==
    /\ At(r, "token", "start") /\ Answer(r)
    /\ IF AdminSession(r.q)
       THEN tokens' = [tokens EXCEPT ![r.q.token] = [by |-> r.q.user, used |-> Nothing, fresh |-> TRUE]]
       ELSE UNCHANGED tokens
    /\ UNCHANGED <<agents, servers, challenges, issued, purged, made, faults>>

Usable(t) == tokens[t] # Nothing /\ tokens[t].used = Nothing /\ tokens[t].fresh

\* One statement marks the token, so that of two requests one finds it unused.
find_and_use(r) ==
    /\ At(r, "enroll", "start")
    /\ IF Usable(r.q.token)
       THEN /\ tokens' = [tokens EXCEPT ![r.q.token].used = r.q.agent]
            /\ Goto(r, "create", tokens[r.q.token].by)
       ELSE Answer(r) /\ UNCHANGED tokens
    /\ UNCHANGED <<agents, servers, challenges, issued, purged, made, faults>>

\* The Agent belongs to the administrator who made the token.
create_with_id(r) ==
    /\ At(r, "enroll", "create")
    /\ agents' = [agents EXCEPT ![r.q.agent] =
                     [owner |-> r.saw, revoked |-> FALSE, tags |-> {}, hidden |-> FALSE]]
    /\ made' = [made EXCEPT ![r.q.agent] = r.q.token]
    /\ Goto(r, "server", Nothing)
    /\ UNCHANGED <<servers, tokens, challenges, issued, purged, faults>>

EnrollServerRow(r) ==
    /\ At(r, "enroll", "server") /\ Answer(r)
    /\ servers' = servers \cup {r.q.agent}
    /\ UNCHANGED <<agents, tokens, challenges, issued, purged, made, faults>>

TokenExpires(t) ==
    /\ tokens[t] # Nothing /\ tokens[t].fresh
    /\ tokens' = [tokens EXCEPT ![t].fresh = FALSE]
    /\ UNCHANGED <<agents, servers, challenges, issued, purged, made, live, faults>>

-----------------------------------------------------------------------------
(* Challenges and JWTs. *)

Active(a) == Exists(a) /\ ~agents[a].revoked
Record(a, n, kind, fresh) == [agent |-> a, nonce |-> n, kind |-> kind, fresh |-> fresh]
Pruned == {c \in challenges : c.fresh}
PendingFor(a) == {c \in Pruned : c.agent = a /\ c.kind = "challenge"}
RecordsFor(a) == {c \in Pruned : c.agent = a}

\* Room for the two records of a request after the expired ones are pruned.
RoomForChallenge(a) ==
    /\ Cardinality(Pruned) + 2 <= MaxRecords
    /\ Cardinality(PendingFor(a)) < MaxPending
    /\ Cardinality(RecordsFor(a)) + 2 <= 2 * MaxPending

\* get_agent_jwt_challenge up to the lock: the Agent must be active and have signed.
ChallengeChecks(r) ==
    /\ At(r, "challenge", "start")
    /\ IF Active(r.q.agent) THEN Goto(r, "insert", Nothing) ELSE Answer(r)
    /\ UNCHANGED <<enrolment, faults>>

\* Under the lock; the nonce the server draws is new: nobody has or had it.
ChallengeInserts(r, n) ==
    LET a == r.q.agent IN
    /\ At(r, "challenge", "insert") /\ Answer(r)
    /\ n \notin {c.nonce : c \in challenges} \cup ToSet(issued) \cup {o.saw : o \in {o \in live : o.q.op = "jwt"}}
    /\ IF Record(a, r.q.nonce, "request", TRUE) \in challenges \/ ~RoomForChallenge(a)
       THEN challenges' = Pruned
       ELSE challenges' = Pruned \cup {Record(a, r.q.nonce, "request", TRUE),
                                        Record(a, n, "challenge", TRUE)}
    /\ UNCHANGED <<rows, issued, purged, made, faults>>

ChallengeOf(a, n) == {c \in challenges : c.agent = a /\ c.nonce = n /\ c.kind = "challenge"}

\* get_agent_jwt looks its challenge up, and drops one that has expired.
JwtFinds(r, n) ==
    LET found == ChallengeOf(r.q.agent, n) IN
    /\ At(r, "jwt", "start") /\ found # {}
    /\ IF \E c \in found : c.fresh
       THEN Goto(r, "agent", n) /\ UNCHANGED challenges
       ELSE Answer(r) /\ challenges' = challenges \ found
    /\ UNCHANGED <<rows, issued, purged, made, faults>>

JwtReadsAgent(r) ==
    /\ At(r, "jwt", "agent")
    /\ IF Active(r.q.agent) THEN Goto(r, "consume", r.saw) ELSE Answer(r)
    /\ UNCHANGED <<enrolment, faults>>

\* Variant: the challenge is removed when it is there, which nobody looks at.
consume_agent_jwt_challenge_Any(r) == TRUE

\* The challenge must still be the one that was found.
consume_agent_jwt_challenge(r) == \E c \in ChallengeOf(r.q.agent, r.saw) : c.fresh

JwtSigned(r) ==
    /\ At(r, "jwt", "consume") /\ Answer(r)
    /\ challenges' = challenges \ ChallengeOf(r.q.agent, r.saw)
    /\ issued' = IF consume_agent_jwt_challenge(r) THEN Append(issued, r.saw) ELSE issued
    /\ UNCHANGED <<rows, purged, made, faults>>

ChallengeExpires(c) ==
    /\ c \in challenges /\ c.fresh
    /\ challenges' = (challenges \ {c}) \cup {[c EXCEPT !.fresh = FALSE]}
    /\ UNCHANGED <<rows, issued, purged, made, live, faults>>

-----------------------------------------------------------------------------
(* Revocation, as far as the row and the challenges; AgentRevocation has the rest. *)

revoke(r) ==
    LET a == r.q.agent IN
    /\ At(r, "revoke", "start")
    /\ IF AdminSession(r.q) /\ Active(a)
       THEN agents' = [agents EXCEPT ![a].revoked = TRUE] /\ Goto(r, "purge", Nothing)
       ELSE Answer(r) /\ UNCHANGED agents
    /\ UNCHANGED <<servers, tokens, challenges, issued, purged, made, faults>>

purge_agent_jwt_challenges(a) ==
    /\ challenges' = {c \in challenges : c.agent # a}
    /\ purged' = purged \cup {a}
    /\ UNCHANGED <<rows, issued, made, faults>>

RevokePurges(r) ==
    /\ At(r, "revoke", "purge") /\ Answer(r)
    /\ purge_agent_jwt_challenges(r.q.agent)

EnrollmentStep(r) ==
    \/ create_enrollment_token(r) \/ find_and_use(r) \/ create_with_id(r) \/ EnrollServerRow(r)
    \/ ChallengeChecks(r) \/ JwtReadsAgent(r) \/ JwtSigned(r) \/ revoke(r) \/ RevokePurges(r)
    \/ \E n \in Nonces : ChallengeInserts(r, n) \/ JwtFinds(r, n)

Expiry == \/ \E t \in Tokens : TokenExpires(t)
          \/ \E c \in challenges : ChallengeExpires(c)

-----------------------------------------------------------------------------
(* Properties. *)

\* Two enroll requests with one token make one Agent, and it belongs to the administrator
\* the token is from: find_and_use marks the token in the statement that looks at it.
OneAgentPerToken ==
    \A a, b \in Agents :
        made[a] # Nothing =>
            /\ made[a] = made[b] => a = b
            /\ tokens[made[a]].used = a

\* However often and however late its two halves are sent, a challenge is good for one JWT.
ChallengeIsSpentOnce == IsInjective(issued)

\* The two secrets of enrolment are good for one use: a token for one Agent, a challenge for one JWT.
SecretsAreSpentOnce == OneAgentPerToken /\ ChallengeIsSpentOnce

\* No step spends a secret of enrolment a second time, and once revoke_agent or delete_agent
\* has purged the challenges, none signs a JWT for the Agent any more, although a challenge
\* request that had read the old row may store a challenge after the purge, and a JWT request
\* may have read the row before it.
EnrolmentHolds ==
    [][/\ SecretsAreSpentOnce'
       /\ issued' # issued => \A a \in purged : \A c \in challenges :
             c.nonce = Last(issued') /\ c.kind = "challenge" => c.agent # a]_enrolment
=============================================================================

----------------------------- MODULE FleetProofs -----------------------------
(***************************************************************************)
(* Enrolment, groups, owner transfers and addresses for any Agents, users, *)
(* rows and requests: the requests of Enrollment, Fleet and Addresses      *)
(* interleave at every access, and any number of them may be dropped.      *)
(*                                                                         *)
(* The argument has two layers.  What a request carries depends on how far *)
(* it has come and on nothing else; what the tables say about a request    *)
(* must survive the steps of all the others, and does because ids are      *)
(* drawn for one row, a row that is out of service stays so, a record goes *)
(* only with its Agent, a configuration's id is not used again, and what a *)
(* request has met is not forgotten.                                       *)
(*                                                                         *)
(* The second part is about the connections of those Agents: the session   *)
(* registry, and revocation and deletion over it.                          *)
(***************************************************************************)
EXTENDS Addresses, AgentRevocation, FiniteSetTheorems, SequenceTheorems, TLAPS

-----------------------------------------------------------------------------
(* What a request carries. *)

Req(q, at, i, saw) == [q |-> q, at |-> at, i |-> i, saw |-> saw]
Fields == {"q", "at", "i", "saw"}
Shaped(r) == r = [f \in Fields |-> r[f]]

\* A batch that works on an Agent, and what it has read of it.
OnServer == {"row", "tags", "hide", "move", "join", "delete", "drop", "transfer", "record", "purge"}
Actions == {"tags", "hide", "move", "delete", "transfer"}

BatchTyped(r) ==
    /\ r.at \in OnServer => r.i \in Ids(r)
    /\ r.at \in Actions => r.saw \in AgentRow /\ r.at = r.q.action
    /\ r.at = "record" => r.saw.x = r.q.ids[r.i] /\ r.saw.from \in Users
    /\ r.at \in {"record", "log"} => IsTransfer(r.q)

\* A retry works on a record and the copy it has read of it.
HasRecord == {"agent", "refuse", "complete", "persist"}

RetryTyped(r) ==
    /\ r.at # "start" => r.saw.x \in Transfers
    /\ r.at \in HasRecord => r.saw.t \in TransferRow
    /\ r.at \in {"complete", "persist"} => r.saw.from \in Users

\* The steps that only batches come to.
BatchSteps == (OnServer \ {"purge"}) \cup {"done"}

RequestTyped(r) ==
    /\ r.i \in Nat
    /\ r.at = "start" => r.i = 1
    /\ r.at \in BatchSteps => r.q.op = "batch"
    /\ r.at = "log" => r.q.op \in {"batch", "retry", "cancel"}
    /\ r.at = "load" => r.q.op \in {"group", "regroup", "ungroup", "add", "remove"}
    /\ r.q.op = "enroll" /\ r.at = "create" => r.saw \in Users
    /\ r.q.op = "add" /\ r.at = "write" => r.i \in Ids(r)
    /\ r.q.op = "cancel" /\ r.at # "start" => r.saw.x \in Transfers
    /\ r.q.op = "batch" => BatchTyped(r)
    /\ r.q.op = "retry" => RetryTyped(r)

\* The requests are those of one workload, each once.
Asked ==
    /\ \E w \in Workloads : \A r \in live : r.q \in w
    /\ \A r, s \in live : r.q = s.q => r = s

RequestsTyped ==
    /\ Asked
    /\ \A r \in live : Shaped(r) /\ (r.q.op \notin AddressOps => RequestTyped(r))

AgentsTyped == agents \in [Agents -> AgentRow \cup {Nothing, Deleted}]

TokensTyped == tokens \in [Tokens -> TokenRow \cup {Nothing}]
TransfersTyped == transfers \in [Transfers -> TransferRow \cup {Nothing}]

TInv == RequestsTyped /\ AgentsTyped /\ TokensTyped /\ TransfersTyped

\* A request is answered, or goes on.
Answered(r) == live' = live \ {r}
GoesOn(r) ==
    \E s : /\ live' = (live \ {r}) \cup {s}
           /\ Shaped(s) /\ s.q = r.q
           /\ r.q.op \notin AddressOps => RequestTyped(s)

-----------------------------------------------------------------------------
(* Facts about the helpers. *)

LEMMA ReqFields ==
  ASSUME NEW q, NEW at, NEW i, NEW saw
  PROVE  LET s == Req(q, at, i, saw) IN Shaped(s) /\ s.q = q /\ s.at = at /\ s.i = i /\ s.saw = saw
  BY DEF Req, Shaped, Fields

LEMMA Written ==
  ASSUME NEW r, Shaped(r), NEW at, NEW saw
  PROVE  [r EXCEPT !.at = at, !.saw = saw] = Req(r.q, at, r.i, saw)
<1> DEFINE s == [r EXCEPT !.at = at, !.saw = saw]
<1>1. s = [f \in Fields |-> s[f]] /\ s.q = r.q /\ s.at = at /\ s.i = r.i /\ s.saw = saw
  BY DEF Shaped, Fields
<1> HIDE DEF s
<1>2. s = Req(s.q, s.at, s.i, s.saw)
  BY <1>1 DEF Fields, Req
<1>3. s = Req(r.q, at, r.i, saw)
  BY <1>1, <1>2
<1> QED
  BY <1>3 DEF s

LEMMA GotoGoes ==
  ASSUME NEW r, Shaped(r), NEW at, NEW saw, Goto(r, at, saw),
         r.q.op \notin AddressOps => RequestTyped(Req(r.q, at, r.i, saw))
  PROVE  GoesOn(r)
<1>1. live' = (live \ {r}) \cup {Req(r.q, at, r.i, saw)}
  BY Written DEF Goto
<1>2. Shaped(Req(r.q, at, r.i, saw)) /\ Req(r.q, at, r.i, saw).q = r.q
  BY ReqFields
<1> QED
  BY <1>1, <1>2 DEF GoesOn

LEMMA AnswerAnswers == ASSUME NEW r, Answer(r) PROVE Answered(r)
  BY DEF Answer, Answered

LEMMA NextIdGoes ==
  ASSUME NEW r, Shaped(r), NEW again, NEW after, NextId(r, again, after),
         \A j \in Ids(r) : RequestTyped(Req(r.q, again, j, Nothing)),
         RequestTyped(Req(r.q, after, 1, Nothing))
  PROVE  GoesOn(r)
<1>1. ASSUME NEW i, NEW at, RequestTyped(Req(r.q, at, i, Nothing)),
             NEW s, s = [r EXCEPT !.i = i, !.at = at, !.saw = Nothing],
             live' = (live \ {r}) \cup {s}
      PROVE  GoesOn(r)
  <2>1. s = [f \in Fields |-> s[f]] /\ s.q = r.q /\ s.at = at /\ s.i = i /\ s.saw = Nothing
    BY <1>1 DEF Shaped, Fields
  <2>2. s = Req(s.q, s.at, s.i, s.saw)
    BY <2>1 DEF Fields, Req
  <2>3. s = Req(r.q, at, i, Nothing)
    BY <2>1, <2>2
  <2> QED
    BY <1>1, <2>1, <2>3 DEF GoesOn, Shaped
<1>2. CASE live' = (live \ {r}) \cup {[r EXCEPT !.i = 1, !.at = after, !.saw = Nothing]}
  BY <1>1, <1>2
<1>3. ASSUME NEW j \in Ids(r), live' = (live \ {r}) \cup {[r EXCEPT !.i = j, !.at = again, !.saw = Nothing]}
      PROVE  GoesOn(r)
  BY <1>1, <1>3
<1> QED
  BY <1>2, <1>3, Zenon DEF NextId

LEMMA FirstId ==
  ASSUME NEW ids \in Seq(Agents), dedupe_ids(ids) # {}
  PROVE  1 \in dedupe_ids(ids)
  BY DEF dedupe_ids

LEMMA IdsAreAgents ==
  ASSUME NEW ids \in Seq(Agents), NEW i \in dedupe_ids(ids)
  PROVE  i \in Nat /\ i >= 1 /\ i \in DOMAIN ids /\ ids[i] \in Agents
<1>1. i \in DOMAIN ids
  BY DEF dedupe_ids
<1> QED
  BY <1>1

\* What is known of a request of Enrollment or Fleet.
Fit(r) == Shaped(r) /\ RequestTyped(r) /\ EnrollmentRequest(r.q) /\ FleetRequest(r.q) /\ r.q.op \notin AddressOps

LEMMA RequestsFit ==
  ASSUME RequestsTyped, NEW r \in live, r.q.op \notin AddressOps
  PROVE  Fit(r)
<1>1. PICK w \in Workloads : r.q \in w
  BY DEF RequestsTyped, Asked
<1>2. EnrollmentRequest(r.q) /\ FleetRequest(r.q)
  BY <1>1, WorkloadsAssumption
<1> QED
  BY <1>2 DEF RequestsTyped, Fit

LEMMA ServerIsAgent ==
  ASSUME NEW r, Fit(r), r.q.op \in {"add", "batch"}, r.i \in Ids(r)
  PROVE  Server(r) \in Agents
  BY IdsAreAgents DEF Fit, FleetRequest, Ids, Server

\* The stages at which nothing is known of what was read.
LEMMA PlainTyped ==
  ASSUME NEW q, NEW at, NEW i \in Nat, NEW saw,
         q.op \notin {"enroll", "add", "cancel", "batch", "retry"} \/ (q.op \in {"enroll", "add"} /\ at \notin {"create", "write"}),
         at \notin BatchSteps \cup {"log", "start"},
         at = "load" => q.op \in {"group", "regroup", "ungroup", "add", "remove"}
  PROVE  RequestTyped(Req(q, at, i, saw))
<1> DEFINE s == Req(q, at, i, saw)
<1>1. s.q = q /\ s.at = at /\ s.i = i /\ s.saw = saw
  BY ReqFields
<1> HIDE DEF s
<1>2. RequestTyped(s)
  BY <1>1 DEF RequestTyped
<1> QED
  BY <1>2 DEF s

LEMMA EnrollmentLive ==
  ASSUME TInv, NEW r \in live, r.q.op \notin AddressOps, EnrollmentStep(r)
  PROVE  Answered(r) \/ GoesOn(r)
<1>1. Fit(r) /\ Shaped(r) /\ r.i \in Nat
  BY RequestsFit DEF TInv, Fit, RequestTyped
<1>2. CASE create_enrollment_token(r) \/ EnrollServerRow(r) \/ JwtSigned(r) \/ RevokePurges(r)
           \/ \E n \in Nonces : ChallengeInserts(r, n)
  BY <1>2, AnswerAnswers DEF create_enrollment_token, EnrollServerRow, JwtSigned, RevokePurges, ChallengeInserts
<1>3. CASE find_and_use(r)
  <2>1. CASE Usable(r.q.token)
    <3>1. Goto(r, "create", tokens[r.q.token].by)
      BY <1>3, <2>1 DEF find_and_use
    <3>2. tokens[r.q.token].by \in Users /\ r.q.op = "enroll"
      BY <1>1, <1>3, <2>1 DEF find_and_use, At, TInv, TokensTyped, TokenRow, Usable, Fit, EnrollmentRequest
    <3>3. RequestTyped(Req(r.q, "create", r.i, tokens[r.q.token].by))
      BY <1>1, <3>2, ReqFields DEF RequestTyped, BatchSteps, OnServer
    <3> QED
      BY <1>1, <3>1, <3>3, GotoGoes
  <2> QED
    BY <1>3, <2>1, AnswerAnswers DEF find_and_use
<1>4. CASE create_with_id(r)
  <2>1. Goto(r, "server", Nothing) /\ r.q.op = "enroll"
    BY <1>4 DEF create_with_id, At
  <2>2. RequestTyped(Req(r.q, "server", r.i, Nothing))
    BY <1>1, <2>1, PlainTyped DEF BatchSteps, OnServer
  <2> QED
    BY <1>1, <2>1, <2>2, GotoGoes
<1>5. ASSUME NEW at \in {"insert", "agent", "consume", "purge"}, NEW saw, Goto(r, at, saw),
             r.q.op \in {"challenge", "jwt", "revoke"}
      PROVE  GoesOn(r)
  <2>1. RequestTyped(Req(r.q, at, r.i, saw))
    BY <1>1, <1>5, PlainTyped DEF BatchSteps, OnServer
  <2> QED
    BY <1>1, <1>5, <2>1, GotoGoes
<1>6. CASE ChallengeChecks(r)
  BY <1>5, <1>6, AnswerAnswers DEF ChallengeChecks, At
<1>7. CASE JwtReadsAgent(r)
  BY <1>5, <1>7, AnswerAnswers DEF JwtReadsAgent, At
<1>8. CASE revoke(r)
  BY <1>5, <1>8, AnswerAnswers DEF revoke, At
<1>9. CASE \E n \in Nonces : JwtFinds(r, n)
  BY <1>5, <1>9, AnswerAnswers DEF JwtFinds, At
<1> QED
  BY <1>2, <1>3, <1>4, <1>6, <1>7, <1>8, <1>9 DEF EnrollmentStep

\* A request about groups goes on to another of its accesses.
LEMMA GroupLive ==
  ASSUME TInv, NEW r \in live, r.q.op \notin AddressOps, GroupStep(r)
  PROVE  Answered(r) \/ GoesOn(r)
<1>1. Fit(r) /\ Shaped(r) /\ r.i \in Nat
  BY RequestsFit DEF TInv, Fit, RequestTyped
<1>2. ASSUME NEW at \in {"load", "check"}, Goto(r, at, Nothing),
             r.q.op \in {"group", "regroup", "ungroup", "add", "remove"}
      PROVE  GoesOn(r)
  <2>1. RequestTyped(Req(r.q, at, r.i, Nothing))
    BY <1>1, <1>2, PlainTyped DEF BatchSteps, OnServer
  <2> QED
    BY <1>1, <1>2, <2>1, GotoGoes
<1>3. ASSUME Goto(r, "write", Nothing), r.q.op \in {"regroup", "ungroup", "remove"}
      PROVE  GoesOn(r)
  <2>1. RequestTyped(Req(r.q, "write", r.i, Nothing))
    BY <1>1, <1>3, PlainTyped DEF BatchSteps, OnServer
  <2> QED
    BY <1>1, <1>3, <2>1, GotoGoes
<1>4. ASSUME NEW again \in {"check", "write"}, NEW after \in {"write", "load"}, r.q.op = "add",
             after = "write" => Ids(r) # {}, NextId(r, again, after)
      PROVE  GoesOn(r)
  <2>1. \A j \in Ids(r) : j \in Nat
    BY <1>1, <1>4, IdsAreAgents DEF Fit, FleetRequest, Ids
  <2>2. after = "write" => 1 \in Ids(r)
    BY <1>1, <1>4, FirstId DEF Fit, FleetRequest, Ids
  <2>3. ASSUME NEW at \in {"check", "write", "load"}, NEW j \in Nat, at = "write" => j \in Ids(r)
        PROVE  RequestTyped(Req(r.q, at, j, Nothing))
    <3> DEFINE s == Req(r.q, at, j, Nothing)
    <3>1. s.q = r.q /\ s.at = at /\ s.i = j
      BY ReqFields
    <3>2. Ids(s) = Ids(r)
      BY <3>1 DEF Ids
    <3> HIDE DEF s
    <3>3. RequestTyped(s)
      BY <1>4, <2>3, <3>1, <3>2 DEF RequestTyped, BatchSteps, OnServer
    <3> QED
      BY <3>3 DEF s
  <2>4. \A j \in Ids(r) : RequestTyped(Req(r.q, again, j, Nothing))
    BY <1>4, <2>1, <2>3
  <2>5. RequestTyped(Req(r.q, after, 1, Nothing))
    BY <1>4, <2>2, <2>3
  <2> QED
    BY <1>1, <1>4, <2>4, <2>5, NextIdGoes
<1>5. CASE create_server_group(r)
  BY <1>2, <1>5, AnswerAnswers DEF create_server_group, At
<1>6. CASE GroupChecks(r)
  BY <1>2, <1>3, <1>6, AnswerAnswers DEF GroupChecks
<1>7. CASE update_server_group(r)
  BY <1>2, <1>7, AnswerAnswers DEF update_server_group, At
<1>8. CASE delete_server_group(r) \/ AnswersWithGroup(r)
  BY <1>8, AnswerAnswers DEF delete_server_group, AnswersWithGroup
<1>9. CASE AddChecksServer(r)
  BY <1>4, <1>9, AnswerAnswers DEF AddChecksServer, At
<1>10. CASE AddInserts(r)
  BY <1>4, <1>10, AnswerAnswers DEF AddInserts, At
<1>11. CASE ensure_group_server_access(r)
  BY <1>3, <1>11, AnswerAnswers DEF ensure_group_server_access, At
<1>12. CASE delete_server_group_member(r)
  BY <1>2, <1>12 DEF delete_server_group_member, At
<1> QED
  BY <1>5, <1>6, <1>7, <1>8, <1>9, <1>10, <1>11, <1>12 DEF GroupStep

\* A batch goes on with the same Agent, or with the next one.
LEMMA BatchGoes ==
  ASSUME NEW r, Fit(r), r.q.op = "batch", NEW at, NEW saw, Goto(r, at, saw),
         r.i \in Ids(r),
         at \in {"row", "join", "drop", "purge"} \/ (at \in Actions /\ at = r.q.action /\ saw \in AgentRow)
  PROVE  GoesOn(r)
<1> DEFINE s == Req(r.q, at, r.i, saw)
<1>1. s.q = r.q /\ s.at = at /\ s.i = r.i /\ s.saw = saw
  BY ReqFields
<1>2. Ids(s) = Ids(r)
  BY <1>1 DEF Ids
<1> HIDE DEF s
<1>3. BatchTyped(s)
  BY <1>1, <1>2 DEF BatchTyped, Actions
<1>4. RequestTyped(s)
  BY <1>1, <1>3 DEF RequestTyped, Fit, Actions, BatchSteps, OnServer
<1> QED
  BY <1>4, GotoGoes DEF s, Fit

LEMMA BatchNext ==
  ASSUME NEW r, Fit(r), r.q.op = "batch", NextServer(r)
  PROVE  GoesOn(r)
<1>1. \A j \in Ids(r) : j \in Nat
  BY IdsAreAgents DEF Fit, FleetRequest, Ids
<1>2. ASSUME NEW at \in {"row", "done"}, NEW j \in Nat, at = "row" => j \in Ids(r)
      PROVE  RequestTyped(Req(r.q, at, j, Nothing))
  <2> DEFINE s == Req(r.q, at, j, Nothing)
  <2>1. s.q = r.q /\ s.at = at /\ s.i = j
    BY ReqFields
  <2>2. Ids(s) = Ids(r)
    BY <2>1 DEF Ids
  <2> HIDE DEF s
  <2>3. BatchTyped(s)
    BY <1>2, <2>1, <2>2 DEF BatchTyped, Actions, OnServer
  <2>4. RequestTyped(s)
    BY <1>2, <2>1, <2>3 DEF RequestTyped
  <2> QED
    BY <2>4 DEF s
<1> QED
  BY <1>1, <1>2, NextIdGoes DEF NextServer, Fit

LEMMA BatchLive ==
  ASSUME TInv, NEW r \in live, r.q.op \notin AddressOps, BatchStep(r)
  PROVE  Answered(r) \/ GoesOn(r)
<1>1. Fit(r) /\ Shaped(r) /\ r.i \in Nat
  BY RequestsFit DEF TInv, Fit, RequestTyped
<1>2. CASE update_server_reads(r)
  <2>1. CASE Goto(r, "write", Nothing)
    <3>1. RequestTyped(Req(r.q, "write", r.i, Nothing))
      BY <1>1, <1>2, PlainTyped DEF BatchSteps, OnServer, update_server_reads, At
    <3> QED
      BY <1>1, <2>1, <3>1, GotoGoes
  <2> QED
    BY <1>2, <2>1, AnswerAnswers DEF update_server_reads
<1>3. CASE update_dashboard_metadata(r) \/ BatchAnswers(r)
  BY <1>3, AnswerAnswers DEF update_dashboard_metadata, BatchAnswers
<1>4. CASE batch_update_servers(r)
  <2>1. CASE MayBatch(r.q)
    <3>1. r.q.op = "batch" /\ r.at = "start" /\ Goto(r, "row", Nothing)
      BY <1>4, <2>1 DEF batch_update_servers, At
    <3>2. r.i \in Ids(r)
      BY <1>1, <2>1, <3>1, FirstId DEF MayBatch, Fit, FleetRequest, RequestTyped, Ids
    <3> QED
      BY <1>1, <3>1, <3>2, BatchGoes
  <2> QED
    BY <1>4, <2>1, AnswerAnswers DEF batch_update_servers
<1>5. CASE apply_batch_action(r)
  <2>1. r.q.op = "batch" /\ r.i \in Ids(r)
    BY <1>1, <1>5 DEF apply_batch_action, At, Fit, RequestTyped, BatchTyped, OnServer
  <2>2. CASE MayApply(r.q, Server(r))
    <3>1. Goto(r, r.q.action, agents[Server(r)])
      BY <1>5, <2>2 DEF apply_batch_action
    <3>2. agents[Server(r)] \in AgentRow
      BY <1>1, <2>1, <2>2, ServerIsAgent DEF MayApply, Exists, TInv, AgentsTyped
    <3>3. r.q.action \in Actions
      BY <1>1, <2>1 DEF Fit, FleetRequest, Actions
    <3> QED
      BY <1>1, <2>1, <3>1, <3>2, <3>3, BatchGoes
  <2> QED
    BY <1>1, <1>5, <2>1, <2>2, BatchNext DEF apply_batch_action
<1>6. ASSUME r.at \in BatchSteps PROVE r.q.op = "batch"
  BY <1>1, <1>6 DEF Fit, RequestTyped
<1>7. ASSUME r.at \in BatchSteps \ {"done"} PROVE r.i \in Ids(r)
  BY <1>1, <1>6, <1>7 DEF Fit, RequestTyped, BatchTyped, BatchSteps
<1>8. CASE update_agent_dashboard_metadata(r)
  BY <1>1, <1>6, <1>8, BatchNext DEF update_agent_dashboard_metadata, BatchSteps, OnServer
<1>9. CASE MoveLeaves(r)
  BY <1>1, <1>6, <1>7, <1>9, BatchGoes DEF MoveLeaves, BatchSteps, OnServer
<1>10. CASE MoveJoins(r)
  BY <1>1, <1>6, <1>10, BatchNext DEF MoveJoins, BatchSteps, OnServer
<1>11. CASE DeleteLeaves(r)
  BY <1>1, <1>6, <1>7, <1>11, BatchGoes DEF DeleteLeaves, BatchSteps, OnServer
<1>12. CASE DeleteRow(r)
  <2>1. r.q.op = "batch" /\ r.i \in Ids(r)
    BY <1>6, <1>7, <1>12 DEF DeleteRow, BatchSteps, OnServer
  <2>2. Goto(r, "purge", Nothing) \/ NextServer(r)
    BY <1>12 DEF DeleteRow
  <2> QED
    BY <1>1, <2>1, <2>2, BatchGoes, BatchNext
<1>13. CASE DeletePurges(r)
  BY <1>1, <1>13, BatchNext DEF DeletePurges, At
<1> QED
  BY <1>2, <1>3, <1>4, <1>5, <1>8, <1>9, <1>10, <1>11, <1>12, <1>13 DEF BatchStep

\* What a transfer and its record leave in a request.
LEMMA RecordGoes ==
  ASSUME NEW r, Fit(r), r.q.op \in {"retry", "cancel"}, NEW at, NEW saw, Goto(r, at, saw),
         saw.x \in Transfers, at \in HasRecord => saw.t \in TransferRow,
         at \in {"complete", "persist"} => saw.from \in Users,
         at \in HasRecord \cup {"fail", "log", "write"}
  PROVE  GoesOn(r)
<1> DEFINE s == Req(r.q, at, r.i, saw)
<1>1. s.q = r.q /\ s.at = at /\ s.i = r.i /\ s.saw = saw
  BY ReqFields
<1> HIDE DEF s
<1>2. RetryTyped(s)
  BY <1>1 DEF RetryTyped
<1>3. RequestTyped(s)
  BY <1>1, <1>2 DEF RequestTyped, Fit, BatchSteps, OnServer, HasRecord
<1> QED
  BY <1>3, GotoGoes DEF s, Fit

LEMMA TransferLive ==
  ASSUME TInv, NEW r \in live, r.q.op \notin AddressOps, TransferStep(r)
  PROVE  Answered(r) \/ GoesOn(r)
<1>1. Fit(r) /\ Shaped(r) /\ r.i \in Nat
  BY RequestsFit DEF TInv, Fit, RequestTyped
<1>2. ASSUME r.q.op = "retry"
      PROVE  /\ r.at # "start" => r.saw.x \in Transfers
             /\ r.at \in HasRecord => r.saw.t \in TransferRow
             /\ r.at \in {"complete", "persist"} => r.saw.from \in Users
             /\ r.q.transfer \in Transfers
  BY <1>1, <1>2 DEF Fit, RequestTyped, RetryTyped, FleetRequest
<1>3. ASSUME NEW x \in Transfers, NEW outcome, Outcome(r, x, outcome), r.q.op \in {"retry", "cancel"}
      PROVE  GoesOn(r)
  BY <1>1, <1>3, RecordGoes DEF Outcome, HasRecord
<1>4. ASSUME r.q.op = "batch", IsTransfer(r.q), r.i \in Ids(r)
      PROVE  r.q.ids[r.i] \in Transfers /\ r.q.to \in Users
  BY <1>1, <1>4 DEF Fit, FleetRequest, Ids
<1>5. CASE perform_owner_transfer_new(r)
  <2>1. r.q.op = "batch" /\ r.i \in Ids(r) /\ r.saw \in AgentRow /\ IsTransfer(r.q)
    BY <1>1, <1>5 DEF perform_owner_transfer_new, At, Fit, RequestTyped, BatchTyped, OnServer, Actions, IsTransfer
  <2>2. ASSUME NEW at, NEW saw, Goto(r, at, saw), at = "log" \/ (at = "record" /\ saw = [x |-> r.q.ids[r.i], from |-> r.saw.owner])
        PROVE  GoesOn(r)
    <3> DEFINE s == Req(r.q, at, r.i, saw)
    <3>1. s.q = r.q /\ s.at = at /\ s.i = r.i /\ s.saw = saw
      BY ReqFields
    <3>2. Ids(s) = Ids(r)
      BY <3>1 DEF Ids
    <3>3. r.saw.owner \in Users
      BY <2>1 DEF AgentRow
    <3> HIDE DEF s
    <3>4. BatchTyped(s)
      BY <2>1, <2>2, <3>1, <3>2, <3>3 DEF BatchTyped, Actions, OnServer
    <3>5. RequestTyped(s)
      BY <1>1, <2>1, <2>2, <3>1, <3>4 DEF RequestTyped
    <3> QED
      BY <1>1, <2>2, <3>5, GotoGoes DEF s
  <2> QED
    BY <1>5, <2>2 DEF perform_owner_transfer_new
<1>6. CASE record_failed_server_owner_transfer(r)
  <2>1. r.q.op = "batch" /\ IsTransfer(r.q) /\ Goto(r, "log", [x |-> r.saw.x, outcome |-> "failure"])
    BY <1>1, <1>6 DEF record_failed_server_owner_transfer, At, Fit, RequestTyped, BatchTyped
  <2> DEFINE s == Req(r.q, "log", r.i, [x |-> r.saw.x, outcome |-> "failure"])
  <2>2. s.q = r.q /\ s.at = "log" /\ s.i = r.i
    BY ReqFields
  <2> HIDE DEF s
  <2>3. BatchTyped(s)
    BY <2>1, <2>2 DEF BatchTyped, Actions, OnServer
  <2>4. RequestTyped(s)
    BY <1>1, <2>1, <2>2, <2>3 DEF RequestTyped, BatchSteps, OnServer
  <2> QED
    BY <1>1, <2>1, <2>4, GotoGoes DEF s
<1>7. CASE record_server_transfer_audit(r)
  BY <1>1, <1>7, BatchNext, AnswerAnswers DEF record_server_transfer_audit
<1>8. CASE RetryLoads(r)
  <2>1. CASE Unsettled(r.q)
    <3>1. r.q.op = "retry" /\ Goto(r, "agent", [x |-> r.q.transfer, t |-> transfers[r.q.transfer]])
      BY <1>8, <2>1 DEF RetryLoads, At, load_server_owner_transfer
    <3>2. transfers[r.q.transfer] \in TransferRow
      BY <1>2, <2>1, <3>1 DEF Unsettled, load_server_owner_transfer, TInv, TransfersTyped
    <3> QED
      BY <1>1, <1>2, <3>1, <3>2, RecordGoes DEF HasRecord
  <2> QED
    BY <1>8, <2>1, AnswerAnswers DEF RetryLoads
<1>9. CASE CancelLoads(r)
  <2>1. CASE Unsettled(r.q)
    <3>1. r.q.op = "cancel" /\ Goto(r, "write", [x |-> r.q.transfer]) /\ r.q.transfer \in Transfers
      BY <1>1, <1>9, <2>1 DEF CancelLoads, At, Fit, FleetRequest
    <3> QED
      BY <1>1, <3>1, RecordGoes DEF HasRecord
  <2> QED
    BY <1>9, <2>1, AnswerAnswers DEF CancelLoads
<1>10. CASE RetryReads(r)
  <2> DEFINE a == r.saw.t.agent
             seen == [x |-> r.saw.x, t |-> r.saw.t, from |-> IF Exists(a) THEN agents[a].owner ELSE Nothing]
  <2>1. r.q.op = "retry" /\ r.saw.x \in Transfers /\ r.saw.t \in TransferRow /\ a \in Agents
    BY <1>2, <1>10 DEF RetryReads, At, HasRecord, TransferRow
  <2>2. Exists(a) => seen.from \in Users
    BY <2>1 DEF Exists, TInv, AgentsTyped, AgentRow
  <2>3. \/ Goto(r, "refuse", seen)
        \/ Exists(a) /\ Goto(r, "complete", seen)
        \/ Exists(a) /\ Goto(r, "persist", seen)
    BY <1>10 DEF RetryReads
  <2>4. seen.x = r.saw.x /\ seen.t = r.saw.t
    OBVIOUS
  <2> HIDE DEF seen, a
  <2> QED
    BY <1>1, <2>1, <2>2, <2>3, <2>4, RecordGoes DEF HasRecord
<1>11. CASE mark_server_owner_transfer_completed(r) \/ perform_owner_transfer_existing(r)
  <2>1. r.q.op = "retry" /\ r.saw.x \in Transfers
    BY <1>2, <1>11 DEF mark_server_owner_transfer_completed, perform_owner_transfer_existing, At
  <2>2. (\E outcome : Outcome(r, r.saw.x, outcome)) \/ Goto(r, "fail", [x |-> r.saw.x])
    BY <1>11 DEF mark_server_owner_transfer_completed, perform_owner_transfer_existing
  <2> QED
    BY <1>1, <1>3, <2>1, <2>2, RecordGoes DEF HasRecord
<1>12. CASE mark_server_owner_transfer_failed(r)
  <2>1. r.q.op = "retry" /\ r.saw.x \in Transfers
    BY <1>2, <1>12 DEF mark_server_owner_transfer_failed
  <2> QED
    BY <1>3, <1>12, <2>1, AnswerAnswers DEF mark_server_owner_transfer_failed
<1>13. CASE mark_server_owner_transfer_cancelled(r)
  <2>1. r.q.op = "cancel" /\ r.saw.x \in Transfers
    BY <1>1, <1>13 DEF mark_server_owner_transfer_cancelled, At, Fit, RequestTyped
  <2> QED
    BY <1>3, <1>13, <2>1, AnswerAnswers DEF mark_server_owner_transfer_cancelled
<1> QED
  BY <1>5, <1>6, <1>7, <1>8, <1>9, <1>10, <1>11, <1>12, <1>13 DEF TransferStep

LEMMA FleetLive ==
  ASSUME TInv, NEW r \in live, r.q.op \notin AddressOps, FleetStep(r)
  PROVE  Answered(r) \/ GoesOn(r)
  BY EnrollmentLive, GroupLive, BatchLive, TransferLive, AnswerAnswers DEF FleetStep, Enrols, Dropped

\* The steps of Addresses, of which only the shape matters here.
LEMMA NextConfigGoes ==
  ASSUME NEW r, Shaped(r), r.q.op \in AddressOps, NextConfig(r)
  PROVE  Answered(r) \/ GoesOn(r)
<1>1. CASE live' = (live \ {r}) \cup {[r EXCEPT !.i = @ + 1, !.at = "agent", !.saw.resolved = FALSE, !.saw.ip = Nothing]}
  <2>1. ASSUME NEW s, s = [r EXCEPT !.i = @ + 1, !.at = "agent", !.saw.resolved = FALSE, !.saw.ip = Nothing]
        PROVE  Shaped(s) /\ s.q = r.q
    BY <2>1 DEF Shaped, Fields
  <2> QED
    BY <1>1, <2>1, Zenon DEF GoesOn
<1>2. CASE Goto(r, "latest", Nothing)
  BY <1>2, GotoGoes
<1> QED
  BY <1>1, <1>2, AnswerAnswers DEF NextConfig

LEMMA AddressLive ==
  ASSUME NEW r, Shaped(r), r.q.op \in AddressOps, ConfigStep(r) \/ WalkStep(r) \/ ChangeStep(r) \/ GeoStep(r)
  PROVE  Answered(r) \/ GoesOn(r)
<1>1. CASE ConfigStep(r)
  BY <1>1, GotoGoes, AnswerAnswers
     DEF ConfigStep, CreateConfigChecks, create_ddns_config, DeleteConfigLoads, delete_ddns_config,
         list_ddns_configs, HistoryLoadsConfig, list_ddns_history, ReloadLists, load_providers
<1>2. CASE WalkStep(r)
  BY <1>2, GotoGoes, AnswerAnswers, NextConfigGoes
     DEF WalkStep, check_all_agents, check_agent_ip_report, ConfigReadsAgent, resolver_contains_ip,
         ResolverDoesNotConfirm, FindsProvider, CallProvider, AfterFailure, record_history, update_after_apply,
         WriteFails, WalkEnds, update_last_state
<1>3. CASE ChangeStep(r)
  BY <1>3, GotoGoes, AnswerAnswers
     DEF ChangeStep, ReportReadsLatest, insert_agent_ip_event, NotifyReadsOwner, notify_agent_ip_change
<1>4. CASE GeoStep(r)
  BY <1>4, GotoGoes, AnswerAnswers
     DEF GeoStep, latest_agent_ips, read_cached_geo_location, GeoLookup, cache_geo_location,
         InstallReadsBytes, install_mmdb_bytes, InstallClearsCache
<1> QED
  BY <1>1, <1>2, <1>3, <1>4

LEMMA LiveTyped ==
  ASSUME RequestsTyped, NEW r \in live, Answered(r) \/ GoesOn(r)
  PROVE  RequestsTyped'
<1>1. PICK w \in Workloads : \A o \in live : o.q \in w
  BY DEF RequestsTyped, Asked
<1>2. CASE Answered(r)
  BY <1>1, <1>2 DEF Answered, RequestsTyped, Asked
<1>3. CASE GoesOn(r)
  <2>1. PICK s : /\ live' = (live \ {r}) \cup {s}
                 /\ Shaped(s) /\ s.q = r.q
                 /\ r.q.op \notin AddressOps => RequestTyped(s)
    BY <1>3 DEF GoesOn
  <2>2. \A o \in live' : o.q \in w
    BY <1>1, <2>1
  <2>3. \A o, p \in live' : o.q = p.q => o = p
    BY <2>1 DEF RequestsTyped, Asked
  <2>4. \A o \in live' : Shaped(o) /\ (o.q.op \notin AddressOps => RequestTyped(o))
    BY <2>1 DEF RequestsTyped
  <2> QED
    BY <2>2, <2>3, <2>4 DEF RequestsTyped, Asked
<1> QED
  BY <1>2, <1>3

-----------------------------------------------------------------------------
(* What a step changes. *)

\* A transfer that is carried out: a new one, or the retry of one that is recorded.
Persists(r, x, a, to) ==
    /\ x \in Transfers /\ a \in Agents /\ to \in Users /\ Exists(a)
    /\ persist_owner_transfer(x, a, agents[a].owner, to)
    /\ \/ At(r, "batch", "transfer") /\ IsTransfer(r.q) /\ r.i \in Ids(r) /\ x = r.q.ids[r.i]
       \/ At(r, "retry", "persist") /\ x = r.saw.x /\ a = r.saw.t.agent /\ to = r.saw.t.to

Transferred(r) == \E x, a, to : Persists(r, x, a, to)

LEMMA Performs ==
  ASSUME TInv, NEW r \in live, r.q.op \notin AddressOps,
         perform_owner_transfer_new(r) \/ perform_owner_transfer_existing(r)
  PROVE  UNCHANGED <<enrolment, fleet>> \/ Transferred(r)
<1>1. Fit(r)
  BY RequestsFit DEF TInv
<1>2. CASE perform_owner_transfer_new(r)
  <2>1. At(r, "batch", "transfer") /\ r.i \in Ids(r) /\ IsTransfer(r.q)
    BY <1>1, <1>2 DEF perform_owner_transfer_new, At, Fit, RequestTyped, BatchTyped, OnServer, Actions, IsTransfer
  <2>2. r.q.ids[r.i] \in Transfers /\ r.q.to \in Users /\ Server(r) \in Agents
    BY <1>1, <2>1, ServerIsAgent DEF At, Fit, FleetRequest, Ids
  <2>3. CASE OwnerStill(Server(r), r.saw.owner)
    <3>1. persist_owner_transfer(r.q.ids[r.i], Server(r), agents[Server(r)].owner, r.q.to) /\ Exists(Server(r))
      BY <1>2, <2>3 DEF perform_owner_transfer_new, OwnerStill
    <3> QED
      BY <2>1, <2>2, <3>1 DEF Transferred, Persists
  <2> QED
    BY <1>2, <2>3 DEF perform_owner_transfer_new
<1>3. CASE perform_owner_transfer_existing(r)
  <2>1. At(r, "retry", "persist") /\ r.saw.x \in Transfers /\ r.saw.t.agent \in Agents /\ r.saw.t.to \in Users
    BY <1>1, <1>3 DEF perform_owner_transfer_existing, At, Fit, RequestTyped, RetryTyped, HasRecord, TransferRow
  <2>2. CASE OwnerStill(r.saw.t.agent, r.saw.from)
    <3>1. persist_owner_transfer(r.saw.x, r.saw.t.agent, agents[r.saw.t.agent].owner, r.saw.t.to) /\ Exists(r.saw.t.agent)
      BY <1>3, <2>2 DEF perform_owner_transfer_existing, OwnerStill
    <3> QED
      BY <2>1, <3>1 DEF Transferred, Persists
  <2> QED
    BY <1>3, <2>2 DEF perform_owner_transfer_existing
<1> QED
  BY <1>2, <1>3

\* The steps that touch each table.
AgentSteps(r) ==
    \/ Enrols(r) /\ create_with_id(r)
    \/ revoke(r) \/ update_dashboard_metadata(r) \/ update_agent_dashboard_metadata(r)
    \/ DeleteRow(r) \/ Transferred(r)
TokenSteps(r) == create_enrollment_token(r) \/ find_and_use(r)
ChallengeSteps(r) ==
    \/ \E n \in Nonces : ChallengeInserts(r, n) \/ JwtFinds(r, n)
    \/ JwtSigned(r) \/ RevokePurges(r) \/ DeletePurges(r)
RecordSteps(r) ==
    \/ DeleteRow(r) \/ Transferred(r) \/ record_failed_server_owner_transfer(r)
    \/ mark_server_owner_transfer_completed(r) \/ mark_server_owner_transfer_failed(r)
    \/ mark_server_owner_transfer_cancelled(r)
MemberSteps(r) ==
    \/ delete_server_group(r) \/ AddInserts(r) \/ delete_server_group_member(r)
    \/ MoveLeaves(r) \/ MoveJoins(r) \/ DeleteLeaves(r) \/ DeleteRow(r) \/ Transferred(r)

Effects(r) ==
    /\ UNCHANGED agents \/ AgentSteps(r)
    /\ UNCHANGED tokens \/ TokenSteps(r)
    /\ UNCHANGED made \/ create_with_id(r)
    /\ UNCHANGED challenges \/ ChallengeSteps(r)
    /\ UNCHANGED issued \/ JwtSigned(r)
    /\ UNCHANGED purged \/ RevokePurges(r) \/ DeletePurges(r)
    /\ UNCHANGED groups \/ create_server_group(r) \/ delete_server_group(r)
    /\ UNCHANGED members \/ MemberSteps(r)
    /\ UNCHANGED transfers \/ RecordSteps(r)
    /\ UNCHANGED owners \/ Transferred(r) \/ Enrols(r)
    /\ UNCHANGED shown \/ AnswersWithGroup(r)

LEMMA StepEffects ==
  ASSUME TInv, NEW r \in live, r.q.op \notin AddressOps, FleetStep(r)
  PROVE  Effects(r)
<1> USE DEF enrolment, rows, fleet
<1>1. CASE Enrols(r)
  BY <1>1 DEF Effects, Enrols, EnrollmentStep, create_enrollment_token, find_and_use, create_with_id, EnrollServerRow,
         ChallengeChecks, JwtReadsAgent, JwtSigned, revoke, RevokePurges, purge_agent_jwt_challenges, ChallengeInserts, JwtFinds,
         AgentSteps, TokenSteps, ChallengeSteps
<1>2. CASE GroupStep(r)
  BY <1>2 DEF Effects, GroupStep, create_server_group, GroupChecks, update_server_group, delete_server_group,
         AddChecksServer, AddInserts, ensure_group_server_access, delete_server_group_member, AnswersWithGroup, MemberSteps
<1>3. CASE BatchStep(r)
  BY <1>3 DEF Effects, BatchStep, update_server_reads, update_dashboard_metadata, batch_update_servers, apply_batch_action,
         update_agent_dashboard_metadata, MoveLeaves, MoveJoins, DeleteLeaves, DeleteRow, DeletePurges, BatchAnswers,
         purge_agent_jwt_challenges, AgentSteps, ChallengeSteps, MemberSteps, RecordSteps
<1>4. CASE TransferStep(r)
  <2>1. CASE perform_owner_transfer_new(r) \/ perform_owner_transfer_existing(r)
    <3>1. UNCHANGED <<enrolment, fleet>> \/ Transferred(r)
      BY <2>1, Performs
    <3>2. CASE UNCHANGED <<enrolment, fleet>>
      BY <3>2 DEF Effects
    <3>3. CASE Transferred(r)
      <4>1. UNCHANGED <<servers, tokens, challenges, issued, purged, made, groups, audit, shown>>
        BY <3>3 DEF Transferred, Persists, persist_owner_transfer
      <4> QED
        BY <3>3, <4>1 DEF Effects, AgentSteps, MemberSteps, RecordSteps
    <3> QED
      BY <3>1, <3>2, <3>3
  <2>2. CASE ~(perform_owner_transfer_new(r) \/ perform_owner_transfer_existing(r))
    BY <1>4, <2>2 DEF Effects, TransferStep, record_failed_server_owner_transfer, record_server_transfer_audit,
           RetryLoads, CancelLoads, RetryReads, mark_server_owner_transfer_completed, mark_server_owner_transfer_failed,
           mark_server_owner_transfer_cancelled, RecordSteps
  <2> QED
    BY <2>1, <2>2
<1>5. CASE Dropped(r)
  BY <1>5 DEF Effects, Dropped
<1> QED
  BY <1>1, <1>2, <1>3, <1>4, <1>5 DEF FleetStep

\* What may become of an Agent's row.
Kept(a) ==
    /\ agents[a] \in AgentRow /\ agents'[a] \in AgentRow
    /\ agents'[a].owner = agents[a].owner
    /\ agents[a].revoked => agents'[a].revoked

AgentChange(r, a) ==
    \/ agents'[a] = agents[a]
    \/ Kept(a)
    \/ Enrols(r) /\ create_with_id(r) /\ r.q.agent = a /\ agents'[a] \in AgentRow
    \/ DeleteRow(r) /\ Server(r) = a /\ agents[a] \in AgentRow /\ agents'[a] = Deleted
    \/ \E x, to : /\ Persists(r, x, a, to) /\ agents[a] \in AgentRow /\ agents'[a] \in AgentRow
                  /\ agents'[a].owner = to /\ agents'[a].revoked = agents[a].revoked

LEMMA RowsExist ==
  ASSUME AgentsTyped, NEW a \in Agents
  PROVE  Exists(a) <=> agents[a] \in AgentRow
  BY EnrollmentAssumption DEF AgentsTyped, Exists

LEMMA AgentsChange ==
  ASSUME TInv, NEW r \in live, r.q.op \notin AddressOps, FleetStep(r)
  PROVE  /\ DOMAIN agents' = Agents /\ agents' = [a \in Agents |-> agents'[a]]
         /\ \A a \in Agents : AgentChange(r, a)
<1>1. Fit(r) /\ AgentsTyped
  BY RequestsFit DEF TInv
<1>2. CASE UNCHANGED agents
  BY <1>1, <1>2 DEF AgentsTyped, AgentChange
<1>3. CASE Enrols(r) /\ create_with_id(r)
  <2>1. r.saw \in Users /\ r.q.agent \in Agents
    BY <1>1, <1>3 DEF create_with_id, At, Fit, RequestTyped, EnrollmentRequest
  <2>2. [owner |-> r.saw, revoked |-> FALSE, tags |-> {}, hidden |-> FALSE] \in AgentRow
    BY <2>1 DEF AgentRow
  <2> QED
    BY <1>1, <1>3, <2>1, <2>2 DEF create_with_id, AgentsTyped, AgentChange
<1>4. CASE revoke(r)
  <2>1. CASE AdminSession(r.q) /\ Active(r.q.agent)
    <3>1. r.q.agent \in Agents /\ agents[r.q.agent] \in AgentRow
      BY <1>1, <1>4, <2>1, RowsExist DEF revoke, At, Fit, EnrollmentRequest, Active
    <3>2. agents' = [agents EXCEPT ![r.q.agent].revoked = TRUE]
      BY <1>4, <2>1 DEF revoke
    <3>3. Kept(r.q.agent)
      BY <1>1, <3>1, <3>2 DEF AgentsTyped, AgentRow, Kept
    <3> QED
      BY <1>1, <3>1, <3>2, <3>3 DEF AgentsTyped, AgentChange
  <2> QED
    BY <1>1, <1>4, <2>1 DEF revoke, AgentsTyped, AgentChange
<1>5. CASE update_dashboard_metadata(r)
  <2>1. CASE Exists(r.q.agent)
    <3>1. r.q.agent \in Agents /\ agents[r.q.agent] \in AgentRow /\ r.q.tags \subseteq Tags /\ r.q.hidden \in BOOLEAN
      BY <1>1, <1>5, <2>1, RowsExist DEF update_dashboard_metadata, At, Fit, FleetRequest
    <3>2. agents' = [agents EXCEPT ![r.q.agent].tags = r.q.tags, ![r.q.agent].hidden = r.q.hidden]
      BY <1>5, <2>1 DEF update_dashboard_metadata
    <3>3. Kept(r.q.agent)
      BY <1>1, <3>1, <3>2 DEF AgentsTyped, AgentRow, Kept
    <3> QED
      BY <1>1, <3>1, <3>2, <3>3 DEF AgentsTyped, AgentChange
  <2> QED
    BY <1>1, <1>5, <2>1 DEF update_dashboard_metadata, AgentsTyped, AgentChange
<1>6. CASE update_agent_dashboard_metadata(r)
  <2>1. r.q.op = "batch" /\ r.i \in Ids(r) /\ r.saw \in AgentRow
    BY <1>1, <1>6 DEF update_agent_dashboard_metadata, Fit, RequestTyped, BatchTyped, BatchSteps, OnServer, Actions
  <2>2. Server(r) \in Agents /\ r.q.more \subseteq Tags /\ r.q.hidden \in BOOLEAN
    BY <1>1, <2>1, ServerIsAgent DEF Fit, FleetRequest
  <2>3. CASE Exists(Server(r))
    <3>1. agents[Server(r)] \in AgentRow
      BY <1>1, <2>2, <2>3, RowsExist
    <3>2. PICK tags \in SUBSET Tags, hidden \in BOOLEAN :
             agents' = [agents EXCEPT ![Server(r)].tags = tags, ![Server(r)].hidden = hidden]
      <4>1. (IF r.at = "tags" THEN (r.saw.tags \ r.q.less) \cup r.q.more ELSE r.saw.tags) \in SUBSET Tags
        BY <2>1, <2>2 DEF AgentRow
      <4>2. (IF r.at = "hide" THEN r.q.hidden ELSE r.saw.hidden) \in BOOLEAN
        BY <2>1, <2>2, Zenon DEF AgentRow
      <4> QED
        BY <1>6, <2>3, <4>1, <4>2 DEF update_agent_dashboard_metadata
    <3>3. Kept(Server(r))
      BY <1>1, <2>2, <3>1, <3>2 DEF AgentsTyped, AgentRow, Kept
    <3> QED
      BY <1>1, <2>2, <3>1, <3>2, <3>3 DEF AgentsTyped, AgentChange
  <2> QED
    BY <1>1, <1>6, <2>3 DEF update_agent_dashboard_metadata, AgentsTyped, AgentChange
<1>7. CASE DeleteRow(r)
  <2>1. Server(r) \in Agents
    BY <1>1, <1>7, ServerIsAgent DEF DeleteRow, Fit, RequestTyped, BatchTyped, BatchSteps, OnServer
  <2> QED
    BY <1>1, <1>7, <2>1, RowsExist DEF DeleteRow, AgentsTyped, AgentChange
<1>8. CASE Transferred(r)
  <2>1. PICK x, a, to : Persists(r, x, a, to)
    BY <1>8 DEF Transferred
  <2>2. agents[a] \in AgentRow /\ a \in Agents /\ to \in Users /\ agents' = [agents EXCEPT ![a].owner = to]
    BY <1>1, <2>1, RowsExist DEF Persists, persist_owner_transfer
  <2>3. agents'[a] \in AgentRow /\ agents'[a].owner = to /\ agents'[a].revoked = agents[a].revoked
    BY <1>1, <2>2 DEF AgentsTyped, AgentRow
  <2> QED
    BY <1>1, <2>1, <2>2, <2>3 DEF AgentsTyped, AgentChange
<1> QED
  BY <1>2, <1>3, <1>4, <1>5, <1>6, <1>7, <1>8, StepEffects DEF Effects, AgentSteps

LEMMA AgentsStayTyped ==
  ASSUME TInv, NEW r \in live, r.q.op \notin AddressOps, FleetStep(r)
  PROVE  AgentsTyped'
<1>1. \A a \in Agents : agents'[a] \in AgentRow \cup {Nothing, Deleted}
  BY AgentsChange DEF AgentChange, Kept, TInv, AgentsTyped
<1> QED
  BY <1>1, AgentsChange DEF AgentsTyped

LEMMA TokensStayTyped ==
  ASSUME TInv, NEW r \in live, r.q.op \notin AddressOps, FleetStep(r)
  PROVE  TokensTyped'
<1>1. Fit(r) /\ TokensTyped
  BY RequestsFit DEF TInv
<1>2. CASE create_enrollment_token(r)
  <2>1. CASE AdminSession(r.q)
    <3>1. [by |-> r.q.user, used |-> Nothing, fresh |-> TRUE] \in TokenRow
      BY <2>1, EnrollmentAssumption DEF AdminSession, TokenRow
    <3> QED
      BY <1>1, <1>2, <2>1, <3>1 DEF create_enrollment_token, TokensTyped
  <2> QED
    BY <1>1, <1>2, <2>1 DEF create_enrollment_token, TokensTyped
<1>3. CASE find_and_use(r)
  <2>1. CASE Usable(r.q.token)
    <3>1. r.q.token \in Tokens /\ r.q.agent \in Agents /\ tokens[r.q.token] \in TokenRow
      BY <1>1, <1>3, <2>1 DEF find_and_use, At, Usable, Fit, EnrollmentRequest, TokensTyped
    <3>2. tokens' = [tokens EXCEPT ![r.q.token].used = r.q.agent]
      BY <1>3, <2>1 DEF find_and_use
    <3>3. tokens'[r.q.token] \in TokenRow
      BY <1>1, <3>1, <3>2 DEF TokensTyped, TokenRow
    <3> QED
      BY <1>1, <3>1, <3>2, <3>3 DEF TokensTyped
  <2> QED
    BY <1>1, <1>3, <2>1 DEF find_and_use, TokensTyped
<1> QED
  BY <1>1, <1>2, <1>3, StepEffects DEF Effects, TokenSteps, TokensTyped

\* A record is made by a batch or replaced by its own later state.
RecordChange(r, x) ==
    \/ transfers'[x] = transfers[x]
    \/ DeleteRow(r) /\ Exists(Server(r)) /\ transfers[x] \in TransferRow /\ transfers[x].agent = Server(r) /\ transfers'[x] = Nothing
    \/ /\ transfers[x] \in TransferRow /\ transfers'[x] \in TransferRow
       /\ transfers'[x].agent = transfers[x].agent /\ transfers'[x].to = transfers[x].to
       /\ \/ transfers'[x].status \in {"failed", "cancelled"} /\ (transfers'[x].status = "cancelled" => transfers[x].status # "completed")
          \/ At(r, "retry", "complete") /\ r.saw.x = x /\ transfers'[x].status = "completed"
    \/ /\ At(r, "batch", "record") /\ IsTransfer(r.q) /\ r.i \in Ids(r) /\ x = r.q.ids[r.i]
       /\ transfers'[x] \in TransferRow /\ transfers'[x].status = "failed"
       /\ Exists(transfers'[x].agent)
    \/ \E a, to : /\ Persists(r, x, a, to) /\ transfers'[x] \in TransferRow
                  /\ transfers'[x].agent = a /\ transfers'[x].to = to
                  /\ transfers'[x].from = agents[a].owner /\ transfers'[x].status = "completed"
                  /\ transfers'[x] # transfers[x]

LEMMA RecordsChange ==
  ASSUME TInv, NEW r \in live, r.q.op \notin AddressOps, FleetStep(r)
  PROVE  /\ transfers' = [x \in Transfers |-> transfers'[x]]
         /\ \A x \in Transfers : RecordChange(r, x)
<1>1. Fit(r) /\ TransfersTyped /\ AgentsTyped
  BY RequestsFit DEF TInv
<1>2. CASE UNCHANGED transfers
  BY <1>1, <1>2 DEF TransfersTyped, RecordChange
<1>3. CASE DeleteRow(r)
  <2>1. CASE Exists(Server(r))
    <3>1. transfers' = [x \in Transfers |-> IF transfers[x] # Nothing /\ transfers[x].agent = Server(r)
                                           THEN Nothing ELSE transfers[x]]
      BY <1>3, <2>1 DEF DeleteRow, Cascade
    <3> QED
      BY <1>1, <1>3, <2>1, <3>1 DEF TransfersTyped, RecordChange
  <2> QED
    BY <1>2, <1>3, <2>1 DEF DeleteRow
<1>4. CASE Transferred(r)
  <2>1. PICK x, a, to : Persists(r, x, a, to)
    BY <1>4 DEF Transferred
  <2> DEFINE n == IF transfers[x] = Nothing THEN 1 ELSE transfers[x].attempts + 1
             t == [agent |-> a, from |-> agents[a].owner, to |-> to, status |-> "completed", attempts |-> n]
  <2>2. x \in Transfers /\ a \in Agents /\ to \in Users /\ agents[a].owner \in Users
    BY <1>1, <2>1, RowsExist DEF Persists, AgentRow
  <2>3. n \in Nat /\ (transfers[x] # Nothing => n # transfers[x].attempts)
    BY <1>1, <2>2 DEF TransfersTyped, TransferRow
  <2>4. transfers' = [transfers EXCEPT ![x] = t]
    BY <2>1 DEF Persists, persist_owner_transfer
  <2> HIDE DEF n
  <2>5. t \in TransferRow /\ t # transfers[x]
    <3>1. t \in TransferRow
      BY <2>2, <2>3 DEF TransferRow
    <3>2. t.attempts = n
      OBVIOUS
    <3> QED
      BY <2>3, <3>1, <3>2, FleetAssumption
  <2>6. t.agent = a /\ t.to = to /\ t.from = agents[a].owner /\ t.status = "completed"
    OBVIOUS
  <2> HIDE DEF t
  <2> QED
    BY <1>1, <2>1, <2>2, <2>4, <2>5, <2>6 DEF TransfersTyped, RecordChange
<1>5. CASE record_failed_server_owner_transfer(r)
  <2>1. /\ At(r, "batch", "record") /\ IsTransfer(r.q) /\ r.i \in Ids(r) /\ r.saw.x = r.q.ids[r.i] /\ r.saw.from \in Users
    BY <1>1, <1>5 DEF record_failed_server_owner_transfer, At, Fit, RequestTyped, BatchTyped, OnServer
  <2>2. r.q.to \in Users /\ Server(r) \in Agents /\ r.saw.x \in Transfers
    BY <1>1, <2>1, ServerIsAgent DEF Fit, FleetRequest, Ids, At
  <2>3. CASE Exists(Server(r))
    <3> DEFINE t == [agent |-> Server(r), from |-> r.saw.from, to |-> r.q.to, status |-> "failed", attempts |-> 1]
    <3>1. transfers' = [transfers EXCEPT ![r.saw.x] = t]
      BY <1>5, <2>3 DEF record_failed_server_owner_transfer
    <3>2. t \in TransferRow /\ t.status = "failed" /\ t.agent = Server(r)
      BY <2>1, <2>2 DEF TransferRow
    <3> HIDE DEF t
    <3> QED
      BY <1>1, <2>1, <2>2, <2>3, <3>1, <3>2 DEF TransfersTyped, RecordChange
  <2> QED
    BY <1>2, <1>5, <2>3 DEF record_failed_server_owner_transfer
<1>6. ASSUME NEW x \in Transfers, transfers[x] # Nothing, NEW status \in {"failed", "completed"}
      PROVE  /\ Mark(x, status) \in [Transfers -> TransferRow \cup {Nothing}]
             /\ \A y \in Transfers \ {x} : Mark(x, status)[y] = transfers[y]
             /\ Mark(x, status)[x] \in TransferRow
             /\ Mark(x, status)[x].agent = transfers[x].agent /\ Mark(x, status)[x].to = transfers[x].to
             /\ Mark(x, status)[x].status = status
  <2>1. transfers[x] \in TransferRow
    BY <1>1, <1>6 DEF TransfersTyped
  <2> DEFINE t == transfers[x]
             u == [t EXCEPT !.status = status, !.attempts = @ + 1]
  <2>2. u \in TransferRow /\ u.agent = t.agent /\ u.to = t.to /\ u.status = status
    <3>1. ASSUME NEW v, v = [t EXCEPT !.status = status, !.attempts = @ + 1]
          PROVE  v \in TransferRow /\ v.agent = t.agent /\ v.to = t.to /\ v.status = status
      <4> HIDE DEF t
      <4>1. t \in TransferRow
        BY <2>1 DEF t
      <4>2. t.attempts \in Nat /\ t.attempts + 1 \in Nat
        BY <4>1 DEF TransferRow
      <4>3. v = [t EXCEPT !.status = status, !.attempts = t.attempts + 1]
        BY <3>1
      <4> QED
        BY <1>6, <4>1, <4>2, <4>3 DEF TransferRow
    <3> QED
      BY <3>1
  <2>3. Mark(x, status) = [transfers EXCEPT ![x] = u]
    BY <1>1 DEF Mark, TransfersTyped
  <2> HIDE DEF u
  <2> QED
    BY <1>1, <1>6, <2>2, <2>3 DEF TransfersTyped
<1>7. CASE mark_server_owner_transfer_completed(r)
  <2>1. r.saw.x \in Transfers /\ r.saw.from \in Users /\ At(r, "retry", "complete")
    BY <1>1, <1>7 DEF mark_server_owner_transfer_completed, At, Fit, RequestTyped, RetryTyped
  <2>2. CASE transfers[r.saw.x] # Nothing
    <3> DEFINE m == Mark(r.saw.x, "completed")
    <3>1. transfers' = [m EXCEPT ![r.saw.x].from = r.saw.from]
      BY <1>7, <2>2 DEF mark_server_owner_transfer_completed
    <3>2. /\ m \in [Transfers -> TransferRow \cup {Nothing}]
          /\ \A y \in Transfers \ {r.saw.x} : m[y] = transfers[y]
          /\ m[r.saw.x] \in TransferRow
          /\ m[r.saw.x].agent = transfers[r.saw.x].agent /\ m[r.saw.x].to = transfers[r.saw.x].to
          /\ m[r.saw.x].status = "completed"
      BY <1>6, <2>1, <2>2
    <3> HIDE DEF m
    <3>3. /\ transfers'[r.saw.x] \in TransferRow
          /\ transfers'[r.saw.x].agent = transfers[r.saw.x].agent /\ transfers'[r.saw.x].to = transfers[r.saw.x].to
          /\ transfers'[r.saw.x].status = "completed"
      BY <2>1, <3>1, <3>2 DEF TransferRow
    <3>4. transfers[r.saw.x] \in TransferRow
      BY <1>1, <2>1, <2>2 DEF TransfersTyped
    <3> QED
      BY <2>1, <3>1, <3>2, <3>3, <3>4 DEF RecordChange
  <2> QED
    BY <1>2, <1>7, <2>2 DEF mark_server_owner_transfer_completed
<1>8. CASE mark_server_owner_transfer_failed(r)
  <2>1. r.saw.x \in Transfers
    BY <1>1, <1>8 DEF mark_server_owner_transfer_failed, Fit, RequestTyped, RetryTyped
  <2>2. CASE transfers[r.saw.x] # Nothing
    <3>1. transfers' = Mark(r.saw.x, "failed")
      BY <1>8, <2>2 DEF mark_server_owner_transfer_failed
    <3>2. transfers[r.saw.x] \in TransferRow
      BY <1>1, <2>1, <2>2 DEF TransfersTyped
    <3> QED
      BY <1>6, <2>1, <2>2, <3>1, <3>2 DEF RecordChange
  <2> QED
    BY <1>2, <1>8, <2>2 DEF mark_server_owner_transfer_failed
<1>9. CASE mark_server_owner_transfer_cancelled(r)
  <2>1. r.saw.x \in Transfers
    BY <1>1, <1>9 DEF mark_server_owner_transfer_cancelled, At, Fit, RequestTyped
  <2>2. CASE transfers[r.saw.x] # Nothing /\ transfers[r.saw.x].status # "completed"
    <3>1. transfers' = [transfers EXCEPT ![r.saw.x].status = "cancelled"]
      BY <1>9, <2>2 DEF mark_server_owner_transfer_cancelled
    <3>2. transfers[r.saw.x] \in TransferRow
      BY <1>1, <2>1, <2>2 DEF TransfersTyped
    <3>3. /\ transfers'[r.saw.x] \in TransferRow
          /\ transfers'[r.saw.x].agent = transfers[r.saw.x].agent /\ transfers'[r.saw.x].to = transfers[r.saw.x].to
          /\ transfers'[r.saw.x].status = "cancelled"
      BY <1>1, <2>1, <3>1, <3>2 DEF TransfersTyped, TransferRow
    <3> QED
      BY <1>1, <2>1, <2>2, <3>1, <3>2, <3>3 DEF TransfersTyped, RecordChange
  <2> QED
    BY <1>2, <1>9, <2>2 DEF mark_server_owner_transfer_cancelled
<1> QED
  BY <1>2, <1>3, <1>4, <1>5, <1>7, <1>8, <1>9, StepEffects DEF Effects, RecordSteps

LEMMA TransfersStayTyped ==
  ASSUME TInv, NEW r \in live, r.q.op \notin AddressOps, FleetStep(r)
  PROVE  TransfersTyped'
<1>1. \A x \in Transfers : transfers'[x] \in TransferRow \cup {Nothing}
  BY RecordsChange DEF RecordChange, TInv, TransfersTyped
<1> QED
  BY <1>1, RecordsChange DEF TransfersTyped

LEMMA TypedInit ==
  ASSUME AddressesInit
  PROVE  TInv
<1>1. PICK w \in Workloads : live = {Request(q) : q \in w}
  BY DEF AddressesInit, FleetInit
<1>2. ASSUME NEW q
      PROVE  Request(q).q = q /\ Shaped(Request(q)) /\ RequestTyped(Request(q))
  <2>1. Request(q) = Req(q, "start", 1, Nothing)
    BY DEF Request, Req
  <2> DEFINE s == Req(q, "start", 1, Nothing)
  <2>2. Shaped(s) /\ s.q = q /\ s.at = "start" /\ s.i = 1
    BY ReqFields
  <2> HIDE DEF s
  <2>3. RequestTyped(s)
    BY <2>2 DEF RequestTyped, BatchTyped, RetryTyped, BatchSteps, OnServer, Actions, HasRecord
  <2> QED
    BY <2>1, <2>2, <2>3 DEF s
<1>3. RequestsTyped
  BY <1>1, <1>2 DEF RequestsTyped, Asked
<1>4. AgentsTyped
  BY EnrollmentAssumption DEF AgentsTyped, AddressesInit, FleetInit, EnrollmentInit
<1>5. TokensTyped
  BY DEF TokensTyped, AddressesInit, FleetInit, EnrollmentInit
<1>6. TransfersTyped
  BY FleetAssumption DEF TransfersTyped, AddressesInit, FleetInit
<1> QED
  BY <1>3, <1>4, <1>5, <1>6 DEF TInv

\* The kinds of steps: of an Address request, of an expiry, and of the requests of Fleet.
Elsewhere == UNCHANGED <<enrolment, fleet>>

LEMMA StepKinds ==
  ASSUME TInv, [AddressesNext]_addressVars
  PROVE  \/ Elsewhere /\ UNCHANGED live
         \/ Elsewhere /\ \E r \in live : r.q.op \in AddressOps /\ (Answered(r) \/ GoesOn(r))
         \/ \E r \in live : r.q.op \notin AddressOps /\ FleetStep(r)
         \/ Expiry /\ UNCHANGED fleet
<1>1. CASE UNCHANGED addressVars
  BY <1>1 DEF addressVars, fleetVars, Elsewhere
<1>2. ASSUME NEW r \in live, r.q.op \in AddressOps, ConfigStep(r) \/ WalkStep(r) \/ ChangeStep(r) \/ GeoStep(r)
      PROVE  Answered(r) \/ GoesOn(r)
  BY <1>2, AddressLive DEF TInv, RequestsTyped
<1>3. ASSUME NEW ip \in Ips, CacheExpires(ip)
      PROVE  UNCHANGED live
  BY <1>3 DEF CacheExpires
<1> QED
  BY <1>1, <1>2, <1>3 DEF AddressesNext, Elsewhere

LEMMA TypedStep ==
  ASSUME TInv, [AddressesNext]_addressVars
  PROVE  TInv'
<1> USE DEF Elsewhere, enrolment, fleet
<1>1. CASE Elsewhere /\ UNCHANGED live
  BY <1>1 DEF TInv, RequestsTyped, Asked, AgentsTyped, TokensTyped, TransfersTyped
<1>2. CASE Elsewhere /\ \E r \in live : r.q.op \in AddressOps /\ (Answered(r) \/ GoesOn(r))
  <2>1. RequestsTyped'
    BY <1>2, LiveTyped DEF TInv
  <2> QED
    BY <1>2, <2>1 DEF TInv, AgentsTyped, TokensTyped, TransfersTyped
<1>3. CASE \E r \in live : r.q.op \notin AddressOps /\ FleetStep(r)
  BY <1>3, FleetLive, LiveTyped, AgentsStayTyped, TokensStayTyped, TransfersStayTyped DEF TInv
<1>4. CASE Expiry /\ UNCHANGED fleet
  <2>1. UNCHANGED <<live, agents, transfers>>
    BY <1>4 DEF Expiry, TokenExpires, ChallengeExpires, rows
  <2>2. TokensTyped'
    <3>1. CASE UNCHANGED tokens
      BY <3>1 DEF TInv, TokensTyped
    <3>2. ASSUME NEW t \in Tokens, TokenExpires(t)
          PROVE  TokensTyped'
      <4>1. tokens[t] \in TokenRow /\ tokens' = [tokens EXCEPT ![t].fresh = FALSE]
        BY <3>2 DEF TInv, TokensTyped, TokenExpires
      <4>2. tokens'[t] \in TokenRow
        BY <4>1 DEF TInv, TokensTyped, TokenRow
      <4> QED
        BY <4>1, <4>2 DEF TInv, TokensTyped
    <3> QED
      BY <1>4, <3>1, <3>2 DEF Expiry, ChallengeExpires, rows
  <2> QED
    BY <2>1, <2>2 DEF TInv, RequestsTyped, Asked, AgentsTyped, TransfersTyped
<1> QED
  BY <1>1, <1>2, <1>3, <1>4, StepKinds

-----------------------------------------------------------------------------
(* Groups. *)

GroupsTyped ==
    /\ groups \in [Groups -> Users \cup {Nothing, Deleted}]
    /\ members \subseteq Groups \X Agents

GInv == GroupsTyped /\ NoDanglingMember

\* Where an Agent ceases to exist.
LEMMA AgentsStay ==
  ASSUME TInv, NEW r \in live, r.q.op \notin AddressOps, FleetStep(r), NEW a \in Agents, Exists(a),
         ~(DeleteRow(r) /\ Server(r) = a)
  PROVE  Exists(a)'
<1>1. agents'[a] \in AgentRow
  BY RowsExist, AgentsChange DEF TInv, AgentChange, Kept
<1> QED
  BY <1>1, EnrollmentAssumption DEF Exists

LEMMA GroupsStayTyped ==
  ASSUME TInv, GInv, NEW r \in live, r.q.op \notin AddressOps, FleetStep(r)
  PROVE  GroupsTyped'
<1>1. Fit(r) /\ Effects(r) /\ GroupsTyped
  BY RequestsFit, StepEffects DEF TInv, GInv
<1>2. groups' \in [Groups -> Users \cup {Nothing, Deleted}]
  <2>1. CASE UNCHANGED groups
    BY <1>1, <2>1 DEF GroupsTyped
  <2>2. CASE create_server_group(r)
    BY <1>1, <2>2 DEF GroupsTyped, create_server_group, At, Fit, FleetRequest
  <2>3. CASE delete_server_group(r)
    BY <1>1, <2>3 DEF GroupsTyped, delete_server_group, At, Fit, FleetRequest
  <2> QED
    BY <1>1, <2>1, <2>2, <2>3 DEF Effects
<1>3. members' \subseteq Groups \X Agents
  <2>1. CASE \/ UNCHANGED members
             \/ delete_server_group(r) \/ delete_server_group_member(r) \/ MoveLeaves(r) \/ DeleteLeaves(r)
             \/ DeleteRow(r) \/ Transferred(r)
    BY <1>1, <2>1 DEF GroupsTyped, delete_server_group, delete_server_group_member, MoveLeaves, DeleteLeaves,
           DeleteRow, Cascade, Transferred, Persists, persist_owner_transfer
  <2>2. CASE AddInserts(r)
    <3>1. r.q.group \in Groups /\ Server(r) \in Agents
      BY <1>1, <2>2, ServerIsAgent DEF AddInserts, At, Fit, FleetRequest, RequestTyped
    <3> QED
      BY <1>1, <2>2, <3>1 DEF GroupsTyped, AddInserts
  <2>3. CASE MoveJoins(r)
    <3>1. r.q.op = "batch" /\ r.i \in Ids(r)
      BY <1>1, <2>3 DEF MoveJoins, Fit, RequestTyped, BatchTyped, BatchSteps, OnServer
    <3>2. r.q.group \in Groups /\ Server(r) \in Agents
      BY <1>1, <3>1, ServerIsAgent DEF Fit, FleetRequest
    <3> QED
      BY <1>1, <2>3, <3>2 DEF GroupsTyped, MoveJoins
  <2> QED
    BY <1>1, <2>1, <2>2, <2>3 DEF Effects, MemberSteps
<1> QED
  BY <1>2, <1>3 DEF GroupsTyped

\* A row that is inserted refers to a group and an Agent that are there, and whatever
\* ends one of the two takes its memberships with it.
LEMMA MembersStay ==
  ASSUME TInv, GInv, NEW r \in live, r.q.op \notin AddressOps, FleetStep(r)
  PROVE  NoDanglingMember'
<1>1. Fit(r) /\ Effects(r) /\ GroupsTyped /\ NoDanglingMember /\ AgentsTyped
  BY RequestsFit, StepEffects DEF TInv, GInv
<1>2. SUFFICES ASSUME NEW m \in members'
               PROVE  groups'[m[1]] \notin {Nothing, Deleted} /\ Exists(m[2])'
  BY DEF NoDanglingMember
<1>3. m \in Groups \X Agents
  BY <1>2, GroupsStayTyped DEF GroupsTyped
<1>4. groups[m[1]] \notin {Nothing, Deleted} /\ Exists(m[2])
  <2>1. CASE m \in members
    BY <1>1, <2>1 DEF NoDanglingMember
  <2>2. CASE AddInserts(r)
    BY <1>1, <1>2, <2>2 DEF NoDanglingMember, AddInserts, Joins
  <2>3. CASE MoveJoins(r)
    BY <1>1, <1>2, <2>3 DEF NoDanglingMember, MoveJoins, Joins
  <2> QED
    BY <1>1, <1>2, <2>1, <2>2, <2>3
       DEF Effects, MemberSteps, delete_server_group, delete_server_group_member, MoveLeaves, DeleteLeaves,
           DeleteRow, Cascade, Transferred, Persists, persist_owner_transfer
<1>5. groups'[m[1]] \notin {Nothing, Deleted}
  <2>1. CASE UNCHANGED groups
    BY <1>4, <2>1
  <2>2. CASE create_server_group(r)
    BY <1>1, <1>3, <1>4, <2>2 DEF create_server_group, GroupsTyped
  <2>3. CASE delete_server_group(r)
    <3>1. groups'[m[1]] # Deleted
      BY <1>2, <2>3 DEF delete_server_group
    <3>2. groups'[m[1]] # Deleted => groups'[m[1]] = groups[m[1]]
      BY <1>1, <1>3, <2>3 DEF delete_server_group, GroupsTyped
    <3> QED
      BY <1>4, <3>1, <3>2
  <2> QED
    BY <1>1, <2>1, <2>2, <2>3 DEF Effects
<1>6. Exists(m[2])'
  <2>1. CASE DeleteRow(r) /\ Server(r) = m[2]
    BY <1>2, <1>4, <2>1 DEF DeleteRow, Cascade
  <2>2. CASE ~(DeleteRow(r) /\ Server(r) = m[2])
    BY <1>3, <1>4, <2>2, AgentsStay
  <2> QED
    BY <2>1, <2>2
<1> QED
  BY <1>5, <1>6

LEMMA GroupsInit ==
  ASSUME AddressesInit
  PROVE  GInv
  BY FleetAssumption DEF GInv, GroupsTyped, NoDanglingMember, AddressesInit, FleetInit

LEMMA GroupsStep ==
  ASSUME TInv, GInv, [AddressesNext]_addressVars
  PROVE  GInv'
<1>1. CASE Elsewhere
  BY <1>1 DEF Elsewhere, enrolment, fleet, GInv, GroupsTyped, NoDanglingMember, Exists
<1>2. CASE \E r \in live : r.q.op \notin AddressOps /\ FleetStep(r)
  BY <1>2, GroupsStayTyped, MembersStay DEF GInv
<1>3. CASE Expiry /\ UNCHANGED fleet
  BY <1>3 DEF Expiry, TokenExpires, ChallengeExpires, rows, fleet, GInv, GroupsTyped, NoDanglingMember, Exists
<1> QED
  BY <1>1, <1>2, <1>3, StepKinds

LEMMA GroupAnswers ==
  ASSUME TInv, [AddressesNext]_addressVars, shown' # shown
  PROVE  \A a \in shown'.servers : agents[a].owner = shown'.user
<1>1. PICK r \in live : r.q.op \notin AddressOps /\ FleetStep(r)
  BY StepKinds DEF Elsewhere, fleet
<1>2. AnswersWithGroup(r)
  BY <1>1, StepEffects DEF Effects
<1> QED
  BY <1>2 DEF AnswersWithGroup, load_server_group_members

\* A membership never outlives its group or its Agent, and a group is answered with Agents
\* that belong to the asking user then, whatever the requests of api/v1/servers.rs and
\* api/v1/agent.rs do between the accesses of each other.
THEOREM GroupsKeepTrue == AddressesSpec => GroupsAreTrue
<1>1. AddressesInit => TInv /\ GInv
  BY TypedInit, GroupsInit
<1>2. TInv /\ GInv /\ [AddressesNext]_addressVars => (TInv /\ GInv)'
  BY TypedStep, GroupsStep
<1>3. TInv /\ [AddressesNext]_addressVars =>
         [shown' # shown => \A a \in shown'.servers : agents[a].owner = shown'.user]_<<shown>>
  BY GroupAnswers
<1>4. GInv => NoDanglingMember
  BY DEF GInv
<1> QED
  BY <1>1, <1>2, <1>3, <1>4, PTL DEF AddressesSpec, GroupsAreTrue, GroupShowsOwnAgents

-----------------------------------------------------------------------------
(* The access a request goes on to. *)

\* The positions of a batch of transfers whose ids have not been used yet.
Pending(o) ==
    {j \in Ids(o) : \/ o.at = "start"
                    \/ o.at \in OnServer /\ j >= o.i
                    \/ o.at = "log" /\ j > o.i}

\* A batch's step that writes the record of a transfer.
UsesId(r) == r.q.op = "batch" /\ r.at \in {"transfer", "record"} /\ ~UNCHANGED transfers

BatchStage(r, o) ==
    /\ o.at = "purge" => o.i = r.i /\ DeleteRow(r) /\ Exists(Server(r))
    /\ IsTransfer(r.q) => Pending(o) \subseteq Pending(r) /\ (UsesId(r) => r.i \notin Pending(o))

RetryStage(r, o) ==
    /\ o.at = "agent" => /\ UNCHANGED <<enrolment, fleet>> /\ Unsettled(r.q)
                         /\ o.saw.x = r.q.transfer /\ o.saw.t = transfers[r.q.transfer]
    /\ o.at \in {"refuse", "complete", "persist"} =>
          /\ r.at = "agent" /\ UNCHANGED <<enrolment, fleet>> /\ o.saw.x = r.saw.x /\ o.saw.t = r.saw.t
    /\ o.at = "complete" => Exists(o.saw.t.agent) /\ agents[o.saw.t.agent].owner = o.saw.t.to

Stage(r, o) ==
    /\ o.q = r.q /\ o.at # "start"
    /\ r.q.op = "enroll" /\ o.at = "create" => find_and_use(r) /\ Usable(r.q.token)
    /\ r.q.op = "revoke" /\ o.at = "purge" => revoke(r) /\ AdminSession(r.q) /\ Active(r.q.agent)
    /\ r.q.op = "jwt" /\ o.at = "consume" => Active(r.q.agent) /\ UNCHANGED enrolment
    /\ r.q.op = "batch" => BatchStage(r, o)
    /\ r.q.op = "retry" => RetryStage(r, o)

LEMMA GotoIs ==
  ASSUME NEW r, Shaped(r), NEW at, NEW saw, Goto(r, at, saw), NEW o \in live', o \notin live \ {r}
  PROVE  o.q = r.q /\ o.at = at /\ o.i = r.i /\ o.saw = saw /\ Ids(o) = Ids(r)
<1>1. o = Req(r.q, at, r.i, saw)
  BY Written DEF Goto
<1>2. o.q = r.q /\ o.at = at /\ o.i = r.i /\ o.saw = saw
  BY <1>1, ReqFields
<1> QED
  BY <1>2 DEF Ids

LEMMA AnswerIsNot ==
  ASSUME NEW r, Answer(r), NEW o \in live', o \notin live \ {r}
  PROVE  FALSE
  BY DEF Answer

LEMMA NextIdIs ==
  ASSUME NEW r, Shaped(r), NEW again, NEW after, NextId(r, again, after), NEW o \in live', o \notin live \ {r}
  PROVE  /\ o.q = r.q /\ Ids(o) = Ids(r)
         /\ \/ o.at = after
            \/ o.at = again /\ o.i \in Ids(r) /\ o.i > r.i
<1>1. ASSUME NEW i, NEW at, NEW s, s = [r EXCEPT !.i = i, !.at = at, !.saw = Nothing],
             live' = (live \ {r}) \cup {s}
      PROVE  o.q = r.q /\ o.at = at /\ o.i = i /\ Ids(o) = Ids(r)
  <2>1. s.q = r.q /\ s.at = at /\ s.i = i
    BY <1>1 DEF Shaped, Fields
  <2>2. o = s
    BY <1>1
  <2> QED
    BY <2>1, <2>2 DEF Ids
<1>2. CASE live' = (live \ {r}) \cup {[r EXCEPT !.i = 1, !.at = after, !.saw = Nothing]}
  BY <1>1, <1>2
<1>3. ASSUME NEW j \in Ids(r), j > r.i, live' = (live \ {r}) \cup {[r EXCEPT !.i = j, !.at = again, !.saw = Nothing]}
      PROVE  o.q = r.q /\ Ids(o) = Ids(r) /\ o.at = again /\ o.i \in Ids(r) /\ o.i > r.i
  BY <1>1, <1>3
<1> QED
  BY <1>2, <1>3, Zenon DEF NextId

LEMMA EnrollmentOnward ==
  ASSUME NEW r, Fit(r), EnrollmentStep(r), NEW o \in live', o \notin live \ {r}
  PROVE  Stage(r, o)
<1>1. Shaped(r)
  BY DEF Fit
<1>2. CASE create_enrollment_token(r) \/ EnrollServerRow(r) \/ JwtSigned(r) \/ RevokePurges(r)
           \/ \E n \in Nonces : ChallengeInserts(r, n)
  BY <1>2, AnswerIsNot DEF create_enrollment_token, EnrollServerRow, JwtSigned, RevokePurges, ChallengeInserts
<1>3. CASE find_and_use(r)
  BY <1>1, <1>3, AnswerIsNot, GotoIs DEF find_and_use, At, Stage
<1>4. CASE create_with_id(r)
  BY <1>1, <1>4, GotoIs DEF create_with_id, At, Stage
<1>5. CASE ChallengeChecks(r)
  BY <1>1, <1>5, AnswerIsNot, GotoIs DEF ChallengeChecks, At, Stage
<1>6. CASE JwtReadsAgent(r)
  BY <1>1, <1>6, AnswerIsNot, GotoIs DEF JwtReadsAgent, At, Stage
<1>7. CASE revoke(r)
  BY <1>1, <1>7, AnswerIsNot, GotoIs DEF revoke, At, Stage
<1>8. CASE \E n \in Nonces : JwtFinds(r, n)
  BY <1>1, <1>8, AnswerIsNot, GotoIs DEF JwtFinds, At, Stage
<1> QED
  BY <1>2, <1>3, <1>4, <1>5, <1>6, <1>7, <1>8 DEF EnrollmentStep

LEMMA GroupOnward ==
  ASSUME NEW r, Fit(r), GroupStep(r), NEW o \in live', o \notin live \ {r}
  PROVE  Stage(r, o)
<1>1. Shaped(r)
  BY DEF Fit
<1>2. CASE create_server_group(r)
  BY <1>1, <1>2, AnswerIsNot, GotoIs DEF create_server_group, At, Stage
<1>3. CASE GroupChecks(r)
  BY <1>1, <1>3, AnswerIsNot, GotoIs DEF GroupChecks, Stage
<1>4. CASE update_server_group(r)
  BY <1>1, <1>4, AnswerIsNot, GotoIs DEF update_server_group, At, Stage
<1>5. CASE delete_server_group(r) \/ AnswersWithGroup(r)
  BY <1>5, AnswerIsNot DEF delete_server_group, AnswersWithGroup
<1>6. CASE AddChecksServer(r)
  <2>1. CASE NextId(r, "check", "write")
    BY <1>1, <1>6, <2>1, NextIdIs DEF AddChecksServer, At, Stage
  <2> QED
    BY <1>6, <2>1, AnswerIsNot DEF AddChecksServer
<1>7. CASE AddInserts(r)
  <2>1. CASE NextId(r, "write", "load")
    BY <1>1, <1>7, <2>1, NextIdIs DEF AddInserts, At, Stage
  <2> QED
    BY <1>7, <2>1, AnswerIsNot DEF AddInserts
<1>8. CASE ensure_group_server_access(r)
  BY <1>1, <1>8, AnswerIsNot, GotoIs DEF ensure_group_server_access, At, Stage
<1>9. CASE delete_server_group_member(r)
  BY <1>1, <1>9, AnswerIsNot, GotoIs DEF delete_server_group_member, At, Stage
<1> QED
  BY <1>2, <1>3, <1>4, <1>5, <1>6, <1>7, <1>8, <1>9 DEF GroupStep

LEMMA NextServerStage ==
  ASSUME NEW r, Fit(r), r.q.op = "batch", NextServer(r), r.at \in OnServer \cup {"log"},
         NEW o \in live', o \notin live \ {r}
  PROVE  Stage(r, o)
<1>1. /\ o.q = r.q /\ Ids(o) = Ids(r)
      /\ \/ o.at = "done"
         \/ o.at = "row" /\ o.i \in Ids(r) /\ o.i > r.i
  BY NextIdIs DEF NextServer, Fit
<1>2. r.i \in Nat /\ \A j \in Ids(r) : j \in Nat
  BY IdsAreAgents DEF Fit, FleetRequest, Ids, RequestTyped
<1>3. Pending(o) \subseteq Pending(r) /\ r.i \notin Pending(o)
  BY <1>1, <1>2 DEF Pending, OnServer
<1> QED
  BY <1>1, <1>3 DEF Stage, BatchStage

LEMMA SameServerStage ==
  ASSUME NEW r, Fit(r), r.q.op = "batch", NEW at, NEW saw, Goto(r, at, saw), r.at \in OnServer \cup {"start"},
         at \in OnServer \ {"purge"}, r.at = "start" => at = "row", ~UsesId(r),
         NEW o \in live', o \notin live \ {r}
  PROVE  Stage(r, o)
<1>1. o.q = r.q /\ o.at = at /\ o.i = r.i /\ Ids(o) = Ids(r)
  BY GotoIs DEF Fit
<1>2. Pending(o) \subseteq Pending(r)
  BY <1>1 DEF Pending, OnServer
<1> QED
  BY <1>1, <1>2 DEF Stage, BatchStage, OnServer

LEMMA BatchOnward ==
  ASSUME NEW r, Fit(r), BatchStep(r), NEW o \in live', o \notin live \ {r}
  PROVE  Stage(r, o)
<1>1. Shaped(r) /\ (r.at \in BatchSteps => r.q.op = "batch")
  BY DEF Fit, RequestTyped
<1>2. CASE update_server_reads(r)
  BY <1>1, <1>2, AnswerIsNot, GotoIs DEF update_server_reads, At, Stage
<1>3. CASE update_dashboard_metadata(r) \/ BatchAnswers(r)
  BY <1>3, AnswerIsNot DEF update_dashboard_metadata, BatchAnswers
<1>4. CASE batch_update_servers(r)
  BY <1>4, AnswerIsNot, SameServerStage DEF batch_update_servers, At, UsesId, OnServer
<1>5. CASE apply_batch_action(r)
  <2>1. r.q.op = "batch" /\ r.at = "row" /\ r.q.action \in Actions
    BY <1>5 DEF apply_batch_action, At, Fit, FleetRequest, Actions
  <2> QED
    BY <1>5, <2>1, SameServerStage, NextServerStage DEF apply_batch_action, UsesId, OnServer, Actions
<1>6. CASE update_agent_dashboard_metadata(r)
  BY <1>1, <1>6, NextServerStage DEF update_agent_dashboard_metadata, BatchSteps, OnServer
<1>7. CASE MoveLeaves(r)
  BY <1>1, <1>7, SameServerStage DEF MoveLeaves, UsesId, BatchSteps, OnServer
<1>8. CASE MoveJoins(r)
  BY <1>1, <1>8, NextServerStage DEF MoveJoins, BatchSteps, OnServer
<1>9. CASE DeleteLeaves(r)
  BY <1>1, <1>9, SameServerStage DEF DeleteLeaves, UsesId, BatchSteps, OnServer
<1>10. CASE DeleteRow(r)
  <2>1. r.q.op = "batch" /\ r.at = "drop"
    BY <1>1, <1>10 DEF DeleteRow, BatchSteps, OnServer
  <2>2. CASE Exists(Server(r))
    <3>1. o.q = r.q /\ o.at = "purge" /\ o.i = r.i /\ Ids(o) = Ids(r)
      BY <1>1, <1>10, <2>2, GotoIs DEF DeleteRow
    <3>2. Pending(o) \subseteq Pending(r) /\ ~UsesId(r)
      BY <2>1, <3>1 DEF Pending, OnServer, UsesId
    <3> QED
      BY <1>10, <2>1, <2>2, <3>1, <3>2 DEF Stage, BatchStage
  <2> QED
    BY <1>10, <2>1, <2>2, NextServerStage DEF DeleteRow, OnServer
<1>11. CASE DeletePurges(r)
  BY <1>11, NextServerStage DEF DeletePurges, At, OnServer
<1> QED
  BY <1>2, <1>3, <1>4, <1>5, <1>6, <1>7, <1>8, <1>9, <1>10, <1>11 DEF BatchStep

LEMMA TransferOnward ==
  ASSUME NEW r, Fit(r), TransferStep(r), NEW o \in live', o \notin live \ {r}
  PROVE  Stage(r, o)
<1> USE DEF fleet
<1>1. Shaped(r) /\ (r.at \in BatchSteps => r.q.op = "batch") /\ r.i \in Nat
  BY DEF Fit, RequestTyped
<1>2. ASSUME NEW saw, Goto(r, "log", saw), r.q.op = "batch", r.at \in {"transfer", "record"}
      PROVE  Stage(r, o)
  <2>1. o.q = r.q /\ o.at = "log" /\ o.i = r.i /\ Ids(o) = Ids(r)
    BY <1>1, <1>2, GotoIs
  <2>2. \A j \in Ids(r) : j \in Nat
    BY <1>2, IdsAreAgents DEF Fit, FleetRequest, Ids
  <2>3. Pending(o) \subseteq Pending(r) /\ r.i \notin Pending(o)
    BY <1>1, <1>2, <2>1, <2>2 DEF Pending, OnServer
  <2> QED
    BY <1>2, <2>1, <2>3 DEF Stage, BatchStage
<1>3. CASE perform_owner_transfer_new(r)
  <2>1. CASE OwnerStill(Server(r), r.saw.owner)
    BY <1>2, <1>3, <2>1 DEF perform_owner_transfer_new, At
  <2>2. CASE ~OwnerStill(Server(r), r.saw.owner)
    <3>1. Goto(r, "record", [x |-> r.q.ids[r.i], from |-> r.saw.owner]) /\ UNCHANGED transfers /\ At(r, "batch", "transfer")
      BY <1>3, <2>2 DEF perform_owner_transfer_new
    <3> QED
      BY <3>1, SameServerStage DEF At, UsesId, OnServer
  <2> QED
    BY <2>1, <2>2
<1>4. CASE record_failed_server_owner_transfer(r)
  BY <1>2, <1>4 DEF record_failed_server_owner_transfer, At
<1>5. CASE record_server_transfer_audit(r)
  BY <1>5, NextServerStage, AnswerIsNot DEF record_server_transfer_audit
<1>6. CASE RetryLoads(r)
  <2>1. CASE Unsettled(r.q)
    <3>1. At(r, "retry", "start") /\ Goto(r, "agent", [x |-> r.q.transfer, t |-> transfers[r.q.transfer]])
      BY <1>6, <2>1 DEF RetryLoads, load_server_owner_transfer
    <3>2. o.q = r.q /\ o.at = "agent" /\ o.saw = [x |-> r.q.transfer, t |-> transfers[r.q.transfer]]
      BY <1>1, <3>1, GotoIs
    <3>3. o.saw.x = r.q.transfer /\ o.saw.t = transfers[r.q.transfer]
      BY <3>2
    <3>4. UNCHANGED <<enrolment, fleet>>
      BY <1>6 DEF RetryLoads
    <3> QED
      BY <2>1, <3>1, <3>2, <3>3, <3>4 DEF Stage, RetryStage, At
  <2> QED
    BY <1>6, <2>1, AnswerIsNot DEF RetryLoads
<1>7. CASE CancelLoads(r)
  BY <1>1, <1>7, AnswerIsNot, GotoIs DEF CancelLoads, At, Stage
<1>8. CASE RetryReads(r)
  <2> DEFINE a == r.saw.t.agent
             seen == [x |-> r.saw.x, t |-> r.saw.t, from |-> IF Exists(a) THEN agents[a].owner ELSE Nothing]
  <2>1. At(r, "retry", "agent") /\ UNCHANGED <<enrolment, fleet>>
    BY <1>8 DEF RetryReads
  <2>2. \/ Goto(r, "refuse", seen)
        \/ Goto(r, "complete", seen) /\ Exists(a) /\ agents[a].owner = r.saw.t.to
        \/ Goto(r, "persist", seen)
    BY <1>8 DEF RetryReads
  <2>3. seen.x = r.saw.x /\ seen.t = r.saw.t
    OBVIOUS
  <2> HIDE DEF seen
  <2>4. /\ o.q = r.q /\ o.at \in {"refuse", "complete", "persist"} /\ o.saw = seen
        /\ o.at = "complete" => Exists(a) /\ agents[a].owner = r.saw.t.to
    BY <1>1, <2>2, GotoIs
  <2> QED
    BY <2>1, <2>3, <2>4 DEF Stage, RetryStage, At
<1>9. ASSUME r.q.op \in {"retry", "cancel"}, NEW at \in {"fail", "log"}, NEW saw, Goto(r, at, saw)
      PROVE  Stage(r, o)
  BY <1>1, <1>9, GotoIs DEF Stage, RetryStage
<1>10. CASE mark_server_owner_transfer_completed(r)
  BY <1>9, <1>10 DEF mark_server_owner_transfer_completed, At, Outcome
<1>11. CASE perform_owner_transfer_existing(r)
  BY <1>9, <1>11 DEF perform_owner_transfer_existing, At, Outcome
<1>12. CASE mark_server_owner_transfer_failed(r)
  BY <1>9, <1>12, AnswerIsNot DEF mark_server_owner_transfer_failed, Outcome
<1>13. CASE mark_server_owner_transfer_cancelled(r)
  BY <1>9, <1>13, AnswerIsNot DEF mark_server_owner_transfer_cancelled, At, Outcome
<1> QED
  BY <1>3, <1>4, <1>5, <1>6, <1>7, <1>8, <1>10, <1>11, <1>12, <1>13 DEF TransferStep

LEMMA Onward ==
  ASSUME TInv, NEW r \in live, r.q.op \notin AddressOps, FleetStep(r), NEW o \in live', o \notin live \ {r}
  PROVE  Stage(r, o)
<1>1. Fit(r)
  BY RequestsFit DEF TInv
<1> QED
  BY <1>1, EnrollmentOnward, GroupOnward, BatchOnward, TransferOnward, AnswerIsNot DEF FleetStep, Enrols, Dropped

-----------------------------------------------------------------------------
(* What the tables say about the requests in flight. *)

\* Out of service for good.
Out(a) == agents[a] = Deleted \/ (Exists(a) /\ agents[a].revoked)

\* Ids that were drawn are not in use yet, a token that was taken is the request's, who
\* purges has put the Agent out of service, and who signs for an Agent that was purged
\* finds no challenge.
EnrolOK(o) ==
    /\ At(o, "token", "start") => tokens[o.q.token] = Nothing
    /\ o.q.op = "enroll" /\ o.at \in {"start", "create"} => agents[o.q.agent] = Nothing
    /\ At(o, "enroll", "create") => tokens[o.q.token] # Nothing /\ tokens[o.q.token].used = o.q.agent
    /\ At(o, "revoke", "purge") => Out(o.q.agent)
    /\ At(o, "batch", "purge") => Out(Server(o))
    /\ At(o, "jwt", "consume") /\ o.q.agent \in purged => ChallengeOf(o.q.agent, o.saw) = {}

MadeOK ==
    /\ made = [a \in Agents |-> made[a]]
    /\ \A a \in Agents : made[a] # Nothing =>
          made[a] \in Tokens /\ tokens[made[a]] # Nothing /\ tokens[made[a]].used = a

\* A challenge has a nonce of its own, until a JWT is signed for it.
ChallengesOK ==
    /\ \A c \in challenges : c = Record(c.agent, c.nonce, c.kind, c.fresh)
    /\ \A c \in challenges : c.kind = "challenge" => c.nonce \in Nonces /\ c.nonce \notin ToSet(issued)
    /\ \A c, d \in challenges : c.kind = "challenge" /\ d.kind = "challenge" /\ c.nonce = d.nonce => c.agent = d.agent

IssuedOK == issued \in Seq(Nonces) /\ IsInjective(issued)

PurgedOK == purged \subseteq Agents /\ \A a \in purged : Out(a)

EInv == (\A o \in live : o.q.op \notin AddressOps => EnrolOK(o)) /\ MadeOK /\ ChallengesOK /\ IssuedOK /\ PurgedOK

\* A retry's copy of the record is right, or the record went with its Agent.
RetryOK(o) ==
    /\ o.at \in HasRecord =>
          \/ /\ transfers[o.saw.x] # Nothing
             /\ transfers[o.saw.x].agent = o.saw.t.agent /\ transfers[o.saw.x].to = o.saw.t.to
          \/ transfers[o.saw.x] = Nothing /\ agents[o.saw.t.agent] = Deleted
    /\ o.at = "complete" => o.saw.t.to \in owners[o.saw.t.agent]

\* An id that a batch has drawn and not used is nobody's.
DrawnOK(o) ==
    \A j \in Pending(o) :
        /\ transfers[o.q.ids[j]] = Nothing
        /\ \A p \in live : p.q.op = "retry" /\ p.at \in HasRecord => p.saw.x # o.q.ids[j]

OwnersOK ==
    /\ owners = [a \in Agents |-> owners[a]]
    /\ \A a \in Agents : Exists(a) => agents[a].owner \in owners[a]

RecordsOK == \A x \in Transfers : transfers[x] # Nothing => Exists(transfers[x].agent)

XInv ==
    /\ \A o \in live : o.q.op = "retry" => RetryOK(o)
    /\ \A o \in live : IsTransfer(o.q) => DrawnOK(o)
    /\ OwnersOK /\ RecordsOK /\ CompletedWasOwned

-----------------------------------------------------------------------------
(* Enrolment. *)

LEMMA OutStays ==
  ASSUME TInv, EInv, NEW r \in live, r.q.op \notin AddressOps, FleetStep(r), NEW a \in Agents, Out(a)
  PROVE  Out(a)'
<1>1. AgentChange(r, a) /\ AgentsTyped
  BY AgentsChange DEF TInv
<1>2. agents[a] # Nothing
  BY EnrollmentAssumption DEF Out, Exists
<1>3. ~(create_with_id(r) /\ r.q.agent = a)
  BY <1>2 DEF EInv, EnrolOK, create_with_id, At
<1>4. ASSUME agents'[a] \in AgentRow PROVE Exists(a)'
  BY <1>4, EnrollmentAssumption DEF Exists
<1>5. agents[a] \in AgentRow => agents[a].revoked
  BY EnrollmentAssumption DEF Out
<1>6. CASE agents'[a] = agents[a]
  BY <1>6 DEF Out, Exists
<1>7. CASE Kept(a)
  BY <1>4, <1>5, <1>7 DEF Kept, Out
<1>8. CASE agents'[a] = Deleted
  BY <1>8 DEF Out
<1>9. CASE agents[a] \in AgentRow /\ agents'[a] \in AgentRow /\ agents'[a].revoked = agents[a].revoked
  BY <1>4, <1>5, <1>9 DEF Out
<1> QED
  BY <1>1, <1>3, <1>6, <1>7, <1>8, <1>9 DEF AgentChange

\* A token that is used stays with its Agent.
LEMMA UsedStays ==
  ASSUME TInv, EInv, NEW r \in live, r.q.op \notin AddressOps, FleetStep(r),
         NEW t \in Tokens, tokens[t] # Nothing, tokens[t].used \in Agents
  PROVE  tokens'[t] # Nothing /\ tokens'[t].used = tokens[t].used
<1>1. CASE tokens'[t] = tokens[t]
  BY <1>1
<1>2. CASE create_enrollment_token(r)
  <2>1. tokens[r.q.token] = Nothing
    BY <1>2 DEF create_enrollment_token, EInv, EnrolOK
  <2> QED
    BY <1>1, <1>2, <2>1 DEF create_enrollment_token, TInv, TokensTyped
<1>3. CASE find_and_use(r)
  <2>1. Usable(r.q.token) => r.q.token # t
    BY EnrollmentAssumption DEF Usable
  <2> QED
    BY <1>1, <1>3, <2>1 DEF find_and_use, TInv, TokensTyped
<1> QED
  BY <1>1, <1>2, <1>3, StepEffects DEF Effects, TokenSteps

\* What may become of the challenges.
Inserted(r, n, c) == c = Record(r.q.agent, r.q.nonce, "request", TRUE) \/ c = Record(r.q.agent, n, "challenge", TRUE)

LEMMA ChallengesChange ==
  ASSUME TInv, NEW r \in live, r.q.op \notin AddressOps, FleetStep(r), NEW c \in challenges', c \notin challenges
  PROVE  \E n \in Nonces : ChallengeInserts(r, n) /\ Inserted(r, n, c)
<1>1. ChallengeSteps(r)
  BY StepEffects DEF Effects
<1>2. ASSUME NEW n \in Nonces, ChallengeInserts(r, n)
      PROVE  Inserted(r, n, c)
  BY <1>2 DEF ChallengeInserts, Pruned, Inserted
<1>3. ASSUME NEW n \in Nonces, JwtFinds(r, n)
      PROVE  FALSE
  BY <1>3 DEF JwtFinds
<1>4. ~JwtSigned(r) /\ ~RevokePurges(r) /\ ~DeletePurges(r)
  BY DEF JwtSigned, RevokePurges, DeletePurges, purge_agent_jwt_challenges
<1> QED
  BY <1>1, <1>2, <1>3, <1>4 DEF ChallengeSteps

LEMMA MadeStays ==
  ASSUME TInv, EInv, NEW r \in live, r.q.op \notin AddressOps, FleetStep(r)
  PROVE  MadeOK'
<1>1. Fit(r) /\ MadeOK
  BY RequestsFit DEF TInv, EInv
<1>2. ASSUME NEW t \in Tokens, NEW a \in Agents, tokens[t] # Nothing, tokens[t].used = a
      PROVE  tokens'[t] # Nothing /\ tokens'[t].used = a
  BY <1>2, UsedStays
<1>3. CASE UNCHANGED made
  BY <1>1, <1>2, <1>3 DEF MadeOK
<1>4. CASE create_with_id(r)
  <2>1. made' = [made EXCEPT ![r.q.agent] = r.q.token] /\ At(r, "enroll", "create")
    BY <1>4 DEF create_with_id
  <2>2. r.q.token \in Tokens /\ r.q.agent \in Agents /\ tokens[r.q.token] # Nothing /\ tokens[r.q.token].used = r.q.agent
    BY <1>1, <2>1 DEF At, Fit, EnrollmentRequest, EInv, EnrolOK
  <2>3. made' = [a \in Agents |-> made'[a]]
    BY <1>1, <2>1 DEF MadeOK
  <2>4. ASSUME NEW a \in Agents, made'[a] # Nothing
        PROVE  made'[a] \in Tokens /\ tokens[made'[a]] # Nothing /\ tokens[made'[a]].used = a
    BY <1>1, <2>1, <2>2, <2>4 DEF MadeOK
  <2> QED
    BY <1>2, <2>3, <2>4 DEF MadeOK
<1> QED
  BY <1>3, <1>4, StepEffects DEF Effects

LEMMA PurgedStays ==
  ASSUME TInv, EInv, NEW r \in live, r.q.op \notin AddressOps, FleetStep(r)
  PROVE  PurgedOK'
<1>1. Fit(r) /\ PurgedOK /\ EnrolOK(r)
  BY RequestsFit DEF TInv, EInv
<1>2. \A a \in Agents : Out(a) => Out(a)'
  BY OutStays
<1>3. CASE UNCHANGED purged
  BY <1>1, <1>2, <1>3 DEF PurgedOK
<1>4. ASSUME NEW a \in Agents, Out(a), purged' = purged \cup {a}
      PROVE  PurgedOK'
  BY <1>1, <1>2, <1>4 DEF PurgedOK
<1>5. CASE RevokePurges(r)
  BY <1>1, <1>4, <1>5 DEF RevokePurges, purge_agent_jwt_challenges, EnrolOK, At, Fit, EnrollmentRequest
<1>6. CASE DeletePurges(r)
  <2>1. Server(r) \in Agents
    BY <1>1, <1>6, ServerIsAgent DEF DeletePurges, At, Fit, RequestTyped, BatchTyped, OnServer
  <2> QED
    BY <1>1, <1>4, <1>6, <2>1 DEF DeletePurges, purge_agent_jwt_challenges, EnrolOK
<1> QED
  BY <1>3, <1>5, <1>6, StepEffects DEF Effects

\* Signing takes every challenge with the nonce away, and a nonce that is drawn is new.
LEMMA ChallengesStay ==
  ASSUME TInv, EInv, NEW r \in live, r.q.op \notin AddressOps, FleetStep(r)
  PROVE  ChallengesOK' /\ IssuedOK'
<1>1. ChallengesOK /\ IssuedOK
  BY DEF EInv
<1>2. ASSUME NEW n \in Nonces, ChallengeInserts(r, n)
      PROVE  n \notin {c.nonce : c \in challenges} /\ n \notin ToSet(issued) /\ issued' = issued
  BY <1>2 DEF ChallengeInserts
<1>3. ASSUME NEW n, NEW c, Inserted(r, n, c)
      PROVE  c = Record(c.agent, c.nonce, c.kind, c.fresh) /\ (c.kind = "challenge" => c.nonce = n /\ c.agent = r.q.agent)
  BY <1>3 DEF Inserted, Record
<1>4. \A c \in challenges' : c = Record(c.agent, c.nonce, c.kind, c.fresh)
  BY <1>1, <1>3, ChallengesChange DEF ChallengesOK
<1>5. \A c, d \in challenges' : c.kind = "challenge" /\ d.kind = "challenge" /\ c.nonce = d.nonce => c.agent = d.agent
  <2>1. CASE \A c \in challenges' : c \in challenges
    BY <1>1, <2>1 DEF ChallengesOK
  <2>2. ASSUME NEW n \in Nonces, ChallengeInserts(r, n)
        PROVE  \A c \in challenges' : c \in challenges \/ Inserted(r, n, c)
    BY <2>2 DEF ChallengeInserts, Pruned, Inserted
  <2>3. ASSUME NEW n \in Nonces, ChallengeInserts(r, n)
        PROVE  \A c, d \in challenges' : c.kind = "challenge" /\ d.kind = "challenge" /\ c.nonce = d.nonce => c.agent = d.agent
    BY <1>1, <1>2, <1>3, <2>2, <2>3 DEF ChallengesOK
  <2> QED
    BY <2>1, <2>3, ChallengesChange
<1>6. CASE UNCHANGED issued
  <2>1. ASSUME NEW c \in challenges', c.kind = "challenge"
        PROVE  c.nonce \in Nonces /\ c.nonce \notin ToSet(issued)
    <3>1. CASE c \in challenges
      BY <1>1, <2>1, <3>1 DEF ChallengesOK
    <3>2. CASE c \notin challenges
      <4>1. PICK n \in Nonces : ChallengeInserts(r, n) /\ Inserted(r, n, c)
        BY <3>2, ChallengesChange
      <4> QED
        BY <1>2, <1>3, <2>1, <4>1
    <3> QED
      BY <3>1, <3>2
  <2> QED
    BY <1>1, <1>4, <1>5, <1>6, <2>1 DEF ChallengesOK, IssuedOK
<1>7. CASE JwtSigned(r) /\ consume_agent_jwt_challenge(r)
  <2>1. PICK d \in challenges : d.agent = r.q.agent /\ d.nonce = r.saw /\ d.kind = "challenge"
    BY <1>7 DEF consume_agent_jwt_challenge, ChallengeOf
  <2>2. r.saw \in Nonces /\ r.saw \notin ToSet(issued)
    BY <1>1, <2>1 DEF ChallengesOK
  <2>3. issued' = Append(issued, r.saw) /\ challenges' = challenges \ ChallengeOf(r.q.agent, r.saw)
    BY <1>7 DEF JwtSigned
  <2>4. IssuedOK'
    <3>1. issued' \in Seq(Nonces)
      BY <1>1, <2>2, <2>3 DEF IssuedOK
    <3>2. \A i \in DOMAIN issued : issued[i] # r.saw
      BY <2>2 DEF ToSet
    <3>3. IsInjective(issued')
      BY <1>1, <2>2, <2>3, <3>2 DEF IssuedOK, IsInjective
    <3> QED
      BY <3>1, <3>3 DEF IssuedOK
  <2>5. ASSUME NEW c \in challenges', c.kind = "challenge"
        PROVE  c.nonce \in Nonces /\ c.nonce \notin ToSet(issued')
    <3>1. c \in challenges /\ c \notin ChallengeOf(r.q.agent, r.saw)
      BY <2>3, <2>5
    <3>2. c.nonce # r.saw
      BY <1>1, <2>1, <2>5, <3>1 DEF ChallengesOK, ChallengeOf
    <3>3. c.nonce \in Nonces /\ c.nonce \notin ToSet(issued)
      BY <1>1, <2>5, <3>1 DEF ChallengesOK
    <3>4. ToSet(issued') = ToSet(issued) \cup {r.saw}
      BY <1>1, <2>2, <2>3 DEF IssuedOK, ToSet
    <3> QED
      BY <3>2, <3>3, <3>4
  <2> QED
    BY <1>4, <1>5, <2>4, <2>5 DEF ChallengesOK
<1> QED
  BY <1>6, <1>7, StepEffects DEF Effects, JwtSigned

\* The requests that stay where they are while another one takes a step.
LEMMA OthersEnrol ==
  ASSUME TInv, EInv, NEW r \in live, r.q.op \notin AddressOps, FleetStep(r),
         NEW o \in live \ {r}, o.q.op \notin AddressOps
  PROVE  EnrolOK(o)'
<1>1. Fit(o) /\ Fit(r) /\ EnrolOK(o) /\ EnrolOK(r) /\ Effects(r)
  BY RequestsFit, StepEffects DEF TInv, EInv
<1>2. PICK w \in Workloads : o.q \in w /\ r.q \in w
  BY DEF TInv, RequestsTyped, Asked
<1>3. o.q # r.q
  BY DEF TInv, RequestsTyped, Asked
<1>4. At(o, "token", "start") => tokens'[o.q.token] = Nothing
  <2>1. SUFFICES ASSUME At(o, "token", "start") PROVE tokens'[o.q.token] = Nothing
    OBVIOUS
  <2>2. tokens[o.q.token] = Nothing /\ o.q.token \in Tokens /\ o.q.op = "token"
    BY <1>1, <2>1 DEF EnrolOK, At, Fit, EnrollmentRequest
  <2>3. CASE create_enrollment_token(r)
    <3>1. r.q.op = "token"
      BY <2>3 DEF create_enrollment_token, At
    <3>2. r.q.token # o.q.token
      BY <1>2, <1>3, <2>2, <3>1, WorkloadsAssumption
    <3> QED
      BY <2>2, <2>3, <3>2 DEF create_enrollment_token, TInv, TokensTyped
  <2>4. CASE find_and_use(r)
    BY <2>2, <2>4 DEF find_and_use, Usable, TInv, TokensTyped
  <2> QED
    BY <1>1, <2>2, <2>3, <2>4 DEF Effects, TokenSteps
<1>5. o.q.op = "enroll" /\ o.at \in {"start", "create"} => agents'[o.q.agent] = Nothing
  <2>1. SUFFICES ASSUME o.q.op = "enroll", o.at \in {"start", "create"} PROVE agents'[o.q.agent] = Nothing
    OBVIOUS
  <2>2. agents[o.q.agent] = Nothing /\ o.q.agent \in Agents
    BY <1>1, <2>1 DEF EnrolOK, Fit, EnrollmentRequest
  <2>3. agents[o.q.agent] \notin AgentRow
    BY <2>2, EnrollmentAssumption
  <2>4. ~(create_with_id(r) /\ r.q.agent = o.q.agent)
    BY <1>2, <1>3, <2>1, WorkloadsAssumption DEF create_with_id, At
  <2> QED
    BY <2>2, <2>3, <2>4, AgentsChange DEF AgentChange, Kept
<1>6. At(o, "enroll", "create") => tokens'[o.q.token] # Nothing /\ tokens'[o.q.token].used = o.q.agent
  BY <1>1, UsedStays DEF EnrolOK, At, Fit, EnrollmentRequest
<1>7. At(o, "revoke", "purge") => Out(o.q.agent)'
  BY <1>1, OutStays DEF EnrolOK, At, Fit, EnrollmentRequest
<1>8. At(o, "batch", "purge") => Out(Server(o))'
  <2>1. SUFFICES ASSUME At(o, "batch", "purge") PROVE Out(Server(o))'
    OBVIOUS
  <2>2. Server(o) \in Agents
    BY <1>1, <2>1, ServerIsAgent DEF At, Fit, RequestTyped, BatchTyped, OnServer
  <2>3. Out(Server(o))
    BY <1>1, <2>1 DEF EnrolOK
  <2>4. ASSUME NEW a \in Agents, Out(a), a = Server(o) PROVE agents'[Server(o)] = Deleted \/ (agents'[Server(o)] \notin {Nothing, Deleted} /\ agents'[Server(o)].revoked)
    BY <2>4, OutStays DEF Out, Exists
  <2> QED
    BY <2>2, <2>3, <2>4 DEF Out, Exists
<1>9. At(o, "jwt", "consume") /\ o.q.agent \in purged' => ChallengeOf(o.q.agent, o.saw)' = {}
  <2>1. SUFFICES ASSUME At(o, "jwt", "consume"), o.q.agent \in purged',
                        NEW c \in challenges', c.agent = o.q.agent, c.nonce = o.saw, c.kind = "challenge"
                 PROVE  FALSE
    BY DEF ChallengeOf
  <2>2. CASE c \notin challenges
    <3>1. PICK n \in Nonces : ChallengeInserts(r, n) /\ Inserted(r, n, c)
      BY <2>2, ChallengesChange
    <3>2. c.nonce = n
      BY <2>1, <3>1 DEF Inserted, Record
    <3>3. n # o.saw
      BY <2>1, <3>1 DEF ChallengeInserts, At
    <3> QED
      BY <2>1, <3>2, <3>3
  <2>3. CASE c \in challenges /\ o.q.agent \in purged
    BY <1>1, <2>1, <2>3 DEF EnrolOK, ChallengeOf
  <2>4. CASE o.q.agent \notin purged
    BY <1>1, <2>1, <2>4 DEF Effects, RevokePurges, DeletePurges, purge_agent_jwt_challenges
  <2> QED
    BY <2>2, <2>3, <2>4
<1> QED
  BY <1>4, <1>5, <1>6, <1>7, <1>8, <1>9 DEF EnrolOK, At

\* The request that takes the step.
LEMMA OwnEnrol ==
  ASSUME TInv, EInv, NEW r \in live, r.q.op \notin AddressOps, FleetStep(r), NEW o \in live', o \notin live \ {r}
  PROVE  EnrolOK(o)'
<1>1. Fit(r) /\ EnrolOK(r) /\ Stage(r, o) /\ PurgedOK /\ AgentsTyped
  BY RequestsFit, Onward DEF TInv, EInv
<1>2. o.q = r.q /\ o.at # "start"
  BY <1>1 DEF Stage
<1>3. At(o, "enroll", "create") =>
         /\ agents'[o.q.agent] = Nothing
         /\ tokens'[o.q.token] # Nothing /\ tokens'[o.q.token].used = o.q.agent
  <2>1. SUFFICES ASSUME At(o, "enroll", "create")
                 PROVE  /\ agents'[r.q.agent] = Nothing
                        /\ tokens'[r.q.token] # Nothing /\ tokens'[r.q.token].used = r.q.agent
    BY <1>2
  <2>2. find_and_use(r) /\ Usable(r.q.token) /\ r.q.token \in Tokens /\ r.q.agent \in Agents
    BY <1>1, <1>2, <2>1 DEF Stage, At, Fit, EnrollmentRequest
  <2>3. agents'[r.q.agent] = Nothing
    BY <1>1, <2>2 DEF find_and_use, At, EnrolOK
  <2>4. tokens' = [tokens EXCEPT ![r.q.token].used = r.q.agent] /\ tokens[r.q.token] \in TokenRow
    BY <2>2 DEF find_and_use, Usable, TInv, TokensTyped
  <2>5. tokens'[r.q.token].used = r.q.agent
    BY <2>2, <2>4 DEF TInv, TokensTyped, TokenRow
  <2>6. tokens'[r.q.token] \in TokenRow
    BY <2>2, <2>4 DEF TInv, TokensTyped, TokenRow
  <2> QED
    BY <2>3, <2>5, <2>6, EnrollmentAssumption
<1>4. At(o, "revoke", "purge") => Out(o.q.agent)'
  <2>1. SUFFICES ASSUME At(o, "revoke", "purge")
                 PROVE  Out(r.q.agent)'
    BY <1>2
  <2>2. revoke(r) /\ AdminSession(r.q) /\ Active(r.q.agent) /\ r.q.agent \in Agents
    BY <1>1, <1>2, <2>1 DEF Stage, At, Fit, EnrollmentRequest
  <2>3. agents' = [agents EXCEPT ![r.q.agent].revoked = TRUE] /\ agents[r.q.agent] \in AgentRow
    BY <1>1, <2>2, RowsExist DEF revoke, Active
  <2>4. agents'[r.q.agent] \in AgentRow /\ agents'[r.q.agent].revoked
    BY <1>1, <2>2, <2>3 DEF AgentsTyped, AgentRow
  <2> QED
    BY <2>4, EnrollmentAssumption DEF Out, Exists
<1>5. At(o, "batch", "purge") => Out(Server(o))'
  <2>1. SUFFICES ASSUME At(o, "batch", "purge")
                 PROVE  agents'[Server(r)] = Deleted
    <3>1. At(o, "batch", "purge") => Server(o) = Server(r)
      BY <1>1, <1>2 DEF Stage, BatchStage, At, Server
    <3> QED
      BY <3>1 DEF Out, Server
  <2>2. DeleteRow(r) /\ Exists(Server(r)) /\ r.q.op = "batch"
    BY <1>1, <1>2, <2>1 DEF Stage, BatchStage, At
  <2>3. Server(r) \in Agents
    BY <1>1, <2>2, ServerIsAgent DEF DeleteRow, Fit, RequestTyped, BatchTyped, OnServer
  <2> QED
    BY <1>1, <2>2, <2>3 DEF DeleteRow, AgentsTyped
<1>6. At(o, "jwt", "consume") => o.q.agent \notin purged'
  <2>1. SUFFICES ASSUME At(o, "jwt", "consume")
                 PROVE  r.q.agent \notin purged'
    BY <1>2
  <2>2. Active(r.q.agent) /\ purged' = purged
    BY <1>1, <1>2, <2>1 DEF Stage, At, enrolment
  <2> QED
    BY <1>1, <2>2 DEF PurgedOK, Out, Active, Exists
<1> QED
  BY <1>2, <1>3, <1>4, <1>5, <1>6 DEF EnrolOK, At

LEMMA EnrolInit ==
  ASSUME AddressesInit, TInv
  PROVE  EInv
<1> USE DEF AddressesInit, FleetInit, EnrollmentInit
<1>1. PICK w \in Workloads : live = {Request(q) : q \in w}
  OBVIOUS
<1>2. ASSUME NEW o \in live
      PROVE  EnrolOK(o)
  <2>1. PICK q \in w : o = Request(q)
    BY <1>1
  <2>2. o.q = q /\ o.at = "start"
    BY <2>1 DEF Request
  <2>3. q.op = "token" => q.token \in Tokens
    BY <2>1, WorkloadsAssumption DEF EnrollmentRequest
  <2>4. q.op = "enroll" => agents[q.agent] = Nothing
    BY <2>1, WorkloadsAssumption
  <2> QED
    BY <2>2, <2>3, <2>4 DEF EnrolOK, At
<1>3. MadeOK /\ ChallengesOK /\ PurgedOK
  BY DEF MadeOK, ChallengesOK, PurgedOK
<1>4. IssuedOK
  BY DEF IssuedOK, IsInjective
<1> QED
  BY <1>2, <1>3, <1>4 DEF EInv

LEMMA EnrolElsewhere ==
  ASSUME EInv, Elsewhere, \A o \in live' : o.q.op \notin AddressOps => o \in live
  PROVE  EInv'
<1> USE DEF Elsewhere, enrolment
<1>1. ASSUME NEW o \in live', o.q.op \notin AddressOps
      PROVE  EnrolOK(o)'
  <2>1. EnrolOK(o)
    BY <1>1 DEF EInv
  <2> QED
    BY <2>1 DEF EnrolOK, At, Out, Exists, Server, ChallengeOf
<1>2. (MadeOK /\ ChallengesOK /\ IssuedOK /\ PurgedOK)'
  BY DEF EInv, MadeOK, ChallengesOK, IssuedOK, PurgedOK, Out, Exists
<1> QED
  BY <1>1, <1>2 DEF EInv

\* A token or a challenge that expires is the same one, only stale.
LEMMA EnrolExpiry ==
  ASSUME TInv, EInv, Expiry
  PROVE  EInv'
<1>1. CASE \E t \in Tokens : TokenExpires(t)
  <2>1. PICK t \in Tokens : TokenExpires(t)
    BY <1>1
  <2>2. tokens[t] \in TokenRow /\ tokens' = [tokens EXCEPT ![t].fresh = FALSE]
    BY <2>1 DEF TokenExpires, TInv, TokensTyped
  <2>3. tokens'[t].used = tokens[t].used /\ tokens'[t] \in TokenRow
    BY <2>2 DEF TInv, TokensTyped, TokenRow
  <2>4. \A u \in Tokens : (tokens'[u] = Nothing <=> tokens[u] = Nothing) /\ (tokens[u] # Nothing => tokens'[u].used = tokens[u].used)
    BY <2>1, <2>2, <2>3, EnrollmentAssumption DEF TInv, TokensTyped, TokenExpires
  <2>5. UNCHANGED <<agents, challenges, issued, purged, made, live>>
    BY <2>1 DEF TokenExpires
  <2>6. ASSUME NEW o \in live', o.q.op \notin AddressOps
        PROVE  EnrolOK(o)'
    <3>1. Fit(o) /\ EnrolOK(o)
      BY <2>5, <2>6, RequestsFit DEF TInv, EInv
    <3> QED
      BY <2>4, <2>5, <3>1 DEF EnrolOK, At, Out, Exists, Server, ChallengeOf, Fit, EnrollmentRequest
  <2>7. MadeOK'
    BY <2>4, <2>5 DEF EInv, MadeOK
  <2>8. (ChallengesOK /\ IssuedOK /\ PurgedOK)'
    BY <2>5 DEF EInv, ChallengesOK, IssuedOK, PurgedOK, Out, Exists
  <2> QED
    BY <2>6, <2>7, <2>8 DEF EInv
<1>2. CASE \E c \in challenges : ChallengeExpires(c)
  <2>1. PICK c \in challenges : ChallengeExpires(c)
    BY <1>2
  <2> DEFINE d == [c EXCEPT !.fresh = FALSE]
  <2>2. challenges' = (challenges \ {c}) \cup {d} /\ UNCHANGED <<agents, tokens, issued, purged, made, live>>
    BY <2>1 DEF ChallengeExpires, rows
  <2>3. d.agent = c.agent /\ d.nonce = c.nonce /\ d.kind = c.kind /\ d = Record(d.agent, d.nonce, d.kind, d.fresh)
    <3>1. c = [agent |-> c.agent, nonce |-> c.nonce, kind |-> c.kind, fresh |-> c.fresh]
      BY DEF EInv, ChallengesOK, Record
    <3>2. ASSUME NEW e, e = [c EXCEPT !.fresh = FALSE]
          PROVE  e.agent = c.agent /\ e.nonce = c.nonce /\ e.kind = c.kind /\ e = [agent |-> e.agent, nonce |-> e.nonce, kind |-> e.kind, fresh |-> e.fresh]
      BY <3>1, <3>2
    <3> QED
      BY <3>2 DEF Record
  <2> HIDE DEF d
  <2>4. \A e \in challenges' : \E f \in challenges : e.agent = f.agent /\ e.nonce = f.nonce /\ e.kind = f.kind
    BY <2>2, <2>3
  <2>5. ASSUME NEW o \in live', o.q.op \notin AddressOps
        PROVE  EnrolOK(o)'
    <3>1. EnrolOK(o)
      BY <2>2, <2>5 DEF EInv
    <3>2. ChallengeOf(o.q.agent, o.saw) = {} => ChallengeOf(o.q.agent, o.saw)' = {}
      BY <2>4 DEF ChallengeOf
    <3> QED
      BY <2>2, <3>1, <3>2 DEF EnrolOK, At, Out, Exists, Server
  <2>6. ChallengesOK'
    BY <2>2, <2>3, <2>4 DEF EInv, ChallengesOK
  <2>7. (MadeOK /\ IssuedOK /\ PurgedOK)'
    BY <2>2 DEF EInv, MadeOK, IssuedOK, PurgedOK, Out, Exists
  <2> QED
    BY <2>5, <2>6, <2>7 DEF EInv
<1> QED
  BY <1>1, <1>2 DEF Expiry

LEMMA EnrolStep ==
  ASSUME TInv, EInv, [AddressesNext]_addressVars
  PROVE  EInv'
<1>1. CASE Elsewhere /\ UNCHANGED live
  BY <1>1, EnrolElsewhere
<1>2. CASE Elsewhere /\ \E r \in live : r.q.op \in AddressOps /\ (Answered(r) \/ GoesOn(r))
  BY <1>2, EnrolElsewhere DEF Answered, GoesOn
<1>3. ASSUME NEW r \in live, r.q.op \notin AddressOps, FleetStep(r)
      PROVE  EInv'
  <2>1. ASSUME NEW o \in live', o.q.op \notin AddressOps
        PROVE  EnrolOK(o)'
    BY <1>3, <2>1, OthersEnrol, OwnEnrol
  <2> QED
    BY <1>3, <2>1, MadeStays, ChallengesStay, PurgedStays DEF EInv
<1>4. CASE Expiry
  BY <1>4, EnrolExpiry
<1> QED
  BY <1>1, <1>2, <1>3, <1>4, StepKinds

LEMMA SignedIsInService ==
  ASSUME TInv, EInv, [AddressesNext]_addressVars, issued' # issued,
         NEW a \in purged, NEW c \in challenges, c.nonce = Last(issued'), c.kind = "challenge"
  PROVE  c.agent # a
<1>1. PICK r \in live : r.q.op \notin AddressOps /\ FleetStep(r)
  BY StepKinds DEF Elsewhere, enrolment, Expiry, TokenExpires, ChallengeExpires
<1>2. JwtSigned(r) /\ consume_agent_jwt_challenge(r)
  BY <1>1, StepEffects DEF Effects, JwtSigned
<1>3. At(r, "jwt", "consume") /\ issued' = Append(issued, r.saw)
  BY <1>2 DEF JwtSigned
<1>4. PICK d \in challenges : d.agent = r.q.agent /\ d.nonce = r.saw /\ d.kind = "challenge"
  BY <1>2 DEF consume_agent_jwt_challenge, ChallengeOf
<1>5. Last(issued') = r.saw
  <2>1. issued \in Seq(Nonces) /\ r.saw \in Nonces
    BY <1>4 DEF EInv, IssuedOK, ChallengesOK
  <2> QED
    BY <1>3, <2>1 DEF Last
<1>6. c.agent = r.q.agent
  BY <1>4, <1>5 DEF EInv, ChallengesOK
<1>7. r.q.agent \notin purged
  BY <1>1, <1>3, <1>4 DEF EInv, EnrolOK, ChallengeOf
<1> QED
  BY <1>6, <1>7

LEMMA SpentOnce ==
  ASSUME EInv
  PROVE  SecretsAreSpentOnce
<1>1. OneAgentPerToken
  BY DEF EInv, MadeOK, OneAgentPerToken
<1> QED
  BY <1>1 DEF EInv, IssuedOK, SecretsAreSpentOnce, ChallengeIsSpentOnce

\* A token of create_enrollment_token is good for one Agent, a challenge of
\* get_agent_jwt_challenge for one JWT, and an Agent whose challenges revoke_agent or
\* delete_agent has purged gets no JWT any more, however many requests are half-way.
THEOREM EnrolmentIsKept == AddressesSpec => EnrolmentHolds
<1>1. AddressesInit => TInv /\ EInv
  BY TypedInit, EnrolInit
<1>2. TInv /\ EInv /\ [AddressesNext]_addressVars => (TInv /\ EInv)'
  BY TypedStep, EnrolStep
<1>3. TInv /\ EInv /\ [AddressesNext]_addressVars =>
         [/\ SecretsAreSpentOnce'
          /\ issued' # issued => \A a \in purged : \A c \in challenges :
                c.nonce = Last(issued') /\ c.kind = "challenge" => c.agent # a]_enrolment
  <2>1. SUFFICES ASSUME TInv, EInv, [AddressesNext]_addressVars
                 PROVE  /\ SecretsAreSpentOnce'
                        /\ issued' # issued => \A a \in purged : \A c \in challenges :
                              c.nonce = Last(issued') /\ c.kind = "challenge" => c.agent # a
    OBVIOUS
  <2>2. EInv'
    BY <2>1, EnrolStep
  <2>3. SecretsAreSpentOnce'
    BY <2>2, SpentOnce, PTL
  <2> QED
    BY <2>1, <2>3, SignedIsInService
<1> QED
  BY <1>1, <1>2, <1>3, PTL DEF AddressesSpec, EnrolmentHolds

-----------------------------------------------------------------------------
(* Owner transfers. *)

\* Whom an Agent belonged to is never forgotten, and whom it belongs to is noted.
LEMMA OwnersGrow ==
  ASSUME TInv, XInv, NEW r \in live, r.q.op \notin AddressOps, FleetStep(r)
  PROVE  OwnersOK' /\ \A a \in Agents : owners[a] \subseteq owners'[a]
<1>1. OwnersOK /\ AgentsTyped
  BY DEF TInv, XInv
<1>2. CASE Enrols(r)
  <2>1. owners' = [a \in Agents |-> IF agents'[a] \notin {Nothing, Deleted}
                                    THEN owners[a] \cup {agents'[a].owner} ELSE owners[a]]
    BY <1>2 DEF Enrols
  <2> QED
    BY <2>1 DEF OwnersOK, Exists
<1>3. CASE Transferred(r)
  <2>1. PICK x, b, to : Persists(r, x, b, to)
    BY <1>3 DEF Transferred
  <2>2. /\ b \in Agents /\ Exists(b) /\ agents' = [agents EXCEPT ![b].owner = to]
        /\ owners' = [owners EXCEPT ![b] = @ \cup {to}]
    BY <2>1 DEF Persists, persist_owner_transfer
  <2>3. agents'[b].owner = to
    BY <1>1, <2>2, RowsExist DEF AgentsTyped, AgentRow
  <2>4. owners' = [a \in Agents |-> owners'[a]] /\ owners'[b] = owners[b] \cup {to}
        /\ \A a \in Agents \ {b} : owners'[a] = owners[a]
    BY <1>1, <2>2 DEF OwnersOK
  <2>5. \A a \in Agents \ {b} : agents'[a] = agents[a]
    BY <1>1, <2>2 DEF AgentsTyped
  <2> QED
    BY <1>1, <2>2, <2>3, <2>4, <2>5 DEF OwnersOK, Exists
<1>4. CASE ~Enrols(r) /\ ~Transferred(r)
  <2>1. owners' = owners
    BY <1>4, StepEffects DEF Effects
  <2>2. ASSUME NEW a \in Agents, Exists(a)'
        PROVE  Exists(a) /\ agents'[a].owner = agents[a].owner
    <3>1. agents'[a] = agents[a] \/ Kept(a)
      BY <1>4, <2>2, AgentsChange DEF AgentChange, Exists, Transferred
    <3> QED
      BY <1>1, <2>2, <3>1, RowsExist DEF Kept, Exists
  <2> QED
    BY <1>1, <2>1, <2>2 DEF OwnersOK
<1> QED
  BY <1>2, <1>3, <1>4

LEMMA DeletedStays ==
  ASSUME TInv, EInv, NEW r \in live, r.q.op \notin AddressOps, FleetStep(r), NEW a \in Agents, agents[a] = Deleted
  PROVE  agents'[a] = Deleted
<1>1. agents[a] \notin AgentRow /\ agents[a] # Nothing
  BY EnrollmentAssumption
<1>2. ~(create_with_id(r) /\ r.q.agent = a)
  BY <1>1 DEF EInv, EnrolOK, create_with_id, At
<1> QED
  BY <1>1, <1>2, AgentsChange DEF AgentChange, Kept

\* A record goes with its Agent, and only with it.
LEMMA RecordsStay ==
  ASSUME TInv, XInv, NEW r \in live, r.q.op \notin AddressOps, FleetStep(r)
  PROVE  RecordsOK'
<1>1. SUFFICES ASSUME NEW x \in Transfers, transfers'[x] # Nothing
               PROVE  agents'[transfers'[x].agent] \notin {Nothing, Deleted}
  BY DEF RecordsOK, Exists
<1>2. RecordsOK /\ TransfersTyped /\ AgentsTyped
  BY DEF TInv, XInv
<1>3. transfers'[x] \in TransferRow /\ transfers'[x].agent \in Agents
  BY <1>1, TransfersStayTyped DEF TransfersTyped, TransferRow
<1>4. ASSUME NEW a \in Agents, Exists(a), a = transfers'[x].agent, ~(DeleteRow(r) /\ Server(r) = a)
      PROVE  agents'[a] \notin {Nothing, Deleted}
  BY <1>4, AgentsStay DEF Exists
<1>5. Exists(transfers'[x].agent)
  BY <1>1, <1>2, RecordsChange, FleetAssumption DEF RecordChange, RecordsOK, Persists, Exists
<1>6. CASE DeleteRow(r) /\ Server(r) = transfers'[x].agent
  <2>1. transfers' = [y \in Transfers |-> IF transfers[y] # Nothing /\ transfers[y].agent = Server(r)
                                         THEN Nothing ELSE transfers[y]]
    BY <1>5, <1>6 DEF DeleteRow, Cascade, Exists
  <2>2. transfers'[x] = transfers[x] /\ transfers[x].agent # Server(r)
    BY <1>1, <2>1
  <2> QED
    BY <1>6, <2>2
<1> QED
  BY <1>3, <1>4, <1>5, <1>6

\* The id a batch of transfers is about to use is one it has drawn.
LEMMA IdIsPending ==
  ASSUME NEW r, Fit(r), r.q.op = "batch", r.at \in OnServer, r.i \in Ids(r)
  PROVE  r.i \in Pending(r)
<1>1. r.i \in Nat
  BY DEF Fit, RequestTyped
<1> QED
  BY <1>1 DEF Pending

\* A step changes a record that is there, or makes one under an id the request has drawn.
LEMMA RecordIsOwn ==
  ASSUME TInv, XInv, NEW r \in live, r.q.op \notin AddressOps, FleetStep(r), NEW x \in Transfers,
         transfers'[x] # transfers[x]
  PROVE  \/ /\ IsTransfer(r.q) /\ r.i \in Pending(r) /\ x = r.q.ids[r.i] /\ UsesId(r)
            /\ transfers[x] = Nothing /\ transfers'[x] # Nothing
         \/ /\ DeleteRow(r) /\ transfers[x] # Nothing /\ transfers'[x] = Nothing
            /\ Exists(Server(r)) /\ transfers[x].agent = Server(r)
         \/ /\ transfers[x] # Nothing /\ transfers'[x] # Nothing
            /\ transfers'[x].agent = transfers[x].agent /\ transfers'[x].to = transfers[x].to
<1>1. Fit(r) /\ RecordChange(r, x)
  BY RequestsFit, RecordsChange DEF TInv
<1>2. ASSUME IsTransfer(r.q), r.i \in Ids(r), x = r.q.ids[r.i], r.q.op = "batch", r.at \in {"transfer", "record"},
             transfers'[x] \in TransferRow
      PROVE  /\ IsTransfer(r.q) /\ r.i \in Pending(r) /\ x = r.q.ids[r.i] /\ UsesId(r)
             /\ transfers[x] = Nothing /\ transfers'[x] # Nothing
  <2>1. r.i \in Pending(r)
    BY <1>1, <1>2, IdIsPending DEF OnServer
  <2>2. transfers[x] = Nothing
    BY <1>2, <2>1 DEF XInv, DrawnOK
  <2> QED
    BY <1>2, <2>1, <2>2, FleetAssumption DEF UsesId
<1>3. ASSUME At(r, "retry", "persist"), x = r.saw.x, NEW a, NEW to, a = r.saw.t.agent, to = r.saw.t.to, Exists(a),
             transfers'[x].agent = a, transfers'[x].to = to, transfers'[x] \in TransferRow
      PROVE  /\ transfers[x] # Nothing /\ transfers'[x] # Nothing
             /\ transfers'[x].agent = transfers[x].agent /\ transfers'[x].to = transfers[x].to
  <2>1. RetryOK(r) /\ r.at \in HasRecord
    BY <1>3 DEF XInv, At, HasRecord
  <2> QED
    BY <1>3, <2>1, FleetAssumption DEF RetryOK, Exists
<1>4. CASE \E a, to : /\ Persists(r, x, a, to) /\ transfers'[x] \in TransferRow
                      /\ transfers'[x].agent = a /\ transfers'[x].to = to
  BY <1>2, <1>3, <1>4 DEF Persists, At
<1>5. CASE /\ At(r, "batch", "record") /\ IsTransfer(r.q) /\ r.i \in Ids(r) /\ x = r.q.ids[r.i]
           /\ transfers'[x] \in TransferRow
  BY <1>2, <1>5 DEF At
<1> QED
  BY <1>1, <1>4, <1>5, FleetAssumption DEF RecordChange

LEMMA CompletedStays ==
  ASSUME TInv, XInv, NEW r \in live, r.q.op \notin AddressOps, FleetStep(r)
  PROVE  CompletedWasOwned'
<1>1. SUFFICES ASSUME NEW x \in Transfers, transfers'[x] # Nothing, transfers'[x].status = "completed"
               PROVE  transfers'[x].to \in owners'[transfers'[x].agent]
  BY DEF CompletedWasOwned, Completed
<1>2. TransfersTyped /\ CompletedWasOwned /\ RecordChange(r, x) /\ \A a \in Agents : owners[a] \subseteq owners'[a]
  BY RecordsChange, OwnersGrow DEF TInv, XInv
<1>3. transfers'[x].agent \in Agents
  BY <1>1, TransfersStayTyped DEF TransfersTyped, TransferRow
<1>4. CASE transfers'[x] = transfers[x]
  BY <1>1, <1>2, <1>3, <1>4 DEF CompletedWasOwned, Completed
<1>5. CASE /\ transfers[x] \in TransferRow /\ transfers'[x] \in TransferRow
           /\ transfers'[x].agent = transfers[x].agent /\ transfers'[x].to = transfers[x].to
           /\ At(r, "retry", "complete") /\ r.saw.x = x
  <2>1. RetryOK(r) /\ r.at \in HasRecord /\ r.at = "complete"
    BY <1>5 DEF XInv, At, HasRecord
  <2>2. transfers[x] # Nothing
    BY <1>5, FleetAssumption
  <2>3. transfers[x].agent = r.saw.t.agent /\ transfers[x].to = r.saw.t.to /\ r.saw.t.to \in owners[r.saw.t.agent]
    BY <1>5, <2>1, <2>2 DEF RetryOK
  <2> QED
    BY <1>2, <1>3, <1>5, <2>3
<1>6. ASSUME NEW a, NEW to, Persists(r, x, a, to), transfers'[x].agent = a, transfers'[x].to = to
      PROVE  transfers'[x].to \in owners'[transfers'[x].agent]
  <2>1. owners' = [owners EXCEPT ![a] = @ \cup {to}] /\ a \in Agents
    BY <1>6 DEF Persists, persist_owner_transfer
  <2> QED
    BY <1>6, <2>1 DEF XInv, OwnersOK
<1> QED
  BY <1>1, <1>2, <1>4, <1>5, <1>6 DEF RecordChange

\* An id that is drawn and not used stays free.
LEMMA IdStaysFree ==
  ASSUME TInv, XInv, NEW r \in live, r.q.op \notin AddressOps, FleetStep(r),
         NEW o \in live, IsTransfer(o.q), NEW j \in Pending(o), o # r \/ ~UsesId(r) \/ j # r.i
  PROVE  /\ transfers'[o.q.ids[j]] = Nothing
         /\ \A p \in live' : p.q.op = "retry" /\ p.at \in HasRecord => p.saw.x # o.q.ids[j]
<1> DEFINE x == o.q.ids[j]
<1>1. DrawnOK(o) /\ o.q.op \notin AddressOps
  BY DEF XInv, IsTransfer, AddressOps
<1>2. Fit(o) /\ Fit(r)
  BY <1>1, RequestsFit DEF TInv
<1>3. x \in Transfers /\ j \in Ids(o) /\ transfers[x] = Nothing
  BY <1>1, <1>2 DEF Pending, Ids, Fit, FleetRequest, DrawnOK
<1>4. ASSUME IsTransfer(r.q), r.i \in Pending(r), x = r.q.ids[r.i], UsesId(r)
      PROVE  FALSE
  <2>1. PICK w \in Workloads : o.q \in w /\ r.q \in w
    BY DEF TInv, RequestsTyped, Asked
  <2>2. r.i \in Ids(r)
    BY <1>4 DEF Pending
  <2>3. o.q = r.q /\ j = r.i
    BY <1>3, <1>4, <2>1, <2>2, WorkloadsAssumption DEF Ids
  <2>4. o = r
    BY <2>3 DEF TInv, RequestsTyped, Asked
  <2> QED
    BY <1>4, <2>3, <2>4
<1>5. transfers'[x] = Nothing
  BY <1>3, <1>4, RecordIsOwn
<1>6. ASSUME NEW p \in live', p.q.op = "retry", p.at \in HasRecord
      PROVE  p.saw.x # x
  <2>1. CASE p \in live
    BY <1>1, <1>6, <2>1 DEF DrawnOK
  <2>2. CASE p \notin live
    <3>1. RetryStage(r, p) /\ p.q = r.q
      BY <1>6, <2>2, Onward DEF Stage
    <3>2. CASE p.at = "agent"
      BY <1>3, <3>1, <3>2 DEF RetryStage, Unsettled, load_server_owner_transfer
    <3>3. CASE p.at # "agent"
      <4>1. r.at = "agent" /\ p.saw.x = r.saw.x
        BY <1>6, <3>1, <3>3 DEF RetryStage, HasRecord
      <4> QED
        BY <1>1, <1>6, <3>1, <4>1 DEF DrawnOK, HasRecord
    <3> QED
      BY <3>2, <3>3
  <2> QED
    BY <2>1, <2>2
<1> QED
  BY <1>5, <1>6

LEMMA DrawnStays ==
  ASSUME TInv, XInv, NEW r \in live, r.q.op \notin AddressOps, FleetStep(r), NEW o \in live', IsTransfer(o.q)
  PROVE  DrawnOK(o)'
<1>1. ASSUME NEW j \in Pending(o)
      PROVE  /\ transfers'[o.q.ids[j]] = Nothing
             /\ \A p \in live' : p.q.op = "retry" /\ p.at \in HasRecord => p.saw.x # o.q.ids[j]
  <2>1. CASE o \in live \ {r}
    BY <1>1, <2>1, IdStaysFree
  <2>2. CASE o \notin live \ {r}
    <3>1. o.q = r.q /\ BatchStage(r, o)
      BY <2>2, Onward DEF Stage, IsTransfer
    <3>2. j \in Pending(r) /\ (UsesId(r) => j # r.i)
      BY <1>1, <3>1 DEF BatchStage
    <3> QED
      BY <3>1, <3>2, IdStaysFree
  <2> QED
    BY <2>1, <2>2
<1> QED
  BY <1>1 DEF DrawnOK, Pending, Ids

LEMMA OthersRetry ==
  ASSUME TInv, EInv, XInv, NEW r \in live, r.q.op \notin AddressOps, FleetStep(r), NEW o \in live, o.q.op = "retry"
  PROVE  RetryOK(o)'
<1>1. RetryOK(o) /\ Fit(o)
  BY RequestsFit DEF XInv, TInv, AddressOps
<1>2. ASSUME o.at \in HasRecord
      PROVE  o.saw.x \in Transfers /\ o.saw.t \in TransferRow /\ o.saw.t.agent \in Agents
  BY <1>1, <1>2 DEF Fit, RequestTyped, RetryTyped, HasRecord, TransferRow
<1>3. ASSUME o.at \in HasRecord, transfers[o.saw.x] # Nothing
      PROVE  \/ /\ transfers'[o.saw.x] # Nothing
                /\ transfers'[o.saw.x].agent = o.saw.t.agent /\ transfers'[o.saw.x].to = o.saw.t.to
             \/ transfers'[o.saw.x] = Nothing /\ agents'[o.saw.t.agent] = Deleted
  <2>1. transfers[o.saw.x].agent = o.saw.t.agent /\ transfers[o.saw.x].to = o.saw.t.to
    BY <1>1, <1>3 DEF RetryOK
  <2>2. CASE DeleteRow(r) /\ transfers'[o.saw.x] = Nothing /\ Exists(Server(r)) /\ transfers[o.saw.x].agent = Server(r)
    BY <1>2, <1>3, <2>1, <2>2 DEF DeleteRow, TInv, AgentsTyped
  <2> QED
    BY <1>2, <1>3, <2>1, <2>2, RecordIsOwn
<1>4. ASSUME o.at \in HasRecord, transfers[o.saw.x] = Nothing
      PROVE  transfers'[o.saw.x] = Nothing /\ agents'[o.saw.t.agent] = Deleted
  <2>1. agents'[o.saw.t.agent] = Deleted
    BY <1>1, <1>2, <1>4, DeletedStays DEF RetryOK
  <2>2. ~(IsTransfer(r.q) /\ r.i \in Pending(r) /\ o.saw.x = r.q.ids[r.i])
    BY <1>4 DEF XInv, DrawnOK
  <2> QED
    BY <1>2, <1>4, <2>1, <2>2, RecordIsOwn
<1>5. ASSUME o.at = "complete"
      PROVE  o.saw.t.to \in owners'[o.saw.t.agent]
  BY <1>1, <1>2, <1>5, OwnersGrow DEF RetryOK, HasRecord
<1> QED
  BY <1>3, <1>4, <1>5 DEF RetryOK

LEMMA OwnRetry ==
  ASSUME TInv, XInv, NEW r \in live, r.q.op \notin AddressOps, FleetStep(r), NEW o \in live', o \notin live \ {r}, o.q.op = "retry"
  PROVE  RetryOK(o)'
<1> USE DEF enrolment, fleet
<1>1. RetryStage(r, o) /\ o.q = r.q /\ Fit(r)
  BY Onward, RequestsFit DEF Stage, TInv
<1>2. CASE o.at = "agent"
  BY <1>1, <1>2 DEF RetryStage, RetryOK, Unsettled, load_server_owner_transfer
<1>3. CASE o.at \in {"refuse", "complete", "persist"}
  <2>1. /\ r.at = "agent" /\ o.saw.x = r.saw.x /\ o.saw.t = r.saw.t
        /\ UNCHANGED <<agents, transfers, owners>>
        /\ o.at = "complete" => Exists(o.saw.t.agent) /\ agents[o.saw.t.agent].owner = o.saw.t.to
    BY <1>1, <1>3 DEF RetryStage
  <2>2. RetryOK(r) /\ r.at \in HasRecord /\ r.saw.t.agent \in Agents
    BY <1>1, <2>1 DEF XInv, HasRecord, Fit, RequestTyped, RetryTyped, TransferRow
  <2>3. o.at = "complete" => o.saw.t.to \in owners[o.saw.t.agent]
    BY <2>1, <2>2 DEF XInv, OwnersOK
  <2> QED
    BY <2>1, <2>2, <2>3 DEF RetryOK
<1> QED
  BY <1>2, <1>3 DEF RetryOK, HasRecord

LEMMA TransferInit ==
  ASSUME AddressesInit, TInv
  PROVE  XInv
<1> USE DEF AddressesInit, FleetInit
<1>1. PICK w \in Workloads : live = {Request(q) : q \in w}
  OBVIOUS
<1>2. ASSUME NEW o \in live
      PROVE  o.at = "start" /\ o.q \in w
  BY <1>1, <1>2 DEF Request
<1>3. \A o \in live : RetryOK(o)
  BY <1>2 DEF RetryOK, HasRecord
<1>4. ASSUME NEW o \in live, IsTransfer(o.q)
      PROVE  DrawnOK(o)
  <2>1. \A j \in Pending(o) : transfers[o.q.ids[j]] = Nothing
    BY <1>2, <1>4, WorkloadsAssumption DEF Pending, Ids
  <2> QED
    BY <1>2, <2>1 DEF DrawnOK, HasRecord
<1>5. OwnersOK
  BY RowsExist DEF OwnersOK, TInv, AgentRow
<1>6. CompletedWasOwned
  <2>1. ASSUME NEW x \in Transfers, Completed(x)
        PROVE  transfers[x].to \in Users /\ transfers[x].agent \in Agents
    BY <2>1 DEF TInv, TransfersTyped, TransferRow, Completed
  <2> QED
    BY <2>1 DEF CompletedWasOwned
<1>7. RecordsOK
  BY DEF RecordsOK
<1> QED
  BY <1>3, <1>4, <1>5, <1>6, <1>7 DEF XInv

LEMMA TransferElsewhere ==
  ASSUME XInv, UNCHANGED <<agents, fleet>>, \A o \in live' : o.q.op \notin AddressOps => o \in live
  PROVE  XInv'
<1> USE DEF fleet
<1>1. ASSUME NEW o \in live', o.q.op = "retry"
      PROVE  RetryOK(o)'
  <2>1. RetryOK(o)
    BY <1>1 DEF XInv, AddressOps
  <2> QED
    BY <2>1 DEF RetryOK
<1>2. ASSUME NEW o \in live', IsTransfer(o.q)
      PROVE  DrawnOK(o)'
  <2>1. DrawnOK(o)
    BY <1>2 DEF XInv, IsTransfer, AddressOps
  <2>2. \A p \in live' : p.q.op = "retry" => p \in live
    BY DEF AddressOps
  <2> QED
    BY <2>1, <2>2 DEF DrawnOK, Pending, Ids
<1>3. (OwnersOK /\ RecordsOK /\ CompletedWasOwned)'
  BY DEF XInv, OwnersOK, RecordsOK, CompletedWasOwned, Completed, Exists
<1> QED
  BY <1>1, <1>2, <1>3 DEF XInv

LEMMA TransfersStep ==
  ASSUME TInv, EInv, XInv, [AddressesNext]_addressVars
  PROVE  XInv'
<1>1. CASE Elsewhere /\ UNCHANGED live
  BY <1>1, TransferElsewhere DEF Elsewhere, enrolment
<1>2. CASE Elsewhere /\ \E r \in live : r.q.op \in AddressOps /\ (Answered(r) \/ GoesOn(r))
  BY <1>2, TransferElsewhere DEF Elsewhere, enrolment, Answered, GoesOn
<1>3. ASSUME NEW r \in live, r.q.op \notin AddressOps, FleetStep(r)
      PROVE  XInv'
  <2>1. \A o \in live' : o.q.op = "retry" => RetryOK(o)'
    BY <1>3, OthersRetry, OwnRetry
  <2>2. \A o \in live' : IsTransfer(o.q) => DrawnOK(o)'
    BY <1>3, DrawnStays
  <2> QED
    BY <1>3, <2>1, <2>2, OwnersGrow, RecordsStay, CompletedStays DEF XInv
<1>4. CASE Expiry /\ UNCHANGED fleet
  BY <1>4, TransferElsewhere DEF Expiry, TokenExpires, ChallengeExpires, rows
<1> QED
  BY <1>1, <1>2, <1>3, <1>4, StepKinds

LEMMA ChangesHands ==
  ASSUME TInv, EInv, [AddressesNext]_addressVars, NEW a \in Agents, Exists(a), Exists(a)', agents'[a].owner # agents[a].owner
  PROVE  \E x \in Transfers :
            /\ transfers'[x] # transfers[x] /\ transfers'[x] # Nothing
            /\ transfers'[x].agent = a /\ transfers'[x].status = "completed"
            /\ transfers'[x].from = agents[a].owner /\ transfers'[x].to = agents'[a].owner
<1>1. PICK r \in live : r.q.op \notin AddressOps /\ FleetStep(r)
  BY StepKinds DEF Elsewhere, enrolment, Expiry, TokenExpires, ChallengeExpires, rows
<1>2. AgentChange(r, a)
  BY <1>1, AgentsChange
<1>3. ~(create_with_id(r) /\ r.q.agent = a)
  BY <1>1 DEF EInv, EnrolOK, create_with_id, At, Exists
<1>4. PICK x, to : Persists(r, x, a, to) /\ agents'[a].owner = to
  BY <1>2, <1>3 DEF AgentChange, Kept, Exists
<1> DEFINE n == IF transfers[x] = Nothing THEN 1 ELSE transfers[x].attempts + 1
           t == [agent |-> a, from |-> agents[a].owner, to |-> to, status |-> "completed", attempts |-> n]
<1>5. x \in Transfers /\ transfers' = [transfers EXCEPT ![x] = t]
  BY <1>4 DEF Persists, persist_owner_transfer
<1>6. transfers'[x] = t
  BY <1>5 DEF TInv, TransfersTyped
<1>7. n \in Nat /\ (transfers[x] # Nothing => n # transfers[x].attempts)
  BY <1>5 DEF TInv, TransfersTyped, TransferRow
<1>8. t.agent = a /\ t.from = agents[a].owner /\ t.to = to /\ t.status = "completed" /\ t.attempts = n
  OBVIOUS
<1> HIDE DEF n
<1>9. transfers'[x] # Nothing
  <2>1. agents[a].owner \in Users /\ to \in Users
    BY <1>4, RowsExist DEF Persists, TInv, AgentRow
  <2>2. t \in TransferRow
    BY <1>7, <2>1 DEF TransferRow
  <2> QED
    BY <1>6, <2>2, FleetAssumption
<1> HIDE DEF t
<1> QED
  BY <1>4, <1>5, <1>6, <1>7, <1>8, <1>9

LEMMA NotCancelled ==
  ASSUME TInv, [AddressesNext]_addressVars, NEW x \in Transfers, Completed(x), transfers'[x] # Nothing
  PROVE  transfers'[x].status # "cancelled"
<1>1. CASE UNCHANGED transfers
  BY <1>1 DEF Completed
<1>2. CASE \E r \in live : r.q.op \notin AddressOps /\ FleetStep(r)
  BY <1>2, RecordsChange DEF RecordChange, Completed
<1> QED
  BY <1>1, <1>2, StepKinds DEF Elsewhere, fleet

\* An Agent changes hands only with its record; a record that says so is right, also when
\* the retry of a transfer found it done, or two retries and a new transfer meet; and
\* cancel_server_transfer never cancels what is done.
THEOREM TransfersStayTrue == AddressesSpec => TransfersAreTrue
<1>1. AddressesInit => TInv /\ EInv /\ XInv
  BY TypedInit, EnrolInit, TransferInit
<1>2. TInv /\ EInv /\ XInv /\ [AddressesNext]_addressVars => (TInv /\ EInv /\ XInv)'
  BY TypedStep, EnrolStep, TransfersStep
<1>3. TInv /\ EInv /\ [AddressesNext]_addressVars =>
         [\A a \in Agents :
             (Exists(a) /\ Exists(a)' /\ agents'[a].owner # agents[a].owner) =>
                 \E x \in Transfers :
                     /\ transfers'[x] # transfers[x] /\ transfers'[x] # Nothing
                     /\ transfers'[x].agent = a /\ transfers'[x].status = "completed"
                     /\ transfers'[x].from = agents[a].owner /\ transfers'[x].to = agents'[a].owner]_fleetVars
  BY ChangesHands
<1>4. TInv /\ [AddressesNext]_addressVars =>
         [\A x \in Transfers :
             Completed(x) /\ transfers'[x] # Nothing => transfers'[x].status # "cancelled"]_transfers
  BY NotCancelled
<1>5. XInv => CompletedWasOwned
  BY DEF XInv
<1> QED
  BY <1>1, <1>2, <1>3, <1>4, <1>5, PTL
     DEF AddressesSpec, TransfersAreTrue, OwnerChangeIsRecorded, CompletedIsNotCancelled

-----------------------------------------------------------------------------
(* Addresses. *)

\* The stages of a walk: over the rows, with an address for the present one, and after its
\* record was told.
Walking == {"agent", "resolve", "provider", "call", "record", "note"}
Located == Walking \ {"agent"}
After == {"record", "note"}

Walked(list, ip, resolved) == [rows |-> list, ip |-> ip, resolved |-> resolved]

\* A row that was listed is that of a configuration which was enabled then.
RowOK(q, row) ==
    /\ row.id \in Configs /\ configs[row.id] # Nothing /\ row.kind \in Kinds
    /\ row.agent \in Agents \cup {Nothing}
    /\ q.op = "report" => row.agent = q.agent
    /\ <<"stored", row.id>> \in ever[q]

WalkOK(r) ==
    /\ r.q.op \in {"check", "report"}
    /\ r.saw = Walked(r.saw.rows, r.saw.ip, r.saw.resolved)
    /\ DOMAIN r.saw.rows = 1..Len(r.saw.rows) /\ Len(r.saw.rows) \in Nat /\ r.i \in DOMAIN r.saw.rows
    /\ \A k \in DOMAIN r.saw.rows : RowOK(r.q, r.saw.rows[k])

\* What is noted is what the record holds and what the history says, or the configuration is
\* one of those whose record was written to at once, or without a clear answer.
AfterOK(r) ==
    LET c == Current(r).id IN
    c \in doubt \/ (/\ r.saw.ip = Held(c)
                    /\ r.at = "note" => configs[c] = Deleted \/ <<c, r.saw.ip, TRUE>> \in history)

\* What an address request carries, and what it has met that allows its next step.
AddressOK(r) ==
    /\ r.q \in DOMAIN ever
    /\ r.at = "start" => r.i = 1
    /\ r.at \in Walking => WalkOK(r)
    /\ r.at \in Located => r.saw.ip \in Ips /\ ConfigNeeds(Current(r), r.saw.ip) \subseteq ever[r.q]
    /\ r.at \in After => AfterOK(r)
    /\ At(r, "history", "list") => <<"readable", r.q.config>> \in ever[r.q]
    /\ At(r, "report", "send") => <<"owned", r.q.agent, r.saw>> \in ever[r.q]

RequestsOK == \A r \in live : r.q.op \in AddressOps => AddressOK(r)

\* What was told was met by the request that told it, which has begun and so forgets nothing.
ToldOK ==
    told.q # Nothing =>
        /\ told.q \in DOMAIN ever /\ told.q.op \in AddressOps /\ Request(told.q) \notin live
        /\ told.needs \subseteq ever[told.q]

AddressTables ==
    /\ configs \in [Configs -> ConfigRow \cup {Nothing, Deleted}]
    /\ states \in [Agents -> Ips \cup {Nothing}]
    /\ dns \in [Configs -> Seq(Ips \cup {Nothing})] /\ \A c \in Configs : Len(dns[c]) > 0
    /\ \A c \in Configs : configs[c] = Nothing => Held(c) = Nothing
    /\ DOMAIN cache = Ips

DInv == AddressTables /\ RequestsOK /\ ToldOK /\ RecordIsTrue /\ AppliedIsInHistory /\ LocationIsCurrent

\* What the steps of others leave to a request that has begun.
Keeps(r) ==
    /\ DOMAIN ever' = DOMAIN ever
    /\ \A q \in DOMAIN ever : Request(q) \notin live => ever[q] \subseteq ever'[q]
    /\ doubt \subseteq doubt'
    /\ \A c \in Configs :
          /\ configs[c] # Nothing => configs'[c] # Nothing
          /\ configs[c] = Deleted => configs'[c] = Deleted
          /\ dns'[c] = dns[c] \/ c \in doubt' \/ Unnoted(r, c) = {}
          /\ \A ip : <<c, ip, TRUE>> \in history => <<c, ip, TRUE>> \in history' \/ configs'[c] = Deleted

LEMMA Lists ==
  ASSUME NEW S, IsFiniteSet(S)
  PROVE  /\ Len(SetToSeq(S)) \in Nat /\ DOMAIN SetToSeq(S) = 1..Len(SetToSeq(S))
         /\ \A k \in DOMAIN SetToSeq(S) : SetToSeq(S)[k] \in S
         /\ S # {} => 1 \in DOMAIN SetToSeq(S)
<1> DEFINE n == Cardinality(S)
<1>1. n \in Nat /\ ExistsBijection(1..n, S)
  BY FS_CardinalityType
<1>2. \E f \in [1..n -> S] : IsInjective(f)
  BY <1>1 DEF ExistsBijection, Bijection, Injection, IsInjective
<1>3. SetToSeq(S) \in [1..n -> S]
  BY <1>2 DEF SetToSeq
<1>4. SetToSeq(S) \in Seq(S)
  BY <1>1, <1>3, SeqDef
<1>5. Len(SetToSeq(S)) = n /\ DOMAIN SetToSeq(S) = 1..n
  BY <1>1, <1>3, <1>4, LenProperties
<1>6. S # {} => n # 0
  BY FS_EmptySet
<1> QED
  BY <1>1, <1>3, <1>5, <1>6

\* A request that has begun is not there a second time, as one that has not.
LEMMA Begun ==
  ASSUME RequestsTyped, NEW o \in live, o.at # "start"
  PROVE  Request(o.q) \notin live
<1>1. Request(o.q).q = o.q /\ Request(o.q).at = "start"
  BY DEF Request
<1> QED
  BY <1>1 DEF RequestsTyped, Asked

LEMMA Remembering ==
  ASSUME Remembers
  PROVE  /\ DOMAIN ever' = DOMAIN ever
         /\ \A q \in DOMAIN ever : (Request(q) \notin live => ever[q] \subseteq ever'[q]) /\ Facts(q)' \subseteq ever'[q]
  BY DEF Remembers

\* A walk and what it has met stand while others take their steps.
LEMMA RowStands ==
  ASSUME NEW r, Keeps(r), NEW q \in DOMAIN ever, Request(q) \notin live, NEW row, RowOK(q, row)
  PROVE  RowOK(q, row)'
  BY DEF RowOK, Keeps

LEMMA WalkStands ==
  ASSUME NEW r, Keeps(r), NEW o, o.q \in DOMAIN ever, Request(o.q) \notin live, WalkOK(o)
  PROVE  WalkOK(o)'
<1>1. \A k \in DOMAIN o.saw.rows : RowOK(o.q, o.saw.rows[k])'
  BY RowStands DEF WalkOK
<1> QED
  BY <1>1 DEF WalkOK, Walked

LEMMA OthersAddress ==
  ASSUME RequestsTyped, NEW r, Keeps(r), NEW o \in live, o # r, AddressOK(o)
  PROVE  AddressOK(o)'
<1>1. o.q \in DOMAIN ever'
  BY DEF AddressOK, Keeps
<1>2. CASE o.at = "start"
  BY <1>1, <1>2 DEF AddressOK, Walking, Located, After, At
<1>3. CASE o.at # "start"
  <2>1. o.q \in DOMAIN ever /\ Request(o.q) \notin live /\ ever[o.q] \subseteq ever'[o.q]
    BY <1>3, Begun DEF AddressOK, Keeps
  <2>2. o.at \in Walking => WalkOK(o)'
    BY <2>1, WalkStands DEF AddressOK
  <2>3. o.at \in Located => o.saw.ip \in Ips /\ ConfigNeeds(Current(o), o.saw.ip) \subseteq ever'[o.q]
    BY <2>1 DEF AddressOK
  <2>4. ASSUME o.at \in After
        PROVE  AfterOK(o)'
    <3> DEFINE c == Current(o).id
    <3>1. c \in Configs /\ o.q.op \in {"check", "report"} /\ AfterOK(o)
      BY <2>4 DEF AddressOK, WalkOK, RowOK, Current, Walking, After
    <3>2. o \in Unnoted(r, c)
      BY <2>4, <3>1 DEF Unnoted, After
    <3>3. dns'[c] = dns[c] \/ c \in doubt'
      BY <3>1, <3>2 DEF Keeps
    <3> QED
      BY <3>1, <3>3 DEF AfterOK, Keeps, Held
  <2> QED
    BY <1>1, <1>3, <2>1, <2>2, <2>3, <2>4 DEF AddressOK
<1> QED
  BY <1>2, <1>3

-----------------------------------------------------------------------------
(* What an address request's step leaves to the others. *)

AddressStep(r) == ConfigStep(r) \/ WalkStep(r) \/ ChangeStep(r) \/ GeoStep(r)

\* The steps that write to the records, the history or the configurations.
Writes(r) ==
    \/ create_ddns_config(r) \/ delete_ddns_config(r) \/ resolver_contains_ip(r)
    \/ \E outcome \in Outcomes : CallProvider(r, outcome)
    \/ record_history(r) \/ update_after_apply(r) \/ WriteFails(r) \/ WalkEnds(r)

LEMMA OthersOnlyRead ==
  ASSUME NEW r, AddressStep(r), ~Writes(r)
  PROVE  UNCHANGED <<configs, dns, history, doubt>>
<1> USE DEF addresses, Writes
<1>1. CASE ConfigStep(r)
  BY <1>1 DEF ConfigStep, CreateConfigChecks, DeleteConfigLoads,
         list_ddns_configs, HistoryLoadsConfig, list_ddns_history, ReloadLists, load_providers
<1>2. CASE WalkStep(r)
  BY <1>2 DEF WalkStep, check_all_agents, check_agent_ip_report, ConfigReadsAgent,
         ResolverDoesNotConfirm, FindsProvider, update_last_state
<1>3. CASE ChangeStep(r)
  BY <1>3 DEF ChangeStep, ReportReadsLatest, insert_agent_ip_event, NotifyReadsOwner, notify_agent_ip_change
<1>4. CASE GeoStep(r)
  BY <1>4 DEF GeoStep, latest_agent_ips, read_cached_geo_location, GeoLookup, cache_geo_location,
         InstallReadsBytes, install_mmdb_bytes, InstallClearsCache
<1> QED
  BY <1>1, <1>2, <1>3, <1>4 DEF AddressStep

\* What is known of an address request.
Known(r) == Shaped(r) /\ AddressRequest(r.q) /\ r.q.op \in AddressOps /\ AddressOK(r)

LEMMA RequestsKnown ==
  ASSUME TInv, DInv, NEW r \in live, r.q.op \in AddressOps
  PROVE  Known(r)
<1>1. PICK w \in Workloads : r.q \in w
  BY DEF TInv, RequestsTyped, Asked
<1>2. AddressRequest(r.q)
  BY <1>1, AddressesAssumption
<1> QED
  BY <1>2 DEF TInv, RequestsTyped, DInv, RequestsOK, Known

\* The configuration a walk is at.
LEMMA CurrentRow ==
  ASSUME NEW r, AddressOK(r), r.at \in Walking
  PROVE  /\ WalkOK(r) /\ RowOK(r.q, Current(r)) /\ Current(r).id \in Configs
         /\ configs[Current(r).id] # Nothing
  BY DEF AddressOK, WalkOK, RowOK, Current

LEMMA AddressKeeps ==
  ASSUME TInv, DInv, NEW r \in live, r.q.op \in AddressOps, AddressStep(r), Remembers
  PROVE  Keeps(r)
<1>1. Known(r) /\ DOMAIN configs = Configs /\ DOMAIN dns = Configs
  BY RequestsKnown DEF DInv, AddressTables
<1>2. /\ DOMAIN ever' = DOMAIN ever
      /\ \A q \in DOMAIN ever : Request(q) \notin live => ever[q] \subseteq ever'[q]
  BY Remembering
<1>3. CASE ~Writes(r)
  BY <1>2, <1>3, OthersOnlyRead DEF Keeps
<1>4. CASE create_ddns_config(r)
  <2>1. r.q.config \in Configs
    BY <1>1, <1>4 DEF Known, AddressRequest, create_ddns_config, At
  <2>2. UNCHANGED <<dns, history, doubt>> /\ configs[r.q.config] = Nothing
    BY <1>4 DEF create_ddns_config
  <2>3. \A c \in Configs : c # r.q.config => configs'[c] = configs[c]
    BY <1>1, <1>4 DEF create_ddns_config
  <2>4. configs'[r.q.config] \in ConfigRow
    BY <1>1, <1>4, <2>1 DEF create_ddns_config, Known, AddressRequest, At, ConfigRow
  <2> QED
    BY <1>2, <2>2, <2>3, <2>4, AddressesAssumption, EnrollmentAssumption DEF Keeps
<1>5. CASE delete_ddns_config(r)
  <2>1. UNCHANGED <<dns, doubt>> /\ history' = {h \in history : h[1] # r.q.config}
    BY <1>5 DEF delete_ddns_config
  <2>2. \A c \in Configs : configs'[c] = IF c = r.q.config THEN Deleted ELSE configs[c]
    BY <1>1, <1>5 DEF delete_ddns_config
  <2> QED
    BY <1>2, <2>1, <2>2, EnrollmentAssumption DEF Keeps
<1>6. CASE resolver_contains_ip(r) \/ WriteFails(r) \/ WalkEnds(r)
  <2>1. UNCHANGED <<configs, dns, history>> /\ doubt \subseteq doubt'
    BY <1>6 DEF resolver_contains_ip, WriteFails, WalkEnds
  <2> QED
    BY <1>2, <2>1 DEF Keeps
<1>7. CASE record_history(r)
  <2>1. UNCHANGED <<configs, dns, doubt>> /\ history \subseteq history'
    BY <1>7 DEF record_history
  <2> QED
    BY <1>2, <2>1 DEF Keeps
<1>8. CASE update_after_apply(r)
  <2>1. UNCHANGED <<dns, doubt, history>>
    BY <1>8 DEF update_after_apply
  <2>2. ASSUME NEW c \in Configs
        PROVE  (configs[c] # Nothing => configs'[c] # Nothing) /\ (configs[c] = Deleted => configs'[c] = Deleted)
    <3>1. CASE configs' = configs
      BY <3>1
    <3>2. CASE IsStored(Current(r).id) /\ configs' = [configs EXCEPT ![Current(r).id].applied = r.saw.ip]
      <4>1. CASE c # Current(r).id
        BY <1>1, <3>2, <4>1
      <4>2. CASE c = Current(r).id
        <5>1. r.saw.ip \in Ips
          BY <1>1, <1>8 DEF Known, AddressOK, update_after_apply, Located, Walking
        <5>2. configs[c] \in ConfigRow
          BY <3>2, <4>2 DEF IsStored, DInv, AddressTables
        <5>3. configs'[c] \in ConfigRow
          BY <1>1, <3>2, <4>2, <5>1, <5>2 DEF ConfigRow
        <5> QED
          BY <5>2, <5>3, AddressesAssumption
      <4> QED
        BY <4>1, <4>2
    <3> QED
      BY <1>8, <3>1, <3>2 DEF update_after_apply
  <2> QED
    BY <1>2, <2>1, <2>2 DEF Keeps
<1>9. ASSUME NEW outcome \in Outcomes, CallProvider(r, outcome)
      PROVE  Keeps(r)
  <2> DEFINE c == Current(r).id
  <2>1. UNCHANGED configs /\ history \subseteq history' /\ doubt \subseteq doubt'
    BY <1>9 DEF CallProvider
  <2>2. Unnoted(r, c) # {} => c \in doubt'
    BY <1>9 DEF CallProvider
  <2>3. \A d \in Configs : d # c => dns'[d] = dns[d]
    BY <1>1, <1>9 DEF CallProvider
  <2> QED
    BY <1>2, <2>1, <2>2, <2>3 DEF Keeps
<1> QED
  BY <1>3, <1>4, <1>5, <1>6, <1>7, <1>8, <1>9 DEF Writes

-----------------------------------------------------------------------------
(* What an address request goes on with, and what it tells. *)

OwnOK(r) == \A o \in live' : o \notin live \ {r} => o.q = r.q /\ o.at # "start" /\ AddressOK(o)'

TellsOK(r) == told' = told \/ \E needs : told' = [q |-> r.q, needs |-> needs] /\ needs \subseteq ever'[r.q]

\* The stages at which nothing need have been met.
LEMMA PlainStage ==
  ASSUME NEW o, o.q \in DOMAIN ever', o.at \notin Walking \cup {"start"},
         ~At(o, "history", "list"), ~At(o, "report", "send")
  PROVE  AddressOK(o)'
  BY DEF AddressOK, Located, After, Walking, At

LEMMA PlainGoes ==
  ASSUME NEW r, Shaped(r), r.q \in DOMAIN ever', NEW at, at \notin Walking \cup {"start", "list", "send"},
         NEW saw, Goto(r, at, saw)
  PROVE  OwnOK(r)
<1>1. ASSUME NEW o \in live', o \notin live \ {r}
      PROVE  o.q = r.q /\ o.at # "start" /\ AddressOK(o)'
  <2>1. o.q = r.q /\ o.at = at
    BY <1>1, GotoIs
  <2> QED
    BY <2>1, PlainStage DEF At
<1> QED
  BY <1>1 DEF OwnOK

LEMMA AnswerOK == ASSUME NEW r, Answer(r) PROVE OwnOK(r)
  BY DEF Answer, OwnOK

LEMMA WalkStage ==
  ASSUME NEW r, Keeps(r), AddressOK(r), r.at \in Walking, Request(r.q) \notin live,
         NEW o, NEW ip, NEW resolved,
         o.q = r.q, o.at \in Walking, o.i \in DOMAIN r.saw.rows, o.saw = Walked(r.saw.rows, ip, resolved),
         o.at \in Located => ip \in Ips /\ ConfigNeeds(r.saw.rows[o.i], ip) \subseteq ever'[r.q],
         o.at \in After => AfterOK(o)'
  PROVE  AddressOK(o)'
<1>1. o.saw.rows = r.saw.rows /\ o.saw.ip = ip /\ o.saw.resolved = resolved
  BY DEF Walked
<1>2. WalkOK(r)' /\ r.q \in DOMAIN ever'
  BY CurrentRow, WalkStands DEF AddressOK, Keeps
<1>3. WalkOK(o)'
  BY <1>1, <1>2 DEF WalkOK
<1>4. o.at # "start" /\ ~At(o, "history", "list") /\ ~At(o, "report", "send")
  BY DEF At, Walking
<1> QED
  BY <1>1, <1>2, <1>3, <1>4 DEF AddressOK, Current

\* A walk goes on with the same configuration.
LEMMA WalkGoes ==
  ASSUME NEW r, Shaped(r), Keeps(r), AddressOK(r), r.at \in Walking, Request(r.q) \notin live,
         NEW at \in Walking, NEW ip, NEW resolved, Goto(r, at, Walked(r.saw.rows, ip, resolved)),
         at \in Located => ip \in Ips /\ ConfigNeeds(Current(r), ip) \subseteq ever'[r.q],
         at \in After => LET c == Current(r).id IN
             c \in doubt' \/ (ip = Held(c)' /\ (at = "note" => configs'[c] = Deleted \/ <<c, ip, TRUE>> \in history'))
  PROVE  OwnOK(r)
<1>1. ASSUME NEW o \in live', o \notin live \ {r}
      PROVE  o.q = r.q /\ o.at # "start" /\ AddressOK(o)'
  <2>1. o.q = r.q /\ o.at = at /\ o.i = r.i /\ o.saw = Walked(r.saw.rows, ip, resolved)
    BY <1>1, GotoIs
  <2>2. o.saw.rows = r.saw.rows /\ o.saw.ip = ip
    BY <2>1 DEF Walked
  <2>3. Current(o) = Current(r) /\ o.i \in DOMAIN r.saw.rows
    BY <2>1, <2>2, CurrentRow DEF Current, WalkOK
  <2>4. o.at \in After => AfterOK(o)'
    BY <2>1, <2>2, <2>3 DEF AfterOK
  <2>5. AddressOK(o)'
    BY <2>1, <2>3, <2>4, WalkStage DEF Current
  <2> QED
    BY <2>1, <2>5 DEF Walking
<1> QED
  BY <1>1 DEF OwnOK

\* A walk goes on with the next configuration, or is over.
LEMMA NextConfigOK ==
  ASSUME NEW r, Shaped(r), Keeps(r), AddressOK(r), r.at \in Walking, Request(r.q) \notin live, NextConfig(r)
  PROVE  OwnOK(r)
<1>1. WalkOK(r) /\ r.q \in DOMAIN ever'
  BY CurrentRow DEF AddressOK, Keeps
<1>2. CASE r.i < Len(r.saw.rows)
           /\ live' = (live \ {r}) \cup {[r EXCEPT !.i = @ + 1, !.at = "agent", !.saw.resolved = FALSE, !.saw.ip = Nothing]}
  <2>1. ASSUME NEW o \in live', o \notin live \ {r}
        PROVE  o.q = r.q /\ o.at # "start" /\ AddressOK(o)'
    <3>1. o = [r EXCEPT !.i = @ + 1, !.at = "agent", !.saw.resolved = FALSE, !.saw.ip = Nothing]
      BY <1>2, <2>1
    <3>2. /\ o.q = r.q /\ o.at = "agent" /\ o.i = r.i + 1
          /\ o.saw = [r.saw EXCEPT !.resolved = FALSE, !.ip = Nothing]
      BY <3>1 DEF Shaped, Fields
    <3>3. o.saw = Walked(r.saw.rows, Nothing, FALSE)
      BY <1>1, <3>2 DEF WalkOK, Walked
    <3>4. o.i \in DOMAIN r.saw.rows
      BY <1>1, <1>2, <3>2 DEF WalkOK
    <3>5. o.at \in Walking /\ o.at \notin Located /\ o.at \notin After
      BY <3>2 DEF Walking, Located, After
    <3>6. AddressOK(o)'
      BY <3>2, <3>3, <3>4, <3>5, WalkStage
    <3> QED
      BY <3>2, <3>6
  <2> QED
    BY <2>1 DEF OwnOK
<1>3. CASE Goto(r, "latest", Nothing)
  BY <1>1, <1>3, PlainGoes DEF Walking
<1> QED
  BY <1>2, <1>3, AnswerOK DEF NextConfig

\* What a request meets when it reads the row of an Agent in service.
LEMMA Meets ==
  ASSUME Remembers, UNCHANGED <<agents, states>>, NEW q \in DOMAIN ever, NEW a \in Agents
  PROVE  /\ Exists(a) => <<"owned", a, agents[a].owner>> \in ever'[q]
         /\ Active(a) => <<"active", a>> \in ever'[q]
         /\ <<"at", a, states[a]>> \in ever'[q]
         /\ q.op = "report" => <<"at", q.agent, q.ip>> \in ever'[q]
<1>1. Facts(q)' \subseteq ever'[q]
  BY Remembering
<1>2. Exists(a)' <=> Exists(a)
  BY DEF Exists
<1>3. Active(a)' <=> Active(a)
  BY <1>2 DEF Active
<1> QED
  BY <1>1, <1>2, <1>3 DEF Facts

\* A walk begins with rows that are stored and enabled at that moment.
LEMMA WalkBegins ==
  ASSUME TInv, DInv, NEW r, Known(r), r.at = "start", r.q.op \in {"check", "report"}, Remembers, UNCHANGED configs,
         NEW cs, cs \subseteq list_enabled, cs # {}, Goto(r, "agent", Walk(cs)),
         r.q.op = "report" => \A c \in cs : configs[c].agent = r.q.agent
  PROVE  OwnOK(r)
<1> DEFINE S == {RowOf(c) : c \in cs}
<1>1. IsFiniteSet(cs) /\ cs \subseteq Configs
  BY AddressesAssumption, FS_Subset DEF list_enabled
<1>2. IsFiniteSet(S) /\ S # {}
  <2> DEFINE f == [c \in cs |-> RowOf(c)]
  <2>1. f \in Surjection(cs, S)
    BY DEF Surjection
  <2> QED
    BY <1>1, <2>1, FS_Surjection, Zenon
<1>3. r.q \in DOMAIN ever' /\ Facts(r.q)' \subseteq ever'[r.q] /\ r.i = 1
  BY Remembering DEF Known, AddressOK
<1>4. list_enabled' = list_enabled
  BY DEF list_enabled, IsStored
<1>5. ASSUME NEW c \in cs
      PROVE  RowOK(r.q, RowOf(c))'
  <2>1. c \in Configs /\ configs[c] \in ConfigRow
    BY <1>1 DEF list_enabled, IsStored, DInv, AddressTables
  <2>2. <<"stored", c>> \in ever'[r.q]
    BY <1>3, <1>4 DEF Facts
  <2>3. configs[c] # Nothing
    BY <1>1 DEF list_enabled, IsStored
  <2> DEFINE row == RowOf(c)
  <2>4. row.id = c /\ row.agent = configs[c].agent /\ row.kind = configs[c].kind /\ row' = row
    BY DEF RowOf
  <2> HIDE DEF row
  <2>5. RowOK(r.q, row)'
    BY <2>1, <2>2, <2>3, <2>4 DEF RowOK, ConfigRow
  <2> QED
    BY <2>5 DEF row
<1>6. ASSUME NEW o \in live', o \notin live \ {r}
      PROVE  o.q = r.q /\ o.at # "start" /\ AddressOK(o)'
  <2>1. o.q = r.q /\ o.at = "agent" /\ o.i = 1 /\ o.saw = Walk(cs)
    BY <1>3, <1>6, GotoIs DEF Known
  <2>2. o.saw.rows = SetToSeq(S) /\ o.saw = Walked(o.saw.rows, o.saw.ip, o.saw.resolved)
    BY <2>1 DEF Walk, Walked
  <2> HIDE DEF S
  <2>3. /\ Len(o.saw.rows) \in Nat /\ DOMAIN o.saw.rows = 1..Len(o.saw.rows)
        /\ \A k \in DOMAIN o.saw.rows : o.saw.rows[k] \in S
        /\ 1 \in DOMAIN o.saw.rows
    BY <1>2, <2>2, Lists
  <2>4. \A k \in DOMAIN o.saw.rows : RowOK(o.q, o.saw.rows[k])'
    <3> TAKE k \in DOMAIN o.saw.rows
    <3>1. PICK c \in cs : o.saw.rows[k] = RowOf(c)
      BY <2>3 DEF S
    <3>2. RowOf(c)' = RowOf(c)
      BY DEF RowOf
    <3> QED
      BY <1>5, <2>1, <3>1, <3>2
  <2>5. WalkOK(o)'
    BY <2>1, <2>2, <2>3, <2>4 DEF WalkOK
  <2> QED
    BY <1>3, <2>1, <2>5 DEF AddressOK, Walking, Located, After, At
<1> QED
  BY <1>6 DEF OwnOK

LEMMA ConfigOwn ==
  ASSUME TInv, DInv, NEW r \in live, Known(r), ConfigStep(r), Remembers, UNCHANGED <<enrolment, fleet>>
  PROVE  OwnOK(r) /\ TellsOK(r)
<1>1. r.q \in DOMAIN ever /\ r.q \in DOMAIN ever' /\ Facts(r.q)' \subseteq ever'[r.q] /\ Shaped(r)
  BY Remembering DEF Known, AddressOK
<1>2. ASSUME UNCHANGED configs, NEW c \in Configs, IsStored(c), config_visible(r.q, c)
      PROVE  <<"readable", c>> \in ever'[r.q]
  <2>1. IsStored(c)' /\ config_visible(r.q, c)'
    BY <1>2 DEF IsStored, config_visible
  <2> QED
    BY <1>1, <2>1 DEF Facts
<1>3. CASE CreateConfigChecks(r) \/ DeleteConfigLoads(r) \/ ReloadLists(r)
  BY <1>1, <1>3, PlainGoes, AnswerOK
     DEF CreateConfigChecks, DeleteConfigLoads, ReloadLists, TellsOK, addresses, Walking
<1>4. CASE create_ddns_config(r) \/ delete_ddns_config(r) \/ load_providers(r)
  BY <1>4, AnswerOK DEF create_ddns_config, delete_ddns_config, load_providers, TellsOK
<1>5. CASE list_ddns_configs(r)
  <2> DEFINE needs == {<<"readable", c>> : c \in {c \in list_enabled : config_visible(r.q, c)}}
  <2>1. OwnOK(r) /\ told' = [q |-> r.q, needs |-> needs] /\ UNCHANGED configs
    BY <1>5, AnswerOK DEF list_ddns_configs, Tell
  <2>2. needs \subseteq ever'[r.q]
    BY <1>2, <2>1 DEF list_enabled
  <2> QED
    BY <2>1, <2>2 DEF TellsOK
<1>6. CASE HistoryLoadsConfig(r)
  <2>1. told' = told /\ UNCHANGED configs /\ r.q.op = "history" /\ r.q.config \in Configs
    BY <1>6 DEF HistoryLoadsConfig, addresses, At, Known, AddressRequest
  <2>2. CASE Answer(r)
    BY <2>1, <2>2, AnswerOK DEF TellsOK
  <2>3. CASE IsStored(r.q.config) /\ config_visible(r.q, r.q.config) /\ Goto(r, "list", Nothing)
    <3>1. ASSUME NEW o \in live', o \notin live \ {r}
          PROVE  o.q = r.q /\ o.at # "start" /\ AddressOK(o)'
      <4>1. o.q = r.q /\ o.at = "list"
        BY <1>1, <2>3, <3>1, GotoIs
      <4>2. <<"readable", o.q.config>> \in ever'[o.q]
        BY <1>2, <2>1, <2>3, <4>1
      <4> QED
        BY <1>1, <2>1, <4>1, <4>2 DEF AddressOK, Walking, Located, After, At
    <3> QED
      BY <2>1, <3>1 DEF OwnOK, TellsOK
  <2> QED
    BY <1>6, <2>2, <2>3 DEF HistoryLoadsConfig
<1>7. CASE list_ddns_history(r)
  <2> DEFINE needs == {<<"readable", h[1]>> : h \in {h \in history : h[1] = r.q.config}}
  <2>1. OwnOK(r) /\ told' = [q |-> r.q, needs |-> needs]
    BY <1>7, AnswerOK DEF list_ddns_history, Tell
  <2>2. <<"readable", r.q.config>> \in ever[r.q] /\ r.at # "start"
    BY <1>7 DEF list_ddns_history, At, Known, AddressOK
  <2>3. <<"readable", r.q.config>> \in ever'[r.q]
    BY <1>1, <2>2, Begun, Remembering DEF TInv
  <2>4. needs \subseteq ever'[r.q]
    BY <2>3
  <2> QED
    BY <2>1, <2>4 DEF TellsOK
<1> QED
  BY <1>3, <1>4, <1>5, <1>6, <1>7 DEF ConfigStep

LEMMA Resolved ==
  ASSUME NEW saw, NEW list, NEW ip, NEW before, saw = Walked(list, ip, before), NEW resolved
  PROVE  [saw EXCEPT !.resolved = resolved] = Walked(list, ip, resolved)
  BY DEF Walked

\* The steps of a walk on one configuration, up to the answer of its service.
LEMMA LocateOwn ==
  ASSUME TInv, DInv, NEW r \in live, Known(r), Keeps(r), Remembers, UNCHANGED <<enrolment, fleet>>,
         ConfigReadsAgent(r) \/ resolver_contains_ip(r) \/ ResolverDoesNotConfirm(r) \/ FindsProvider(r)
  PROVE  OwnOK(r) /\ told' = told
<1>1. r.at \in Walking /\ Shaped(r) /\ AddressOK(r) /\ told' = told
  BY DEF ConfigReadsAgent, resolver_contains_ip, ResolverDoesNotConfirm, FindsProvider, At, Walking, Known, addresses
<1>2. WalkOK(r) /\ RowOK(r.q, Current(r)) /\ r.q \in DOMAIN ever /\ Request(r.q) \notin live
  BY <1>1, CurrentRow, Begun DEF AddressOK, Walking, TInv
<1>3. r.saw = Walked(r.saw.rows, r.saw.ip, r.saw.resolved) /\ ever[r.q] \subseteq ever'[r.q]
  BY <1>2 DEF WalkOK, Keeps
<1>4. r.at \in Located => r.saw.ip \in Ips /\ ConfigNeeds(Current(r), r.saw.ip) \subseteq ever'[r.q]
  BY <1>1, <1>3 DEF AddressOK
<1>5. CASE ConfigReadsAgent(r)
  <2> DEFINE row == Current(r)
             ip == IF r.q.op = "report" THEN r.q.ip ELSE states[row.agent]
             next == IF r.q.op = "check" /\ settings.resolver THEN "resolve" ELSE "provider"
  <2>1. CASE NextConfig(r)
    BY <1>1, <1>2, <2>1, NextConfigOK
  <2>2. CASE validated_config_agent(row) /\ ip \notin {Nothing, row.applied} /\ Goto(r, next, [r.saw EXCEPT !.ip = ip])
    <3>1. row.agent \in Agents /\ Active(row.agent) /\ agents[row.agent].owner = row.owner
      BY <1>2, <2>2 DEF validated_config_agent, RowOK
    <3>2. UNCHANGED <<agents, states>>
      BY <1>5 DEF ConfigReadsAgent, addresses, enrolment
    <3>3. /\ <<"owned", row.agent, row.owner>> \in ever'[r.q] /\ <<"active", row.agent>> \in ever'[r.q]
          /\ <<"at", row.agent, ip>> \in ever'[r.q] /\ <<"stored", row.id>> \in ever'[r.q]
      BY <1>2, <1>3, <3>1, <3>2, Meets DEF Active, RowOK
    <3>4. ip \in Ips
      <4>1. CASE r.q.op = "report"
        BY <4>1 DEF Known, AddressRequest
      <4>2. CASE r.q.op # "report"
        BY <2>2, <3>1, <4>2 DEF DInv, AddressTables
      <4> QED
        BY <4>1, <4>2
    <3>5. ConfigNeeds(row, ip) \subseteq ever'[r.q]
      BY <3>3 DEF ConfigNeeds
    <3>6. [r.saw EXCEPT !.ip = ip] = Walked(r.saw.rows, ip, r.saw.resolved)
      BY <1>3 DEF Walked
    <3>7. next \in Walking /\ next \notin After
      BY DEF Walking, After
    <3> HIDE DEF next, ip, row
    <3>8. Goto(r, next, Walked(r.saw.rows, ip, r.saw.resolved))
      BY <2>2, <3>6
    <3> QED
      BY <1>1, <1>2, <3>4, <3>5, <3>7, <3>8, WalkGoes DEF row
  <2> QED
    BY <1>1, <1>5, <2>1, <2>2 DEF ConfigReadsAgent
<1>6. CASE resolver_contains_ip(r)
  <2> DEFINE c == Current(r).id
  <2>1. r.at \in Located /\ Goto(r, "record", [r.saw EXCEPT !.resolved = TRUE])
    BY <1>6 DEF resolver_contains_ip, At, Located, Walking
  <2>2. [r.saw EXCEPT !.resolved = TRUE] = Walked(r.saw.rows, r.saw.ip, TRUE)
    <3>1. \A b : [r.saw EXCEPT !.resolved = b] = Walked(r.saw.rows, r.saw.ip, b)
      BY <1>3, Resolved
    <3> QED
      BY <3>1
  <2>3. c \in doubt' \/ r.saw.ip = Held(c)'
    BY <1>6 DEF resolver_contains_ip, Held
  <2>4. Goto(r, "record", Walked(r.saw.rows, r.saw.ip, TRUE)) /\ "record" \in Walking
    BY <2>1, <2>2 DEF Walking
  <2> QED
    BY <1>1, <1>2, <1>4, <2>1, <2>3, <2>4, WalkGoes
<1>7. CASE ResolverDoesNotConfirm(r)
  <2>1. r.at \in Located /\ Goto(r, "provider", Walked(r.saw.rows, r.saw.ip, r.saw.resolved))
    BY <1>3, <1>7 DEF ResolverDoesNotConfirm, At, Located, Walking
  <2>2. "provider" \in Walking /\ "provider" \notin After
    BY DEF Walking, After
  <2> QED
    BY <1>1, <1>2, <1>4, <2>1, <2>2, WalkGoes
<1>8. CASE FindsProvider(r)
  <2>1. CASE NextConfig(r)
    BY <1>1, <1>2, <2>1, NextConfigOK
  <2>2. CASE Goto(r, "call", r.saw)
    <3>1. r.at \in Located /\ Goto(r, "call", Walked(r.saw.rows, r.saw.ip, r.saw.resolved))
      BY <1>3, <1>8, <2>2 DEF FindsProvider, Located, Walking
    <3>2. "call" \in Walking /\ "call" \notin After
      BY DEF Walking, After
    <3> QED
      BY <1>1, <1>2, <1>4, <3>1, <3>2, WalkGoes
  <2> QED
    BY <1>8, <2>1, <2>2 DEF FindsProvider
<1> QED
  BY <1>1, <1>5, <1>6, <1>7, <1>8

\* What was appended last is what is held.
LEMMA HeldIsLast ==
  ASSUME DInv, NEW c \in Configs, NEW ip \in Ips, dns' = [dns EXCEPT ![c] = Append(@, ip)]
  PROVE  Held(c)' = ip
<1>1. dns'[c] = Append(dns[c], ip) /\ dns[c] \in Seq(Ips \cup {Nothing})
  BY DEF DInv, AddressTables
<1> QED
  BY <1>1 DEF Held, Last

LEMMA CallOwn ==
  ASSUME TInv, DInv, NEW r \in live, Known(r), Keeps(r), NEW outcome \in Outcomes, CallProvider(r, outcome)
  PROVE  OwnOK(r) /\ TellsOK(r)
<1> DEFINE c == Current(r).id
           ok == update_ip(Current(r).kind, outcome)
<1>1. r.at = "call" /\ r.at \in Walking /\ r.at \in Located /\ Shaped(r) /\ AddressOK(r)
  BY DEF CallProvider, Walking, Located, Known
<1>2. WalkOK(r) /\ RowOK(r.q, Current(r)) /\ c \in Configs /\ r.q \in DOMAIN ever /\ Request(r.q) \notin live
  BY <1>1, CurrentRow, Begun DEF AddressOK, TInv
<1>3. r.saw = Walked(r.saw.rows, r.saw.ip, r.saw.resolved) /\ ever[r.q] \subseteq ever'[r.q]
  BY <1>2 DEF WalkOK, Keeps
<1>4. r.saw.ip \in Ips /\ ConfigNeeds(Current(r), r.saw.ip) \subseteq ever'[r.q]
  BY <1>1, <1>3 DEF AddressOK
<1>5. TellsOK(r)
  BY <1>4 DEF CallProvider, Tell, TellsOK
<1>6. CASE ok
  <2>1. Goto(r, "record", Walked(r.saw.rows, r.saw.ip, r.saw.resolved))
    BY <1>3, <1>6 DEF CallProvider
  <2>2. CASE outcome = "done"
    <3>1. dns' = [dns EXCEPT ![c] = Append(@, r.saw.ip)]
      BY <2>2 DEF CallProvider
    <3>2. Held(c)' = r.saw.ip
      BY <1>2, <1>4, <3>1, HeldIsLast
    <3>3. "record" \in Walking /\ "record" # "note"
      BY DEF Walking
    <3> QED
      BY <1>1, <1>2, <1>4, <1>5, <2>1, <3>2, <3>3, WalkGoes
  <2>3. CASE outcome # "done"
    <3>1. c \in doubt'
      BY <1>6, <2>3 DEF CallProvider
    <3>2. "record" \in Walking
      BY DEF Walking
    <3> QED
      BY <1>1, <1>2, <1>4, <1>5, <2>1, <3>1, <3>2, WalkGoes
  <2> QED
    BY <2>2, <2>3
<1>7. CASE ~ok
  <2>1. NextConfig(r)
    BY <1>7 DEF CallProvider, AfterFailure
  <2> QED
    BY <1>1, <1>2, <1>5, <2>1, NextConfigOK
<1> QED
  BY <1>6, <1>7

\* The steps of a walk after its record was told.
LEMMA NoteOwn ==
  ASSUME TInv, DInv, NEW r \in live, Known(r), Keeps(r),
         record_history(r) \/ update_after_apply(r) \/ WriteFails(r) \/ WalkEnds(r)
  PROVE  OwnOK(r) /\ told' = told
<1> DEFINE c == Current(r).id
<1>1. r.at \in Walking /\ Shaped(r) /\ AddressOK(r) /\ told' = told
  BY DEF record_history, update_after_apply, WriteFails, WalkEnds, Walking, Known
<1>2. WalkOK(r) /\ c \in Configs /\ configs[c] # Nothing /\ r.q \in DOMAIN ever /\ Request(r.q) \notin live
  BY <1>1, CurrentRow, Begun DEF AddressOK, Walking, TInv
<1>3. r.saw = Walked(r.saw.rows, r.saw.ip, r.saw.resolved) /\ ever[r.q] \subseteq ever'[r.q]
  BY <1>2 DEF WalkOK, Keeps
<1>4. r.at \in Located => r.saw.ip \in Ips /\ ConfigNeeds(Current(r), r.saw.ip) \subseteq ever'[r.q]
  BY <1>1, <1>3 DEF AddressOK
<1>5. ASSUME r.at = "record", Goto(r, "note", r.saw),
             c \in doubt' \/ (r.saw.ip = Held(c)' /\ (configs'[c] = Deleted \/ <<c, r.saw.ip, TRUE>> \in history'))
      PROVE  OwnOK(r)
  <2>1. Goto(r, "note", Walked(r.saw.rows, r.saw.ip, r.saw.resolved)) /\ "note" \in Walking /\ r.at \in Located
    BY <1>3, <1>5 DEF Walking, Located
  <2> QED
    BY <1>1, <1>2, <1>4, <1>5, <2>1, WalkGoes
<1>6. CASE record_history(r)
  <2>1. r.at = "record" /\ UNCHANGED <<configs, dns, doubt>>
    BY <1>6 DEF record_history
  <2>2. c \in doubt \/ r.saw.ip = Held(c)
    BY <1>1, <2>1 DEF AddressOK, After, AfterOK
  <2>3. configs[c] = Deleted \/ <<c, r.saw.ip, TRUE>> \in history'
    BY <1>2, <1>6 DEF record_history, IsStored
  <2>4. c \in doubt' \/ (r.saw.ip = Held(c)' /\ (configs'[c] = Deleted \/ <<c, r.saw.ip, TRUE>> \in history'))
    BY <2>1, <2>2, <2>3 DEF Held
  <2> QED
    BY <1>1, <1>5, <1>6, <2>1, <2>4, AnswerOK DEF record_history
<1>7. CASE update_after_apply(r)
  BY <1>1, <1>2, <1>7, NextConfigOK DEF update_after_apply
<1>8. CASE WriteFails(r)
  BY <1>1, <1>2, <1>5, <1>8, NextConfigOK DEF WriteFails
<1>9. CASE WalkEnds(r)
  <2>1. r.q \in DOMAIN ever'
    BY <1>2 DEF Keeps
  <2> QED
    BY <1>1, <1>9, <2>1, PlainGoes, AnswerOK DEF WalkEnds, Walking
<1> QED
  BY <1>1, <1>6, <1>7, <1>8, <1>9

LEMMA WalkOwn ==
  ASSUME TInv, DInv, NEW r \in live, Known(r), Keeps(r), WalkStep(r), Remembers, UNCHANGED <<enrolment, fleet>>
  PROVE  OwnOK(r) /\ TellsOK(r)
<1>1. r.q \in DOMAIN ever' /\ Shaped(r)
  BY DEF Known, AddressOK, Keeps
<1>2. CASE check_all_agents(r)
  <2>1. UNCHANGED <<configs, told>> /\ r.at = "start" /\ r.q.op = "check"
    BY <1>2 DEF check_all_agents, addresses, At
  <2>2. CASE list_enabled # {} /\ Goto(r, "agent", Walk(list_enabled))
    <3>1. ASSUME NEW cs, cs = list_enabled
          PROVE  OwnOK(r)
      BY <2>1, <2>2, <3>1, WalkBegins
    <3> QED
      BY <2>1, <3>1 DEF TellsOK
  <2> QED
    BY <1>2, <2>1, <2>2, AnswerOK DEF check_all_agents, TellsOK
<1>3. CASE check_agent_ip_report(r)
  <2> DEFINE own == {c \in list_enabled : configs[c].agent = r.q.agent}
  <2>1. UNCHANGED <<configs, told>> /\ r.at = "start" /\ r.q.op = "report"
    BY <1>3 DEF check_agent_ip_report, addresses, At
  <2>2. CASE own # {} /\ Goto(r, "agent", Walk(own))
    <3>1. ASSUME NEW cs, cs = own
          PROVE  OwnOK(r)
      BY <2>1, <2>2, <3>1, WalkBegins
    <3> QED
      BY <2>1, <3>1 DEF TellsOK
  <2>3. CASE Goto(r, "latest", Nothing)
    BY <1>1, <2>1, <2>3, PlainGoes DEF TellsOK, Walking
  <2> QED
    BY <1>3, <2>2, <2>3 DEF check_agent_ip_report
<1>4. CASE update_last_state(r)
  BY <1>4, AnswerOK DEF update_last_state, TellsOK
<1>5. CASE ConfigReadsAgent(r) \/ resolver_contains_ip(r) \/ ResolverDoesNotConfirm(r) \/ FindsProvider(r)
  BY <1>5, LocateOwn DEF TellsOK
<1>6. CASE record_history(r) \/ update_after_apply(r) \/ WriteFails(r) \/ WalkEnds(r)
  BY <1>6, NoteOwn DEF TellsOK
<1>7. CASE \E outcome \in Outcomes : CallProvider(r, outcome)
  BY <1>7, CallOwn
<1> QED
  BY <1>2, <1>3, <1>4, <1>5, <1>6, <1>7 DEF WalkStep

LEMMA ChangeOwn ==
  ASSUME TInv, DInv, NEW r \in live, Known(r), Keeps(r), ChangeStep(r), Remembers, UNCHANGED <<enrolment, fleet>>
  PROVE  OwnOK(r) /\ TellsOK(r)
<1>1. r.q \in DOMAIN ever /\ r.q \in DOMAIN ever' /\ Shaped(r)
  BY DEF Known, AddressOK, Keeps
<1>2. CASE ReportReadsLatest(r)
  BY <1>1, <1>2, PlainGoes, AnswerOK DEF ReportReadsLatest, TellsOK, addresses, Walking
<1>3. CASE insert_agent_ip_event(r)
  BY <1>1, <1>3, PlainGoes, AnswerOK DEF insert_agent_ip_event, TellsOK, Walking
<1>4. CASE NotifyReadsOwner(r)
  <2> DEFINE a == r.q.agent
  <2>1. told' = told /\ UNCHANGED <<agents, states>> /\ r.q.op = "report" /\ a \in Agents
    BY <1>4 DEF NotifyReadsOwner, addresses, enrolment, At, Known, AddressRequest
  <2>2. CASE Exists(a) /\ Goto(r, "send", agents[a].owner)
    <3>1. <<"owned", a, agents[a].owner>> \in ever'[r.q]
      BY <1>1, <2>1, <2>2, Meets
    <3>2. ASSUME NEW o \in live', o \notin live \ {r}
          PROVE  o.q = r.q /\ o.at # "start" /\ AddressOK(o)'
      <4>1. o.q = r.q /\ o.at = "send" /\ o.saw = agents[a].owner
        BY <1>1, <2>2, <3>2, GotoIs
      <4> QED
        BY <1>1, <3>1, <4>1 DEF AddressOK, Walking, Located, After, At
    <3> QED
      BY <2>1, <3>2 DEF OwnOK, TellsOK
  <2> QED
    BY <1>4, <2>1, <2>2, AnswerOK DEF NotifyReadsOwner, TellsOK
<1>5. CASE notify_agent_ip_change(r)
  <2> DEFINE u == r.saw
             channels == IF settings.group # Nothing THEN list_notification_channels_for_group(u, settings.group)
                         ELSE list_notification_channels_for_owner(u)
             needs == {<<"owned", r.q.agent, ChannelOwner[ch]>> : ch \in channels}
  <2>1. OwnOK(r) /\ told' = [q |-> r.q, needs |-> needs]
    BY <1>5, AnswerOK DEF notify_agent_ip_change, Tell
  <2>2. <<"owned", r.q.agent, u>> \in ever[r.q] /\ r.at # "start"
    BY <1>5 DEF notify_agent_ip_change, At, Known, AddressOK
  <2>3. <<"owned", r.q.agent, u>> \in ever'[r.q]
    BY <1>1, <2>2, Begun, Remembering DEF TInv
  <2>4. \A ch \in channels : ChannelOwner[ch] = u
    BY DEF list_notification_channels_for_group, list_notification_channels_for_owner
  <2>5. needs \subseteq ever'[r.q]
    BY <2>3, <2>4
  <2> QED
    BY <2>1, <2>5 DEF TellsOK
<1> QED
  BY <1>2, <1>3, <1>4, <1>5 DEF ChangeStep

LEMMA GeoOwn ==
  ASSUME NEW r, Known(r), Keeps(r), GeoStep(r)
  PROVE  OwnOK(r) /\ TellsOK(r)
<1>1. r.q \in DOMAIN ever' /\ Shaped(r)
  BY DEF Known, AddressOK, Keeps
<1> USE DEF TellsOK, Walking, addresses
<1>2. CASE latest_agent_ips(r) \/ read_cached_geo_location(r) \/ GeoLookup(r)
  BY <1>1, <1>2, PlainGoes, AnswerOK DEF latest_agent_ips, read_cached_geo_location, GeoLookup
<1>3. ASSUME NEW ip \in Ips, cache_geo_location(r, ip)
      PROVE  OwnOK(r) /\ TellsOK(r)
  BY <1>1, <1>3, PlainGoes, AnswerOK DEF cache_geo_location
<1>4. CASE InstallReadsBytes(r) \/ install_mmdb_bytes(r) \/ InstallClearsCache(r)
  BY <1>1, <1>4, PlainGoes, AnswerOK DEF InstallReadsBytes, install_mmdb_bytes, InstallClearsCache
<1> QED
  BY <1>2, <1>3, <1>4 DEF GeoStep

LEMMA AddressOwn ==
  ASSUME TInv, DInv, NEW r \in live, r.q.op \in AddressOps, AddressStep(r), Remembers, UNCHANGED <<enrolment, fleet>>
  PROVE  Keeps(r) /\ OwnOK(r) /\ TellsOK(r)
<1>1. Known(r) /\ Keeps(r)
  BY RequestsKnown, AddressKeeps
<1> QED
  BY <1>1, ConfigOwn, WalkOwn, ChangeOwn, GeoOwn DEF AddressStep

-----------------------------------------------------------------------------
(* Requests and what was told, after a step of any of them. *)

\* A request of the others goes on as one of them.
Passes(r) == r.q.op \notin AddressOps /\ (Answered(r) \/ GoesOn(r))

LEMMA FleetKeeps ==
  ASSUME NEW r, UNCHANGED addresses, Remembers
  PROVE  Keeps(r) /\ told' = told
  BY Remembering DEF Keeps, addresses

LEMMA RequestsStay ==
  ASSUME TInv, DInv, NEW r \in live, Keeps(r), OwnOK(r) \/ Passes(r)
  PROVE  RequestsOK'
<1>1. ASSUME NEW o \in live', o.q.op \in AddressOps
      PROVE  AddressOK(o)'
  <2>1. CASE o \in live \ {r}
    BY <1>1, <2>1, OthersAddress DEF TInv, DInv, RequestsOK
  <2>2. CASE o \notin live \ {r}
    BY <1>1, <2>2 DEF OwnOK, Passes, Answered, GoesOn
  <2> QED
    BY <2>1, <2>2
<1> QED
  BY <1>1 DEF RequestsOK

LEMMA ToldStays ==
  ASSUME TInv, DInv, NEW r \in live, Keeps(r), TellsOK(r),
         (OwnOK(r) /\ r.q.op \in AddressOps) \/ (Passes(r) /\ told' = told)
  PROVE  ToldOK'
<1>1. \A q : Request(q).q = q /\ Request(q).at = "start"
  BY DEF Request
<1>2. CASE told' = told
  <2>1. SUFFICES ASSUME told.q # Nothing
                 PROVE  ToldOK'
    BY <1>2 DEF ToldOK
  <2>2. /\ told.q \in DOMAIN ever /\ told.q.op \in AddressOps /\ Request(told.q) \notin live
        /\ told.needs \subseteq ever[told.q]
    BY <2>1 DEF DInv, ToldOK
  <2>3. told.q \in DOMAIN ever' /\ told.needs \subseteq ever'[told.q]
    BY <2>2 DEF Keeps
  <2>4. Request(told.q) \notin live'
    BY <1>1, <2>2 DEF OwnOK, Passes, Answered, GoesOn
  <2> QED
    BY <1>2, <2>2, <2>3, <2>4 DEF ToldOK
<1>3. ASSUME NEW needs, told' = [q |-> r.q, needs |-> needs], needs \subseteq ever'[r.q], OwnOK(r), r.q.op \in AddressOps
      PROVE  ToldOK'
  <2>1. r.q \in DOMAIN ever'
    BY <1>3 DEF DInv, RequestsOK, AddressOK, Keeps
  <2>2. Request(r.q) \notin live'
    <3>1. \A o \in live \ {r} : o.q # r.q
      BY DEF TInv, RequestsTyped, Asked
    <3> QED
      BY <1>1, <1>3, <3>1 DEF OwnOK
  <2>3. told'.q = r.q /\ told'.needs = needs
    BY <1>3
  <2> QED
    BY <1>3, <2>1, <2>2, <2>3 DEF ToldOK
<1> QED
  BY <1>2, <1>3 DEF TellsOK

-----------------------------------------------------------------------------
(* The tables, the records and the cache. *)

LEMMA AddressEffects ==
  ASSUME NEW r, AddressStep(r)
  PROVE  /\ UNCHANGED settings
         /\ UNCHANGED configs \/ create_ddns_config(r) \/ delete_ddns_config(r) \/ update_after_apply(r)
         /\ UNCHANGED states \/ update_last_state(r)
         /\ UNCHANGED dns \/ \E outcome \in Outcomes : CallProvider(r, outcome)
         /\ UNCHANGED cache \/ (\E ip \in Ips : cache_geo_location(r, ip)) \/ InstallClearsCache(r)
         /\ UNCHANGED geodb \/ install_mmdb_bytes(r)
<1> USE DEF addresses
<1>1. CASE ConfigStep(r)
  BY <1>1 DEF ConfigStep, CreateConfigChecks, DeleteConfigLoads, create_ddns_config, delete_ddns_config,
         list_ddns_configs, HistoryLoadsConfig, list_ddns_history, ReloadLists, load_providers
<1>2. CASE \E outcome \in Outcomes : CallProvider(r, outcome)
  BY <1>2 DEF CallProvider
<1>3. CASE WalkStep(r) /\ ~(\E outcome \in Outcomes : CallProvider(r, outcome))
  BY <1>3 DEF WalkStep, check_all_agents, check_agent_ip_report, ConfigReadsAgent, resolver_contains_ip,
         ResolverDoesNotConfirm, FindsProvider, record_history, update_after_apply, WriteFails, WalkEnds,
         update_last_state
<1>4. CASE ChangeStep(r)
  BY <1>4 DEF ChangeStep, ReportReadsLatest, insert_agent_ip_event, NotifyReadsOwner, notify_agent_ip_change
<1>5. CASE \E ip \in Ips : cache_geo_location(r, ip)
  BY <1>5 DEF cache_geo_location
<1>6. CASE GeoStep(r) /\ ~(\E ip \in Ips : cache_geo_location(r, ip))
  BY <1>6 DEF GeoStep, latest_agent_ips, read_cached_geo_location, GeoLookup,
         InstallReadsBytes, install_mmdb_bytes, InstallClearsCache
<1> QED
  BY <1>1, <1>2, <1>3, <1>4, <1>5, <1>6 DEF AddressStep

\* The row that a configuration gets.
LEMMA ConfigsStayTyped ==
  ASSUME DInv, NEW r, Known(r), AddressStep(r)
  PROVE  configs' \in [Configs -> ConfigRow \cup {Nothing, Deleted}]
<1>1. configs \in [Configs -> ConfigRow \cup {Nothing, Deleted}]
  BY DEF DInv, AddressTables
<1>2. CASE create_ddns_config(r)
  <2>1. r.q.config \in Configs
    BY <1>2 DEF Known, AddressRequest, create_ddns_config, At
  <2>2. [owner |-> r.q.user, agent |-> r.q.agent, applied |-> Nothing, enabled |-> r.q.enabled, kind |-> r.q.kind] \in ConfigRow
    BY <1>2 DEF create_ddns_config, Known, AddressRequest, At, ConfigRow
  <2> QED
    BY <1>1, <1>2, <2>1, <2>2 DEF create_ddns_config
<1>3. CASE delete_ddns_config(r)
  BY <1>1, <1>3 DEF delete_ddns_config
<1>4. CASE update_after_apply(r)
  <2> DEFINE c == Current(r).id
  <2>1. CASE configs' = configs
    BY <1>1, <2>1
  <2>2. CASE IsStored(c) /\ configs' = [configs EXCEPT ![c].applied = r.saw.ip]
    <3>1. r.at \in Walking /\ r.at \in Located /\ AddressOK(r)
      BY <1>4 DEF update_after_apply, Known, Located, Walking
    <3>2. c \in Configs /\ r.saw.ip \in Ips
      BY <3>1, CurrentRow DEF AddressOK
    <3>3. configs[c] \in ConfigRow
      BY <1>1, <2>2, <3>2 DEF IsStored
    <3>4. [configs[c] EXCEPT !.applied = r.saw.ip] \in ConfigRow
      BY <3>2, <3>3 DEF ConfigRow
    <3>5. configs' = [configs EXCEPT ![c] = [configs[c] EXCEPT !.applied = r.saw.ip]]
      BY <2>2
    <3> QED
      BY <1>1, <3>2, <3>4, <3>5
  <2> QED
    BY <1>4, <2>1, <2>2 DEF update_after_apply
<1> QED
  BY <1>1, <1>2, <1>3, <1>4, AddressEffects

LEMMA RecordsStayTyped ==
  ASSUME DInv, NEW r, Known(r), Keeps(r), AddressStep(r)
  PROVE  /\ dns' \in [Configs -> Seq(Ips \cup {Nothing})] /\ \A c \in Configs : Len(dns'[c]) > 0
         /\ \A c \in Configs : configs'[c] = Nothing => Held(c)' = Nothing
<1>1. /\ dns \in [Configs -> Seq(Ips \cup {Nothing})] /\ \A c \in Configs : Len(dns[c]) > 0
      /\ \A c \in Configs : configs'[c] = Nothing => Held(c) = Nothing
  BY DEF DInv, AddressTables, Keeps
<1>2. CASE UNCHANGED dns
  BY <1>1, <1>2 DEF Held
<1>3. ASSUME NEW outcome \in Outcomes, CallProvider(r, outcome), ~UNCHANGED dns
      PROVE  /\ dns' \in [Configs -> Seq(Ips \cup {Nothing})] /\ \A c \in Configs : Len(dns'[c]) > 0
             /\ \A c \in Configs : configs'[c] = Nothing => Held(c)' = Nothing
  <2> DEFINE d == Current(r).id
  <2>1. r.at \in Walking /\ r.at \in Located /\ AddressOK(r)
    BY <1>3 DEF CallProvider, Known, Located, Walking
  <2>2. d \in Configs /\ configs[d] # Nothing /\ r.saw.ip \in Ips
    BY <2>1, CurrentRow DEF AddressOK
  <2>3. configs' = configs /\ dns' = [dns EXCEPT ![d] = Append(@, r.saw.ip)]
    BY <1>3 DEF CallProvider
  <2>4. Append(dns[d], r.saw.ip) \in Seq(Ips \cup {Nothing}) /\ Len(Append(dns[d], r.saw.ip)) > 0
    BY <1>1, <2>2
  <2> HIDE DEF d
  <2>5. \A c \in Configs : dns'[c] = IF c = d THEN Append(dns[d], r.saw.ip) ELSE dns[c]
    BY <1>1, <2>2, <2>3
  <2>6. dns' \in [Configs -> Seq(Ips \cup {Nothing})]
    BY <1>1, <2>2, <2>3, <2>4
  <2> QED
    BY <1>1, <2>2, <2>3, <2>4, <2>5, <2>6 DEF Held
<1> QED
  BY <1>2, <1>3, AddressEffects

LEMMA TablesStay ==
  ASSUME DInv, NEW r, Known(r), Keeps(r), AddressStep(r)
  PROVE  AddressTables'
<1>1. states' \in [Agents -> Ips \cup {Nothing}]
  <2>1. CASE update_last_state(r)
    <3>1. r.q.agent \in Agents /\ r.q.ip \in Ips /\ states \in [Agents -> Ips \cup {Nothing}]
      BY <2>1 DEF update_last_state, At, Known, AddressRequest, DInv, AddressTables
    <3> QED
      BY <2>1, <3>1 DEF update_last_state
  <2>2. CASE UNCHANGED states
    BY <2>2 DEF DInv, AddressTables
  <2> QED
    BY <2>1, <2>2, AddressEffects
<1>2. DOMAIN cache' = Ips
  <2>1. DOMAIN cache = Ips /\ DOMAIN Room = Ips
    BY DEF DInv, AddressTables, Room
  <2> QED
    BY <2>1, AddressEffects DEF cache_geo_location, InstallClearsCache
<1> QED
  BY <1>1, <1>2, ConfigsStayTyped, RecordsStayTyped DEF AddressTables

-----------------------------------------------------------------------------
(* What is noted is what the record holds. *)

\* The requests that have told the record of c something and not yet noted it.
Noting(c) == {o \in live : o.q.op \in {"check", "report"} /\ o.at \in {"record", "note"} /\ Current(o).id = c}

LEMMA OthersStay ==
  ASSUME NEW r, Answered(r) \/ GoesOn(r)
  PROVE  live \ {r} \subseteq live'
  BY DEF Answered, GoesOn

LEMMA GotoIsThere ==
  ASSUME NEW r, Shaped(r), NEW at, NEW saw, Goto(r, at, saw)
  PROVE  \E o \in live' : o.q = r.q /\ o.at = at /\ o.i = r.i /\ o.saw = saw
<1>1. [r EXCEPT !.at = at, !.saw = saw] = Req(r.q, at, r.i, saw)
  BY Written, Zenon
<1>2. live' = (live \ {r}) \cup {Req(r.q, at, r.i, saw)}
  BY <1>1 DEF Goto
<1> QED
  BY <1>2, ReqFields

\* A step that leaves the row and the record of c alone, and those that have something to note.
LEMMA RecordStands ==
  ASSUME DInv, doubt \subseteq doubt', NEW c \in Configs, c \notin doubt', Noting(c) \subseteq live',
         configs'[c] = configs[c], dns'[c] = dns[c], IsStored(c)', Noting(c)' = {}
  PROVE  configs'[c].applied = Held(c)'
<1>1. Noting(c) = {} /\ IsStored(c)
  BY DEF Noting, IsStored
<1>2. configs[c].applied = Held(c)
  BY <1>1 DEF DInv, RecordIsTrue, Noting
<1> QED
  BY <1>2 DEF Held

\* The steps of a request that has something to note.
LEMMA NotingSteps ==
  ASSUME NEW r, AddressStep(r), r.q.op \in {"check", "report"}, r.at \in {"record", "note"}
  PROVE  record_history(r) \/ update_after_apply(r) \/ WriteFails(r) \/ WalkEnds(r)
<1>1. ~ConfigStep(r)
  BY DEF ConfigStep, CreateConfigChecks, DeleteConfigLoads, create_ddns_config, delete_ddns_config,
         list_ddns_configs, HistoryLoadsConfig, list_ddns_history, ReloadLists, load_providers, At
<1>2. ~ChangeStep(r)
  BY DEF ChangeStep, ReportReadsLatest, insert_agent_ip_event, NotifyReadsOwner, notify_agent_ip_change, At
<1>3. ~GeoStep(r)
  BY DEF GeoStep, latest_agent_ips, read_cached_geo_location, GeoLookup, cache_geo_location,
         InstallReadsBytes, install_mmdb_bytes, InstallClearsCache, At
<1> QED
  BY <1>1, <1>2, <1>3
     DEF AddressStep, WalkStep, check_all_agents, check_agent_ip_report, ConfigReadsAgent, resolver_contains_ip,
         ResolverDoesNotConfirm, FindsProvider, CallProvider, update_last_state, At

\* A request with something to note goes on having it, notes it, or leaves its configuration in doubt.
LEMMA NotingGoesOn ==
  ASSUME NEW r, Known(r), AddressStep(r), NEW c, r \in Noting(c), c \notin doubt', IsStored(c)', Noting(c)' = {},
         ~update_after_apply(r)
  PROVE  FALSE
<1>1. r.q.op \in {"check", "report"} /\ r.at \in {"record", "note"} /\ c = Current(r).id /\ Shaped(r)
  BY DEF Noting, Known
<1>2. CASE WriteFails(r) \/ WalkEnds(r)
  BY <1>1, <1>2 DEF WriteFails, WalkEnds
<1>3. CASE record_history(r)
  <2>1. Goto(r, "note", r.saw)
    BY <1>1, <1>3 DEF record_history, IsStored
  <2>2. PICK o \in live' : o.q = r.q /\ o.at = "note" /\ o.i = r.i /\ o.saw = r.saw
    BY <1>1, <2>1, GotoIsThere
  <2>3. o \in Noting(c)'
    BY <1>1, <2>2 DEF Noting, Current
  <2> QED
    BY <2>3
<1> QED
  BY <1>1, <1>2, <1>3, NotingSteps

LEMMA RecordStaysTrue ==
  ASSUME TInv, DInv, NEW r \in live, Known(r), Keeps(r), AddressStep(r)
  PROVE  RecordIsTrue'
<1>1. SUFFICES ASSUME NEW c \in Configs, c \notin doubt', IsStored(c)', Noting(c)' = {}
               PROVE  configs'[c].applied = Held(c)'
  BY DEF RecordIsTrue, Noting
<1>2. live \ {r} \subseteq live' /\ doubt \subseteq doubt' /\ c \notin doubt
  BY <1>1, AddressLive, OthersStay DEF Known, Keeps, AddressStep
<1>3. Shaped(r) /\ AddressOK(r) /\ configs \in [Configs -> ConfigRow \cup {Nothing, Deleted}] /\ DOMAIN dns = Configs
  BY DEF Known, DInv, AddressTables
<1>4. ASSUME configs'[c] = configs[c], dns'[c] = dns[c], ~update_after_apply(r)
      PROVE  configs'[c].applied = Held(c)'
  <2>1. Noting(c) \subseteq live'
    BY <1>1, <1>2, <1>4, NotingGoesOn DEF Noting
  <2> QED
    BY <1>1, <1>2, <1>4, <2>1, RecordStands
<1>5. CASE create_ddns_config(r)
  <2>1. r.q.config \in Configs /\ configs[r.q.config] = Nothing /\ UNCHANGED dns /\ r.q.op = "ddns" /\ r.at = "insert"
    BY <1>5 DEF create_ddns_config, At, Known, AddressRequest
  <2>2. CASE c = r.q.config
    <3>1. configs'[c].applied = Nothing
      BY <1>3, <1>5, <2>1, <2>2 DEF create_ddns_config
    <3> QED
      BY <2>1, <2>2, <3>1 DEF DInv, AddressTables, Held
  <2>3. CASE c # r.q.config
    <3>1. configs'[c] = configs[c] /\ ~update_after_apply(r)
      BY <1>3, <1>5, <2>1, <2>3 DEF create_ddns_config, update_after_apply
    <3> QED
      BY <1>4, <2>1, <3>1
  <2> QED
    BY <2>2, <2>3
<1>6. CASE delete_ddns_config(r)
  <2>1. UNCHANGED dns /\ r.at = "write" /\ configs' = [configs EXCEPT ![r.q.config] = Deleted]
    BY <1>6 DEF delete_ddns_config, At
  <2>2. c # r.q.config
    BY <1>1, <1>3, <2>1 DEF IsStored
  <2>3. configs'[c] = configs[c] /\ ~update_after_apply(r)
    BY <1>3, <2>1, <2>2 DEF update_after_apply
  <2> QED
    BY <1>4, <2>1, <2>3
<1>7. CASE update_after_apply(r)
  <2> DEFINE d == Current(r).id
  <2>1. r.at = "note" /\ UNCHANGED dns
    BY <1>7 DEF update_after_apply
  <2>2. AfterOK(r) /\ d \in Configs /\ r.saw.ip \in Ips
    BY <1>3, <2>1, CurrentRow DEF AddressOK, After, Walking, Located
  <2>3. CASE c = d
    <3>1. IsStored(d) /\ configs' = [configs EXCEPT ![d].applied = r.saw.ip]
      BY <1>1, <1>7, <2>3 DEF update_after_apply, IsStored
    <3>2. configs[d] \in ConfigRow
      BY <1>3, <2>2, <3>1 DEF IsStored
    <3>3. configs'[c].applied = r.saw.ip
      BY <1>3, <2>2, <2>3, <3>1, <3>2 DEF ConfigRow
    <3> QED
      BY <1>2, <2>1, <2>2, <2>3, <3>3 DEF AfterOK, Held
  <2>4. CASE c # d
    <3>1. configs'[c] = configs[c]
      BY <1>3, <1>7, <2>4 DEF update_after_apply
    <3>2. Noting(c) \subseteq live'
      BY <1>2, <2>4 DEF Noting
    <3> QED
      BY <1>1, <1>2, <2>1, <3>1, <3>2, RecordStands
  <2> QED
    BY <2>3, <2>4
<1>8. ASSUME NEW outcome \in Outcomes, CallProvider(r, outcome)
      PROVE  configs'[c].applied = Held(c)'
  <2> DEFINE d == Current(r).id
             ok == update_ip(Current(r).kind, outcome)
  <2>1. r.at = "call" /\ r.at \in Walking /\ UNCHANGED configs /\ ~update_after_apply(r)
    BY <1>8 DEF CallProvider, Walking, update_after_apply
  <2>2. WalkOK(r) /\ RowOK(r.q, Current(r))
    BY <1>3, <2>1, CurrentRow
  <2>3. CASE c = d /\ ok
    <3>1. Goto(r, "record", r.saw)
      BY <1>8, <2>3 DEF CallProvider
    <3>2. PICK o \in live' : o.q = r.q /\ o.at = "record" /\ o.i = r.i /\ o.saw = r.saw
      BY <1>3, <3>1, GotoIsThere
    <3>3. o \in Noting(c)'
      BY <2>2, <2>3, <3>2 DEF Noting, Current, WalkOK
    <3> QED
      BY <1>1, <3>3
  <2>4. CASE c = d /\ ~ok
    <3>1. outcome # "done"
      BY <2>2, <2>4 DEF RowOK, Kinds, update_ip, CloudflareProvider, HeProvider, TencentCloudProvider, WebhookProvider
    <3>2. outcome # "lost"
      BY <1>1, <1>8, <2>4 DEF CallProvider
    <3>3. UNCHANGED dns
      BY <1>8, <3>1, <3>2 DEF CallProvider
    <3> QED
      BY <1>4, <2>1, <3>3
  <2>5. CASE c # d
    <3>1. dns'[c] = dns[c]
      BY <1>3, <1>8, <2>5 DEF CallProvider
    <3> QED
      BY <1>4, <2>1, <3>1
  <2> QED
    BY <2>3, <2>4, <2>5
<1> QED
  BY <1>4, <1>5, <1>6, <1>7, <1>8, AddressEffects

-----------------------------------------------------------------------------
(* What is noted is in the history, and what is cached is from the installed database. *)

LEMMA HistoryStays ==
  ASSUME TInv, DInv, NEW r \in live, Known(r), Keeps(r), AddressStep(r)
  PROVE  AppliedIsInHistory'
<1>1. SUFFICES ASSUME NEW c \in Configs, c \notin doubt', IsStored(c)', configs'[c].applied # Nothing
               PROVE  <<c, configs'[c].applied, TRUE>> \in history'
  BY DEF AppliedIsInHistory
<1>2. c \notin doubt /\ configs'[c] # Deleted /\ configs \in [Configs -> ConfigRow \cup {Nothing, Deleted}]
  BY <1>1 DEF Keeps, IsStored, DInv, AddressTables
<1>3. \A ip : <<c, ip, TRUE>> \in history => <<c, ip, TRUE>> \in history'
  BY <1>2 DEF Keeps
<1>4. CASE configs'[c] = configs[c]
  <2>1. <<c, configs[c].applied, TRUE>> \in history
    BY <1>1, <1>2, <1>4 DEF DInv, AppliedIsInHistory, IsStored
  <2> QED
    BY <1>3, <1>4, <2>1
<1>5. CASE create_ddns_config(r) /\ configs'[c] # configs[c]
  <2>1. c = r.q.config
    BY <1>2, <1>5 DEF create_ddns_config
  <2>2. configs'[c].applied = Nothing
    BY <1>2, <1>5, <2>1 DEF create_ddns_config
  <2> QED
    BY <1>1, <2>2
<1>6. CASE delete_ddns_config(r) /\ configs'[c] # configs[c]
  BY <1>2, <1>6 DEF delete_ddns_config
<1>7. CASE update_after_apply(r) /\ configs'[c] # configs[c]
  <2>1. c = Current(r).id /\ IsStored(c) /\ configs' = [configs EXCEPT ![c].applied = r.saw.ip] /\ r.at = "note"
    BY <1>2, <1>7 DEF update_after_apply
  <2>2. configs[c] \in ConfigRow
    BY <1>2, <2>1 DEF IsStored
  <2>3. configs'[c].applied = r.saw.ip
    BY <1>2, <2>1, <2>2 DEF ConfigRow
  <2>4. AfterOK(r)
    BY <2>1 DEF Known, AddressOK, After
  <2>5. <<c, r.saw.ip, TRUE>> \in history
    BY <1>2, <2>1, <2>4 DEF AfterOK, IsStored
  <2> QED
    BY <1>3, <2>3, <2>5
<1> QED
  BY <1>4, <1>5, <1>6, <1>7, AddressEffects

\* The requests whose database is installed and whose clearing of the cache is to come.
Clearing == {o \in live : At(o, "install", "clear")}

LEMMA ClearingSteps ==
  ASSUME NEW r, AddressStep(r), At(r, "install", "clear")
  PROVE  InstallClearsCache(r)
<1> USE DEF At
<1>1. ~ConfigStep(r)
  BY DEF ConfigStep, CreateConfigChecks, DeleteConfigLoads, create_ddns_config, delete_ddns_config,
         list_ddns_configs, HistoryLoadsConfig, list_ddns_history, ReloadLists, load_providers
<1>2. ~WalkStep(r)
  BY DEF WalkStep, check_all_agents, check_agent_ip_report, ConfigReadsAgent, resolver_contains_ip,
         ResolverDoesNotConfirm, FindsProvider, CallProvider, record_history, update_after_apply,
         WriteFails, WalkEnds, update_last_state
<1>3. ~ChangeStep(r)
  BY DEF ChangeStep, ReportReadsLatest, insert_agent_ip_event, NotifyReadsOwner, notify_agent_ip_change
<1> QED
  BY <1>1, <1>2, <1>3
     DEF AddressStep, GeoStep, latest_agent_ips, read_cached_geo_location, GeoLookup, cache_geo_location,
         InstallReadsBytes, install_mmdb_bytes

LEMMA LocationStays ==
  ASSUME TInv, DInv, NEW r \in live, Known(r), AddressStep(r)
  PROVE  LocationIsCurrent'
<1>1. SUFFICES ASSUME settings.provider = "mmdb", Clearing' = {}, NEW ip \in Ips, cache'[ip] # Nothing, ~cache'[ip].late
               PROVE  cache'[ip].db = geodb'
  BY AddressEffects DEF LocationIsCurrent, Clearing
<1>2. live \ {r} \subseteq live' /\ Shaped(r) /\ DOMAIN cache = Ips
  BY AddressLive, OthersStay DEF Known, AddressStep, DInv, AddressTables
<1>3. ASSUME r \notin Clearing
      PROVE  \A x \in Ips : cache[x] # Nothing /\ ~cache[x].late => cache[x].db = geodb
  <2>1. Clearing = {}
    BY <1>1, <1>2, <1>3 DEF Clearing
  <2> QED
    BY <1>1, <2>1 DEF DInv, LocationIsCurrent, Clearing
<1>4. CASE install_mmdb_bytes(r)
  <2>1. PICK o \in live' : o.q = r.q /\ o.at = "clear" /\ o.i = r.i /\ o.saw = Nothing
    BY <1>2, <1>4, GotoIsThere DEF install_mmdb_bytes
  <2>2. o \in Clearing'
    BY <1>4, <2>1 DEF Clearing, At, install_mmdb_bytes
  <2> QED
    BY <1>1, <2>2
<1>5. CASE InstallClearsCache(r)
  BY <1>1, <1>5 DEF InstallClearsCache
<1>6. ASSUME NEW x \in Ips, cache_geo_location(r, x)
      PROVE  cache'[ip].db = geodb'
  <2>1. r \notin Clearing /\ geodb' = geodb
    BY <1>6 DEF cache_geo_location, Clearing, At
  <2>2. cache' = [Room EXCEPT ![x] = [db |-> r.saw.db, late |-> settings.provider = "mmdb" /\ r.saw.db # geodb]]
    BY <1>6 DEF cache_geo_location
  <2>3. DOMAIN Room = Ips /\ (Room[ip] = Nothing \/ Room[ip] = cache[ip])
    BY <1>2 DEF Room
  <2>4. CASE ip = x
    <3>1. cache'[ip] = [db |-> r.saw.db, late |-> settings.provider = "mmdb" /\ r.saw.db # geodb]
      BY <2>2, <2>3, <2>4
    <3>2. cache'[ip].db = r.saw.db /\ cache'[ip].late = (settings.provider = "mmdb" /\ r.saw.db # geodb)
      BY <3>1
    <3> QED
      BY <1>1, <2>1, <3>2
  <2>5. CASE ip # x
    <3>1. cache'[ip] = Room[ip]
      BY <2>2, <2>3, <2>5
    <3> QED
      BY <1>1, <1>3, <2>1, <2>3, <3>1
  <2> QED
    BY <2>4, <2>5
<1>7. CASE UNCHANGED <<cache, geodb>> /\ ~InstallClearsCache(r)
  <2>1. r \notin Clearing
    BY <1>7, ClearingSteps DEF Clearing
  <2> QED
    BY <1>1, <1>3, <1>7, <2>1
<1> QED
  BY <1>4, <1>5, <1>6, <1>7, AddressEffects

-----------------------------------------------------------------------------
(* The invariant of the addresses. *)

LEMMA AddressInit ==
  ASSUME AddressesInit
  PROVE  DInv
<1>1. configs \in [Configs -> ConfigRow \cup {Nothing, Deleted}]
  BY AddressesAssumption DEF AddressesInit
<1>2. ASSUME NEW c \in Configs
      PROVE  /\ dns[c] = <<IF IsStored(c) THEN configs[c].applied ELSE Nothing>>
             /\ (IF IsStored(c) THEN configs[c].applied ELSE Nothing) \in Ips \cup {Nothing}
  BY <1>1 DEF AddressesInit, IsStored, ConfigRow
<1>3. ASSUME NEW c \in Configs
      PROVE  /\ dns[c] \in Seq(Ips \cup {Nothing}) /\ Len(dns[c]) > 0
             /\ Held(c) = IF IsStored(c) THEN configs[c].applied ELSE Nothing
  <2>1. ASSUME NEW ip \in Ips \cup {Nothing}, dns[c] = <<ip>>
        PROVE  dns[c] \in Seq(Ips \cup {Nothing}) /\ Len(dns[c]) > 0 /\ Held(c) = ip
    BY <2>1 DEF Held, Last
  <2> QED
    BY <1>2, <2>1
<1>4. AddressTables
  <2>1. dns \in [Configs -> Seq(Ips \cup {Nothing})]
    BY <1>3 DEF AddressesInit
  <2> QED
    BY <1>1, <1>3, <2>1 DEF AddressTables, AddressesInit, IsStored
<1>5. RequestsOK
  <2>1. SUFFICES ASSUME NEW r \in live, r.q.op \in AddressOps
                 PROVE  AddressOK(r)
    BY DEF RequestsOK
  <2>2. r.at = "start" /\ r.i = 1
    BY DEF AddressesInit, FleetInit, EnrollmentInit, Request
  <2>3. r.q \in DOMAIN ever
    BY <2>1 DEF AddressesInit
  <2> QED
    BY <2>2, <2>3 DEF AddressOK, Walking, Located, After, At
<1>6. ToldOK
  BY DEF AddressesInit, ToldOK
<1>7. RecordIsTrue
  BY <1>3 DEF RecordIsTrue
<1>8. AppliedIsInHistory
  BY DEF AddressesInit, AppliedIsInHistory
<1>9. LocationIsCurrent
  BY DEF AddressesInit, LocationIsCurrent
<1> QED
  BY <1>4, <1>5, <1>6, <1>7, <1>8, <1>9 DEF DInv

\* The steps that leave the addresses alone, but for an entry of the cache.
LEMMA AddressesRest ==
  ASSUME DInv, UNCHANGED <<configs, states, dns, history, doubt, geodb, settings>>,
         UNCHANGED cache \/ \E ip \in Ips : cache' = [cache EXCEPT ![ip] = Nothing],
         Clearing \subseteq live', \A c \in Configs : Noting(c) \subseteq live'
  PROVE  AddressTables' /\ RecordIsTrue' /\ AppliedIsInHistory' /\ LocationIsCurrent'
<1>1. AddressTables'
  BY DEF DInv, AddressTables, Held
<1>2. RecordIsTrue'
  <2>1. SUFFICES ASSUME NEW c \in Configs, c \notin doubt', IsStored(c)', Noting(c)' = {}
                 PROVE  configs'[c].applied = Held(c)'
    BY DEF RecordIsTrue, Noting
  <2> QED
    BY <2>1, RecordStands
<1>3. AppliedIsInHistory'
  BY DEF DInv, AppliedIsInHistory, IsStored
<1>4. LocationIsCurrent'
  <2>1. SUFFICES ASSUME settings.provider = "mmdb", Clearing' = {}, NEW ip \in Ips, cache'[ip] # Nothing, ~cache'[ip].late
                 PROVE  cache'[ip].db = geodb'
    BY DEF LocationIsCurrent, Clearing
  <2>2. Clearing = {}
    BY <2>1 DEF Clearing
  <2>3. cache'[ip] = cache[ip]
    BY <2>1 DEF DInv, AddressTables
  <2> QED
    BY <2>1, <2>2, <2>3 DEF DInv, LocationIsCurrent, Clearing
<1> QED
  BY <1>1, <1>2, <1>3, <1>4

LEMMA AddressesIdle ==
  ASSUME DInv, UNCHANGED <<live, ever, told, configs, states, dns, history, doubt, geodb, settings>>,
         UNCHANGED cache \/ \E ip \in Ips : cache' = [cache EXCEPT ![ip] = Nothing]
  PROVE  DInv'
<1>1. RequestsOK'
  <2>1. ASSUME NEW o \in live, o.q.op \in AddressOps
        PROVE  AddressOK(o)'
    <3>1. AddressOK(o)
      BY <2>1 DEF DInv, RequestsOK
    <3>2. WalkOK(o) => WalkOK(o)'
      BY DEF WalkOK, RowOK
    <3>3. AfterOK(o) => AfterOK(o)'
      BY DEF AfterOK, Held
    <3> QED
      BY <3>1, <3>2, <3>3 DEF AddressOK
  <2> QED
    BY <2>1 DEF RequestsOK
<1>2. ToldOK'
  BY DEF DInv, ToldOK
<1>3. AddressTables' /\ RecordIsTrue' /\ AppliedIsInHistory' /\ LocationIsCurrent'
  BY AddressesRest DEF Clearing, Noting
<1> QED
  BY <1>1, <1>2, <1>3 DEF DInv

LEMMA AddressInvariant ==
  ASSUME TInv, DInv, [AddressesNext]_addressVars
  PROVE  DInv'
<1>1. CASE UNCHANGED addressVars
  <2>1. UNCHANGED <<live, ever, told, configs, states, dns, history, doubt, geodb, settings, cache>>
    BY <1>1 DEF addressVars, addresses, fleetVars
  <2> QED
    BY <2>1, AddressesIdle
<1>2. ASSUME NEW r \in live, r.q.op \in AddressOps, AddressStep(r), UNCHANGED <<enrolment, fleet>>, Remembers
      PROVE  DInv'
  <2>1. Known(r) /\ Keeps(r) /\ OwnOK(r) /\ TellsOK(r)
    BY <1>2, RequestsKnown, AddressOwn
  <2>2. RequestsOK' /\ ToldOK'
    BY <1>2, <2>1, RequestsStay, ToldStays
  <2> QED
    BY <1>2, <2>1, <2>2, TablesStay, RecordStaysTrue, HistoryStays, LocationStays DEF DInv
<1>3. ASSUME NEW ip \in Ips, CacheExpires(ip), UNCHANGED ever
      PROVE  DInv'
  BY <1>3, AddressesIdle DEF CacheExpires
<1>4. ASSUME NEW r \in live, r.q.op \notin AddressOps, FleetStep(r), UNCHANGED addresses, Remembers
      PROVE  DInv'
  <2>1. Passes(r) /\ Keeps(r) /\ told' = told
    BY <1>4, FleetLive, FleetKeeps DEF Passes
  <2>2. RequestsOK' /\ ToldOK'
    BY <2>1, RequestsStay, ToldStays DEF TellsOK
  <2>3. live \ {r} \subseteq live'
    BY <2>1, OthersStay DEF Passes
  <2>4. Clearing \subseteq live' /\ \A c \in Configs : Noting(c) \subseteq live'
    BY <1>4, <2>3 DEF Clearing, Noting, At, AddressOps
  <2>5. AddressTables' /\ RecordIsTrue' /\ AppliedIsInHistory' /\ LocationIsCurrent'
    BY <1>4, <2>4, AddressesRest DEF addresses
  <2> QED
    BY <2>2, <2>5 DEF DInv
<1>5. CASE Expiry /\ UNCHANGED <<addresses, ever>>
  <2>1. UNCHANGED live
    BY <1>5 DEF Expiry, TokenExpires, ChallengeExpires, rows
  <2> QED
    BY <1>5, <2>1, AddressesIdle DEF addresses
<1> QED
  BY <1>1, <1>2, <1>3, <1>4, <1>5 DEF AddressesNext, AddressStep

\* A DNS record is only told an address, a channel of a change and a caller of configurations
\* that the request had met as it ran; last_applied_ip is what the record holds and is in
\* ddns_history; and the cache of locations is of the installed database: for every number of
\* checks, reports, reloads, installations and requests that move or remove the Agents meanwhile.
THEOREM AddressesStayTrue == AddressesSpec => []AddressesAreTrue
<1>1. AddressesInit => TInv /\ DInv
  BY TypedInit, AddressInit
<1>2. TInv /\ DInv /\ [AddressesNext]_addressVars => (TInv /\ DInv)'
  BY TypedStep, AddressInvariant
<1>3. DInv => AddressesAreTrue
  BY DEF DInv, ToldOK, AddressesAreTrue, AddressesAreEntitled
<1> QED
  BY <1>1, <1>2, <1>3, PTL DEF AddressesSpec

-----------------------------------------------------------------------------
(***************************************************************************)
(* The session registry, for every set of Agents, channels, senders and    *)
(* disconnecters, and revoking and deleting Agents over it, for every set  *)
(* of handlers, every assignment of targets and any number of aborted      *)
(* requests; a restart of the server may fall anywhere.                    *)
(***************************************************************************)
USE DEF connVars, sendVars, discVars, registryVars

-----------------------------------------------------------------------------
(* The inductive invariant.  None of its parts is inductive alone: what a   *)
(* commit may do rests on what the guard keeps out, and the guard on the    *)
(* lock that MarkRevoked waits for.                                         *)

\* A send that has cloned a sender knows its channel.
ChanKnown ==
    \A p \in Senders :
        pc[p] \in {"wait", "permit", "commit", "closed", "closed2"} => chan[p] \in Chans

\* Who holds the read guard on `revoked' works for an Agent that is not in it.
GuardSafe ==
    /\ \A p \in Senders : pc[p] \in GuardPC => target[p] \notin revoked
    /\ \A c \in Chans : cpc[c] = "check" => Owner[c] \notin revoked

\* A disconnect past its first step has marked its Agent.
Marked ==
    \A d \in Disconnecters :
        dpc[d] \in {"remove", "notify", "done"} => dtarget[d] \in revoked

\* A send has no result before it returns.
ResultWhenDone == \A p \in Senders : pc[p] # "done" => result[p] = "none"

IInv ==
    /\ TypeOK
    /\ ChanKnown
    /\ GuardSafe
    /\ Marked
    /\ ResultWhenDone
    /\ DisconnectSticks
    /\ NoLostWakeup
    /\ OkMeansSentOnce

-----------------------------------------------------------------------------
(* Type correctness. *)

LEMMA TypeInit == Init => TypeOK
  BY DEF Init, TypeOK, ConnPC, SendPC, DiscPC, Results

LEMMA TypeConn ==
  ASSUME TypeOK, NEW c \in Chans, ConnStep(c)
  PROVE  TypeOK'
<1> USE OwnerAssumption, NoChanAssumption DEF TypeOK, ConnPC, notify_changed
<1>1. CASE RegisterCheck(c) BY <1>1 DEF RegisterCheck
<1>2. CASE RegisterInsert(c) BY <1>2 DEF RegisterInsert
<1>3. CASE ConnectAborted(c) BY <1>3 DEF ConnectAborted
<1>4. CASE StreamEnds(c) BY <1>4 DEF StreamEnds
<1>5. CASE unregister(c) BY <1>5 DEF unregister
<1>6. CASE AgentReceives(c) BY <1>6 DEF AgentReceives
<1>7. CASE ReceiverDropped(c) BY <1>7 DEF ReceiverDropped
<1> QED BY <1>1, <1>2, <1>3, <1>4, <1>5, <1>6, <1>7 DEF ConnStep

LEMMA TypeSend ==
  ASSUME TypeOK, ChanKnown, NEW p \in Senders, SendStart(p) \/ SendStep(p) \/ SendTimeout(p)
  PROVE  TypeOK'
<1> USE DEF TypeOK, SendPC, Results, GoesTo, Return
<1>1. CASE SendStart(p) BY <1>1 DEF SendStart
<1>2. CASE CheckRevoked(p) BY <1>2 DEF CheckRevoked, AfterRevokedCheck
<1>3. CASE Subscribe(p) BY <1>3 DEF Subscribe
<1>4. CASE Reserve(p) BY <1>4 DEF Reserve
<1>5. CASE ReserveFails(p) BY <1>5 DEF ReserveFails
<1>6. CASE Changed(p) BY <1>6 DEF Changed
<1>7. CASE Commit(p)
  <2>1. chan[p] \in Chans
    BY <1>7 DEF Commit, ChanKnown
  <2> QED BY <1>7, <2>1 DEF Commit, PermitSend
<1>8. CASE CommitRefused(p) BY <1>8 DEF CommitRefused
<1>9. CASE ClosedRecheck(p) BY <1>9 DEF ClosedRecheck
<1>10. CASE SendTimeout(p) BY <1>10 DEF SendTimeout
<1> QED BY <1>1, <1>2, <1>3, <1>4, <1>5, <1>6, <1>7, <1>8, <1>9, <1>10 DEF SendStep

LEMMA TypeDisc ==
  ASSUME TypeOK, NEW d \in Disconnecters, DiscStart(d) \/ DiscStep(d) \/ DiscAborted(d)
  PROVE  TypeOK'
<1> USE NoChanAssumption DEF TypeOK, DiscPC, notify_changed
<1>1. CASE DiscStart(d) BY <1>1 DEF DiscStart
<1>2. CASE MarkRevoked(d) BY <1>2 DEF MarkRevoked
<1>3. CASE RemoveSession(d) BY <1>3 DEF RemoveSession
<1>4. CASE NotifyRemoved(d) BY <1>4 DEF NotifyRemoved
<1>5. CASE DiscAborted(d) BY <1>5 DEF DiscAborted
<1> QED BY <1>1, <1>2, <1>3, <1>4, <1>5 DEF DiscStep

-----------------------------------------------------------------------------
(* What the read guard on `revoked' keeps out.  The lemmas need only the     *)
(* types and these two facts, so they hold in every composition that takes   *)
(* the registry's steps.                                                     *)

LEMMA GuardConn ==
  ASSUME TypeOK, ChanKnown, GuardSafe, NEW c \in Chans, ConnStep(c)
  PROVE  (ChanKnown /\ GuardSafe)'
<1>1. UNCHANGED <<revoked, sendVars>>
  BY DEF ConnStep, RegisterCheck, RegisterInsert, ConnectAborted, StreamEnds,
         unregister, AgentReceives, ReceiverDropped
<1>2. \A c2 \in Chans : cpc'[c2] = "check" /\ cpc[c2] # "check" => Owner[c2] \notin revoked
  BY DEF TypeOK, ConnPC, ConnStep, RegisterCheck, RegisterInsert, ConnectAborted,
         StreamEnds, unregister, AgentReceives, ReceiverDropped
<1> QED BY <1>1, <1>2 DEF ChanKnown, GuardSafe

LEMMA GuardSend ==
  ASSUME TypeOK, ChanKnown, GuardSafe, NEW p \in Senders,
         SendStart(p) \/ SendStep(p) \/ SendTimeout(p)
  PROVE  (ChanKnown /\ GuardSafe)'
<1>1. UNCHANGED registryVars /\ UNCHANGED target
  BY DEF SendStart, SendStep, SendTimeout, CheckRevoked, Subscribe, Reserve, ReserveFails,
         Changed, Commit, CommitRefused, ClosedRecheck, GoesTo, Return
<1>2. \A q \in Senders \ {p} : pc'[q] = pc[q] /\ chan'[q] = chan[q]
  BY DEF TypeOK, SendStart, SendStep, SendTimeout, CheckRevoked, Subscribe, Reserve,
         ReserveFails, Changed, Commit, CommitRefused, ClosedRecheck, GoesTo, Return
<1>3. pc'[p] \in {"wait", "permit", "commit", "closed", "closed2"} => chan'[p] \in Chans
  BY DEF ChanKnown, TypeOK, SendStart, SendStep, SendTimeout, CheckRevoked, Subscribe,
         Reserve, ReserveFails, Changed, Commit, CommitRefused, ClosedRecheck, GoesTo, Return,
         AfterRevokedCheck
<1>4. pc'[p] \in GuardPC => target[p] \notin revoked
  BY DEF GuardSafe, GuardPC, TypeOK, SendStart, SendStep, SendTimeout, CheckRevoked,
         Subscribe, Reserve, ReserveFails, Changed, Commit, CommitRefused, ClosedRecheck,
         GoesTo, Return
<1> QED BY <1>1, <1>2, <1>3, <1>4 DEF ChanKnown, GuardSafe

LEMMA GuardDisc ==
  ASSUME TypeOK, ChanKnown, GuardSafe, NEW d \in Disconnecters,
         DiscStart(d) \/ DiscStep(d) \/ DiscAborted(d)
  PROVE  (ChanKnown /\ GuardSafe)'
<1>1. UNCHANGED <<cpc, pc, target, chan>>
  BY DEF DiscStart, DiscStep, DiscAborted, MarkRevoked, RemoveSession, NotifyRemoved
<1>2. CASE MarkRevoked(d)
  BY <1>1, <1>2 DEF MarkRevoked, ChanKnown, GuardSafe, RevokedReaders
<1>3. CASE revoked' = revoked
  BY <1>1, <1>3 DEF ChanKnown, GuardSafe
<1> QED BY <1>2, <1>3 DEF DiscStart, DiscStep, DiscAborted, RemoveSession, NotifyRemoved

-----------------------------------------------------------------------------
(* The other parts of the invariant, one lemma for each kind of process. *)

LEMMA InvInit == Init => IInv
<1> SUFFICES ASSUME Init PROVE IInv
  OBVIOUS
<1>1. TypeOK
  BY TypeInit
<1>2. ChanKnown /\ GuardSafe /\ Marked /\ ResultWhenDone
  BY DEF Init, ChanKnown, GuardSafe, GuardPC, Marked, ResultWhenDone
<1>3. DisconnectSticks /\ NoLostWakeup /\ OkMeansSentOnce
  BY DEF Init, DisconnectSticks, NoLostWakeup, OkMeansSentOnce
<1> QED BY <1>1, <1>2, <1>3 DEF IInv

LEMMA InvConn ==
  ASSUME IInv, NEW c \in Chans, ConnStep(c)
  PROVE  IInv'
<1> USE DEF IInv
<1>1. TypeOK'
  BY TypeConn
<1>2. UNCHANGED <<revoked, sendVars, sent, discVars>>
  BY DEF ConnStep, RegisterCheck, RegisterInsert, ConnectAborted, StreamEnds,
         unregister, AgentReceives, ReceiverDropped
<1>3. (Marked /\ ResultWhenDone /\ OkMeansSentOnce)'
  BY <1>2 DEF Marked, ResultWhenDone, OkMeansSentOnce
<1>4. (ChanKnown /\ GuardSafe)'
  BY GuardConn
<1>5. CASE RegisterInsert(c)
  <2>1. Owner[c] \notin revoked
    BY <1>5 DEF RegisterInsert, GuardSafe
  <2>2. DisconnectSticks'
    BY <1>2, <1>5, <2>1, OwnerAssumption DEF RegisterInsert, DisconnectSticks, Marked, TypeOK
  <2>3. NoLostWakeup'
    BY <1>2, <1>5, OwnerAssumption, NoChanAssumption
       DEF RegisterInsert, notify_changed, NoLostWakeup, ChanKnown, TypeOK
  <2> QED BY <1>1, <1>3, <1>4, <2>2, <2>3
<1>6. CASE unregister(c)
  <2>1. DisconnectSticks'
    BY <1>2, <1>6, OwnerAssumption DEF unregister, DisconnectSticks, TypeOK
  <2>2. NoLostWakeup'
    BY <1>2, <1>6, OwnerAssumption, NoChanAssumption
       DEF unregister, notify_changed, NoLostWakeup, ChanKnown, TypeOK
  <2> QED BY <1>1, <1>3, <1>4, <2>1, <2>2
<1>7. CASE UNCHANGED <<sessions, changed>>
  <2>1. (DisconnectSticks /\ NoLostWakeup)'
    BY <1>2, <1>7 DEF DisconnectSticks, NoLostWakeup
  <2> QED BY <1>1, <1>3, <1>4, <2>1
<1> QED BY <1>5, <1>6, <1>7 DEF ConnStep, RegisterCheck, ConnectAborted, StreamEnds,
                                 AgentReceives, ReceiverDropped

LEMMA InvSend ==
  ASSUME IInv, NEW p \in Senders, SendStart(p) \/ SendStep(p) \/ SendTimeout(p)
  PROVE  IInv'
<1> USE DEF IInv
<1>1. TypeOK'
  BY TypeSend
<1>2. UNCHANGED registryVars /\ UNCHANGED target
  BY DEF SendStart, SendStep, SendTimeout, CheckRevoked, Subscribe, Reserve, ReserveFails,
         Changed, Commit, CommitRefused, ClosedRecheck, GoesTo, Return
<1>3. (Marked /\ DisconnectSticks)'
  BY <1>2 DEF Marked, DisconnectSticks
<1>4. /\ \A q \in Senders \ {p} : pc'[q] = pc[q] /\ chan'[q] = chan[q] /\ result'[q] = result[q]
      /\ pc[p] # "done"
  BY DEF TypeOK, SendStart, SendStep, SendTimeout, CheckRevoked, Subscribe, Reserve,
         ReserveFails, Changed, Commit, CommitRefused, ClosedRecheck, GoesTo, Return
<1>5. (ChanKnown /\ GuardSafe)'
  BY GuardSend
<1>7. ResultWhenDone'
  <2>1. pc'[p] # "done" => result'[p] = "none"
    BY <1>4 DEF ResultWhenDone, TypeOK, SendStart, SendStep, SendTimeout, CheckRevoked,
           Subscribe, Reserve, ReserveFails, Changed, Commit, CommitRefused, ClosedRecheck,
           GoesTo, Return
  <2> QED BY <1>4, <2>1 DEF ResultWhenDone
<1>8. NoLostWakeup'
  <2>1. pc'[p] = "wait" => sessions[target[p]] = chan'[p]
    BY DEF TypeOK, SendStart, SendStep, SendTimeout, CheckRevoked, Subscribe, Reserve,
           ReserveFails, Changed, Commit, CommitRefused, ClosedRecheck, GoesTo, Return,
           AfterRevokedCheck
  <2> QED BY <1>2, <1>4, <2>1 DEF NoLostWakeup
<1>9. OkMeansSentOnce'
  <2>1. \A c \in Chans : <<p, c>> \notin sent
    BY <1>4 DEF ResultWhenDone, OkMeansSentOnce
  <2>2. CASE Commit(p)
    <3>1. chan[p] \in Chans /\ sent' = sent \cup {<<p, chan[p]>>} /\ result'[p] = "ok"
      BY <2>2 DEF Commit, PermitSend, Return, ChanKnown, TypeOK
    <3>2. {e \in sent' : e[1] = p} = {<<p, chan[p]>>}
      BY <2>1, <3>1 DEF TypeOK
    <3>3. \A q \in Senders \ {p} : {e \in sent' : e[1] = q} = {e \in sent : e[1] = q}
      BY <3>1
    <3>4. \A q \in Senders \ {p}, c \in Chans : <<q, c>> \in sent' <=> <<q, c>> \in sent
      BY <3>1
    <3> QED BY <1>4, <3>1, <3>2, <3>3, <3>4 DEF OkMeansSentOnce
  <2>3. CASE ~Commit(p)
    <3>1. sent' = sent /\ result'[p] # "ok"
      BY <1>4, <2>3 DEF ResultWhenDone, TypeOK, SendStart, SendStep, SendTimeout, CheckRevoked,
           Subscribe, Reserve, ReserveFails, Changed, CommitRefused, ClosedRecheck, GoesTo, Return
    <3> QED BY <1>4, <2>1, <3>1 DEF OkMeansSentOnce
  <2> QED BY <2>2, <2>3
<1> QED BY <1>1, <1>3, <1>5, <1>7, <1>8, <1>9

LEMMA InvDisc ==
  ASSUME IInv, NEW d \in Disconnecters, DiscStart(d) \/ DiscStep(d) \/ DiscAborted(d)
  PROVE  IInv'
<1> USE DEF IInv
<1>1. TypeOK'
  BY TypeDisc
<1>2. UNCHANGED <<cpc, pc, target, chan, result, sent, dtarget>>
  BY DEF DiscStart, DiscStep, DiscAborted, MarkRevoked, RemoveSession, NotifyRemoved
<1>3. (ResultWhenDone /\ OkMeansSentOnce)'
  BY <1>2 DEF ResultWhenDone, OkMeansSentOnce
<1>4. (ChanKnown /\ GuardSafe)'
  BY GuardDisc
<1>5. CASE MarkRevoked(d)
  <2>1. (Marked /\ DisconnectSticks /\ NoLostWakeup)'
    BY <1>2, <1>5 DEF MarkRevoked, Marked, DisconnectSticks, NoLostWakeup, TypeOK
  <2> QED BY <1>1, <1>3, <1>4, <2>1
<1>6. CASE RemoveSession(d)
  <2>1. (Marked /\ DisconnectSticks)'
    BY <1>2, <1>6 DEF RemoveSession, Marked, DisconnectSticks, TypeOK
  <2>2. NoLostWakeup'
    BY <1>2, <1>6 DEF RemoveSession, NoLostWakeup, TypeOK
  <2> QED BY <1>1, <1>3, <1>4, <2>1, <2>2
<1>7. CASE NotifyRemoved(d)
  <2>1. (Marked /\ DisconnectSticks)'
    BY <1>2, <1>7 DEF NotifyRemoved, Marked, DisconnectSticks, TypeOK
  <2>2. NoLostWakeup'
    BY <1>2, <1>7, NoChanAssumption
       DEF NotifyRemoved, notify_changed, NoLostWakeup, ChanKnown, TypeOK
  <2> QED BY <1>1, <1>3, <1>4, <2>1, <2>2
<1>8. CASE DiscStart(d) \/ DiscAborted(d)
  <2>1. (Marked /\ DisconnectSticks /\ NoLostWakeup)'
    BY <1>2, <1>8 DEF DiscStart, DiscAborted, Marked, DisconnectSticks, NoLostWakeup, TypeOK
  <2> QED BY <1>1, <1>3, <1>4, <2>1
<1> QED BY <1>5, <1>6, <1>7, <1>8 DEF DiscStep

LEMMA InvStutter == IInv /\ UNCHANGED vars => IInv'
  BY DEF IInv, vars, TypeOK, ChanKnown, GuardSafe, Marked, ResultWhenDone,
         DisconnectSticks, NoLostWakeup, OkMeansSentOnce

LEMMA InvNext == IInv /\ [Next]_vars => IInv'
  BY InvConn, InvSend, InvDisc, InvStutter DEF Next

\* IInv holds in every reachable state of the registry.
THEOREM Invariance == Spec => []IInv
<1>1. Init /\ [][Next]_vars => []IInv
  BY InvInit, InvNext, PTL
<1> QED BY <1>1, PTL DEF Spec

-----------------------------------------------------------------------------
(* The results. *)

\* Every variable of the registry keeps its type.
THEOREM TypeCorrect == Spec => []TypeOK
<1>1. IInv => TypeOK
  BY DEF IInv
<1> QED BY <1>1, Invariance, PTL

\* Once disconnect has removed an Agent's entry, no registration restores it.
THEOREM DisconnectIsFinal == Spec => []DisconnectSticks
<1>1. IInv => DisconnectSticks
  BY DEF IInv
<1> QED BY <1>1, Invariance, PTL

\* A send blocked on a channel that is not current has a wakeup on its way.
THEOREM WakeupsAreKept == Spec => []NoLostWakeup
<1>1. IInv => NoLostWakeup
  BY DEF IInv
<1> QED BY <1>1, Invariance, PTL

\* send answers Ok exactly when it has put one copy in one channel.
THEOREM OkIsExactlyOnce == Spec => []OkMeansSentOnce
<1>1. IInv => OkMeansSentOnce
  BY DEF IInv
<1> QED BY <1>1, Invariance, PTL

LEMMA SentByCommit ==
  ASSUME Next, NEW e \in sent', e \notin sent
  PROVE  \E p \in Senders : Commit(p) /\ e = <<p, chan[p]>>
  BY DEF Next, ConnStep, RegisterCheck, RegisterInsert, ConnectAborted, StreamEnds,
         unregister, AgentReceives, ReceiverDropped, SendStart, SendStep, SendTimeout,
         CheckRevoked, Subscribe, Reserve, ReserveFails, Changed, Commit, PermitSend,
         CommitRefused, ClosedRecheck, DiscStart, DiscStep, MarkRevoked, RemoveSession,
         NotifyRemoved, DiscAborted

\* A message enters only the channel that is current for an Agent that is not
\* revoked.
THEOREM CommitsAreCurrent == Spec => CommitsToCurrent
<1>1. ASSUME IInv, Next, NEW p \in Senders, NEW c \in Chans,
             <<p, c>> \in sent', <<p, c>> \notin sent
      PROVE  sessions[target[p]] = c /\ target[p] \notin revoked
  <2>1. PICK q \in Senders : Commit(q) /\ <<p, c>> = <<q, chan[q]>>
    BY <1>1, SentByCommit
  <2>2. Commit(p) /\ chan[p] = c
    BY <2>1
  <2> QED BY <1>1, <2>2 DEF Commit, IInv, GuardSafe, GuardPC
<1>2. IInv /\ [Next]_vars =>
        [\A p \in Senders, c \in Chans :
            (<<p, c>> \in sent' /\ <<p, c>> \notin sent)
                => sessions[target[p]] = c /\ target[p] \notin revoked]_vars
  BY <1>1
<1> QED BY <1>2, Invariance, PTL DEF Spec, CommitsToCurrent

-----------------------------------------------------------------------------
(* The channel's capacity.  A slot goes from a permit to a message, so the   *)
(* two are bounded together; the sets have to be finite for a cardinality to *)
(* mean anything.                                                            *)

Slots(B, P) == IsFiniteSet(B) /\ IsFiniteSet(P) /\ Cardinality(B) + Cardinality(P) <= Cap

SlotsBounded == \A c \in Chans : Slots(buf[c], Permits(c))

\* Messages are taken and permits dropped.
LEMMA FewerSlots ==
  ASSUME NEW B, NEW P, Slots(B, P), NEW B2 \in SUBSET B, NEW P2 \in SUBSET P
  PROVE  Slots(B2, P2)
<1>1. /\ IsFiniteSet(B2) /\ Cardinality(B2) <= Cardinality(B)
      /\ IsFiniteSet(P2) /\ Cardinality(P2) <= Cardinality(P)
  BY FS_Subset DEF Slots
<1>2. /\ Cardinality(B) \in Nat /\ Cardinality(P) \in Nat
      /\ Cardinality(B2) \in Nat /\ Cardinality(P2) \in Nat
  BY <1>1, FS_CardinalityType DEF Slots
<1> QED BY <1>1, <1>2, CapAssumption DEF Slots

\* A reservation where there is room.
LEMMA OneMorePermit ==
  ASSUME NEW B, NEW P, Slots(B, P), Cardinality(B) + Cardinality(P) < Cap, NEW p
  PROVE  Slots(B, P \cup {p})
<1>1. /\ IsFiniteSet(P \cup {p})
      /\ \/ Cardinality(P \cup {p}) = Cardinality(P)
         \/ Cardinality(P \cup {p}) = Cardinality(P) + 1
  BY FS_AddElement DEF Slots
<1>2. Cardinality(B) \in Nat /\ Cardinality(P) \in Nat
  BY FS_CardinalityType DEF Slots
<1> QED BY <1>1, <1>2, CapAssumption DEF Slots

\* A message takes the place of its permit.
LEMMA PermitToMessage ==
  ASSUME NEW B, NEW P, Slots(B, P), NEW p \in P
  PROVE  Slots(B \cup {p}, P \ {p})
<1>1. /\ IsFiniteSet(B \cup {p})
      /\ \/ Cardinality(B \cup {p}) = Cardinality(B)
         \/ Cardinality(B \cup {p}) = Cardinality(B) + 1
  BY FS_AddElement DEF Slots
<1>2. IsFiniteSet(P \ {p}) /\ Cardinality(P \ {p}) = Cardinality(P) - 1
  BY FS_RemoveElement DEF Slots
<1>3. Cardinality(B) \in Nat /\ Cardinality(P) \in Nat
  BY FS_CardinalityType DEF Slots
<1> QED BY <1>1, <1>2, <1>3, CapAssumption DEF Slots

LEMMA SlotsInit == Init => SlotsBounded
<1> SUFFICES ASSUME Init, NEW c \in Chans PROVE Slots(buf[c], Permits(c))
  BY DEF SlotsBounded
<1>1. buf[c] = {} /\ Permits(c) = {}
  BY DEF Init, Permits
<1> QED BY <1>1, FS_EmptySet, CapAssumption DEF Slots

LEMMA SlotsNext == IInv /\ SlotsBounded /\ [Next]_vars => SlotsBounded'
<1> SUFFICES ASSUME IInv, SlotsBounded, [Next]_vars, NEW c \in Chans
             PROVE  Slots(buf'[c], Permits(c)')
  BY DEF SlotsBounded
<1>1. Slots(buf[c], Permits(c))
  BY DEF SlotsBounded
<1>2. ASSUME buf'[c] \subseteq buf[c], Permits(c)' \subseteq Permits(c)
      PROVE  Slots(buf'[c], Permits(c)')
  BY <1>1, <1>2, FewerSlots
<1>3. ASSUME NEW k \in Chans, ConnStep(k) PROVE Slots(buf'[c], Permits(c)')
  <2>1. buf'[c] \subseteq buf[c] /\ UNCHANGED <<pc, chan>>
    BY <1>3 DEF IInv, TypeOK, ConnStep, RegisterCheck, RegisterInsert, ConnectAborted,
                StreamEnds, unregister, AgentReceives, ReceiverDropped
  <2> QED BY <1>2, <2>1 DEF Permits
<1>4. ASSUME NEW p \in Senders, Reserve(p) PROVE Slots(buf'[c], Permits(c)')
  <2>1. buf' = buf /\ chan' = chan /\ HasCapacity(chan[p])
        /\ pc' = [pc EXCEPT ![p] = "permit"]
    BY <1>4 DEF Reserve, GoesTo
  <2>2. CASE chan[p] = c
    <3>1. Permits(c)' \subseteq Permits(c) \cup {p}
      BY <2>1 DEF Permits, IInv, TypeOK
    <3>2. Slots(buf[c], Permits(c) \cup {p})
      BY <1>1, <2>1, <2>2, OneMorePermit DEF HasCapacity
    <3> QED BY <2>1, <3>1, <3>2, FewerSlots
  <2>3. CASE chan[p] # c
    BY <1>2, <2>1, <2>3 DEF Permits, IInv, TypeOK
  <2> QED BY <2>2, <2>3
<1>5. ASSUME NEW p \in Senders, Commit(p) PROVE Slots(buf'[c], Permits(c)')
  <2>1. /\ pc[p] = "commit" /\ pc' = [pc EXCEPT ![p] = "done"] /\ chan' = chan
        /\ buf' = IF chan[p] \in rx THEN [buf EXCEPT ![chan[p]] = @ \cup {p}] ELSE buf
    BY <1>5 DEF Commit, PermitSend, Return
  <2>2. CASE chan[p] = c
    <3>1. p \in Permits(c)
      BY <2>1, <2>2 DEF Permits
    <3>2. Permits(c)' \subseteq Permits(c) \ {p} /\ buf'[c] \subseteq buf[c] \cup {p}
      BY <2>1, <2>2 DEF Permits, IInv, TypeOK
    <3>3. Slots(buf[c] \cup {p}, Permits(c) \ {p})
      BY <1>1, <3>1, PermitToMessage
    <3> QED BY <3>2, <3>3, FewerSlots
  <2>3. CASE chan[p] # c
    <3>1. Permits(c)' \subseteq Permits(c) /\ buf'[c] \subseteq buf[c]
      BY <2>1, <2>3 DEF Permits, IInv, TypeOK
    <3> QED BY <1>2, <3>1
  <2> QED BY <2>2, <2>3
<1>6. ASSUME NEW p \in Senders, ~Reserve(p), ~Commit(p),
             SendStart(p) \/ SendStep(p) \/ SendTimeout(p)
      PROVE  Slots(buf'[c], Permits(c)')
  <2>1. /\ buf' = buf
        /\ \A q \in Senders \ {p} : pc'[q] = pc[q] /\ chan'[q] = chan[q]
    BY <1>6 DEF IInv, TypeOK, SendStart, SendStep, SendTimeout, CheckRevoked, Subscribe,
         ReserveFails, Changed, CommitRefused, ClosedRecheck, GoesTo, Return
  <2>2. pc'[p] \in {"permit", "commit"} => pc[p] = "permit" /\ chan'[p] = chan[p]
    BY <1>6 DEF IInv, TypeOK, SendStart, SendStep, SendTimeout, CheckRevoked, Subscribe,
         ReserveFails, Changed, CommitRefused, ClosedRecheck, GoesTo, Return, AfterRevokedCheck
  <2>3. Permits(c)' \subseteq Permits(c)
    BY <2>1, <2>2 DEF Permits
  <2> QED BY <1>2, <2>1, <2>3
<1>7. ASSUME NEW d \in Disconnecters, DiscStart(d) \/ DiscStep(d) \/ DiscAborted(d)
      PROVE  Slots(buf'[c], Permits(c)')
  <2>1. UNCHANGED <<buf, pc, chan>>
    BY <1>7 DEF DiscStart, DiscStep, DiscAborted, MarkRevoked, RemoveSession, NotifyRemoved
  <2> QED BY <1>2, <2>1 DEF Permits
<1>8. ASSUME UNCHANGED vars PROVE Slots(buf'[c], Permits(c)')
  BY <1>2, <1>8 DEF vars, Permits
<1> QED BY <1>3, <1>4, <1>5, <1>6, <1>7, <1>8 DEF Next

\* However many sends are reserved, retargeted, dropped or timed out, no
\* channel holds or promises more than its capacity.
THEOREM CapacityIsKept == Spec => []WithinCapacity
<1>1. SlotsBounded => WithinCapacity
  BY DEF SlotsBounded, Slots, WithinCapacity
<1>2. Init /\ []IInv /\ [][Next]_vars => []SlotsBounded
  BY SlotsInit, SlotsNext, PTL
<1> QED BY <1>1, <1>2, Invariance, PTL DEF Spec

-----------------------------------------------------------------------------
\* A registered channel is Owner's, so an unregister that takes the entry away
\* is the one of the connection in the entry.
THEOREM CleanupIsOwn == Spec => OnlyOwnCleanup
<1>1. ASSUME IInv, Next, NEW a \in AgentIds, sessions[a] # NoChan, sessions'[a] = NoChan
      PROVE  cpc[sessions[a]] = "ended" \/ a \in revoked
  <2>1. ASSUME NEW c \in Chans, ConnStep(c) PROVE cpc[sessions[a]] = "ended"
    BY <1>1, <2>1, OwnerAssumption, NoChanAssumption
       DEF IInv, TypeOK, ConnStep, RegisterCheck, RegisterInsert, ConnectAborted, StreamEnds,
           unregister, AgentReceives, ReceiverDropped
  <2>2. ASSUME NEW p \in Senders, SendStart(p) \/ SendStep(p) \/ SendTimeout(p) PROVE FALSE
    BY <1>1, <2>2 DEF SendStart, SendStep, SendTimeout, CheckRevoked, Subscribe, Reserve,
         ReserveFails, Changed, Commit, CommitRefused, ClosedRecheck
  <2>3. ASSUME NEW d \in Disconnecters, DiscStart(d) \/ DiscStep(d) \/ DiscAborted(d)
        PROVE  a \in revoked
    BY <1>1, <2>3 DEF IInv, TypeOK, Marked, DiscStart, DiscStep, DiscAborted, MarkRevoked,
         RemoveSession, NotifyRemoved
  <2> QED BY <1>1, <2>1, <2>2, <2>3 DEF Next
<1>2. IInv /\ [Next]_vars =>
        [\A a \in AgentIds :
            (sessions[a] # NoChan /\ sessions'[a] = NoChan)
                => \/ cpc[sessions[a]] = "ended"
                   \/ a \in revoked]_vars
  BY <1>1
<1> QED BY <1>2, Invariance, PTL DEF Spec, OnlyOwnCleanup

-----------------------------------------------------------------------------
(* The registry implements AgentLink. *)

LEMMA LinkInit == Init => Link!Init
  BY DEF Init, Link!Init, SendOutcome

LEMMA LinkConn ==
  ASSUME IInv, NEW c \in Chans, ConnStep(c)
  PROVE  [Link!Next]_Link!vars
<1>1. UNCHANGED <<revoked, target, result, sent>>
  BY DEF ConnStep, RegisterCheck, RegisterInsert, ConnectAborted, StreamEnds,
         unregister, AgentReceives, ReceiverDropped
<1>2. UNCHANGED [p \in Senders |-> SendOutcome(p)]
  BY <1>1 DEF SendOutcome
<1>3. CASE RegisterInsert(c)
  <2>1. Link!Open(c)
    BY <1>1, <1>2, <1>3 DEF RegisterInsert, IInv, GuardSafe, Link!Open
  <2> QED BY <2>1 DEF Link!Next
<1>4. CASE unregister(c) /\ sessions' # sessions
  <2>1. Link!Lose(Owner[c])
    BY <1>1, <1>2, <1>4 DEF unregister, Link!Lose
  <2> QED BY <2>1, OwnerAssumption DEF Link!Next
<1>5. CASE sessions' = sessions
  BY <1>1, <1>2, <1>5 DEF Link!vars
<1> QED BY <1>3, <1>4, <1>5 DEF ConnStep, RegisterCheck, ConnectAborted, StreamEnds,
                                 AgentReceives, ReceiverDropped

LEMMA LinkSend ==
  ASSUME IInv, NEW p \in Senders, SendStart(p) \/ SendStep(p) \/ SendTimeout(p)
  PROVE  [Link!Next]_Link!vars
<1> DEFINE out == [q \in Senders |-> SendOutcome(q)]
<1>1. UNCHANGED <<sessions, revoked, target>>
  BY DEF SendStart, SendStep, SendTimeout, CheckRevoked, Subscribe, Reserve, ReserveFails,
         Changed, Commit, CommitRefused, ClosedRecheck, GoesTo, Return
<1>2. result[p] = "none"
  BY DEF IInv, ResultWhenDone, SendStart, SendStep, SendTimeout, CheckRevoked, Subscribe,
         Reserve, ReserveFails, Changed, Commit, CommitRefused, ClosedRecheck
<1>3. out[p] = "none"
  BY <1>2 DEF SendOutcome
<1>4. ASSUME NEW r \in Results, result' = [result EXCEPT ![p] = r]
      PROVE  out' = [out EXCEPT ![p] = IF r = "none" THEN "none" ELSE IF r = "ok" THEN "ok" ELSE "failed"]
  BY <1>4 DEF SendOutcome, IInv, TypeOK, Results
<1>5. CASE Commit(p)
  <2>1. result' = [result EXCEPT ![p] = "ok"] /\ "ok" \in Results
    BY <1>5 DEF Commit, Return, Results
  <2>2. out' = [out EXCEPT ![p] = "ok"]
    BY <1>4, <2>1
  <2>3. target[p] \notin revoked /\ sessions[target[p]] \in Chans /\ sessions[target[p]] = chan[p]
    BY <1>5 DEF Commit, IInv, GuardSafe, GuardPC, ChanKnown
  <2>4. sent' = sent \cup {<<p, sessions[target[p]]>>}
    BY <1>5, <2>3 DEF Commit, PermitSend
  <2>5. Link!Accept(p)
    BY <1>1, <1>3, <2>2, <2>3, <2>4, NoChanAssumption DEF Link!Accept
  <2> QED BY <2>5 DEF Link!Next
<1>6. CASE ~Commit(p) /\ result' # result
  <2>1. sent' = sent
    BY <1>6 DEF SendStart, SendStep, SendTimeout, CheckRevoked, Subscribe, Reserve, ReserveFails,
         Changed, CommitRefused, ClosedRecheck
  <2>2. PICK r \in Results \ {"none", "ok"} : result' = [result EXCEPT ![p] = r]
    BY <1>6 DEF SendStart, SendStep, SendTimeout, CheckRevoked, Subscribe, Reserve, ReserveFails,
         Changed, CommitRefused, ClosedRecheck, GoesTo, Return, Results
  <2>3. out' = [out EXCEPT ![p] = "failed"]
    BY <1>4, <2>2
  <2>4. Link!Reject(p)
    BY <1>1, <1>3, <2>1, <2>3 DEF Link!Reject
  <2> QED BY <2>4 DEF Link!Next
<1>7. CASE ~Commit(p) /\ result' = result
  <2>1. sent' = sent
    BY <1>7 DEF SendStart, SendStep, SendTimeout, CheckRevoked, Subscribe, Reserve, ReserveFails,
         Changed, CommitRefused, ClosedRecheck
  <2>2. out' = out
    BY <1>7 DEF SendOutcome
  <2> QED BY <1>1, <2>1, <2>2 DEF Link!vars
<1> QED BY <1>5, <1>6, <1>7

LEMMA LinkDisc ==
  ASSUME IInv, NEW d \in Disconnecters, DiscStart(d) \/ DiscStep(d) \/ DiscAborted(d)
  PROVE  [Link!Next]_Link!vars
<1>1. UNCHANGED <<target, result, sent>>
  BY DEF DiscStart, DiscStep, DiscAborted, MarkRevoked, RemoveSession, NotifyRemoved
<1>2. UNCHANGED [p \in Senders |-> SendOutcome(p)]
  BY <1>1 DEF SendOutcome
<1>3. dtarget[d] \in AgentIds
  BY DEF IInv, TypeOK
<1>4. CASE MarkRevoked(d)
  <2>1. Link!Bar(dtarget[d])
    BY <1>1, <1>2, <1>4 DEF MarkRevoked, Link!Bar
  <2> QED BY <1>3, <2>1 DEF Link!Next
<1>5. CASE RemoveSession(d)
  <2>1. Link!Lose(dtarget[d])
    BY <1>1, <1>2, <1>5 DEF RemoveSession, Link!Lose
  <2> QED BY <1>3, <2>1 DEF Link!Next
<1>6. CASE DiscStart(d) \/ NotifyRemoved(d) \/ DiscAborted(d)
  BY <1>1, <1>2, <1>6 DEF DiscStart, NotifyRemoved, DiscAborted, Link!vars
<1> QED BY <1>4, <1>5, <1>6 DEF DiscStep

LEMMA LinkNext == IInv /\ [Next]_vars => [Link!Next]_Link!vars
<1>1. UNCHANGED vars => UNCHANGED Link!vars
  BY DEF vars, Link!vars, SendOutcome
<1> QED BY <1>1, LinkConn, LinkSend, LinkDisc DEF Next

\* To its callers the registry is one link per Agent with an atomic send.
THEOREM RegistryImplementsLink == Spec => ImplementsLink
<1>1. Init => Link!Init
  BY LinkInit
<1>2. IInv /\ [Next]_vars => [Link!Next]_Link!vars
  BY LinkNext
<1> QED BY <1>1, <1>2, Invariance, PTL DEF Spec, ImplementsLink, Link!Spec

-----------------------------------------------------------------------------
(* Revoking and deleting Agents.                                           *)
(*                                                                         *)
(* The registry's own invariant does not survive a restart: `revoked' is   *)
(* in memory, and the new process has forgotten it.  What takes its place  *)
(* is the table: no connection of an Agent whose row is written            *)
(* authenticates again, and the ones that had are closed.                  *)

USE DEF connVars, sendVars, discVars, registryVars, adminVars, vars

-----------------------------------------------------------------------------
(* The inductive invariant. *)

Wrote == {"send", "disconnect", "done", "dropped"}

\* A handler sends to the Agent it disconnects.
SameTarget == \A h \in Handlers : target[h] = dtarget[h]

\* Only an authenticated connection gets into the registry.
OnlyAuthed == \A c \in Chans : cpc[c] \notin {"new", "closed"} => c \in authed

\* A handler past its first step has written its Agent's row; a row that is
\* written was written by a handler.
RowWritten == \A h \in Handlers : hpc[h] \in Wrote => db[target[h]] # "active"
RowExplained ==
    \A a \in AgentIds :
        db[a] # "active" => \E h \in Handlers : target[h] = a /\ hpc[h] \in Wrote

\* The registry's disconnect runs inside its handler.
InStep ==
    \A h \in Handlers :
        /\ dpc[h] \in {"mark", "remove", "notify"} => hpc[h] = "disconnect"
        /\ hpc[h] = "disconnect" => dpc[h] \in {"mark", "remove", "notify", "done"}

\* No connection that has authenticated can register the Agent.
Sealed(a) == a \in revoked \/ \A c \in authed : Owner[c] = a => cpc[c] = "closed"

Removed ==
    \A h \in Handlers :
        /\ hpc[h] = "disconnect" /\ dpc[h] \in {"remove", "notify", "done"}
               => target[h] \in revoked
        /\ hpc[h] = "disconnect" /\ dpc[h] \in {"notify", "done"}
               => sessions[target[h]] = NoChan
        /\ hpc[h] = "done" => sessions[target[h]] = NoChan /\ Sealed(target[h])

RInv ==
    /\ RevTypeOK
    /\ ChanKnown
    /\ GuardSafe
    /\ SameTarget
    /\ OnlyAuthed
    /\ RowWritten
    /\ RowExplained
    /\ InStep
    /\ Removed

\* The parts about handlers and rows.
AdminInv == SameTarget /\ RowWritten /\ RowExplained /\ InStep

-----------------------------------------------------------------------------
LEMMA RevInvInit == RevInit => RInv
<1> SUFFICES ASSUME RevInit PROVE RInv
  OBVIOUS
<1> USE HandlersAssumption
<1>1. TypeOK
  BY TypeInit DEF RevInit
<1>2. RevTypeOK
  BY <1>1 DEF RevInit, RevTypeOK
<1>3. ChanKnown /\ GuardSafe
  BY DEF RevInit, Init, ChanKnown, GuardSafe, GuardPC
<1>4. SameTarget /\ OnlyAuthed
  BY DEF RevInit, Init, SameTarget, OnlyAuthed
<1>5. RowWritten /\ RowExplained /\ InStep /\ Removed
  BY <1>1 DEF RevInit, Init, RowWritten, RowExplained, InStep, Removed, Wrote, TypeOK
<1> QED BY <1>2, <1>3, <1>4, <1>5 DEF RInv

\* What a registry step that a handler does not take leaves alone.
LEMMA AdminKept ==
  ASSUME AdminInv, UNCHANGED <<target, discVars, db, hpc>>
  PROVE  AdminInv'
  BY DEF AdminInv, SameTarget, RowWritten, RowExplained, InStep

-----------------------------------------------------------------------------
(* The session RPC. *)

LEMMA RevAuthenticate ==
  ASSUME RInv, NEW c \in Chans, Authenticate(c)
  PROVE  RInv'
<1> USE DEF RInv
<1>1. UNCHANGED <<sessions, revoked, changed, buf, sendVars, sent, discVars, db, hpc, left, calls>>
  BY DEF Authenticate
<1>2. TypeOK' /\ RevTypeOK'
  BY <1>1 DEF Authenticate, RevTypeOK, TypeOK, ConnPC
<1>3. (ChanKnown /\ GuardSafe)'
  BY <1>1 DEF Authenticate, ChanKnown, GuardSafe, RevTypeOK, TypeOK
<1>4. OnlyAuthed'
  BY DEF Authenticate, OnlyAuthed, RevTypeOK, TypeOK
<1>5. AdminInv'
  BY <1>1, AdminKept DEF AdminInv
<1>6. Removed'
  <2>1. \A h \in Handlers : hpc[h] = "done" /\ Sealed(target[h]) => Sealed(target[h])'
    <3> SUFFICES ASSUME NEW h \in Handlers, hpc[h] = "done", Sealed(target[h])
                 PROVE  Sealed(target[h])'
      OBVIOUS
    <3>1. db[target[h]] # "active"
      BY DEF RowWritten, Wrote
    <3> QED BY <1>1, <3>1 DEF Authenticate, Sealed, RevTypeOK, TypeOK
  <2> QED BY <1>1, <2>1 DEF Removed
<1> QED BY <1>2, <1>3, <1>4, <1>5, <1>6 DEF AdminInv

LEMMA RevConn ==
  ASSUME RInv, NEW c \in Chans, c \in authed \/ UNCHANGED cpc, ConnStep(c),
         UNCHANGED <<db, authed, hpc, calls>>, left' \subseteq AgentIds
  PROVE  RInv'
<1> USE DEF RInv
<1>1. UNCHANGED <<revoked, sendVars, sent, discVars>>
  BY DEF ConnStep, RegisterCheck, RegisterInsert, ConnectAborted, StreamEnds,
         unregister, AgentReceives, ReceiverDropped
<1>2. TypeOK /\ TypeOK' /\ RevTypeOK'
  BY TypeConn DEF RevTypeOK
<1>3. (ChanKnown /\ GuardSafe)'
  BY <1>2, GuardConn
<1>4. /\ \A k \in Chans \ {c} : cpc'[k] = cpc[k]
      /\ cpc[c] = "closed" => cpc'[c] = "closed"
  BY <1>2 DEF ConnStep, RegisterCheck, RegisterInsert, ConnectAborted, StreamEnds,
         unregister, AgentReceives, ReceiverDropped, TypeOK
<1>5. OnlyAuthed'
  BY <1>4 DEF OnlyAuthed
<1>6. AdminInv'
  BY <1>1, AdminKept DEF AdminInv
<1>7. \A a \in AgentIds : Sealed(a) => Sealed(a)'
  BY <1>1, <1>4 DEF Sealed, RevTypeOK
<1>8. \A a \in AgentIds : sessions[a] = NoChan /\ Sealed(a) => sessions'[a] = NoChan
  <2>1. CASE RegisterInsert(c)
    <3>1. Owner[c] \notin revoked /\ c \in authed /\ cpc[c] # "closed"
      BY <2>1 DEF RegisterInsert, GuardSafe, OnlyAuthed
    <3>2. ~Sealed(Owner[c])
      BY <3>1 DEF Sealed
    <3> QED BY <1>2, <2>1, <3>2, OwnerAssumption DEF RegisterInsert, TypeOK
  <2>2. CASE ~RegisterInsert(c)
    BY <1>2, <2>2, OwnerAssumption, NoChanAssumption
       DEF ConnStep, RegisterCheck, ConnectAborted, StreamEnds, unregister, AgentReceives,
           ReceiverDropped, TypeOK
  <2> QED BY <2>1, <2>2
<1>9. Removed'
  <2> SUFFICES ASSUME NEW h \in Handlers
               PROVE  /\ hpc[h] = "disconnect" /\ dpc[h] \in {"remove", "notify", "done"}
                             => target[h] \in revoked
                      /\ hpc[h] = "disconnect" /\ dpc[h] \in {"notify", "done"}
                             => sessions'[target[h]] = NoChan
                      /\ hpc[h] = "done"
                             => sessions'[target[h]] = NoChan /\ Sealed(target[h])'
    BY <1>1 DEF Removed
  <2>1. target[h] \in AgentIds
    BY <1>2, HandlersAssumption DEF TypeOK
  <2>2. target[h] \in revoked => Sealed(target[h])
    BY DEF Sealed
  <2>3. PICK a \in AgentIds : target[h] = a /\ target'[h] = a
    BY <1>1, <2>1
  <2> QED BY <2>2, <2>3, <1>7, <1>8 DEF Removed, Sealed
<1> QED BY <1>2, <1>3, <1>5, <1>6, <1>9 DEF AdminInv

-----------------------------------------------------------------------------
(* The handlers and the other senders. *)

LEMMA RevSend ==
  ASSUME RInv, NEW p \in Senders, SendStart(p) \/ SendStep(p) \/ SendTimeout(p),
         UNCHANGED <<db, authed, hpc, left, calls>>
  PROVE  RInv'
<1> USE DEF RInv
<1>1. UNCHANGED registryVars /\ UNCHANGED target
  BY DEF SendStart, SendStep, SendTimeout, CheckRevoked, Subscribe, Reserve, ReserveFails,
         Changed, Commit, CommitRefused, ClosedRecheck, GoesTo, Return
<1>2. RevTypeOK'
  BY TypeSend DEF RevTypeOK
<1>3. (ChanKnown /\ GuardSafe)'
  BY GuardSend DEF RevTypeOK
<1>4. AdminInv'
  BY <1>1, AdminKept DEF AdminInv
<1>5. (OnlyAuthed /\ Removed)'
  BY <1>1 DEF OnlyAuthed, Removed, Sealed
<1> QED BY <1>2, <1>3, <1>4, <1>5 DEF AdminInv

LEMMA RevWriteRow ==
  ASSUME RInv, NEW h \in Handlers, WriteRow(h)
  PROVE  RInv'
<1> USE HandlersAssumption DEF RInv
<1>1. CASE Affected(h)
  <2>1. /\ SendStart(h) /\ h \in Senders /\ hpc[h] = "idle"
        /\ hpc' = [hpc EXCEPT ![h] = "send"]
        /\ UNCHANGED <<authed, left, calls>>
    BY <1>1 DEF WriteRow
  <2>2. PICK v \in {"revoked", "deleted"} : db' = [db EXCEPT ![target[h]] = v]
    BY <1>1 DEF WriteRow
  <2>3. UNCHANGED registryVars /\ UNCHANGED target
    BY <2>1 DEF SendStart, GoesTo
  <2>4. TypeOK'
    BY <2>1, TypeSend DEF RevTypeOK
  <2>5. RevTypeOK'
    BY <2>1, <2>2, <2>4 DEF RevTypeOK, TypeOK
  <2>6. (ChanKnown /\ GuardSafe)'
    BY <2>1, GuardSend DEF RevTypeOK
  <2>7. (SameTarget /\ OnlyAuthed)'
    BY <2>1, <2>3 DEF SameTarget, OnlyAuthed
  <2>8. (RowWritten /\ RowExplained)'
    <3>1. target[h] \in AgentIds
      BY DEF RevTypeOK, TypeOK
    <3> QED BY <2>1, <2>2, <2>3, <3>1 DEF RowWritten, RowExplained, Wrote, RevTypeOK
  <2>9. (InStep /\ Removed)'
    BY <2>1, <2>3 DEF InStep, Removed, Sealed, RevTypeOK
  <2> QED BY <2>5, <2>6, <2>7, <2>8, <2>9
<1>2. CASE ~Affected(h)
  <2>1. /\ hpc[h] = "idle" /\ hpc' = [hpc EXCEPT ![h] = "refused"]
        /\ UNCHANGED <<vars, db, authed, left, calls>>
    BY <1>2 DEF WriteRow
  <2>2. (RevTypeOK /\ ChanKnown /\ GuardSafe /\ SameTarget /\ OnlyAuthed)'
    BY <2>1 DEF RevTypeOK, TypeOK, ChanKnown, GuardSafe, SameTarget, OnlyAuthed
  <2>3. (RowWritten /\ RowExplained /\ InStep /\ Removed)'
    BY <2>1 DEF RowWritten, RowExplained, Wrote, InStep, Removed, Sealed, RevTypeOK
  <2> QED BY <2>2, <2>3
<1> QED BY <1>1, <1>2

LEMMA RevSendDone ==
  ASSUME RInv, NEW h \in Handlers, SendDone(h)
  PROVE  RInv'
<1> USE HandlersAssumption DEF RInv
<1>1. /\ hpc[h] = "send" /\ hpc' = [hpc EXCEPT ![h] = "disconnect"]
      /\ dpc[h] = "idle" /\ dpc' = [dpc EXCEPT ![h] = "mark"]
      /\ UNCHANGED <<sessions, revoked, changed, connVars, buf, sendVars, sent, dtarget, dchan>>
      /\ UNCHANGED <<db, authed, left, calls>>
  BY DEF SendDone, DiscStart
<1>2. (RevTypeOK /\ ChanKnown /\ GuardSafe /\ SameTarget /\ OnlyAuthed)'
  BY <1>1 DEF RevTypeOK, TypeOK, DiscPC, ChanKnown, GuardSafe, SameTarget, OnlyAuthed
<1>3. (RowWritten /\ RowExplained /\ InStep)'
  BY <1>1 DEF RowWritten, RowExplained, Wrote, InStep, RevTypeOK, TypeOK
<1>4. Removed'
  BY <1>1 DEF Removed, Sealed, RevTypeOK, TypeOK
<1> QED BY <1>2, <1>3, <1>4

LEMMA RevDisconnect ==
  ASSUME RInv, NEW h \in Handlers, DisconnectSteps(h)
  PROVE  RInv'
<1> USE HandlersAssumption DEF RInv
<1>1. /\ DiscStep(h) /\ h \in Disconnecters
      /\ UNCHANGED <<db, authed, hpc, left, calls, target, dtarget, cpc>>
  BY DEF DisconnectSteps, DiscStep, MarkRevoked, RemoveSession, NotifyRemoved
<1>2. RevTypeOK' /\ (ChanKnown /\ GuardSafe)'
  BY <1>1, TypeDisc, GuardDisc DEF RevTypeOK
<1>3. hpc[h] = "disconnect" /\ target[h] = dtarget[h] /\ target[h] \in AgentIds
  BY <1>1 DEF InStep, DiscStep, MarkRevoked, RemoveSession, NotifyRemoved, SameTarget,
              RevTypeOK, TypeOK
<1>4. /\ revoked \subseteq revoked' /\ \A g \in Handlers \ {h} : dpc'[g] = dpc[g]
      /\ dpc'[h] \in {"remove", "notify", "done"}
      /\ \A a \in AgentIds : sessions[a] = NoChan => sessions'[a] = NoChan
  BY <1>1 DEF DiscStep, MarkRevoked, RemoveSession, NotifyRemoved, RevTypeOK, TypeOK
<1>5. (SameTarget /\ OnlyAuthed /\ RowWritten /\ RowExplained)'
  BY <1>1 DEF SameTarget, OnlyAuthed, RowWritten, RowExplained
<1>6. InStep'
  BY <1>1, <1>3, <1>4 DEF InStep
<1>7. target[h] \in revoked' /\ (dpc'[h] # "remove" => sessions'[target[h]] = NoChan)
  <2>1. CASE MarkRevoked(h)
    BY <1>3, <2>1 DEF MarkRevoked, RevTypeOK, TypeOK
  <2>2. CASE RemoveSession(h)
    BY <1>3, <2>2 DEF RemoveSession, Removed, RevTypeOK, TypeOK
  <2>3. CASE NotifyRemoved(h)
    BY <1>3, <2>3 DEF NotifyRemoved, Removed, RevTypeOK, TypeOK
  <2> QED BY <1>1, <2>1, <2>2, <2>3 DEF DiscStep
<1>8. Removed'
  <2>1. \A g \in Handlers : target[g] \in AgentIds
    BY DEF RevTypeOK, TypeOK
  <2>2. \A a \in AgentIds : Sealed(a) => Sealed(a)'
    BY <1>1, <1>4 DEF Sealed
  <2> QED BY <1>1, <1>3, <1>4, <1>7, <2>1, <2>2 DEF Removed
<1> QED BY <1>2, <1>5, <1>6, <1>8

LEMMA RevHandlerEnds ==
  ASSUME RInv, NEW h \in Handlers, HandlerDone(h) \/ HandlerDropped(h)
  PROVE  RInv'
<1> USE HandlersAssumption DEF RInv
<1>1. CASE HandlerDone(h)
  <2>1. /\ hpc[h] = "disconnect" /\ dpc[h] = "done" /\ hpc' = [hpc EXCEPT ![h] = "done"]
        /\ UNCHANGED <<vars, db, authed, left, calls>>
    BY <1>1 DEF HandlerDone
  <2>2. (RevTypeOK /\ ChanKnown /\ GuardSafe /\ SameTarget /\ OnlyAuthed)'
    BY <2>1 DEF RevTypeOK, TypeOK, ChanKnown, GuardSafe, SameTarget, OnlyAuthed
  <2>3. (RowWritten /\ RowExplained /\ InStep)'
    BY <2>1 DEF RowWritten, RowExplained, Wrote, InStep, RevTypeOK
  <2>4. Removed'
    BY <2>1 DEF Removed, Sealed, RevTypeOK
  <2> QED BY <2>2, <2>3, <2>4
<1>2. CASE hpc[h] = "send" /\ HandlerDropped(h)
  <2>1. /\ SendTimeout(h) /\ h \in Senders /\ hpc' = [hpc EXCEPT ![h] = "dropped"]
        /\ UNCHANGED <<db, authed, left, calls>>
    BY <1>2 DEF HandlerDropped
  <2>2. UNCHANGED registryVars /\ UNCHANGED target
    BY <2>1 DEF SendTimeout, Return
  <2>3. TypeOK' /\ (ChanKnown /\ GuardSafe)'
    BY <2>1, TypeSend, GuardSend DEF RevTypeOK
  <2>4. (RevTypeOK /\ SameTarget /\ OnlyAuthed)'
    BY <2>1, <2>2, <2>3 DEF RevTypeOK, SameTarget, OnlyAuthed
  <2>5. (RowWritten /\ RowExplained /\ InStep /\ Removed)'
    BY <1>2, <2>1, <2>2 DEF RowWritten, RowExplained, Wrote, InStep, Removed, Sealed, RevTypeOK
  <2> QED BY <2>3, <2>4, <2>5
<1>3. CASE hpc[h] = "disconnect" /\ HandlerDropped(h)
  <2>1. /\ DiscAborted(h) /\ h \in Disconnecters /\ hpc' = [hpc EXCEPT ![h] = "dropped"]
        /\ UNCHANGED <<db, authed, left, calls>>
    BY <1>3 DEF HandlerDropped
  <2>2. /\ dpc' = [dpc EXCEPT ![h] = "dropped"]
        /\ UNCHANGED <<sessions, revoked, cpc, target, dtarget>>
    BY <2>1 DEF DiscAborted
  <2>3. TypeOK' /\ (ChanKnown /\ GuardSafe)'
    BY <2>1, TypeDisc, GuardDisc DEF RevTypeOK
  <2>4. (RevTypeOK /\ SameTarget /\ OnlyAuthed)'
    BY <2>1, <2>2, <2>3 DEF RevTypeOK, SameTarget, OnlyAuthed
  <2>5. (RowWritten /\ RowExplained /\ InStep /\ Removed)'
    BY <1>3, <2>1, <2>2 DEF RowWritten, RowExplained, Wrote, InStep, Removed, Sealed,
                            RevTypeOK, TypeOK
  <2> QED BY <2>3, <2>4, <2>5
<1> QED BY <1>1, <1>2, <1>3 DEF HandlerDropped

-----------------------------------------------------------------------------
(* The restart. *)

LEMMA RevRestart ==
  ASSUME RInv, Restart
  PROVE  RInv'
<1> USE HandlersAssumption DEF RInv
<1>1. TypeOK'
  BY DEF Restart, RevTypeOK, TypeOK, ConnPC, SendPC, DiscPC, Results
<1>2. RevTypeOK'
  BY <1>1 DEF Restart, RevTypeOK
<1>3. (ChanKnown /\ GuardSafe)'
  BY DEF Restart, ChanKnown, GuardSafe, GuardPC
<1>4. (SameTarget /\ OnlyAuthed)'
  BY DEF Restart, SameTarget, OnlyAuthed
<1>5. (RowWritten /\ RowExplained)'
  BY DEF Restart, RowWritten, RowExplained, Wrote
<1>6. InStep'
  BY DEF Restart, InStep
<1>7. Removed'
  <2>1. \A a \in AgentIds : sessions'[a] = NoChan /\ Sealed(a)'
    BY DEF Restart, Sealed, RevTypeOK
  <2> QED BY <1>1, <2>1 DEF Restart, Removed, TypeOK
<1> QED BY <1>2, <1>3, <1>4, <1>5, <1>6, <1>7

LEMMA RevStutter == RInv /\ UNCHANGED allVars => RInv'
  BY DEF RInv, allVars, RevTypeOK, TypeOK, ChanKnown, GuardSafe, SameTarget, OnlyAuthed,
         RowWritten, RowExplained, InStep, Removed, Sealed

LEMMA RevInvNext == RInv /\ [RevNext]_allVars => RInv'
<1> SUFFICES ASSUME RInv, [RevNext]_allVars PROVE RInv'
  OBVIOUS
<1>1. ASSUME NEW c \in Chans, Authenticate(c) \/ RegistrySteps(c) \/ AgentTakes(c)
      PROVE  RInv'
  <2>1. CASE RegistrySteps(c)
    BY <2>1, RevConn DEF RegistrySteps, ConnStep, RInv, RevTypeOK
  <2>2. CASE AgentTakes(c)
    <3>1. /\ ConnStep(c) /\ UNCHANGED cpc /\ left' \subseteq AgentIds
          /\ UNCHANGED <<db, authed, hpc, calls>>
      BY <2>2, OwnerAssumption DEF AgentTakes, ConnStep, AgentReceives, RInv, RevTypeOK
    <3> QED BY <3>1, RevConn
  <2> QED BY <1>1, <2>1, <2>2, RevAuthenticate
<1>2. ASSUME NEW p \in Senders, SenderSteps(p) PROVE RInv'
  BY <1>2, RevSend DEF SenderSteps
<1>3. ASSUME NEW h \in Handlers,
             \/ WriteRow(h) \/ SendDone(h) \/ DisconnectSteps(h) \/ HandlerDone(h)
             \/ HandlerDropped(h)
      PROVE  RInv'
  BY <1>3, RevWriteRow, RevSendDone, RevDisconnect, RevHandlerEnds
<1> QED BY <1>1, <1>2, <1>3, RevRestart, RevStutter DEF RevNext

\* RInv holds in every reachable state, before and after a restart.
THEOREM RevocationInvariance == RevSpec => []RInv
<1>1. RevInit /\ [][RevNext]_allVars => []RInv
  BY RevInvInit, RevInvNext, PTL
<1> QED BY <1>1, PTL DEF RevSpec

-----------------------------------------------------------------------------
(* The results. *)

\* Every variable of the composition keeps its type.
THEOREM RevocationTypes == RevSpec => []RevTypeOK
<1>1. RInv => RevTypeOK
  BY DEF RInv
<1> QED BY <1>1, RevocationInvariance, PTL

\* An Agent whose revoke_agent or delete_agent ran to its end never has a
\* session again, across late registrations and restarts of the server.
THEOREM RevokedForGood == RevSpec => []OutOfServiceForGood
<1>1. RInv => OutOfServiceForGood
  BY DEF RInv, Removed, OutOfServiceForGood
<1> QED BY <1>1, RevocationInvariance, PTL

\* A live entry of an Agent that is out of service always has a handler that is
\* still to remove it, or that was aborted.
THEOREM EntriesAreExplained == RevSpec => []EntryExplained
<1>1. RInv => EntryExplained
  <2> SUFFICES ASSUME RInv, NEW a \in AgentIds, db[a] # "active", sessions[a] # NoChan
               PROVE  \E h \in Handlers :
                         target[h] = a /\ hpc[h] \in {"send", "disconnect", "dropped"}
    BY DEF EntryExplained
  <2>1. PICK h \in Handlers : target[h] = a /\ hpc[h] \in Wrote
    BY DEF RInv, RowExplained
  <2>2. hpc[h] # "done"
    BY <2>1 DEF RInv, Removed
  <2> QED BY <2>1, <2>2 DEF Wrote
<1> QED BY <1>1, RevocationInvariance, PTL
=============================================================================

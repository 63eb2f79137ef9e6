-------------------------- MODULE OperationsProofs --------------------------
(***************************************************************************)
(* Proofs about what the server asks an Agent to do: a temporary URL's     *)
(* token is used once, and whoever asks was entitled to what is done, for  *)
(* every set of requests; and a task dispatch ends with what the Agent     *)
(* answered, for every set of runs and batches and every value of the      *)
(* limits.                                                                 *)
(***************************************************************************)
EXTENDS Mcp, TaskDispatch, FiniteSetTheorems, SequenceTheorems, WellFoundedInduction, TLAPS

(***************************************************************************)
(* Temporary transfers.                                                    *)
(***************************************************************************)

-----------------------------------------------------------------------------
(* What is left of a program. *)

StepNames ==
    {"auth", "totp", "visible", "active", "online", "send", "reply", "agent", "tokens", "change", "scope", "both", "online_all",
     "batch", "each", "refused", "agents", "inventory", "services", "tell", "results", "events", "rules", "tasks", "nat", "ddns", "state",
     "create", "ip", "record", "issuer", "held", "server", "limit", "consume", "reserve", "body", "commit", "reach", "result",
     "find", "mine", "revoke"}
Targets == Agents \cup Tools \cup {Nothing}
StepRows == StepNames \X (Agents \cup Tools \cup {Nothing})
Fields == {"q", "todo", "begun", "admin", "out", "tool", "got", "among", "svcs", "show", "ever"}
Shaped(r) == DOMAIN r = Fields
Stage(r) == IF r.todo = <<>> THEN "end" ELSE r.todo[1][1]
Redeems(r) == r.q.op \in {"download", "upload"}
Strict == {"download", "upload", "revoke"}

\* The steps of a request that uses or revokes a token follow one another.
Links(op) ==
    IF op = "revoke" THEN {<<"auth", "find">>, <<"find", "mine">>, <<"mine", "revoke">>}
    ELSE {<<"ip", "record">>, <<"record", "issuer">>, <<"issuer", "held">>, <<"held", "server">>, <<"server", "limit">>,
          <<"reach", "send">>, <<"send", "reply">>, <<"reply", "result">>}
         \cup (IF op = "download" THEN {<<"limit", "consume">>, <<"consume", "reach">>}
               ELSE {<<"limit", "reserve">>, <<"reserve", "body">>, <<"body", "commit">>, <<"commit", "reach">>})
LastOf(op) == IF op = "revoke" THEN "revoke" ELSE "result"
Linked(d, op) ==
    \A i \in DOMAIN d : IF i < Len(d) THEN <<d[i][1], d[i + 1][1]>> \in Links(op) ELSE d[i][1] = LastOf(op)

\* The steps that only those take.
Kept ==
    {"ip", "record", "issuer", "held", "server", "limit", "consume", "reserve", "body", "commit", "reach", "result", "revoke"}
Spared(d) == \A i \in DOMAIN d : d[i][1] \notin Kept

Creates(d) == \E i \in DOMAIN d : d[i][1] = "create"
CreatesOnce(d) ==
    /\ \A i \in DOMAIN d : d[i][1] = "create" => d[i][2] \in Agents
    /\ \A i, j \in DOMAIN d : d[i][1] = "create" /\ d[j][1] = "create" => i = j

WellFormed(d, q) ==
    /\ d \in Seq(StepRows)
    /\ CreatesOnce(d) /\ (Creates(d) => Draws(q))
    /\ IF q.op \in Strict THEN Linked(d, q.op) ELSE Spared(d)
Sound(r) == Shaped(r) /\ r.q \in Requests /\ r.begun \in BOOLEAN /\ r.among \subseteq Targets /\ WellFormed(r.todo, r.q)

-----------------------------------------------------------------------------
(* Who holds a token: ts are the tokens, se what was sent for them. *)

Using == {"reach", "send", "reply", "result"}
HoldsToken(r, t, se) ==
    /\ Stage(r) \notin {"ip", "end"} => r.begun
    /\ Stage(r) \in {"body", "commit"} => t # Nothing /\ t.used = "receiving" /\ t.by = r.q.id
    /\ Stage(r) \in Using => t # Nothing /\ t.used = "started" /\ t.by = r.q.id
    /\ Stage(r) = "reply" \/ (Stage(r) = "result" /\ r.out = "success") => <<r.q.token, r.q.id>> \in se
    /\ Stage(r) = "result" => r.out \in {"success", "failed"}
Holds(r, ts, se) ==
    /\ Redeems(r) => HoldsToken(r, ts[r.q.token], se)
    /\ r.q.op = "revoke" /\ Stage(r) \in {"mine", "revoke"} => ts[r.q.token] # Nothing
    /\ Creates(r.todo) => ts[r.q.token] = Nothing

Serves(r, t, rec) ==
    /\ r.begun /\ Redeems(r) /\ r.q.token = t /\ r.q.id = rec.by
    /\ Stage(r) \in (IF rec.used = "receiving" THEN {"body", "commit"} ELSE Using)
Accounted(t, rec, L, se, to) ==
    /\ rec.dead => rec.revoked /\ rec.used \in {"no", "receiving"}
    /\ rec.used \in {"receiving", "started"} /\ t \notin to => \E r \in L : Serves(r, t, rec)
    /\ rec.used = "success" => <<t, rec.by>> \in se
Recorded(ts, se) ==
    \A x \in se : ts[x[1]] # Nothing /\ ts[x[1]].used \in {"started", "success", "failed"} /\ ts[x[1]].by = x[2]

Apart(L) ==
    \A r, s \in L : r.q.id = s.q.id \/ (Draws(r.q) /\ Draws(s.q) /\ r.q.token = s.q.token) => r = s

TokensInv(L, ts, se, to) ==
    /\ \A r \in L : Sound(r) /\ Holds(r, ts, se)
    /\ Apart(L)
    /\ \A t \in Tokens : ts[t] # Nothing => Accounted(t, ts[t], L, se, to)
    /\ Recorded(ts, se)
TokensHold == TokensInv(live, tokens, sent, torn)
OnceInv == OperationsTypeOK /\ TokensHold

-----------------------------------------------------------------------------
(* Sequences of steps. *)

LEMMA StepIsRow ==
    ASSUME NEW s \in StepNames, NEW a \in Agents \cup Tools \cup {Nothing}
    PROVE  Step(s, a) \in StepRows /\ Step(s, a)[1] = s /\ Step(s, a)[2] = a
  BY DEF Step, StepRows

LEMMA TailOf ==
    ASSUME NEW S, NEW d \in Seq(S), d # <<>>
    PROVE  /\ Len(d) \in Nat /\ Len(d) >= 1 /\ Tail(d) \in Seq(S) /\ Len(Tail(d)) = Len(d) - 1
           /\ DOMAIN d = 1..Len(d) /\ DOMAIN Tail(d) = 1..(Len(d) - 1)
           /\ \A i \in 1..(Len(d) - 1) : Tail(d)[i] = d[i + 1]
           /\ \A i \in 2..Len(d) : i - 1 \in DOMAIN Tail(d) /\ d[i] = Tail(d)[i - 1]
  OBVIOUS

LEMMA SubOf ==
    ASSUME NEW S, NEW d \in Seq(S), NEW k \in DOMAIN d, NEW e, e = SubSeq(d, k, Len(d))
    PROVE  /\ k \in Nat /\ k >= 1 /\ k <= Len(d) /\ Len(d) \in Nat
           /\ e \in Seq(S) /\ e # <<>> /\ Len(e) = Len(d) - k + 1
           /\ DOMAIN d = 1..Len(d) /\ DOMAIN e = 1..(Len(d) - k + 1)
           /\ \A i \in 1..(Len(d) - k + 1) : e[i] = d[i + k - 1] /\ i + k - 1 \in DOMAIN d
           /\ \A i \in k..Len(d) : i - k + 1 \in DOMAIN e /\ d[i] = e[i - k + 1]
  <1>1. k \in Nat /\ k >= 1 /\ k <= Len(d) /\ Len(d) \in Nat /\ DOMAIN d = 1..Len(d)
    OBVIOUS
  <1>2. e = [i \in 1..(Len(d) - k + 1) |-> d[i + k - 1]]
    BY <1>1
  <1>3. \A i \in 1..(Len(d) - k + 1) : i + k - 1 \in 1..Len(d) /\ d[i + k - 1] \in S
    BY <1>1
  <1>4. Len(d) - k + 1 \in Nat
    BY <1>1
  <1>5. e \in [1..(Len(d) - k + 1) -> S]
    BY <1>2, <1>3
  <1>6. e \in Seq(S)
    BY <1>4, <1>5, SeqDef
  <1>7. Len(e) = Len(d) - k + 1
    BY <1>4, <1>5, <1>6, LenProperties
  <1>8. e # <<>>
    BY <1>1, <1>7
  <1>. QED BY <1>1, <1>2, <1>3, <1>5, <1>6, <1>7, <1>8

LEMMA CatOf ==
    ASSUME NEW S, NEW d \in Seq(S), NEW e \in Seq(S)
    PROVE  /\ d \o e \in Seq(S) /\ Len(d) \in Nat /\ Len(e) \in Nat /\ Len(d \o e) = Len(d) + Len(e)
           /\ DOMAIN d = 1..Len(d) /\ DOMAIN e = 1..Len(e) /\ DOMAIN (d \o e) = 1..(Len(d) + Len(e))
           /\ \A i \in 1..Len(d) : (d \o e)[i] = d[i]
           /\ \A i \in 1..Len(e) : (d \o e)[i + Len(d)] = e[i]
           /\ \A i \in (Len(d) + 1)..(Len(d) + Len(e)) : (d \o e)[i] = e[i - Len(d)]
  OBVIOUS

\* How many steps there are, and which.
LEMMA OneStep == ASSUME NEW S, NEW a \in S PROVE <<a>> \in Seq(S) /\ Len(<<a>>) = 1 /\ DOMAIN <<a>> = 1..1 /\ <<a>>[1] = a
  OBVIOUS
LEMMA TwoSteps ==
    ASSUME NEW S, NEW a \in S, NEW b \in S
    PROVE  <<a, b>> \in Seq(S) /\ Len(<<a, b>>) = 2 /\ DOMAIN <<a, b>> = 1..2 /\ <<a, b>>[1] = a /\ <<a, b>>[2] = b
  OBVIOUS
LEMMA ThreeSteps ==
    ASSUME NEW S, NEW a \in S, NEW b \in S, NEW c \in S
    PROVE  /\ <<a, b, c>> \in Seq(S) /\ Len(<<a, b, c>>) = 3 /\ DOMAIN <<a, b, c>> = 1..3
           /\ <<a, b, c>>[1] = a /\ <<a, b, c>>[2] = b /\ <<a, b, c>>[3] = c
  OBVIOUS
LEMMA FourSteps ==
    ASSUME NEW S, NEW a \in S, NEW b \in S, NEW c \in S, NEW d \in S
    PROVE  /\ <<a, b, c, d>> \in Seq(S) /\ Len(<<a, b, c, d>>) = 4 /\ DOMAIN <<a, b, c, d>> = 1..4
           /\ <<a, b, c, d>>[1] = a /\ <<a, b, c, d>>[2] = b /\ <<a, b, c, d>>[3] = c /\ <<a, b, c, d>>[4] = d
  OBVIOUS

-----------------------------------------------------------------------------
(* A step is taken off, or all up to a later one; steps are put in front. *)

LEMMA LinkedTail ==
    ASSUME NEW op, NEW d \in Seq(StepRows), d # <<>>, Linked(d, op)
    PROVE  Linked(Tail(d), op)
  <1> DEFINE e == Tail(d)
  <1>1. /\ Len(d) \in Nat /\ Len(d) >= 1 /\ DOMAIN d = 1..Len(d) /\ DOMAIN e = 1..(Len(d) - 1) /\ Len(e) = Len(d) - 1
        /\ \A i \in 1..(Len(d) - 1) : e[i] = d[i + 1]
        /\ \A i \in 2..Len(d) : i - 1 \in DOMAIN e /\ d[i] = e[i - 1]
    BY TailOf
  <1> HIDE DEF e
  <1>2. ASSUME NEW i \in DOMAIN e PROVE IF i < Len(e) THEN <<e[i][1], e[i + 1][1]>> \in Links(op) ELSE e[i][1] = LastOf(op)
    <2>1. IF i + 1 < Len(d) THEN <<d[i + 1][1], d[(i + 1) + 1][1]>> \in Links(op) ELSE d[i + 1][1] = LastOf(op)
      BY <1>1 DEF Linked
    <2>. QED BY <1>1, <2>1
  <1>. QED BY <1>2 DEF Linked, e

\* What comes after the first step.
LEMMA LinkedNext ==
    ASSUME NEW op, NEW d \in Seq(StepRows), d # <<>>, Linked(d, op)
    PROVE  IF Tail(d) = <<>> THEN d[1][1] = LastOf(op) ELSE <<d[1][1], Tail(d)[1][1]>> \in Links(op)
  <1> DEFINE e == Tail(d)
  <1>1. /\ Len(d) \in Nat /\ Len(d) >= 1 /\ DOMAIN d = 1..Len(d) /\ e \in Seq(StepRows) /\ Len(e) = Len(d) - 1
        /\ \A i \in 1..(Len(d) - 1) : e[i] = d[i + 1]
    BY TailOf
  <1> HIDE DEF e
  <1>2. IF 1 < Len(d) THEN <<d[1][1], d[1 + 1][1]>> \in Links(op) ELSE d[1][1] = LastOf(op)
    <2>1. 1 \in DOMAIN d
      BY <1>1
    <2>. QED BY <2>1 DEF Linked
  <1>3. CASE 1 < Len(d)
    <2>1. e # <<>> /\ e[1] = d[1 + 1]
      BY <1>1, <1>3
    <2>. QED BY <1>2, <1>3, <2>1 DEF e
  <1>4. CASE ~(1 < Len(d))
    <2>1. e = <<>>
      BY <1>1, <1>4
    <2>. QED BY <1>2, <1>4, <2>1 DEF e
  <1>. QED BY <1>3, <1>4

LEMMA TailIsWellFormed ==
    ASSUME NEW q, NEW d, d # <<>>, WellFormed(d, q)
    PROVE  /\ WellFormed(Tail(d), q) /\ (Creates(Tail(d)) => Creates(d))
           /\ d[1][1] = "create" => ~Creates(Tail(d))
  <1>0. d \in Seq(StepRows)
    BY DEF WellFormed
  <1> DEFINE e == Tail(d)
  <1>1. e \in Seq(StepRows) /\ DOMAIN d \subseteq Nat /\ 1 \in DOMAIN d /\ \A i \in DOMAIN e : i \in Nat /\ i >= 1 /\ i + 1 \in DOMAIN d /\ e[i] = d[i + 1]
    BY <1>0, TailOf
  <1>2. q.op \in Strict => Linked(e, q.op)
    BY <1>0, LinkedTail DEF WellFormed
  <1> HIDE DEF e
  <1>3. q.op \notin Strict => Spared(e)
    BY <1>1 DEF WellFormed, Spared
  <1>4. Creates(e) => Creates(d)
    BY <1>1 DEF Creates
  <1>5. CreatesOnce(e)
    <2>1. ASSUME NEW i \in DOMAIN e, NEW j \in DOMAIN e, e[i][1] = "create", e[j][1] = "create" PROVE i = j
      <3>1. i + 1 = j + 1
        BY <1>1, <2>1 DEF WellFormed, CreatesOnce
      <3>. QED BY <1>1, <3>1
    <2>2. \A i \in DOMAIN e : e[i][1] = "create" => e[i][2] \in Agents
      BY <1>1 DEF WellFormed, CreatesOnce
    <2>. QED BY <2>1, <2>2 DEF CreatesOnce
  <1>6. d[1][1] = "create" => ~Creates(e)
    <2>1. ASSUME d[1][1] = "create", NEW i \in DOMAIN e, e[i][1] = "create" PROVE FALSE
      <3>1. i + 1 = 1
        BY <1>1, <2>1 DEF WellFormed, CreatesOnce
      <3>. QED BY <1>1, <3>1
    <2>. QED BY <2>1 DEF Creates
  <1>. QED BY <1>1, <1>2, <1>3, <1>4, <1>5, <1>6 DEF WellFormed, e

LEMMA RestIsWellFormed ==
    ASSUME NEW q, q.op \notin Strict, NEW d, WellFormed(d, q), NEW k \in DOMAIN d, NEW e, e = SubSeq(d, k, Len(d))
    PROVE  WellFormed(e, q) /\ (Creates(e) => Creates(d))
  <1>0. d \in Seq(StepRows)
    BY DEF WellFormed
  <1>1. /\ e \in Seq(StepRows) /\ k \in Nat /\ k >= 1
        /\ \A i \in DOMAIN e : i \in Nat /\ i >= 1 /\ i + k - 1 \in DOMAIN d /\ e[i] = d[i + k - 1]
    BY <1>0, SubOf
  <1>3. Spared(e)
    BY <1>1 DEF WellFormed, Spared
  <1>4. Creates(e) => Creates(d)
    BY <1>1 DEF Creates
  <1>5. ASSUME NEW i \in DOMAIN e, NEW j \in DOMAIN e, e[i][1] = "create", e[j][1] = "create" PROVE i = j
    <2>1. i + k - 1 = j + k - 1
      BY <1>1, <1>5 DEF WellFormed, CreatesOnce
    <2>. QED BY <1>1, <2>1
  <1>6. \A i \in DOMAIN e : e[i][1] = "create" => e[i][2] \in Agents
    BY <1>1 DEF WellFormed, CreatesOnce
  <1>7. CreatesOnce(e)
    BY <1>5, <1>6 DEF CreatesOnce
  <1>. QED BY <1>1, <1>3, <1>4, <1>7 DEF WellFormed

-----------------------------------------------------------------------------
(* Programs as they begin: which steps a program is made of. *)

Made(d, N) == d \in Seq(StepRows) /\ \A i \in DOMAIN d : d[i][1] \in N

LEMMA MadeOfNone == ASSUME NEW N PROVE Made(<<>>, N)
  BY DEF Made
LEMMA MadeOfOne ==
    ASSUME NEW N, NEW x \in StepRows, x[1] \in N PROVE Made(<<x>>, N)
  BY OneStep DEF Made
LEMMA MadeOfTwo ==
    ASSUME NEW N, NEW x \in StepRows, NEW y \in StepRows, x[1] \in N, y[1] \in N PROVE Made(<<x, y>>, N)
  BY TwoSteps DEF Made
LEMMA MadeOfThree ==
    ASSUME NEW N, NEW x \in StepRows, NEW y \in StepRows, NEW z \in StepRows, x[1] \in N, y[1] \in N, z[1] \in N
    PROVE  Made(<<x, y, z>>, N)
  BY ThreeSteps DEF Made

LEMMA OneMade ==
    ASSUME NEW N, NEW s \in StepNames, s \in N, NEW a \in Agents \cup Tools \cup {Nothing} PROVE Made(<<Step(s, a)>>, N)
  <1>1. Step(s, a) \in StepRows /\ Step(s, a)[1] \in N
    BY StepIsRow
  <1>. QED BY <1>1, MadeOfOne
LEMMA TwoMade ==
    ASSUME NEW N, NEW s \in StepNames, NEW t \in StepNames, {s, t} \subseteq N, NEW a \in Agents \cup Tools \cup {Nothing}
    PROVE  Made(<<Step(s, a), Step(t, a)>>, N)
  <1>1. Step(s, a) \in StepRows /\ Step(s, a)[1] \in N
    BY StepIsRow
  <1>2. Step(t, a) \in StepRows /\ Step(t, a)[1] \in N
    BY StepIsRow
  <1>. QED BY <1>1, <1>2, MadeOfTwo
LEMMA ThreeMade ==
    ASSUME NEW N, NEW s \in StepNames, NEW t \in StepNames, NEW u \in StepNames, {s, t, u} \subseteq N, NEW a \in Agents \cup Tools \cup {Nothing}
    PROVE  Made(<<Step(s, a), Step(t, a), Step(u, a)>>, N)
  <1>1. Step(s, a) \in StepRows /\ Step(s, a)[1] \in N
    BY StepIsRow
  <1>2. Step(t, a) \in StepRows /\ Step(t, a)[1] \in N
    BY StepIsRow
  <1>3. Step(u, a) \in StepRows /\ Step(u, a)[1] \in N
    BY StepIsRow
  <1>. QED BY <1>1, <1>2, <1>3, MadeOfThree

LEMMA MadeCat ==
    ASSUME NEW N, NEW s, NEW d, Made(s, N), Made(d, N) PROVE Made(s \o d, N)
  <1> DEFINE e == s \o d
  <1>1. s \in Seq(StepRows) /\ d \in Seq(StepRows)
    BY DEF Made
  <1>2. /\ e \in Seq(StepRows) /\ Len(s) \in Nat /\ Len(d) \in Nat
        /\ DOMAIN s = 1..Len(s) /\ DOMAIN d = 1..Len(d) /\ DOMAIN e = 1..(Len(s) + Len(d))
        /\ \A i \in 1..Len(s) : e[i] = s[i]
        /\ \A i \in (Len(s) + 1)..(Len(s) + Len(d)) : e[i] = d[i - Len(s)]
    BY <1>1, CatOf
  <1> HIDE DEF e
  <1>3. ASSUME NEW i \in DOMAIN e PROVE e[i][1] \in N
    <2>1. CASE i <= Len(s)
      <3>1. i \in DOMAIN s /\ e[i] = s[i]
        BY <1>2, <2>1
      <3>. QED BY <3>1 DEF Made
    <2>2. CASE i > Len(s)
      <3>1. i - Len(s) \in DOMAIN d /\ e[i] = d[i - Len(s)]
        BY <1>2, <2>2
      <3>. QED BY <3>1 DEF Made
    <2>. QED BY <1>2, <2>1, <2>2
  <1>. QED BY <1>2, <1>3 DEF Made, e

LEMMA MadeMore == ASSUME NEW M, NEW N, NEW d, Made(d, M), M \subseteq N PROVE Made(d, N)
  BY DEF Made

\* What creates at most once, put before or behind what does not.
Once(d) == d \in Seq(StepRows) /\ CreatesOnce(d) /\ Spared(d)
LEMMA OnceCat ==
    ASSUME NEW s, NEW d, Once(s), Once(d), ~Creates(s) \/ ~Creates(d)
    PROVE  Once(s \o d) /\ (Creates(s \o d) => Creates(s) \/ Creates(d))
  <1> DEFINE e == s \o d  m == Len(s)
  <1>0. s \in Seq(StepRows) /\ d \in Seq(StepRows)
    BY DEF Once
  <1>1. /\ e \in Seq(StepRows) /\ m \in Nat /\ Len(d) \in Nat
        /\ DOMAIN s = 1..m /\ DOMAIN d = 1..Len(d) /\ DOMAIN e = 1..(m + Len(d))
        /\ \A i \in 1..m : e[i] = s[i]
        /\ \A i \in (m + 1)..(m + Len(d)) : e[i] = d[i - m]
    BY <1>0, CatOf
  <1> HIDE DEF e, m
  <1>2. ASSUME NEW i \in DOMAIN e
        PROVE  \/ i \in DOMAIN s /\ e[i] = s[i]
               \/ i - m \in DOMAIN d /\ e[i] = d[i - m] /\ i \in Nat
    BY <1>1
  <1>3. Spared(e)
    BY <1>2 DEF Spared, Once
  <1>4. Creates(e) => Creates(s) \/ Creates(d)
    BY <1>2 DEF Creates
  <1>5. ASSUME NEW i \in DOMAIN e, NEW j \in DOMAIN e, e[i][1] = "create", e[j][1] = "create" PROVE i = j
    <2>1. CASE Creates(s)
      <3>1. i \in DOMAIN s /\ e[i] = s[i] /\ j \in DOMAIN s /\ e[j] = s[j]
        BY <1>2, <1>5, <2>1 DEF Creates
      <3>. QED BY <1>5, <3>1 DEF Once, CreatesOnce
    <2>2. CASE ~Creates(s)
      <3>1. i - m \in DOMAIN d /\ e[i] = d[i - m] /\ j - m \in DOMAIN d /\ e[j] = d[j - m] /\ i \in Nat /\ j \in Nat
        BY <1>2, <1>5, <2>2 DEF Creates
      <3>2. i - m = j - m
        BY <1>5, <3>1 DEF Once, CreatesOnce
      <3>. QED BY <1>1, <3>1, <3>2
    <2>. QED BY <2>1, <2>2
  <1>6. \A i \in DOMAIN e : e[i][1] = "create" => e[i][2] \in Agents
    BY <1>2 DEF Once, CreatesOnce
  <1>7. CreatesOnce(e)
    BY <1>5, <1>6 DEF CreatesOnce
  <1>. QED BY <1>1, <1>3, <1>4, <1>7 DEF Once, e

\* Steps that neither create nor belong to the strict.
Common == {"auth", "totp", "visible", "active", "online", "send", "reply", "agent", "tokens", "change", "scope", "both", "online_all",
           "batch", "each", "refused", "agents", "inventory", "services", "tell", "results", "events", "rules", "tasks", "nat", "ddns", "state"}
LEMMA CommonIsOnce ==
    ASSUME NEW d, Made(d, Common) PROVE Once(d) /\ ~Creates(d)
  BY DEF Made, Once, CreatesOnce, Creates, Spared, Common, Kept
LEMMA CreateIsOnce ==
    ASSUME NEW a \in Agents PROVE Once(<<Step("create", a)>>) /\ Creates(<<Step("create", a)>>)
  <1> DEFINE x == Step("create", a)
  <1>1. x \in StepRows /\ x[1] = "create" /\ x[2] = a
    BY StepIsRow DEF StepNames
  <1> HIDE DEF x
  <1>2. <<x>> \in Seq(StepRows) /\ DOMAIN <<x>> = 1..1 /\ <<x>>[1] = x
    BY <1>1, OneStep
  <1>. QED BY <1>1, <1>2 DEF Once, CreatesOnce, Creates, Spared, Kept, x

-----------------------------------------------------------------------------
(* Each program. *)

Plain(d) == Made(d, Common)
LEMMA PlainCat == ASSUME NEW s, NEW d, Plain(s), Plain(d) PROVE Plain(s \o d)
  BY MadeCat DEF Plain
LEMMA PlainOne == ASSUME NEW s \in Common, NEW a \in Agents \cup Tools \cup {Nothing} PROVE Plain(<<Step(s, a)>>)
  <1>1. s \in StepNames
    BY DEF Common, StepNames
  <1>. QED BY <1>1, OneMade DEF Plain
LEMMA PlainTwo ==
    ASSUME NEW s \in Common, NEW t \in Common, NEW a \in Agents \cup Tools \cup {Nothing} PROVE Plain(<<Step(s, a), Step(t, a)>>)
  <1>1. s \in StepNames /\ t \in StepNames
    BY DEF Common, StepNames
  <1>. QED BY <1>1, TwoMade DEF Plain
LEMMA PlainThree ==
    ASSUME NEW s \in Common, NEW t \in Common, NEW u \in Common, NEW a \in Agents \cup Tools \cup {Nothing}
    PROVE  Plain(<<Step(s, a), Step(t, a), Step(u, a)>>)
  <1>1. s \in StepNames /\ t \in StepNames /\ u \in StepNames
    BY DEF Common, StepNames
  <1>. QED BY <1>1, ThreeMade DEF Plain

LEMMA EnsuresArePlain ==
    ASSUME NEW a \in Agents
    PROVE  /\ Plain(<<Step("auth", a)>>) /\ Plain(<<Step("auth", a), Step("totp", a)>>) /\ Plain(ensure_server_visible(a))
           /\ Plain(ensure_server_active(a)) /\ Plain(ensure_server_online(a)) /\ Plain(dispatch_file_task(a))
           /\ Plain(<<Step("send", a)>>) /\ Plain(<<Step("agent", a)>>)
  <1>1. Plain(<<Step("auth", a)>>) /\ Plain(<<Step("send", a)>>) /\ Plain(<<Step("agent", a)>>) /\ Plain(<<Step("visible", a)>>)
        /\ Plain(<<Step("active", a)>>) /\ Plain(<<Step("online", a)>>)
    <2>1. {"auth", "send", "agent", "visible", "active", "online"} \subseteq Common
      BY DEF Common, StepNames
    <2>. QED BY <2>1, PlainOne
  <1>2. Plain(<<Step("auth", a), Step("totp", a)>>) /\ Plain(dispatch_file_task(a))
    <2>1. {"auth", "totp", "send", "reply"} \subseteq Common
      BY DEF Common, StepNames
    <2>. QED BY <2>1, PlainTwo DEF dispatch_file_task
  <1>3. Plain(ensure_server_visible(a))
    BY <1>1 DEF ensure_server_visible
  <1>4. Plain(ensure_server_active(a))
    BY <1>1, <1>3, PlainCat DEF ensure_server_active
  <1>5. Plain(ensure_server_online(a))
    BY <1>1, <1>4, PlainCat DEF ensure_server_online
  <1>. QED BY <1>1, <1>2, <1>3, <1>4, <1>5

LEMMA OperationsArePlain ==
    ASSUME NEW a \in Agents
    PROVE  /\ Plain(list_files(a)) /\ Plain(read_file(a)) /\ Plain(write_file(a)) /\ Plain(delete_file(a)) /\ Plain(get_config(a))
           /\ Plain(apply_config(a)) /\ Plain(apply_sensitive(a)) /\ Plain(force_update(a)) /\ Plain(list_temporary_transfers)
  <1> DEFINE A == <<Step("auth", a)>>  T == <<Step("auth", a), Step("totp", a)>>  V == ensure_server_visible(a)
             O == ensure_server_online(a)  F == dispatch_file_task(a)  S == <<Step("send", a)>>  G == <<Step("agent", a)>>
  <1>1. Plain(A) /\ Plain(T) /\ Plain(V) /\ Plain(O) /\ Plain(F) /\ Plain(S) /\ Plain(G)
    BY EnsuresArePlain
  <1>2. Plain(list_temporary_transfers)
    <2>1. {"auth", "tokens"} \subseteq Common
      BY DEF Common, StepNames
    <2>. QED BY <2>1, PlainTwo DEF list_temporary_transfers
  <1>3. /\ list_files(a) = (A \o O) \o F /\ read_file(a) = (A \o O) \o F /\ write_file(a) = (T \o O) \o F
        /\ delete_file(a) = (T \o O) \o F /\ get_config(a) = (A \o V) \o G /\ apply_config(a) = (A \o O) \o S
        /\ apply_sensitive(a) = (T \o O) \o S /\ force_update(a) = (T \o O) \o S
    BY DEF list_files, read_file, write_file, delete_file, get_config, apply_config, apply_sensitive, force_update,
           require_transfer_write_sensitive_auth, require_remote_config_patch_auth, require_force_update_auth
  <1> HIDE DEF A, T, V, O, F, S, G
  <1>4. Plain(A \o O) /\ Plain(T \o O) /\ Plain(A \o V)
    BY <1>1, PlainCat
  <1>. QED BY <1>1, <1>2, <1>3, <1>4, PlainCat

LEMMA UrlsCreate ==
    ASSUME NEW a \in Agents
    PROVE  Once(download_url(a)) /\ Once(upload_url(a))
  <1> DEFINE A == <<Step("auth", a)>>  T == <<Step("auth", a), Step("totp", a)>>  O == ensure_server_active(a)  C == <<Step("create", a)>>
             B == O \o C
  <1>1. Plain(A) /\ Plain(T) /\ Plain(O)
    BY EnsuresArePlain
  <1>2. Once(A) /\ Once(T) /\ Once(O) /\ ~Creates(A) /\ ~Creates(T) /\ ~Creates(O)
    BY <1>1, CommonIsOnce DEF Plain
  <1>3. Once(C)
    BY CreateIsOnce
  <1>4. download_url(a) = A \o B /\ upload_url(a) = T \o B
    BY DEF download_url, upload_url, build_temp_url, require_transfer_write_sensitive_auth
  <1> HIDE DEF A, T, O, C
  <1>5. Once(B)
    BY <1>2, <1>3, OnceCat
  <1> HIDE DEF B
  <1>. QED BY <1>2, <1>4, <1>5, OnceCat

\* The parts of the tools.
LEMMA PartsArePlain ==
    /\ Plain(load_all_visible_agents_with_state) /\ Plain(build_enriched_server_json) /\ Plain(Tell) /\ Plain(Found) /\ Plain(<<>>)
    /\ Plain(<<Step("results", Nothing)>>) /\ Plain(<<Step("events", Nothing)>>) /\ Plain(<<Step("rules", Nothing)>>)
    /\ Plain(<<Step("tasks", Nothing)>>) /\ Plain(<<Step("nat", Nothing), Step("ddns", Nothing)>>)
    /\ Plain(<<Step("batch", Nothing)>>) /\ Plain(<<Step("online_all", Nothing), Step("batch", Nothing)>>)
    /\ Plain(<<Step("refused", Nothing)>>) /\ Plain(<<Step("auth", Nothing)>>) /\ Plain(<<Step("totp", Nothing)>>)
    /\ Plain(<<Step("change", Nothing)>>)
  <1>1. {"agents", "inventory", "tell", "services", "results", "events", "rules", "tasks", "nat", "ddns", "batch", "online_all",
         "refused", "auth", "totp", "change"} \subseteq Common
    BY DEF Common
  <1>2. /\ Plain(<<Step("agents", Nothing)>>) /\ Plain(<<Step("inventory", Nothing)>>) /\ Plain(<<Step("tell", Nothing)>>)
        /\ Plain(<<Step("services", Nothing)>>)
    BY <1>1, PlainOne
  <1>3. /\ Plain(<<Step("results", Nothing)>>) /\ Plain(<<Step("events", Nothing)>>) /\ Plain(<<Step("rules", Nothing)>>)
        /\ Plain(<<Step("tasks", Nothing)>>)
    BY <1>1, PlainOne
  <1>4. Plain(<<Step("batch", Nothing)>>) /\ Plain(<<Step("refused", Nothing)>>) /\ Plain(<<Step("auth", Nothing)>>)
        /\ Plain(<<Step("totp", Nothing)>>) /\ Plain(<<Step("change", Nothing)>>)
    BY <1>1, PlainOne
  <1>5. Plain(<<Step("nat", Nothing), Step("ddns", Nothing)>>) /\ Plain(<<Step("online_all", Nothing), Step("batch", Nothing)>>)
    BY <1>1, PlainTwo
  <1>6. Plain(load_all_visible_agents_with_state) /\ Plain(build_enriched_server_json) /\ Plain(Tell)
    BY <1>2 DEF load_all_visible_agents_with_state, build_enriched_server_json, Tell
  <1>7. Plain(Found)
    BY <1>2, <1>6, PlainCat DEF Found
  <1>8. Plain(<<>>)
    BY MadeOfNone DEF Plain
  <1>. QED BY <1>3, <1>4, <1>5, <1>6, <1>7, <1>8

LEMMA ReadersArePlain ==
    /\ Plain(exec_whoami) /\ Plain(exec_server_list) /\ Plain(exec_server_resolve) /\ Plain(exec_service_list)
    /\ Plain(exec_service_history) /\ Plain(exec_alert_events) /\ Plain(exec_alert_rules) /\ Plain(exec_task_list)
    /\ Plain(exec_network_topology) /\ Plain(exec_cluster_overview) /\ Plain(exec_cluster_diagnose)
    /\ \A a \in Agents : Plain(exec_server_get(a)) /\ Plain(exec_server_metrics(a))
  <1> USE PartsArePlain, PlainCat
  <1>1. Plain(exec_whoami)
    BY DEF exec_whoami
  <1>2. Plain(exec_server_list) /\ Plain(exec_server_resolve)
    BY DEF exec_server_list, exec_server_resolve
  <1>3. Plain(exec_service_list)
    BY DEF exec_service_list
  <1>4. Plain(exec_service_history)
    <2>1. Plain(Found \o Tell \o load_all_visible_agents_with_state)
      <3>1. Plain(Found \o Tell)
        OBVIOUS
      <3>. QED BY <3>1
    <2>. QED BY <2>1 DEF exec_service_history
  <1>5. Plain(exec_alert_events) /\ Plain(exec_alert_rules)
    <2>1. Plain(load_all_visible_agents_with_state \o Found)
      OBVIOUS
    <2>. QED BY <2>1 DEF exec_alert_events, exec_alert_rules
  <1>6. Plain(exec_task_list) /\ Plain(exec_network_topology)
    BY DEF exec_task_list, exec_network_topology
  <1>7. Plain(exec_cluster_diagnose)
    BY <1>2, <1>3 DEF exec_cluster_diagnose
  <1>8. Plain(exec_cluster_overview)
    <2>1. Plain(exec_server_list \o exec_service_list)
      BY <1>2, <1>3
    <2>. QED BY <2>1, <1>5 DEF exec_cluster_overview
  <1>9. \A a \in Agents : Plain(exec_server_get(a)) /\ Plain(exec_server_metrics(a))
    <2>1. "state" \in Common
      BY DEF Common
    <2>. QED BY <2>1, PlainOne DEF exec_server_get, exec_server_metrics
  <1>. QED BY <1>1, <1>2, <1>3, <1>4, <1>5, <1>6, <1>7, <1>8, <1>9

LEMMA SendersArePlain ==
    ASSUME NEW a \in Agents, NEW b \in Agents
    PROVE  /\ Plain(ensure_agent_active(a)) /\ Plain(dispatch_shell(a)) /\ Plain(exec_server_exec(a)) /\ Plain(exec_server_inspect(a))
           /\ Plain(exec_fs_list(a)) /\ Plain(exec_fs_read(a)) /\ Plain(exec_server_batch_exec(a, b)) /\ Plain(exec_batch_online)
           /\ Once(exec_fs_download_url(a))
  <1>1. {"both", "online", "send", "reply"} \subseteq Common
    BY DEF Common
  <1>2. Plain(ensure_agent_active(a)) /\ Plain(ensure_agent_active(b))
    BY <1>1, PlainOne DEF ensure_agent_active
  <1>3. Plain(dispatch_shell(a)) /\ Plain(dispatch_mcp_file_task(a))
    BY <1>1, PlainThree DEF dispatch_shell, dispatch_mcp_file_task
  <1>4. Plain(exec_server_exec(a)) /\ Plain(exec_server_inspect(a)) /\ Plain(exec_fs_list(a)) /\ Plain(exec_fs_read(a))
    BY <1>2, <1>3, PlainCat DEF exec_server_exec, exec_server_inspect, exec_fs_list, exec_fs_read
  <1>5. Plain(exec_server_batch_exec(a, b))
    <2>1. Plain(ensure_agent_active(a) \o ensure_agent_active(b))
      BY <1>2, PlainCat
    <2>. QED BY <2>1, PartsArePlain, PlainCat DEF exec_server_batch_exec
  <1>6. Plain(exec_batch_online)
    BY PartsArePlain DEF exec_batch_online
  <1>7. Once(exec_fs_download_url(a))
    <2>1. Once(ensure_agent_active(a)) /\ ~Creates(ensure_agent_active(a))
      BY <1>2, CommonIsOnce DEF Plain
    <2>. QED BY <2>1, CreateIsOnce, OnceCat DEF exec_fs_download_url
  <1>. QED BY <1>2, <1>3, <1>4, <1>5, <1>6, <1>7

\* What a tool's steps are.
LEMMA ToolsAreOnce ==
    ASSUME NEW q \in Requests, NEW t \in Tools
    PROVE  Once(execute(t, q)) /\ (t # "fs_url" => ~Creates(execute(t, q)))
  <1>1. q.agent \in Agents /\ q.other \in Agents
    BY DEF Requests
  <1>2. CASE t = "fs_url"
    BY <1>1, <1>2, SendersArePlain DEF execute
  <1>3. CASE t # "fs_url"
    <2>1. Plain(execute(t, q))
      <3>1. CASE t \in {"whoami", "servers", "resolve", "server", "metrics", "services", "history", "events", "rules", "task"}
        BY <1>1, <3>1, ReadersArePlain DEF execute
      <3>2. CASE t \in {"topology", "overview", "diagnose", "fs_write"}
        BY <1>1, <3>2, ReadersArePlain, PartsArePlain DEF execute
      <3>3. CASE t \in {"exec", "inspect", "batch", "batch_online", "fs_list", "fs_read"}
        BY <1>1, <3>3, SendersArePlain DEF execute
      <3>. QED BY <1>3, <3>1, <3>2, <3>3 DEF Tools
    <2>. QED BY <2>1, <1>3, CommonIsOnce DEF Plain
  <1>. QED BY <1>2, <1>3

-----------------------------------------------------------------------------
(* The programs that use a token, and the one that revokes it. *)

Run(d, op, x, y) ==
    /\ d \in Seq(StepRows) /\ d # <<>> /\ d[1][1] = x /\ d[Len(d)][1] = y
    /\ \A i \in DOMAIN d : i < Len(d) => <<d[i][1], d[i + 1][1]>> \in Links(op)

LEMMA RunOfOne == ASSUME NEW op, NEW a \in StepRows PROVE Run(<<a>>, op, a[1], a[1])
  BY OneStep DEF Run
LEMMA RunOfTwo ==
    ASSUME NEW op, NEW a \in StepRows, NEW b \in StepRows, <<a[1], b[1]>> \in Links(op) PROVE Run(<<a, b>>, op, a[1], b[1])
  <1> DEFINE d == <<a, b>>
  <1>1. d \in Seq(StepRows) /\ Len(d) = 2 /\ DOMAIN d = 1..2 /\ d[1] = a /\ d[2] = b
    BY TwoSteps
  <1> HIDE DEF d
  <1>2. ASSUME NEW i \in DOMAIN d, i < Len(d) PROVE <<d[i][1], d[i + 1][1]>> \in Links(op)
    <2>1. i = 1
      BY <1>1, <1>2
    <2>2. d[i] = a /\ d[i + 1] = b
      BY <1>1, <2>1
    <2>. QED BY <2>2
  <1>. QED BY <1>1, <1>2 DEF Run, d
LEMMA RunOfFour ==
    ASSUME NEW op, NEW a \in StepRows, NEW b \in StepRows, NEW c \in StepRows, NEW e \in StepRows,
           <<a[1], b[1]>> \in Links(op), <<b[1], c[1]>> \in Links(op), <<c[1], e[1]>> \in Links(op)
    PROVE  Run(<<a, b, c, e>>, op, a[1], e[1])
  <1> DEFINE d == <<a, b, c, e>>
  <1>1. d \in Seq(StepRows) /\ Len(d) = 4 /\ DOMAIN d = 1..4 /\ d[1] = a /\ d[2] = b /\ d[3] = c /\ d[4] = e
    BY FourSteps
  <1> HIDE DEF d
  <1>2. ASSUME NEW i \in DOMAIN d, i < Len(d) PROVE <<d[i][1], d[i + 1][1]>> \in Links(op)
    <2>1. i = 1 \/ i = 2 \/ i = 3
      BY <1>1, <1>2
    <2>2. \/ d[i] = a /\ d[i + 1] = b
          \/ d[i] = b /\ d[i + 1] = c
          \/ d[i] = c /\ d[i + 1] = e
      BY <1>1, <2>1
    <2>. QED BY <2>2
  <1>. QED BY <1>1, <1>2 DEF Run, d

LEMMA RunCat ==
    ASSUME NEW op, NEW x, NEW y, NEW z, NEW w, NEW s, NEW d, Run(s, op, x, y), Run(d, op, z, w), <<y, z>> \in Links(op)
    PROVE  Run(s \o d, op, x, w)
  <1> DEFINE e == s \o d  m == Len(s)
  <1>0. s \in Seq(StepRows) /\ d \in Seq(StepRows) /\ s # <<>> /\ d # <<>>
    BY DEF Run
  <1>1. /\ e \in Seq(StepRows) /\ m \in Nat /\ m >= 1 /\ Len(d) \in Nat /\ Len(d) >= 1 /\ Len(e) = m + Len(d)
        /\ DOMAIN s = 1..m /\ DOMAIN d = 1..Len(d) /\ DOMAIN e = 1..(m + Len(d))
        /\ \A i \in 1..m : e[i] = s[i]
        /\ \A i \in (m + 1)..(m + Len(d)) : e[i] = d[i - m]
    BY <1>0, CatOf
  <1> HIDE DEF e, m
  <1>2. e # <<>> /\ e[1] = s[1] /\ e[Len(e)] = d[Len(d)]
    <2>1. Len(e) \in (m + 1)..(m + Len(d)) /\ Len(e) - m = Len(d) /\ 1 \in 1..m /\ Len(e) # 0
      BY <1>1
    <2>. QED BY <1>1, <2>1
  <1>3. ASSUME NEW i \in DOMAIN e, i < Len(e) PROVE <<e[i][1], e[i + 1][1]>> \in Links(op)
    <2>1. CASE i < m
      <3>1. i \in DOMAIN s /\ e[i] = s[i] /\ e[i + 1] = s[i + 1]
        BY <1>1, <2>1
      <3>. QED BY <2>1, <3>1 DEF Run, m
    <2>2. CASE i = m
      <3>1. e[i] = s[m] /\ e[i + 1] = d[1]
        <4>1. m \in 1..m /\ m + 1 \in (m + 1)..(m + Len(d)) /\ (m + 1) - m = 1
          BY <1>1
        <4>. QED BY <1>1, <2>2, <4>1
      <3>2. s[m][1] = y /\ d[1][1] = z
        BY DEF Run, m
      <3>. QED BY <3>1, <3>2
    <2>3. CASE i > m
      <3>1. /\ i - m \in DOMAIN d /\ e[i] = d[i - m] /\ (i + 1) - m = (i - m) + 1 /\ e[i + 1] = d[(i + 1) - m]
            /\ i - m < Len(d)
        <4>1. i \in (m + 1)..(m + Len(d)) /\ i + 1 \in (m + 1)..(m + Len(d))
          BY <1>1, <1>3, <2>3
        <4>2. i - m \in 1..Len(d) /\ (i + 1) - m = (i - m) + 1 /\ i - m < Len(d)
          BY <1>1, <1>3, <4>1
        <4>. QED BY <1>1, <4>1, <4>2
      <3>. QED BY <3>1 DEF Run
    <2>. QED BY <1>1, <2>1, <2>2, <2>3
  <1>4. e[1][1] = x /\ e[Len(e)][1] = w
    BY <1>2 DEF Run
  <1>. QED BY <1>1, <1>2, <1>3, <1>4 DEF Run, e

LEMMA RunIsWellFormed ==
    ASSUME NEW q, q.op \in Strict, NEW d, NEW x, Run(d, q.op, x, LastOf(q.op))
    PROVE  WellFormed(d, q) /\ ~Creates(d) /\ d # <<>> /\ d[1][1] = x
  <1>1. d \in Seq(StepRows) /\ Len(d) \in Nat /\ DOMAIN d = 1..Len(d) /\ d # <<>> /\ d[1][1] = x
    BY DEF Run
  <1>2. Linked(d, q.op)
    <2>1. ASSUME NEW i \in DOMAIN d, ~(i < Len(d)) PROVE i = Len(d)
      BY <1>1, <2>1
    <2>. QED BY <2>1 DEF Run, Linked
  <1>3. ASSUME NEW i \in DOMAIN d PROVE d[i][1] # "create"
    <2>1. \A y : <<"create", y>> \notin Links(q.op)
      BY DEF Links
    <2>. QED BY <1>2, <2>1 DEF Linked, LastOf
  <1>. QED BY <1>1, <1>2, <1>3 DEF WellFormed, Creates, CreatesOnce

LEMMA Named ==
    ASSUME NEW s \in StepNames PROVE Step(s, Nothing) \in StepRows /\ Step(s, Nothing)[1] = s
  BY StepIsRow

LEMMA UsersRun ==
    /\ Run(run_temp_download, "download", "ip", "result")
    /\ Run(run_temp_upload, "upload", "ip", "result")
    /\ Run(revoke_temporary_transfer, "revoke", "auth", "revoke")
  <1>0. {"ip", "record", "issuer", "held", "server", "limit", "consume", "reserve", "body", "commit", "reach", "send", "reply", "result",
         "auth", "find", "mine", "revoke"} \subseteq StepNames
    BY DEF StepNames
  <1>1. ASSUME NEW op \in {"download", "upload"}
        PROVE  /\ Run(<<Step("ip", Nothing)>>, op, "ip", "ip") /\ Run(validate_temporary_transfer, op, "record", "server")
               /\ Run(dispatch_server_task, op, "reach", "result")
    <2>1. /\ <<"record", "issuer">> \in Links(op) /\ <<"issuer", "held">> \in Links(op) /\ <<"held", "server">> \in Links(op)
          /\ <<"reach", "send">> \in Links(op) /\ <<"send", "reply">> \in Links(op) /\ <<"reply", "result">> \in Links(op)
      BY DEF Links
    <2>2. Run(<<Step("ip", Nothing)>>, op, "ip", "ip")
      <3>1. Step("ip", Nothing) \in StepRows /\ Step("ip", Nothing)[1] = "ip"
        BY <1>0, Named
      <3>2. Run(<<Step("ip", Nothing)>>, op, Step("ip", Nothing)[1], Step("ip", Nothing)[1])
        BY <3>1, RunOfOne
      <3>. QED BY <3>1, <3>2
    <2>3. Run(validate_temporary_transfer, op, "record", "server")
      <3>1. /\ Step("record", Nothing) \in StepRows /\ Step("record", Nothing)[1] = "record"
            /\ Step("issuer", Nothing) \in StepRows /\ Step("issuer", Nothing)[1] = "issuer"
            /\ Step("held", Nothing) \in StepRows /\ Step("held", Nothing)[1] = "held"
            /\ Step("server", Nothing) \in StepRows /\ Step("server", Nothing)[1] = "server"
        BY <1>0, Named
      <3>2. Run(validate_temporary_transfer, op, Step("record", Nothing)[1], Step("server", Nothing)[1])
        BY <2>1, <3>1, RunOfFour DEF validate_temporary_transfer
      <3>. QED BY <3>1, <3>2
    <2>4. Run(dispatch_server_task, op, "reach", "result")
      <3>1. /\ Step("reach", Nothing) \in StepRows /\ Step("reach", Nothing)[1] = "reach"
            /\ Step("send", Nothing) \in StepRows /\ Step("send", Nothing)[1] = "send"
            /\ Step("reply", Nothing) \in StepRows /\ Step("reply", Nothing)[1] = "reply"
            /\ Step("result", Nothing) \in StepRows /\ Step("result", Nothing)[1] = "result"
        BY <1>0, Named
      <3>2. Run(dispatch_server_task, op, Step("reach", Nothing)[1], Step("result", Nothing)[1])
        BY <2>1, <3>1, RunOfFour DEF dispatch_server_task
      <3>. QED BY <3>1, <3>2
    <2>. QED BY <2>2, <2>3, <2>4
  <1>2. ASSUME NEW op \in {"download", "upload"}
        PROVE  Run(<<Step("ip", Nothing)>> \o validate_temporary_transfer, op, "ip", "server")
    <2>1. <<"ip", "record">> \in Links(op)
      BY DEF Links
    <2>. QED BY <1>1, <2>1, RunCat
  <1>3. Run(<<Step("limit", Nothing), Step("consume", Nothing)>>, "download", "limit", "consume")
    <2>1. /\ Step("limit", Nothing) \in StepRows /\ Step("limit", Nothing)[1] = "limit"
          /\ Step("consume", Nothing) \in StepRows /\ Step("consume", Nothing)[1] = "consume"
      BY <1>0, Named
    <2>2. <<"limit", "consume">> \in Links("download")
      BY DEF Links
    <2>3. Run(<<Step("limit", Nothing), Step("consume", Nothing)>>, "download", Step("limit", Nothing)[1], Step("consume", Nothing)[1])
      BY <2>1, <2>2, RunOfTwo
    <2>. QED BY <2>1, <2>3
  <1>4. Run(<<Step("limit", Nothing), Step("reserve", Nothing), Step("body", Nothing), Step("commit", Nothing)>>, "upload", "limit", "commit")
    <2>1. /\ Step("limit", Nothing) \in StepRows /\ Step("limit", Nothing)[1] = "limit"
          /\ Step("reserve", Nothing) \in StepRows /\ Step("reserve", Nothing)[1] = "reserve"
          /\ Step("body", Nothing) \in StepRows /\ Step("body", Nothing)[1] = "body"
          /\ Step("commit", Nothing) \in StepRows /\ Step("commit", Nothing)[1] = "commit"
      BY <1>0, Named
    <2>2. <<"limit", "reserve">> \in Links("upload") /\ <<"reserve", "body">> \in Links("upload") /\ <<"body", "commit">> \in Links("upload")
      BY DEF Links
    <2>3. Run(<<Step("limit", Nothing), Step("reserve", Nothing), Step("body", Nothing), Step("commit", Nothing)>>, "upload",
              Step("limit", Nothing)[1], Step("commit", Nothing)[1])
      BY <2>1, <2>2, RunOfFour
    <2>. QED BY <2>1, <2>3
  <1>5. Run(run_temp_download, "download", "ip", "result")
    <2>1. <<"server", "limit">> \in Links("download") /\ <<"consume", "reach">> \in Links("download")
      BY DEF Links
    <2>2. Run(<<Step("ip", Nothing)>> \o validate_temporary_transfer \o <<Step("limit", Nothing), Step("consume", Nothing)>>, "download", "ip", "consume")
      BY <1>2, <1>3, <2>1, RunCat
    <2>. QED BY <1>1, <2>1, <2>2, RunCat DEF run_temp_download
  <1>6. Run(run_temp_upload, "upload", "ip", "result")
    <2>1. <<"server", "limit">> \in Links("upload") /\ <<"commit", "reach">> \in Links("upload")
      BY DEF Links
    <2>2. Run(<<Step("ip", Nothing)>> \o validate_temporary_transfer
              \o <<Step("limit", Nothing), Step("reserve", Nothing), Step("body", Nothing), Step("commit", Nothing)>>, "upload", "ip", "commit")
      BY <1>2, <1>4, <2>1, RunCat
    <2>. QED BY <1>1, <2>1, <2>2, RunCat DEF run_temp_upload
  <1>7. Run(revoke_temporary_transfer, "revoke", "auth", "revoke")
    <2>1. /\ Step("auth", Nothing) \in StepRows /\ Step("auth", Nothing)[1] = "auth"
          /\ Step("find", Nothing) \in StepRows /\ Step("find", Nothing)[1] = "find"
          /\ Step("mine", Nothing) \in StepRows /\ Step("mine", Nothing)[1] = "mine"
          /\ Step("revoke", Nothing) \in StepRows /\ Step("revoke", Nothing)[1] = "revoke"
      BY <1>0, Named
    <2>2. <<"auth", "find">> \in Links("revoke") /\ <<"find", "mine">> \in Links("revoke") /\ <<"mine", "revoke">> \in Links("revoke")
      BY DEF Links
    <2>3. Run(revoke_temporary_transfer, "revoke", Step("auth", Nothing)[1], Step("revoke", Nothing)[1])
      BY <2>1, <2>2, RunOfFour DEF revoke_temporary_transfer
    <2>. QED BY <2>1, <2>3
  <1>. QED BY <1>5, <1>6, <1>7

LEMMA ScopedIsPlain == ASSUME NEW t \in Tools PROVE Once(Scoped(t)) /\ ~Creates(Scoped(t))
  <1>1. "scope" \in Common
    BY DEF Common
  <1>2. Plain(Scoped(t))
    BY <1>1, PlainOne DEF Scoped
  <1>. QED BY <1>2, CommonIsOnce DEF Plain

LEMMA CallsAreOnce ==
    ASSUME NEW q \in Requests, NEW t \in Tools
    PROVE  Once(handle_jsonrpc_request(t, q)) /\ (t # "fs_url" => ~Creates(handle_jsonrpc_request(t, q)))
  BY ScopedIsPlain, ToolsAreOnce, OnceCat DEF handle_jsonrpc_request

LEMMA McpIsOnce ==
    ASSUME NEW q \in Requests, q.op = "mcp", q.tool # "none", q.tool = "fs_url" => q.then # "fs_url"
    PROVE  /\ Once(handle_mcp_jsonrpc(q)) /\ (Creates(handle_mcp_jsonrpc(q)) => Draws(q))
           /\ Once(execute_mcp_studio(q)) /\ (Creates(execute_mcp_studio(q)) => Draws(q))
  <1>1. q.tool \in Tools /\ q.then \in Tools \cup {"none"}
    BY DEF Requests
  <1> DEFINE A == <<Step("auth", Nothing)>>  H == handle_jsonrpc_request(q.tool, q)  C == check_mcp_studio_sensitive_totp(q)
             T == IF q.then = "none" THEN <<>> ELSE handle_jsonrpc_request(q.then, q)
  <1>2. Plain(A) /\ Plain(C) /\ Plain(<<>>)
    BY PartsArePlain DEF check_mcp_studio_sensitive_totp
  <1>3. Once(A) /\ ~Creates(A) /\ Once(C) /\ ~Creates(C) /\ Once(<<>>) /\ ~Creates(<<>>)
    BY <1>2, CommonIsOnce DEF Plain
  <1>4. Once(H) /\ (q.tool # "fs_url" => ~Creates(H))
    BY <1>1, CallsAreOnce
  <1>5. Once(T) /\ (q.then # "fs_url" => ~Creates(T))
    BY <1>1, <1>3, CallsAreOnce
  <1>6. handle_mcp_jsonrpc(q) = (A \o H) \o T /\ execute_mcp_studio(q) = (A \o C) \o H
    BY DEF handle_mcp_jsonrpc, execute_mcp_studio
  <1> HIDE DEF A, H, C, T
  <1>7. Once(A \o H) /\ (q.tool # "fs_url" => ~Creates(A \o H)) /\ Once(A \o C) /\ ~Creates(A \o C)
    BY <1>3, <1>4, OnceCat
  <1>8. Once((A \o H) \o T) /\ (Creates((A \o H) \o T) => q.tool = "fs_url" \/ q.then = "fs_url")
    BY <1>5, <1>7, OnceCat
  <1>9. Once((A \o C) \o H) /\ (Creates((A \o C) \o H) => q.tool = "fs_url")
    BY <1>4, <1>7, OnceCat
  <1>. QED BY <1>6, <1>8, <1>9 DEF Draws

LEMMA ReadsArePlain ==
    ASSUME NEW q \in Requests
    PROVE  /\ q.op = "resource" /\ q.item \in Items["resource"] => Plain(<<Step("auth", Nothing)>> \o read_resource(q))
           /\ q.op = "prompt" /\ q.item \in Items["prompt"] => Plain(<<Step("auth", Nothing)>> \o get_prompt(q))
  <1>1. q.agent \in Agents
    BY DEF Requests
  <1> USE ReadersArePlain, PlainCat
  <1>2. ASSUME q.item \in Items["resource"] PROVE Plain(read_resource(q))
    <2>1. Plain(exec_alert_events \o exec_alert_rules)
      OBVIOUS
    <2>2. Plain(exec_server_get(q.agent) \o exec_server_metrics(q.agent))
      BY <1>1
    <2>3. q.item \in {"overview", "inventory", "health", "active", "topology", "telemetry"}
      BY <1>2 DEF Items
    <2>. QED BY <2>1, <2>2, <2>3 DEF read_resource
  <1>3. ASSUME q.item \in Items["prompt"] PROVE Plain(get_prompt(q))
    <2>1. Plain(exec_cluster_overview \o exec_cluster_diagnose)
      OBVIOUS
    <2>2. Plain(exec_server_resolve \o exec_server_get(q.agent) \o exec_server_metrics(q.agent))
      <3>1. Plain(exec_server_resolve \o exec_server_get(q.agent))
        BY <1>1
      <3>. QED BY <1>1, <3>1
    <2>3. Plain(exec_cluster_diagnose \o exec_alert_events \o exec_service_list)
      <3>1. Plain(exec_cluster_diagnose \o exec_alert_events)
        OBVIOUS
      <3>. QED BY <3>1
    <2>4. Plain(exec_cluster_overview \o exec_server_list \o exec_network_topology)
      <3>1. Plain(exec_cluster_overview \o exec_server_list)
        OBVIOUS
      <3>. QED BY <3>1
    <2>5. q.item \in {"audit", "troubleshoot", "triage", "capacity"}
      BY <1>3 DEF Items
    <2>. QED BY <2>1, <2>2, <2>3, <2>4, <2>5 DEF get_prompt
  <1>. QED BY <1>2, <1>3, PartsArePlain

LEMMA ProgramsAreWellFormed ==
    ASSUME NEW w \in Workloads, NEW q \in w
    PROVE  /\ WellFormed(Program(q), q)
           /\ q.op \in {"download", "upload"} => Program(q) # <<>> /\ Program(q)[1][1] = "ip"
           /\ q.op = "revoke" => Program(q) # <<>> /\ Program(q)[1][1] = "auth"
  <1>1. /\ q \in Requests /\ (q.op = "mcp" => q.tool # "none" /\ (q.tool = "fs_url" => q.then # "fs_url"))
        /\ q.op \in {"resource", "prompt"} => q.item \in Items[q.op]
    BY WorkloadsAssumption
  <1>2. q.op \in Operations \cup Changes \cup {"mcp", "resource", "prompt"} /\ q.agent \in Agents
    BY <1>1 DEF Requests
  <1>3. CASE q.op \in Strict
    <2>1. q.op = "download" => Program(q) = run_temp_download
      BY DEF Program, Operation, Changes
    <2>2. q.op = "upload" => Program(q) = run_temp_upload
      BY DEF Program, Operation, Changes
    <2>3. q.op = "revoke" => Program(q) = revoke_temporary_transfer
      BY DEF Program, Operation, Changes
    <2>4. Run(Program(q), q.op, IF q.op = "revoke" THEN "auth" ELSE "ip", LastOf(q.op))
      BY <1>3, <2>1, <2>2, <2>3, UsersRun DEF Strict, LastOf
    <2>. QED BY <1>3, <2>4, RunIsWellFormed
  <1>4. CASE q.op \notin Strict
    <2>1. Once(Program(q)) /\ (Creates(Program(q)) => Draws(q))
      <3>1. ASSUME Plain(Program(q)) PROVE Once(Program(q)) /\ ~Creates(Program(q))
        BY <3>1, CommonIsOnce DEF Plain
      <3>2. CASE q.op \in Changes
        <4>1. Program(q) = <<Step("change", Nothing)>>
          BY <3>2 DEF Program, Changes
        <4>. QED BY <3>1, <4>1, PartsArePlain
      <3>3. CASE q.op = "mcp"
        <4>1. Program(q) = IF q.via = "rpc" THEN handle_mcp_jsonrpc(q) ELSE execute_mcp_studio(q)
          BY <3>3 DEF Program, Changes
        <4>. QED BY <1>1, <3>3, <4>1, McpIsOnce
      <3>4. CASE q.op = "resource"
        <4>1. Program(q) = <<Step("auth", Nothing)>> \o read_resource(q)
          BY <3>4 DEF Program, Changes
        <4>. QED BY <1>1, <3>1, <3>4, <4>1, ReadsArePlain
      <3>5. CASE q.op = "prompt"
        <4>1. Program(q) = <<Step("auth", Nothing)>> \o get_prompt(q)
          BY <3>5 DEF Program, Changes
        <4>. QED BY <1>1, <3>1, <3>5, <4>1, ReadsArePlain
      <3>6. CASE q.op \in Operations
        <4>1. Program(q) = Operation(q)
          BY <3>6 DEF Program, Changes, Operations
        <4>2. q.op = "download_url" => Operation(q) = download_url(q.agent)
          BY DEF Operation
        <4>3. q.op = "upload_url" => Operation(q) = upload_url(q.agent)
          BY DEF Operation
        <4>4. CASE q.op \in {"download_url", "upload_url"}
          BY <1>2, <4>1, <4>2, <4>3, <4>4, UrlsCreate DEF Draws
        <4>5. CASE q.op \in {"list", "read", "write", "delete", "config", "apply", "sensitive", "update", "tokens"}
          <5>1. Plain(Operation(q))
            BY <1>2, <4>5, OperationsArePlain DEF Operation
          <5>. QED BY <3>1, <4>1, <5>1
        <4>. QED BY <1>4, <3>6, <4>4, <4>5 DEF Operations, Strict
      <3>. QED BY <1>2, <3>2, <3>3, <3>4, <3>5, <3>6
    <2>. QED BY <1>4, <2>1 DEF WellFormed, Once, Strict
  <1>. QED BY <1>3, <1>4

-----------------------------------------------------------------------------
(* The beginning. *)

LEMMA OnceInit == OperationsInit => OnceInv
  <1> SUFFICES ASSUME OperationsInit PROVE OnceInv
    OBVIOUS
  <1>1. PICK x \in Stored : users = x.users /\ creds = x.creds /\ agents = x.agents /\ tokens = x.tokens /\ rows = x.rows
    BY DEF OperationsInit, TransfersInit
  <1>2. hits = [k \in Ips \cup Tokens |-> 0] /\ sent = {} /\ torn = {} /\ faults = 0
    BY DEF OperationsInit, TransfersInit
  <1>3. PICK w \in Workloads :
          live = {[q |-> q, todo |-> Program(q), begun |-> FALSE, admin |-> FALSE, out |-> "none",
                   tool |-> "none", got |-> Nothing, among |-> {}, svcs |-> {}, show |-> {}, ever |-> Facts] : q \in w}
    BY DEF OperationsInit, TransfersInit
  <1>4. /\ TablesOK(users, creds, agents, tokens) /\ rows \in [Rows -> ReadRows]
        /\ \A t \in Tokens : tokens[t] # Nothing => tokens[t].used \in {"no", "failed"} /\ ~tokens[t].dead
        /\ \A q \in w : Draws(q) => tokens[q.token] = Nothing
    BY <1>1, StoredAssumption
  <1>5. OperationsTypeOK
    <2>1. faults \in 0..MaxFaults
      BY <1>2, TransfersAssumption
    <2>2. hits \in [Ips \cup Tokens -> Nat]
      BY <1>2
    <2>. QED BY <1>2, <1>4, <2>1, <2>2 DEF OperationsTypeOK, TransfersTypeOK
  <1>6. ASSUME NEW r \in live
        PROVE  /\ r.q \in w /\ r.todo = Program(r.q) /\ r.begun = FALSE /\ r.among = {} /\ Shaped(r)
               /\ \A s \in live : s.q = r.q => s = r
    <2>1. PICK q \in w : r = [q |-> q, todo |-> Program(q), begun |-> FALSE, admin |-> FALSE, out |-> "none",
                   tool |-> "none", got |-> Nothing, among |-> {}, svcs |-> {}, show |-> {}, ever |-> Facts]
      BY <1>3, <1>6
    <2>2. r.q \in w /\ r.todo = Program(r.q) /\ r.begun = FALSE /\ r.among = {} /\ Shaped(r)
      BY <2>1 DEF Shaped, Fields
    <2>3. ASSUME NEW s \in live, s.q = r.q PROVE s = r
      <3>1. PICK p \in w : s = [q |-> p, todo |-> Program(p), begun |-> FALSE, admin |-> FALSE, out |-> "none",
                   tool |-> "none", got |-> Nothing, among |-> {}, svcs |-> {}, show |-> {}, ever |-> Facts]
        BY <1>3
      <3>2. p = q
        BY <2>1, <2>3, <3>1
      <3>. QED BY <2>1, <3>1, <3>2
    <2>. QED BY <2>2, <2>3
  <1>7. ASSUME NEW r \in live PROVE Sound(r) /\ Holds(r, tokens, sent)
    <2>1. /\ r.q \in Requests /\ r.begun \in BOOLEAN /\ r.among \subseteq Targets /\ WellFormed(r.todo, r.q) /\ Shaped(r)
          /\ r.q.op \in {"download", "upload"} => r.todo # <<>> /\ r.todo[1][1] = "ip"
          /\ r.q.op = "revoke" => r.todo # <<>> /\ r.todo[1][1] = "auth"
      <3>1. r.q \in w /\ r.todo = Program(r.q) /\ r.begun = FALSE /\ r.among = {} /\ Shaped(r) /\ w \subseteq Requests
        BY <1>6, WorkloadsAssumption
      <3>2. /\ WellFormed(Program(r.q), r.q)
            /\ r.q.op \in {"download", "upload"} => Program(r.q) # <<>> /\ Program(r.q)[1][1] = "ip"
            /\ r.q.op = "revoke" => Program(r.q) # <<>> /\ Program(r.q)[1][1] = "auth"
        BY <3>1, ProgramsAreWellFormed
      <3>. QED BY <3>1, <3>2
    <2>2. Creates(r.todo) => tokens[r.q.token] = Nothing
      BY <1>4, <1>6, <2>1 DEF WellFormed
    <2>3. Redeems(r) => HoldsToken(r, tokens[r.q.token], sent)
      BY <2>1 DEF Redeems, HoldsToken, Stage, Using
    <2>4. r.q.op = "revoke" => Stage(r) \notin {"mine", "revoke"}
      BY <2>1 DEF Stage
    <2>. QED BY <2>1, <2>2, <2>3, <2>4 DEF Sound, Holds
  <1>8. Apart(live)
    <2>1. ASSUME NEW r \in live, NEW s \in live, r.q.id = s.q.id \/ (Draws(r.q) /\ Draws(s.q) /\ r.q.token = s.q.token) PROVE r = s
      <3>1. r.q \in w /\ s.q \in w
        BY <1>6
      <3>2. r.q = s.q
        BY <2>1, <3>1, WorkloadsAssumption
      <3>. QED BY <1>6, <3>2
    <2>. QED BY <2>1 DEF Apart
  <1>9. \A t \in Tokens : tokens[t] # Nothing => Accounted(t, tokens[t], live, sent, torn)
    BY <1>4 DEF Accounted
  <1>10. Recorded(tokens, sent)
    BY <1>2 DEF Recorded
  <1>. QED BY <1>5, <1>7, <1>8, <1>9, <1>10 DEF OnceInv, TokensHold, TokensInv

-----------------------------------------------------------------------------
(* What requests remember is of no matter. *)

Same(r, s) == Shaped(s) /\ s.q = r.q /\ s.todo = r.todo /\ s.begun = r.begun /\ s.out = r.out /\ s.among = r.among

LEMMA SameIsSame ==
    ASSUME NEW r, NEW s, Same(r, s), NEW ts, NEW se
    PROVE  /\ Sound(r) => Sound(s)
           /\ Holds(r, ts, se) => Holds(s, ts, se)
           /\ \A t, rec : Serves(r, t, rec) => Serves(s, t, rec)
  <1>1. Stage(r) = Stage(s) /\ Redeems(r) = Redeems(s)
    BY DEF Same, Stage, Redeems
  <1>2. Sound(r) => Sound(s)
    BY DEF Same, Sound
  <1>3. Holds(r, ts, se) => Holds(s, ts, se)
    BY <1>1 DEF Same, Holds, HoldsToken
  <1>4. \A t, rec : Serves(r, t, rec) => Serves(s, t, rec)
    BY <1>1 DEF Same, Serves
  <1>. QED BY <1>2, <1>3, <1>4

LEMMA Remembered ==
    ASSUME NEW L, \A r \in L : Shaped(r), live' = Noted(L)
    PROVE  /\ \A s \in live' : \E r \in L : Same(r, s)
           /\ \A r \in L : \E s \in live' : Same(r, s)
           /\ Apart(L) => Apart(live')
  <1> DEFINE N(r) == [r EXCEPT !.ever = IF r.begun THEN r.ever \cup Facts' ELSE Facts']
  <1>1. live' = {N(r) : r \in L}
    BY DEF Noted
  <1>2. ASSUME NEW r \in L PROVE Same(r, N(r))
    BY DEF Same, Shaped, Fields
  <1> HIDE DEF N
  <1>3. Apart(L) => Apart(live')
    <2>1. ASSUME Apart(L), NEW s \in live', NEW z \in live', s.q.id = z.q.id \/ (Draws(s.q) /\ Draws(z.q) /\ s.q.token = z.q.token) PROVE s = z
      <3>1. PICK r \in L : s = N(r)
        BY <1>1
      <3>2. PICK y \in L : z = N(y)
        BY <1>1
      <3>3. s.q = r.q /\ z.q = y.q
        BY <1>2, <3>1, <3>2 DEF Same
      <3>4. r = y
        BY <2>1, <3>3 DEF Apart
      <3>. QED BY <3>1, <3>2, <3>4
    <2>. QED BY <2>1 DEF Apart
  <1>. QED BY <1>1, <1>2, <1>3

\* The invariant of a set of requests is that of the set with its notes.
LEMMA Carried ==
    ASSUME NEW L, NEW ts, NEW se, NEW to, TokensInv(L, ts, se, to), live' = Noted(L)
    PROVE  TokensInv(live', ts, se, to)
  <1>0. \A r \in L : Shaped(r)
    BY DEF TokensInv, Sound
  <1>1. /\ \A s \in live' : \E r \in L : Same(r, s)
        /\ \A r \in L : \E s \in live' : Same(r, s)
        /\ Apart(live')
    BY <1>0, Remembered DEF TokensInv
  <1>2. \A s \in live' : Sound(s) /\ Holds(s, ts, se)
    BY <1>1, SameIsSame DEF TokensInv
  <1>3. ASSUME NEW t, NEW rec, \E r \in L : Serves(r, t, rec) PROVE \E s \in live' : Serves(s, t, rec)
    BY <1>1, <1>3, SameIsSame
  <1>4. \A t \in Tokens : ts[t] # Nothing => Accounted(t, ts[t], live', se, to)
    BY <1>3 DEF TokensInv, Accounted
  <1>. QED BY <1>1, <1>2, <1>4 DEF TokensInv

-----------------------------------------------------------------------------
(* One request goes on or ends; the others stay as they are. *)

\* What L says of r: it ended, or x is what became of it.
Became(L, r, x) == L = (live \ {r}) \cup {x} /\ x.q = r.q /\ Sound(x)
Ended(L, r) == L = live \ {r}

LEMMA ApartStill ==
    ASSUME TokensHold, NEW r \in live, NEW x, NEW L, Became(L, r, x) \/ Ended(L, r)
    PROVE  Apart(L)
  <1>1. Apart(live)
    BY DEF TokensHold, TokensInv
  <1>2. CASE Ended(L, r)
    BY <1>1, <1>2 DEF Apart, Ended
  <1>3. CASE Became(L, r, x)
    <2>1. ASSUME NEW y \in L, NEW z \in L, y.q.id = z.q.id \/ (Draws(y.q) /\ Draws(z.q) /\ y.q.token = z.q.token) PROVE y = z
      <3>1. y \in live \/ y = x
        BY <1>3 DEF Became
      <3>2. z \in live \/ z = x
        BY <1>3 DEF Became
      <3>3. CASE y = x /\ z # x
        <4>1. z \in live /\ z # r
          BY <1>3, <3>3 DEF Became
        <4>2. r.q.id = z.q.id \/ (Draws(r.q) /\ Draws(z.q) /\ r.q.token = z.q.token)
          BY <1>3, <2>1, <3>3 DEF Became
        <4>. QED BY <1>1, <4>1, <4>2 DEF Apart
      <3>4. CASE z = x /\ y # x
        <4>1. y \in live /\ y # r
          BY <1>3, <3>4 DEF Became
        <4>2. y.q.id = r.q.id \/ (Draws(y.q) /\ Draws(r.q) /\ y.q.token = r.q.token)
          BY <1>3, <2>1, <3>4 DEF Became
        <4>. QED BY <1>1, <4>1, <4>2 DEF Apart
      <3>5. CASE y # x /\ z # x
        BY <1>1, <2>1, <3>1, <3>2, <3>5 DEF Apart
      <3>. QED BY <3>3, <3>4, <3>5
    <2>. QED BY <2>1 DEF Apart
  <1>. QED BY <1>2, <1>3

\* Tokens stay as they are.
LEMMA Passes ==
    ASSUME TokensHold, NEW r \in live, NEW x, NEW L, NEW to, torn \subseteq to,
           (Became(L, r, x) /\ Holds(x, tokens, sent)) \/ Ended(L, r),
           \A t \in Tokens : tokens[t] # Nothing /\ Serves(r, t, tokens[t]) =>
               t \in to \/ (Became(L, r, x) /\ Serves(x, t, tokens[t]))
    PROVE  TokensInv(L, tokens, sent, to)
  <1>1. Apart(L)
    BY ApartStill
  <1>2. \A s \in L : Sound(s) /\ Holds(s, tokens, sent)
    BY DEF Became, Ended, TokensHold, TokensInv
  <1>3. ASSUME NEW t \in Tokens, tokens[t] # Nothing PROVE Accounted(t, tokens[t], L, sent, to)
    <2>1. Accounted(t, tokens[t], live, sent, torn)
      BY <1>3 DEF TokensHold, TokensInv
    <2>2. ASSUME tokens[t].used \in {"receiving", "started"}, t \notin to PROVE \E s \in L : Serves(s, t, tokens[t])
      <3>1. PICK s \in live : Serves(s, t, tokens[t])
        BY <2>1, <2>2 DEF Accounted
      <3>2. CASE s = r
        BY <1>3, <2>2, <3>1, <3>2 DEF Became
      <3>3. CASE s # r
        BY <3>1, <3>3 DEF Became, Ended
      <3>. QED BY <3>2, <3>3
    <2>. QED BY <2>1, <2>2 DEF Accounted
  <1>4. Recorded(tokens, sent)
    BY DEF TokensHold, TokensInv
  <1>. QED BY <1>1, <1>2, <1>3, <1>4 DEF TokensInv

\* Another request finds its token as it left it.
Spares(r, old, new) ==
    /\ new # Nothing
    /\ old = Nothing => Draws(r.q)
    /\ old # Nothing =>
          \/ old.used \notin {"receiving", "started"} \/ old.by = r.q.id
          \/ old.used = new.used /\ old.by = new.by
LEMMA OthersHold ==
    ASSUME TokensHold, NEW r \in live, NEW ts, NEW t, t = r.q.token, \A u \in Tokens \ {t} : ts[u] = tokens[u],
           Spares(r, tokens[t], ts[t]), NEW s \in live, s # r
    PROVE  Holds(s, ts, sent)
  <1>1. Holds(s, tokens, sent) /\ Sound(s) /\ Sound(r) /\ s.q.id # r.q.id
    BY DEF TokensHold, TokensInv, Apart
  <1>2. s.q.token \in Tokens
    BY <1>1 DEF Sound, Requests
  <1>3. CASE s.q.token # t
    BY <1>1, <1>2, <1>3 DEF Holds
  <1>4. CASE s.q.token = t
    <2>1. Creates(s.todo) => FALSE
      <3>1. SUFFICES ASSUME Creates(s.todo) PROVE FALSE
        OBVIOUS
      <3>2. tokens[t] = Nothing /\ Draws(s.q) /\ Draws(r.q)
        BY <1>1, <1>4, <3>1 DEF Holds, Sound, WellFormed, Spares
      <3>. QED BY <1>4, <3>2 DEF TokensHold, TokensInv, Apart
    <2>2. Redeems(s) => HoldsToken(s, ts[t], sent)
      <3>1. SUFFICES ASSUME Redeems(s) PROVE HoldsToken(s, ts[t], sent)
        OBVIOUS
      <3>2. HoldsToken(s, tokens[t], sent)
        BY <1>1, <1>4, <3>1 DEF Holds
      <3>3. CASE Stage(s) \in {"body", "commit"} \cup Using
        <4>1. tokens[t] # Nothing /\ tokens[t].used \in {"receiving", "started"} /\ tokens[t].by = s.q.id
          BY <3>2, <3>3 DEF HoldsToken
        <4>2. tokens[t].used = ts[t].used /\ tokens[t].by = ts[t].by /\ ts[t] # Nothing
          BY <1>1, <4>1 DEF Spares
        <4>. QED BY <3>2, <4>1, <4>2 DEF HoldsToken
      <3>4. CASE Stage(s) \notin {"body", "commit"} \cup Using
        BY <3>2, <3>4 DEF HoldsToken, Using
      <3>. QED BY <3>3, <3>4
    <2>3. ts[t] # Nothing
      BY DEF Spares
    <2>. QED BY <1>4, <2>1, <2>2, <2>3 DEF Holds
  <1>. QED BY <1>3, <1>4

\* A token changes in the hands of a request.
LEMMA Writes ==
    ASSUME TokensHold, sent \subseteq Tokens \X Nat, NEW r \in live, NEW x, NEW L, NEW to, torn \subseteq to, NEW ts, NEW t, t = r.q.token,
           \A u \in Tokens \ {t} : ts[u] = tokens[u], Spares(r, tokens[t], ts[t]),
           (Became(L, r, x) /\ Holds(x, ts, sent)) \/ Ended(L, r),
           Accounted(t, ts[t], L, sent, to),
           \A y \in sent : y[1] = t => ts[t].used \in {"started", "success", "failed"} /\ ts[t].by = y[2]
    PROVE  TokensInv(L, ts, sent, to)
  <1>1. Apart(L)
    BY ApartStill
  <1>2. \A s \in L : Sound(s) /\ Holds(s, ts, sent)
    <2>1. \A s \in live : s # r => Sound(s) /\ Holds(s, ts, sent)
      BY OthersHold DEF TokensHold, TokensInv
    <2>. QED BY <2>1 DEF Became, Ended
  <1>3. ASSUME NEW u \in Tokens, ts[u] # Nothing, u # t PROVE Accounted(u, ts[u], L, sent, to)
    <2>0. ts[u] = tokens[u]
      BY <1>3
    <2>1. Accounted(u, ts[u], live, sent, torn)
      BY <1>3, <2>0 DEF TokensHold, TokensInv
    <2>2. ASSUME ts[u].used \in {"receiving", "started"}, u \notin to PROVE \E s \in L : Serves(s, u, ts[u])
      <3>1. PICK s \in live : Serves(s, u, ts[u])
        BY <2>1, <2>2 DEF Accounted
      <3>2. s # r
        BY <1>3, <3>1 DEF Serves
      <3>. QED BY <3>1, <3>2 DEF Became, Ended
    <2>. QED BY <2>1, <2>2 DEF Accounted
  <1>4. Recorded(ts, sent)
    <2>1. Recorded(tokens, sent)
      BY DEF TokensHold, TokensInv
    <2>2. ASSUME NEW y \in sent PROVE ts[y[1]] # Nothing /\ ts[y[1]].used \in {"started", "success", "failed"} /\ ts[y[1]].by = y[2]
      <3>1. CASE y[1] = t
        BY <3>1 DEF Spares
      <3>2. CASE y[1] # t
        <4>1. y[1] \in Tokens \ {t}
          BY <3>2
        <4>. QED BY <2>1, <4>1 DEF Recorded
      <3>. QED BY <3>1, <3>2
    <2>. QED BY <2>2 DEF Recorded
  <1>. QED BY <1>1, <1>2, <1>3, <1>4 DEF TokensInv

-----------------------------------------------------------------------------
(* Steps that leave the tokens alone. *)

\* r with its first step done.
Continues(r, x) == Shaped(x) /\ x.q = r.q /\ x.todo = Tail(r.todo) /\ x.begun = TRUE /\ x.among \subseteq Targets

LEMMA ContinuesIsSound ==
    ASSUME NEW r, NEW x, Sound(r), r.todo # <<>>, Continues(r, x)
    PROVE  Sound(x) /\ (Creates(x.todo) => Creates(r.todo)) /\ (Stage(r) = "create" => ~Creates(x.todo))
  <1>1. WellFormed(r.todo, r.q) /\ x.todo = Tail(r.todo) /\ x.q = r.q
    BY DEF Sound, Continues
  <1>2. /\ WellFormed(x.todo, x.q) /\ (Creates(x.todo) => Creates(r.todo))
        /\ r.todo[1][1] = "create" => ~Creates(x.todo)
    BY <1>1, TailIsWellFormed
  <1>3. Sound(x)
    BY <1>2 DEF Sound, Continues
  <1>. QED BY <1>2, <1>3 DEF Stage

LEMMA StrictStages ==
    ASSUME NEW r, Sound(r), r.q.op \in Strict
    PROVE  /\ r.q.op = "revoke" => Stage(r) \in {"end", "auth", "find", "mine", "revoke"}
           /\ r.q.op # "revoke" => Stage(r) \in {"end", "ip", "record", "issuer", "held", "server", "limit", "consume", "reserve", "body", "commit",
                                                 "reach", "send", "reply", "result"}
           /\ ~Creates(r.todo)
  <1>1. r.todo \in Seq(StepRows) /\ Linked(r.todo, r.q.op)
    BY DEF Sound, WellFormed
  <1>2. CASE r.todo # <<>>
    <2>1. IF Tail(r.todo) = <<>> THEN r.todo[1][1] = LastOf(r.q.op) ELSE <<r.todo[1][1], Tail(r.todo)[1][1]>> \in Links(r.q.op)
      BY <1>1, <1>2, LinkedNext
    <2>2. ~Creates(r.todo)
      BY DEF Sound, WellFormed, Draws, Strict
    <2>. QED BY <1>2, <2>1, <2>2 DEF Stage, LastOf, Links, Strict
  <1>3. CASE r.todo = <<>>
    BY <1>3 DEF Stage, Creates
  <1>. QED BY <1>2, <1>3

LEMMA StrictNext ==
    ASSUME NEW r, NEW x, Sound(r), r.q.op \in Strict, r.todo # <<>>, Continues(r, x)
    PROVE  /\ Stage(x) = "end" => Stage(r) = LastOf(r.q.op)
           /\ Stage(x) # "end" => <<Stage(r), Stage(x)>> \in Links(r.q.op)
  <1>1. r.todo \in Seq(StepRows) /\ Linked(r.todo, r.q.op)
    BY DEF Sound, WellFormed
  <1>2. IF Tail(r.todo) = <<>> THEN r.todo[1][1] = LastOf(r.q.op) ELSE <<r.todo[1][1], Tail(r.todo)[1][1]>> \in Links(r.q.op)
    BY <1>1, LinkedNext
  <1>3. \A y : <<y, "end">> \notin Links(r.q.op)
    BY DEF Links
  <1>. QED BY <1>2, <1>3 DEF Stage, Continues

\* Those that are strict are never at these steps.
LEMMA NotStrict ==
    ASSUME NEW r, Sound(r), Stage(r) \notin {"end", "auth", "find", "mine", "revoke", "ip", "record", "issuer", "held", "server", "limit",
                                             "consume", "reserve", "body", "commit", "reach", "send", "reply", "result"}
    PROVE  r.q.op \notin Strict
  BY StrictStages

LEMMA AtIsStage == ASSUME NEW r, NEW s, At(r, s) PROVE r.todo # <<>> /\ Stage(r) = s
  BY DEF At, Stage

LEMMA PlainGo ==
    ASSUME TokensHold, NEW r \in live, r.q.op \notin Strict, UNCHANGED <<tokens, sent>>, torn \subseteq torn', NEW x, Goto(r, x),
           Shaped(x), x.q = r.q, x.begun \in BOOLEAN, x.among \subseteq Targets, WellFormed(x.todo, r.q), Creates(x.todo) => Creates(r.todo)
    PROVE  TokensHold'
  <1> DEFINE L == (live \ {r}) \cup {x}
  <1>1. Sound(r) /\ Holds(r, tokens, sent)
    BY DEF TokensHold, TokensInv
  <1>2. Sound(x)
    BY <1>1 DEF Sound
  <1>3. Became(L, r, x)
    BY <1>2 DEF Became
  <1>4. ~Redeems(r) /\ ~Redeems(x) /\ x.q.op # "revoke"
    BY DEF Redeems, Strict
  <1>5. Holds(x, tokens, sent)
    BY <1>1, <1>4 DEF Holds
  <1>6. \A t : ~Serves(r, t, tokens[t])
    BY <1>4 DEF Serves
  <1>7. TokensInv(L, tokens, sent, torn')
    BY <1>3, <1>5, <1>6, Passes
  <1>8. TokensInv(live', tokens, sent, torn')
    BY <1>7, Carried DEF Goto
  <1>. QED BY <1>8 DEF TokensHold

LEMMA PlainNext ==
    ASSUME TokensHold, NEW r \in live, r.q.op \notin Strict, r.todo # <<>>, UNCHANGED <<tokens, sent>>, torn \subseteq torn',
           NEW x, Goto(r, x), Continues(r, x)
    PROVE  TokensHold'
  <1>1. Sound(r)
    BY DEF TokensHold, TokensInv
  <1>2. Sound(x) /\ (Creates(x.todo) => Creates(r.todo))
    BY <1>1, ContinuesIsSound
  <1>. QED BY <1>2, PlainGo DEF Continues, Sound

\* Whoever serves no token, or leaves it torn, ends.
LEMMA EndsQuietly ==
    ASSUME TokensHold, NEW r \in live, UNCHANGED <<tokens, sent>>, torn \subseteq torn', Ends(r),
           \A t \in Tokens : tokens[t] # Nothing /\ Serves(r, t, tokens[t]) => t \in torn'
    PROVE  TokensHold'
  <1> DEFINE L == live \ {r}
  <1>1. Ended(L, r)
    BY DEF Ended
  <1>2. TokensInv(L, tokens, sent, torn')
    BY <1>1, Passes
  <1>3. TokensInv(live', tokens, sent, torn')
    BY <1>2, Carried DEF Ends
  <1>. QED BY <1>3 DEF TokensHold

LEMMA IdleEnds ==
    ASSUME TokensHold, NEW r \in live, UNCHANGED <<tokens, sent>>, torn \subseteq torn', Ends(r),
           ~Redeems(r) \/ Stage(r) \notin {"body", "commit"} \cup Using
    PROVE  TokensHold'
  <1>1. \A t : ~Serves(r, t, tokens[t])
    BY DEF Serves
  <1>. QED BY <1>1, EndsQuietly

\* A set of numbers has a least one.
LEMMA LeastOf == ASSUME NEW S, S \subseteq Nat, S # {} PROVE \E i \in S : \A j \in S : i <= j
  <1> DEFINE Below == {ss \in Nat \X Nat : ss[1] < ss[2]}
  <1>1. IsWellFoundedOn(Below, Nat)
    BY NatLessThanWellFounded DEF OpToRel
  <1>2. PICK x \in S : \A y \in S : <<y, x>> \notin Below
    <2> HIDE DEF Below
    <2>. QED BY <1>1, WFMin
  <1>3. ASSUME NEW y \in S PROVE x <= y
    <2>1. <<y, x>> \notin Below
      BY <1>2
    <2>2. ~(y < x)
      BY <2>1
    <2>. QED BY <2>2
  <1>. QED BY <1>3

LEMMA PlainRefuses ==
    ASSUME TokensHold, NEW r \in live, r.q.op \notin Strict, UNCHANGED <<tokens, sent>>, torn \subseteq torn', Refuses(r)
    PROVE  TokensHold'
  <1>1. Sound(r) /\ ~Redeems(r)
    BY DEF TokensHold, TokensInv, Redeems, Strict
  <1>2. CASE Marks(r) = {}
    BY <1>1, <1>2, IdleEnds DEF Refuses
  <1>3. CASE Marks(r) # {}
    <2> DEFINE k == CHOOSE i \in Marks(r) : \A j \in Marks(r) : i <= j
               x == [r EXCEPT !.todo = SubSeq(r.todo, k, Len(r.todo))]
    <2>1. Goto(r, x)
      BY <1>3 DEF Refuses
    <2>2. r.todo \in Seq(StepRows)
      BY <1>1 DEF Sound, WellFormed
    <2>3. Marks(r) \subseteq DOMAIN r.todo /\ DOMAIN r.todo \subseteq Nat
      BY <2>2 DEF Marks
    <2>4. k \in Marks(r)
      <3>1. \E i \in Marks(r) : \A j \in Marks(r) : i <= j
        <4>1. Marks(r) \subseteq Nat
          BY <2>3
        <4>. QED BY <4>1, <1>3, LeastOf
      <3>. QED BY <3>1
    <2>5. k \in DOMAIN r.todo
      BY <2>3, <2>4
    <2>6. Shaped(x) /\ x.q = r.q /\ x.begun = r.begun /\ x.among = r.among /\ x.todo = SubSeq(r.todo, k, Len(r.todo))
      BY <1>1 DEF Sound, Shaped, Fields
    <2> HIDE DEF x, k
    <2>7. WellFormed(x.todo, r.q) /\ (Creates(x.todo) => Creates(r.todo))
      BY <1>1, <2>5, <2>6, RestIsWellFormed DEF Sound
    <2>8. x.begun \in BOOLEAN /\ x.among \subseteq Targets
      BY <1>1, <2>6 DEF Sound
    <2>. QED BY <2>1, <2>6, <2>7, <2>8, PlainGo
  <1>. QED BY <1>2, <1>3

-----------------------------------------------------------------------------
(* Steps of those that use or revoke a token, which leave it alone. *)

\* r goes on as x, with what was sent as it was or more.
LEMMA StrictGo ==
    ASSUME TokensHold, NEW r \in live, UNCHANGED <<tokens, sent>>, torn \subseteq torn', NEW x, Goto(r, x), x.q = r.q, Sound(x),
           Holds(x, tokens, sent), \A t \in Tokens : tokens[t] # Nothing /\ Serves(r, t, tokens[t]) => Serves(x, t, tokens[t])
    PROVE  TokensHold'
  <1> DEFINE L == (live \ {r}) \cup {x}
  <1>1. Became(L, r, x)
    BY DEF Became
  <1>2. TokensInv(L, tokens, sent, torn')
    BY <1>1, Passes
  <1>3. TokensInv(live', tokens, sent, torn')
    BY <1>2, Carried DEF Goto
  <1>. QED BY <1>3 DEF TokensHold

LEMMA RevokeNext ==
    ASSUME TokensHold, NEW r \in live, r.q.op = "revoke", r.todo # <<>>, UNCHANGED <<tokens, sent>>, torn \subseteq torn', NEW x, Goto(r, x),
           Continues(r, x), Stage(r) = "find" => tokens[r.q.token] # Nothing
    PROVE  TokensHold'
  <1>1. Sound(r) /\ Holds(r, tokens, sent) /\ r.q.op \in Strict
    BY DEF TokensHold, TokensInv, Strict
  <1>2. Sound(x) /\ x.q = r.q
    BY <1>1, ContinuesIsSound DEF Continues
  <1>3. ~Creates(x.todo) /\ ~Redeems(r) /\ ~Redeems(x)
    BY <1>1, <1>2, StrictStages DEF Redeems
  <1>4. Stage(x) \in {"mine", "revoke"} => Stage(r) \in {"find", "mine"}
    BY <1>1, StrictNext DEF Links
  <1>5. Holds(x, tokens, sent)
    BY <1>1, <1>2, <1>3, <1>4 DEF Holds
  <1>6. \A t : ~Serves(r, t, tokens[t])
    BY <1>3 DEF Serves
  <1>. QED BY <1>2, <1>5, <1>6, StrictGo

Early == {"ip", "record", "issuer", "held", "server", "limit"}
LEMMA EarlyNext ==
    ASSUME TokensHold, NEW r \in live, Redeems(r), r.todo # <<>>, UNCHANGED <<tokens, sent>>, torn \subseteq torn', NEW x, Goto(r, x),
           Continues(r, x), Stage(r) \in Early
    PROVE  TokensHold'
  <1>1. Sound(r) /\ r.q.op \in Strict /\ r.q.op # "revoke"
    BY DEF TokensHold, TokensInv, Strict, Redeems
  <1>2. Sound(x) /\ x.q = r.q /\ x.begun = TRUE
    BY <1>1, ContinuesIsSound DEF Continues
  <1>3. ~Creates(x.todo)
    BY <1>1, <1>2, StrictStages
  <1>4. Stage(x) \in Early \cup {"consume", "reserve"}
    BY <1>1, StrictNext DEF Links, Early, LastOf
  <1>5. Holds(x, tokens, sent)
    BY <1>1, <1>2, <1>3, <1>4 DEF Holds, HoldsToken, Early, Using
  <1>6. \A t : ~Serves(r, t, tokens[t])
    BY DEF Serves, Early, Using
  <1>. QED BY <1>2, <1>5, <1>6, StrictGo

\* On the way to the Agent; an error leads to the result.
LEMMA UsingNext ==
    ASSUME TokensHold, NEW r \in live, Redeems(r), r.todo # <<>>, UNCHANGED <<tokens, sent>>, torn \subseteq torn', NEW x, Goto(r, x),
           Shaped(x), x.q = r.q, x.begun = TRUE, x.among \subseteq Targets,
           \/ Stage(r) = "reach" /\ x.todo = Tail(r.todo)
           \/ Stage(r) = "body" /\ x.todo = Tail(r.todo)
           \/ Stage(r) = "reply" /\ x.todo = Tail(r.todo) /\ x.out \in {"success", "failed"}
           \/ Stage(r) \in {"reach", "send"} /\ x.todo = <<Step("result", Nothing)>> /\ x.out = "failed"
    PROVE  TokensHold'
  <1>1. Sound(r) /\ Holds(r, tokens, sent) /\ r.q.op \in Strict /\ r.q.op # "revoke" /\ x.q = r.q /\ Redeems(x)
    BY DEF TokensHold, TokensInv, Strict, Redeems
  <1>2. HoldsToken(r, tokens[r.q.token], sent)
    BY <1>1 DEF Holds
  <1>3. CASE x.todo = Tail(r.todo) /\ ~(Stage(r) \in {"reach", "send"} /\ x.todo = <<Step("result", Nothing)>> /\ x.out = "failed")
    <2>1. Continues(r, x)
      BY <1>3 DEF Continues
    <2>2. Sound(x) /\ ~Creates(x.todo)
      BY <1>1, <2>1, ContinuesIsSound, StrictStages
    <2>3. /\ Stage(r) = "reach" => Stage(x) = "send"
          /\ Stage(r) = "body" => Stage(x) = "commit"
          /\ Stage(r) = "reply" => Stage(x) = "result"
      BY <1>1, <2>1, StrictNext DEF Links, LastOf
    <2>4. HoldsToken(x, tokens[x.q.token], sent)
      BY <1>1, <1>2, <1>3, <2>3 DEF HoldsToken, Using
    <2>5. Holds(x, tokens, sent)
      BY <1>1, <2>2, <2>4 DEF Holds
    <2>6. \A t : Serves(r, t, tokens[t]) => Serves(x, t, tokens[t])
      BY <1>1, <1>3, <2>3 DEF Serves, Using
    <2>. QED BY <2>2, <2>5, <2>6, StrictGo
  <1>4. CASE Stage(r) \in {"reach", "send"} /\ x.todo = <<Step("result", Nothing)>> /\ x.out = "failed"
    <2>1. Run(x.todo, r.q.op, "result", "result")
      <3>1. Step("result", Nothing) \in StepRows /\ Step("result", Nothing)[1] = "result"
        BY StepIsRow DEF StepNames
      <3>2. Run(<<Step("result", Nothing)>>, r.q.op, Step("result", Nothing)[1], Step("result", Nothing)[1])
        BY <3>1, RunOfOne
      <3>. QED BY <1>4, <3>1, <3>2
    <2>2. WellFormed(x.todo, r.q) /\ ~Creates(x.todo) /\ x.todo # <<>> /\ x.todo[1][1] = "result"
      <3>1. LastOf(r.q.op) = "result"
        BY <1>1 DEF LastOf
      <3>2. Run(x.todo, r.q.op, "result", LastOf(r.q.op))
        BY <2>1, <3>1
      <3>. QED BY <1>1, <3>2, RunIsWellFormed
    <2>3. Sound(x) /\ Stage(x) = "result"
      BY <1>1, <2>2 DEF Sound, Stage
    <2>4. HoldsToken(x, tokens[x.q.token], sent)
      BY <1>1, <1>2, <1>4, <2>3 DEF HoldsToken, Using
    <2>5. Holds(x, tokens, sent)
      BY <1>1, <2>2, <2>4 DEF Holds
    <2>6. \A t : Serves(r, t, tokens[t]) => Serves(x, t, tokens[t])
      BY <1>1, <1>4, <2>3 DEF Serves, Using
    <2>. QED BY <2>3, <2>5, <2>6, StrictGo
  <1>. QED BY <1>3, <1>4

\* What is sent for a token is recorded.
LEMMA SendingNext ==
    ASSUME TokensHold, NEW r \in live, Redeems(r), r.todo # <<>>, Stage(r) = "send", UNCHANGED <<tokens, torn>>,
           sent' = sent \cup {<<r.q.token, r.q.id>>}, NEW x, Goto(r, x), Continues(r, x)
    PROVE  TokensHold'
  <1> DEFINE L == (live \ {r}) \cup {x}
  <1>1. Sound(r) /\ Holds(r, tokens, sent) /\ r.q.op \in Strict /\ r.q.op # "revoke" /\ x.q = r.q /\ Redeems(x) /\ x.begun = TRUE
    BY DEF TokensHold, TokensInv, Strict, Redeems, Continues
  <1>2. HoldsToken(r, tokens[r.q.token], sent)
    BY <1>1 DEF Holds
  <1>3. Sound(x) /\ ~Creates(x.todo)
    BY <1>1, ContinuesIsSound, StrictStages
  <1>4. Stage(x) = "reply"
    BY <1>1, StrictNext DEF Links, LastOf
  <1>5. Holds(x, tokens, sent')
    BY <1>1, <1>2, <1>3, <1>4 DEF Holds, HoldsToken, Using
  <1>6. \A s \in live : Holds(s, tokens, sent')
    BY DEF TokensHold, TokensInv, Holds, HoldsToken
  <1>7. Became(L, r, x)
    BY <1>1, <1>3 DEF Became
  <1>8. Apart(L)
    BY <1>7, ApartStill
  <1>9. ASSUME NEW t \in Tokens, tokens[t] # Nothing PROVE Accounted(t, tokens[t], L, sent', torn)
    <2>1. Accounted(t, tokens[t], live, sent, torn)
      BY <1>9 DEF TokensHold, TokensInv
    <2>2. ASSUME NEW s \in live, Serves(s, t, tokens[t]) PROVE \E y \in L : Serves(y, t, tokens[t])
      <3>1. CASE s = r
        BY <1>1, <1>4, <2>2, <3>1 DEF Serves, Using
      <3>2. CASE s # r
        BY <2>2, <3>2
      <3>. QED BY <3>1, <3>2
    <2>. QED BY <2>1, <2>2 DEF Accounted
  <1>10. Recorded(tokens, sent')
    <2>1. tokens[r.q.token] # Nothing /\ tokens[r.q.token].used = "started" /\ tokens[r.q.token].by = r.q.id
      BY <1>2 DEF HoldsToken, Using
    <2>2. Recorded(tokens, sent)
      BY DEF TokensHold, TokensInv
    <2>. QED BY <2>1, <2>2 DEF Recorded
  <1>11. \A s \in L : Sound(s) /\ Holds(s, tokens, sent')
    BY <1>3, <1>5, <1>6 DEF TokensHold, TokensInv
  <1>12. TokensInv(L, tokens, sent', torn)
    BY <1>8, <1>9, <1>10, <1>11 DEF TokensInv
  <1>13. TokensInv(live', tokens, sent', torn)
    BY <1>12, Carried DEF Goto
  <1>. QED BY <1>13 DEF TokensHold

-----------------------------------------------------------------------------
(* Steps that change a token. *)

\* A row with some of its values changed.
Rewritten(t, u, b) == [tokens EXCEPT ![t].used = u, ![t].by = b]
Changed(t, u, b, ts) ==
    /\ TablesOK(users, creds, agents, ts) /\ ts[t] # Nothing /\ ts[t].used = u /\ ts[t].by = b
    /\ ts[t].revoked = tokens[t].revoked /\ ts[t].dead = tokens[t].dead
    /\ \A v \in Tokens \ {t} : ts[v] = tokens[v]
LEMMA RowUses ==
    ASSUME TablesOK(users, creds, agents, tokens), NEW t \in Tokens, tokens[t] # Nothing,
           NEW u \in {"no", "receiving", "started", "success", "failed"}, NEW b \in Nat \cup {Nothing}, b = Nothing <=> u = "no"
    PROVE  Changed(t, u, b, Rewritten(t, u, b))
  <1> DEFINE ts == Rewritten(t, u, b)
  <1>1. tokens \in [Tokens -> TokenRows \cup {Nothing}] /\ tokens[t] \in TokenRows
    BY DEF TablesOK
  <1>2. ts = [tokens EXCEPT ![t] = [tokens[t] EXCEPT !.used = u, !.by = b]]
    BY <1>1 DEF Rewritten
  <1> HIDE DEF ts
  <1>3. [tokens[t] EXCEPT !.used = u, !.by = b] \in TokenRows
    BY <1>1 DEF TokenRows
  <1>4. ts[t] = [tokens[t] EXCEPT !.used = u, !.by = b] /\ \A v \in Tokens \ {t} : ts[v] = tokens[v]
    BY <1>1, <1>2
  <1>5. ts \in [Tokens -> TokenRows \cup {Nothing}]
    BY <1>1, <1>2, <1>3
  <1>6. ts[t].used = u /\ ts[t].by = b /\ ts[t].revoked = tokens[t].revoked /\ ts[t].dead = tokens[t].dead
    BY <1>1, <1>4 DEF TokenRows
  <1>7. ts[t] # Nothing
    <2>1. Nothing \notin TokenRows
      BY TransfersAssumption
    <2>. QED BY <1>3, <1>4, <2>1
  <1>8. \A v \in Tokens : ts[v] # Nothing => (ts[v].by = Nothing) = (ts[v].used = "no")
    BY <1>4, <1>6 DEF TablesOK
  <1>. QED BY <1>4, <1>5, <1>6, <1>7, <1>8 DEF TablesOK, Changed, ts

\* The state of a step: the invariant, the request and its token.
Steps(r) == TokensHold /\ TransfersTypeOK /\ r \in live
LEMMA StepFacts ==
    ASSUME NEW r, Steps(r)
    PROVE  /\ Sound(r) /\ Holds(r, tokens, sent) /\ r.q.token \in Tokens /\ r.q.id \in Nat /\ r.q.agent \in Agents /\ r.q.by \in Creds
           /\ TablesOK(users, creds, agents, tokens) /\ sent \subseteq Tokens \X Nat
           /\ tokens[r.q.token] # Nothing => Accounted(r.q.token, tokens[r.q.token], live, sent, torn)
           /\ Recorded(tokens, sent)
           /\ Redeems(r) => HoldsToken(r, tokens[r.q.token], sent) /\ r.q.op \in Strict /\ r.q.op # "revoke" /\ ~Creates(r.todo)
  <1>1. Sound(r) /\ Holds(r, tokens, sent)
    BY DEF Steps, TokensHold, TokensInv
  <1>2. r.q.token \in Tokens /\ r.q.id \in Nat /\ r.q.agent \in Agents /\ r.q.by \in Creds
    BY <1>1 DEF Sound, Requests
  <1>3. TablesOK(users, creds, agents, tokens) /\ sent \subseteq Tokens \X Nat
    BY DEF Steps, TransfersTypeOK
  <1>4. /\ tokens[r.q.token] # Nothing => Accounted(r.q.token, tokens[r.q.token], live, sent, torn)
        /\ Recorded(tokens, sent)
    BY <1>2 DEF Steps, TokensHold, TokensInv
  <1>5. Redeems(r) => HoldsToken(r, tokens[r.q.token], sent) /\ r.q.op \in Strict /\ r.q.op # "revoke"
    BY <1>1 DEF Redeems, Holds, Strict
  <1>6. Redeems(r) => ~Creates(r.todo)
    BY <1>1, <1>5, StrictStages
  <1>. QED BY <1>1, <1>2, <1>3, <1>4, <1>5, <1>6

\* What is written when a request goes on, or ends.
LEMMA WritesGo ==
    ASSUME NEW r, Steps(r), NEW x, Goto(r, x), x.q = r.q, Sound(x), UNCHANGED sent, torn \subseteq torn',
           \A u \in Tokens \ {r.q.token} : tokens'[u] = tokens[u], Spares(r, tokens[r.q.token], tokens'[r.q.token]),
           Holds(x, tokens', sent), Accounted(r.q.token, tokens'[r.q.token], (live \ {r}) \cup {x}, sent, torn'),
           \A y \in sent : y[1] = r.q.token =>
               tokens'[r.q.token].used \in {"started", "success", "failed"} /\ tokens'[r.q.token].by = y[2]
    PROVE  TokensHold'
  <1> DEFINE L == (live \ {r}) \cup {x}
  <1>1. Became(L, r, x) /\ sent \subseteq Tokens \X Nat /\ TokensHold /\ r \in live
    BY DEF Became, Steps, TransfersTypeOK
  <1>2. TokensInv(L, tokens', sent, torn')
    BY <1>1, Writes
  <1>3. TokensInv(live', tokens', sent, torn')
    BY <1>2, Carried DEF Goto
  <1>. QED BY <1>3 DEF TokensHold

LEMMA WritesEnd ==
    ASSUME NEW r, Steps(r), Ends(r), UNCHANGED sent, torn \subseteq torn',
           \A u \in Tokens \ {r.q.token} : tokens'[u] = tokens[u], Spares(r, tokens[r.q.token], tokens'[r.q.token]),
           Accounted(r.q.token, tokens'[r.q.token], live \ {r}, sent, torn'),
           \A y \in sent : y[1] = r.q.token =>
               tokens'[r.q.token].used \in {"started", "success", "failed"} /\ tokens'[r.q.token].by = y[2]
    PROVE  TokensHold'
  <1> DEFINE L == live \ {r}
  <1>1. Ended(L, r) /\ sent \subseteq Tokens \X Nat /\ TokensHold /\ r \in live
    BY DEF Ended, Steps, TransfersTypeOK
  <1>2. TokensInv(L, tokens', sent, torn')
    BY <1>1, Writes
  <1>3. TokensInv(live', tokens', sent, torn')
    BY <1>2, Carried DEF Ends
  <1>. QED BY <1>3 DEF TokensHold

\* A free token is taken: consumed, or reserved for an upload.
LEMMA TakesToken ==
    ASSUME NEW r, Steps(r), Redeems(r), r.todo # <<>>, NEW x, Goto(r, x), Continues(r, x), UNCHANGED <<sent, torn>>,
           tokens[r.q.token] # Nothing, tokens[r.q.token].used = "no", ~tokens[r.q.token].revoked,
           NEW u, (Stage(r) = "consume" /\ u = "started") \/ (Stage(r) = "reserve" /\ u = "receiving"),
           tokens' = Rewritten(r.q.token, u, r.q.id)
    PROVE  TokensHold' /\ TablesOK(users, creds, agents, tokens')
  <1> DEFINE t == r.q.token
  <1>0. /\ Sound(r) /\ t \in Tokens /\ r.q.id \in Nat /\ TablesOK(users, creds, agents, tokens) /\ Recorded(tokens, sent)
        /\ Accounted(t, tokens[t], live, sent, torn) /\ r.q.op \in Strict /\ r.q.op # "revoke"
    BY StepFacts
  <1>1. r.q.id # Nothing
    BY <1>0, TransfersAssumption
  <1>2. /\ TablesOK(users, creds, agents, tokens') /\ tokens'[t] # Nothing /\ tokens'[t].used = u /\ tokens'[t].by = r.q.id
        /\ tokens'[t].revoked = tokens[t].revoked /\ tokens'[t].dead = tokens[t].dead
        /\ \A v \in Tokens \ {t} : tokens'[v] = tokens[v]
    <2>1. u \in {"no", "receiving", "started", "success", "failed"} /\ (r.q.id = Nothing <=> u = "no") /\ r.q.id \in Nat \cup {Nothing}
      BY <1>0, <1>1
    <2>2. tokens' = Rewritten(t, u, r.q.id)
      OBVIOUS
    <2>3. Changed(t, u, r.q.id, Rewritten(t, u, r.q.id))
      BY <1>0, <2>1, RowUses
    <2>. QED BY <2>2, <2>3 DEF Changed
  <1>3. Sound(x) /\ ~Creates(x.todo) /\ x.q = r.q /\ x.begun = TRUE /\ Redeems(x)
    BY <1>0, ContinuesIsSound, StrictStages DEF Continues, Redeems
  <1>4. (Stage(r) = "consume" => Stage(x) = "reach") /\ (Stage(r) = "reserve" => Stage(x) = "body")
    BY <1>0, StrictNext DEF Links, LastOf
  <1>5. Holds(x, tokens', sent)
    BY <1>0, <1>2, <1>3, <1>4 DEF Holds, HoldsToken, Using
  <1>6. Spares(r, tokens[t], tokens'[t])
    BY <1>2 DEF Spares
  <1>7. Accounted(t, tokens'[t], (live \ {r}) \cup {x}, sent, torn')
    <2>1. Serves(x, t, tokens'[t])
      BY <1>2, <1>3, <1>4 DEF Serves, Using
    <2>2. ~tokens[t].dead
      BY <1>0 DEF Accounted
    <2>. QED BY <1>2, <2>1, <2>2 DEF Accounted
  <1>8. \A y \in sent : y[1] # t
    BY <1>0 DEF Recorded
  <1>. QED BY <1>2, <1>3, <1>5, <1>6, <1>7, <1>8, WritesGo

\* A reservation is given back.
LEMMA GivesBack ==
    ASSUME NEW r, Steps(r), Redeems(r), Stage(r) \in {"body", "commit"}, Ends(r), UNCHANGED <<sent, torn>>,
           tokens' = release_upload_reservation(r)
    PROVE  TokensHold' /\ TablesOK(users, creds, agents, tokens')
  <1> DEFINE t == r.q.token
  <1>0. /\ Sound(r) /\ t \in Tokens /\ r.q.id \in Nat /\ TablesOK(users, creds, agents, tokens) /\ Recorded(tokens, sent)
        /\ HoldsToken(r, tokens[t], sent)
    BY StepFacts
  <1>1. tokens[t] # Nothing /\ tokens[t].used = "receiving" /\ tokens[t].by = r.q.id /\ Accounted(t, tokens[t], live, sent, torn)
    BY <1>0, StepFacts DEF HoldsToken
  <1>2. tokens' = [tokens EXCEPT ![t].used = "no", ![t].by = Nothing]
    BY <1>1 DEF release_upload_reservation, Reserved
  <1>3. /\ TablesOK(users, creds, agents, tokens') /\ tokens'[t] # Nothing /\ tokens'[t].used = "no" /\ tokens'[t].by = Nothing
        /\ tokens'[t].revoked = tokens[t].revoked /\ tokens'[t].dead = tokens[t].dead
        /\ \A v \in Tokens \ {t} : tokens'[v] = tokens[v]
    <2>1. Nothing \in Nat \cup {Nothing} /\ (Nothing = Nothing <=> "no" = "no")
      OBVIOUS
    <2>2. tokens' = Rewritten(t, "no", Nothing)
      BY <1>2 DEF Rewritten
    <2>3. Changed(t, "no", Nothing, Rewritten(t, "no", Nothing))
      BY <1>0, <1>1, <2>1, RowUses
    <2>. QED BY <2>2, <2>3 DEF Changed
  <1>4. Spares(r, tokens[t], tokens'[t])
    BY <1>1, <1>3 DEF Spares
  <1>5. Accounted(t, tokens'[t], live \ {r}, sent, torn')
    BY <1>1, <1>3 DEF Accounted
  <1>6. \A y \in sent : y[1] # t
    BY <1>0, <1>1 DEF Recorded
  <1>. QED BY <1>3, <1>4, <1>5, <1>6, WritesEnd

Reused(t, u) == [tokens EXCEPT ![t].used = u]
LEMMA UseOnly ==
    ASSUME TablesOK(users, creds, agents, tokens), NEW t \in Tokens, tokens[t] # Nothing, NEW u, NEW b, tokens[t].by = b
    PROVE  Reused(t, u) = Rewritten(t, u, b)
  <1>1. tokens \in [Tokens -> TokenRows \cup {Nothing}] /\ tokens[t] \in TokenRows
    BY DEF TablesOK
  <1>2. [tokens[t] EXCEPT !.used = u] = [tokens[t] EXCEPT !.used = u, !.by = b]
    BY <1>1 DEF TokenRows
  <1>3. Rewritten(t, u, b) = [tokens EXCEPT ![t] = [tokens[t] EXCEPT !.used = u, !.by = b]]
    BY <1>1 DEF Rewritten
  <1>. QED BY <1>2, <1>3 DEF Reused

\* An upload that has arrived is committed: its reservation becomes its use.
LEMMA Commits ==
    ASSUME NEW r, Steps(r), Redeems(r), r.todo # <<>>, Stage(r) = "commit", NEW x, Goto(r, x), Continues(r, x), UNCHANGED <<sent, torn>>,
           ~tokens[r.q.token].revoked, tokens' = Rewritten(r.q.token, "started", r.q.id)
    PROVE  TokensHold' /\ TablesOK(users, creds, agents, tokens')
  <1> DEFINE t == r.q.token
  <1>0. /\ Sound(r) /\ t \in Tokens /\ r.q.id \in Nat /\ TablesOK(users, creds, agents, tokens) /\ Recorded(tokens, sent)
        /\ HoldsToken(r, tokens[t], sent) /\ r.q.op \in Strict /\ r.q.op # "revoke"
    BY StepFacts
  <1>1. tokens[t] # Nothing /\ tokens[t].used = "receiving" /\ tokens[t].by = r.q.id /\ Accounted(t, tokens[t], live, sent, torn)
    BY <1>0, StepFacts DEF HoldsToken
  <1>2. /\ TablesOK(users, creds, agents, tokens') /\ tokens'[t] # Nothing /\ tokens'[t].used = "started" /\ tokens'[t].by = r.q.id
        /\ tokens'[t].revoked = tokens[t].revoked /\ tokens'[t].dead = tokens[t].dead
        /\ \A v \in Tokens \ {t} : tokens'[v] = tokens[v]
    <2>1. (r.q.id = Nothing <=> "started" = "no") /\ r.q.id \in Nat \cup {Nothing}
      BY <1>0, TransfersAssumption
    <2>2. Changed(t, "started", r.q.id, Rewritten(t, "started", r.q.id))
      BY <1>0, <1>1, <2>1, RowUses
    <2>. QED BY <2>2 DEF Changed
  <1>3. Sound(x) /\ ~Creates(x.todo) /\ x.q = r.q /\ x.begun = TRUE /\ Redeems(x)
    BY <1>0, ContinuesIsSound, StrictStages DEF Continues, Redeems
  <1>4. Stage(x) = "reach"
    BY <1>0, StrictNext DEF Links, LastOf
  <1>5. Holds(x, tokens', sent)
    BY <1>0, <1>2, <1>3, <1>4 DEF Holds, HoldsToken, Using
  <1>6. Spares(r, tokens[t], tokens'[t])
    BY <1>1, <1>2 DEF Spares
  <1>7. Accounted(t, tokens'[t], (live \ {r}) \cup {x}, sent, torn')
    <2>1. Serves(x, t, tokens'[t])
      BY <1>2, <1>3, <1>4 DEF Serves, Using
    <2>2. ~tokens[t].dead
      BY <1>1 DEF Accounted
    <2>. QED BY <1>2, <2>1, <2>2 DEF Accounted
  <1>8. \A y \in sent : y[1] # t
    BY <1>0, <1>1 DEF Recorded
  <1>. QED BY <1>2, <1>3, <1>5, <1>6, <1>7, <1>8, WritesGo

\* The result of a use is written.
LEMMA Results ==
    ASSUME NEW r, Steps(r), Redeems(r), Stage(r) = "result", Ends(r), UNCHANGED <<sent, torn>>,
           tokens' = Rewritten(r.q.token, r.out, r.q.id)
    PROVE  TokensHold' /\ TablesOK(users, creds, agents, tokens')
  <1> DEFINE t == r.q.token
  <1>0. /\ Sound(r) /\ t \in Tokens /\ r.q.id \in Nat /\ TablesOK(users, creds, agents, tokens) /\ Recorded(tokens, sent)
        /\ HoldsToken(r, tokens[t], sent)
    BY StepFacts
  <1>1. /\ tokens[t] # Nothing /\ tokens[t].used = "started" /\ tokens[t].by = r.q.id /\ Accounted(t, tokens[t], live, sent, torn)
        /\ r.out \in {"success", "failed"} /\ (r.out = "success" => <<t, r.q.id>> \in sent)
    BY <1>0, StepFacts DEF HoldsToken, Using
  <1>2. /\ TablesOK(users, creds, agents, tokens') /\ tokens'[t] # Nothing /\ tokens'[t].used = r.out /\ tokens'[t].by = r.q.id
        /\ tokens'[t].revoked = tokens[t].revoked /\ tokens'[t].dead = tokens[t].dead
        /\ \A v \in Tokens \ {t} : tokens'[v] = tokens[v]
    <2>1. /\ r.out \in {"no", "receiving", "started", "success", "failed"} /\ (r.q.id = Nothing <=> r.out = "no")
          /\ r.q.id \in Nat \cup {Nothing}
      BY <1>0, <1>1, TransfersAssumption
    <2>2. Changed(t, r.out, r.q.id, Rewritten(t, r.out, r.q.id))
      BY <1>0, <1>1, <2>1, RowUses
    <2>. QED BY <2>2 DEF Changed
  <1>3. Spares(r, tokens[t], tokens'[t])
    BY <1>1, <1>2 DEF Spares
  <1>4. Accounted(t, tokens'[t], live \ {r}, sent, torn')
    BY <1>1, <1>2 DEF Accounted
  <1>5. ASSUME NEW y \in sent, y[1] = t PROVE tokens'[t].used \in {"started", "success", "failed"} /\ tokens'[t].by = y[2]
    BY <1>0, <1>1, <1>2, <1>5 DEF Recorded
  <1>. QED BY <1>2, <1>3, <1>4, <1>5, WritesEnd

\* A row is written whole.
Put(t, rec) == [tokens EXCEPT ![t] = rec]
Holding(t, rec, ts) ==
    TablesOK(users, creds, agents, ts) /\ ts[t] = rec /\ ts[t] # Nothing /\ \A v \in Tokens \ {t} : ts[v] = tokens[v]
LEMMA RowPut ==
    ASSUME TablesOK(users, creds, agents, tokens), NEW t \in Tokens, NEW rec \in TokenRows, rec.by = Nothing <=> rec.used = "no"
    PROVE  Holding(t, rec, Put(t, rec))
  <1> DEFINE ts == Put(t, rec)
  <1>1. tokens \in [Tokens -> TokenRows \cup {Nothing}]
    BY DEF TablesOK
  <1>2. ts \in [Tokens -> TokenRows \cup {Nothing}] /\ ts[t] = rec /\ \A v \in Tokens \ {t} : ts[v] = tokens[v]
    BY <1>1 DEF Put
  <1> HIDE DEF ts
  <1>3. rec # Nothing
    BY TransfersAssumption
  <1>4. \A v \in Tokens : ts[v] # Nothing => (ts[v].by = Nothing) = (ts[v].used = "no")
    BY <1>2 DEF TablesOK
  <1>. QED BY <1>2, <1>3, <1>4 DEF TablesOK, Holding, ts

\* A token is issued.
LEMMA CreatesToken ==
    ASSUME NEW r, Steps(r), At(r, "create"), NEW x, Goto(r, x), Continues(r, x), UNCHANGED <<sent, torn>>,
           NEW rec \in TokenRows, rec.used = "no", rec.by = Nothing, ~rec.dead, tokens' = Put(r.q.token, rec)
    PROVE  TokensHold' /\ TablesOK(users, creds, agents, tokens')
  <1> DEFINE t == r.q.token
  <1>0. /\ Sound(r) /\ Holds(r, tokens, sent) /\ t \in Tokens /\ TablesOK(users, creds, agents, tokens) /\ Recorded(tokens, sent)
    BY StepFacts
  <1>1. r.todo # <<>> /\ Stage(r) = "create" /\ r.todo \in Seq(StepRows)
    BY <1>0, AtIsStage DEF Sound, WellFormed
  <1>2. Creates(r.todo)
    <2>1. 1 \in DOMAIN r.todo
      BY <1>1, TailOf
    <2>. QED BY <1>1, <2>1 DEF Creates, Stage
  <1>3. r.q.op \notin Strict /\ Draws(r.q) /\ tokens[t] = Nothing
    BY <1>0, <1>2, StrictStages DEF Sound, WellFormed, Holds
  <1>4. /\ TablesOK(users, creds, agents, tokens') /\ tokens'[t] = rec /\ tokens'[t] # Nothing
        /\ \A v \in Tokens \ {t} : tokens'[v] = tokens[v]
    <2>1. Holding(t, rec, Put(t, rec))
      BY <1>0, RowPut
    <2>. QED BY <2>1 DEF Holding
  <1>5. Sound(x) /\ ~Creates(x.todo) /\ x.q = r.q
    BY <1>0, <1>1, ContinuesIsSound DEF Continues
  <1>6. Holds(x, tokens', sent)
    BY <1>3, <1>5 DEF Holds, Redeems, Strict
  <1>7. Spares(r, tokens[t], tokens'[t])
    BY <1>3, <1>4 DEF Spares
  <1>8. Accounted(t, tokens'[t], (live \ {r}) \cup {x}, sent, torn')
    BY <1>4 DEF Accounted
  <1>9. \A y \in sent : y[1] # t
    BY <1>0, <1>3 DEF Recorded
  <1>. QED BY <1>4, <1>5, <1>6, <1>7, <1>8, <1>9, WritesGo

\* A token is revoked, or expires: its use is as it was.
SameUse(rec, old) == rec.used = old.used /\ rec.by = old.by
LEMMA RevokesToken ==
    ASSUME NEW r, Steps(r), r.q.op = "revoke", Stage(r) = "revoke", r.todo # <<>>, NEW x, Goto(r, x), Continues(r, x), UNCHANGED <<sent, torn>>,
           NEW rec \in TokenRows, SameUse(rec, tokens[r.q.token]), rec.revoked, rec.dead => rec.used \in {"no", "receiving"},
           tokens' = Put(r.q.token, rec)
    PROVE  TokensHold' /\ TablesOK(users, creds, agents, tokens')
  <1> DEFINE t == r.q.token
  <1>0. /\ Sound(r) /\ Holds(r, tokens, sent) /\ t \in Tokens /\ TablesOK(users, creds, agents, tokens) /\ Recorded(tokens, sent)
        /\ r.q.op \in Strict
    BY StepFacts DEF Strict
  <1>1. tokens[t] # Nothing /\ ~Redeems(r) /\ Accounted(t, tokens[t], live, sent, torn)
    BY <1>0, StepFacts DEF Holds, Redeems
  <1>2. rec.by = Nothing <=> rec.used = "no"
    BY <1>0, <1>1 DEF SameUse, TablesOK
  <1>3. /\ TablesOK(users, creds, agents, tokens') /\ tokens'[t] = rec /\ tokens'[t] # Nothing
        /\ \A v \in Tokens \ {t} : tokens'[v] = tokens[v]
    <2>1. Holding(t, rec, Put(t, rec))
      BY <1>0, <1>2, RowPut
    <2>. QED BY <2>1 DEF Holding
  <1>4. Sound(x) /\ ~Creates(x.todo) /\ x.q = r.q /\ ~Redeems(x)
    BY <1>0, <1>1, ContinuesIsSound, StrictStages DEF Continues, Redeems
  <1>5. Stage(x) = "end"
    BY <1>0, StrictNext DEF Links
  <1>6. Holds(x, tokens', sent)
    BY <1>4, <1>5 DEF Holds
  <1>7. Spares(r, tokens[t], tokens'[t])
    BY <1>1, <1>3 DEF Spares, SameUse
  <1>8. Accounted(t, tokens'[t], (live \ {r}) \cup {x}, sent, torn')
    <2>1. ASSUME rec.used \in {"receiving", "started"}, t \notin torn PROVE \E s \in (live \ {r}) \cup {x} : Serves(s, t, rec)
      <3>1. PICK s \in live : Serves(s, t, tokens[t])
        BY <1>1, <2>1 DEF Accounted, SameUse
      <3>2. s # r
        BY <1>1, <3>1 DEF Serves
      <3>3. Serves(s, t, rec)
        BY <3>1 DEF Serves, SameUse
      <3>. QED BY <3>2, <3>3
    <2>. QED BY <1>1, <1>3, <2>1 DEF Accounted, SameUse
  <1>9. ASSUME NEW y \in sent, y[1] = t PROVE tokens'[t].used \in {"started", "success", "failed"} /\ tokens'[t].by = y[2]
    BY <1>0, <1>3, <1>9 DEF Recorded, SameUse
  <1>. QED BY <1>3, <1>4, <1>6, <1>7, <1>8, <1>9, WritesGo

LEMMA ExpiresToken ==
    ASSUME NEW r, Steps(r), r.q.op \notin Strict, Ends(r), UNCHANGED <<sent, torn>>, tokens[r.q.token] # Nothing,
           NEW rec \in TokenRows, SameUse(rec, tokens[r.q.token]), rec.revoked = tokens[r.q.token].revoked, rec.dead = tokens[r.q.token].dead,
           tokens' = Put(r.q.token, rec)
    PROVE  TokensHold' /\ TablesOK(users, creds, agents, tokens')
  <1> DEFINE t == r.q.token
  <1>0. /\ Sound(r) /\ Holds(r, tokens, sent) /\ t \in Tokens /\ TablesOK(users, creds, agents, tokens) /\ Recorded(tokens, sent)
    BY StepFacts
  <1>1. ~Redeems(r) /\ Accounted(t, tokens[t], live, sent, torn)
    BY <1>0, StepFacts DEF Redeems, Strict
  <1>2. rec.by = Nothing <=> rec.used = "no"
    BY <1>0, <1>1 DEF SameUse, TablesOK
  <1>3. /\ TablesOK(users, creds, agents, tokens') /\ tokens'[t] = rec /\ tokens'[t] # Nothing
        /\ \A v \in Tokens \ {t} : tokens'[v] = tokens[v]
    <2>1. Holding(t, rec, Put(t, rec))
      BY <1>0, <1>2, RowPut
    <2>. QED BY <2>1 DEF Holding
  <1>7. Spares(r, tokens[t], tokens'[t])
    BY <1>1, <1>3 DEF Spares, SameUse
  <1>8. Accounted(t, tokens'[t], live \ {r}, sent, torn')
    <2>1. ASSUME rec.used \in {"receiving", "started"}, t \notin torn PROVE \E s \in live \ {r} : Serves(s, t, rec)
      <3>1. PICK s \in live : Serves(s, t, tokens[t])
        BY <1>1, <2>1 DEF Accounted, SameUse
      <3>2. s # r
        BY <1>1, <3>1 DEF Serves
      <3>3. Serves(s, t, rec)
        BY <3>1 DEF Serves, SameUse
      <3>. QED BY <3>2, <3>3
    <2>. QED BY <1>1, <1>3, <2>1 DEF Accounted, SameUse
  <1>9. ASSUME NEW y \in sent, y[1] = t PROVE tokens'[t].used \in {"started", "success", "failed"} /\ tokens'[t].by = y[2]
    BY <1>0, <1>3, <1>9 DEF Recorded, SameUse
  <1>. QED BY <1>3, <1>7, <1>8, <1>9, WritesEnd

-----------------------------------------------------------------------------
(* Each action. *)

LEMMA NextContinues ==
    ASSUME NEW r, Sound(r)
    PROVE  /\ Continues(r, Next_(r)) /\ Next_(r).out = r.out
           /\ \A v : Continues(r, [Next_(r) EXCEPT !.admin = v])
           /\ \A v \in SUBSET Targets : Continues(r, [Next_(r) EXCEPT !.among = v])
           /\ \A v : Continues(r, [Next_(r) EXCEPT !.svcs = v])
           /\ \A v : Continues(r, [Next_(r) EXCEPT !.show = v])
           /\ \A v : Continues(r, [Next_(r) EXCEPT !.out = v]) /\ [Next_(r) EXCEPT !.out = v].out = v
           /\ \A v : Continues(r, [Next_(r) EXCEPT !.tool = v, !.among = {}, !.svcs = {}])
  <1>1. DOMAIN r = Fields
    BY DEF Sound, Shaped
  <1>1a. r.among \subseteq Targets
    BY DEF Sound
  <1>2. Continues(r, Next_(r)) /\ Next_(r).out = r.out
    BY <1>1, <1>1a DEF Continues, Next_, Shaped, Fields
  <1>3. DOMAIN Next_(r) = Fields
    BY <1>2 DEF Continues, Shaped
  <1> DEFINE n == Next_(r)
  <1> HIDE DEF n
  <1>4. DOMAIN n = Fields /\ Continues(r, n)
    BY <1>2, <1>3 DEF n
  <1>5. /\ \A v : Continues(r, [n EXCEPT !.admin = v])
        /\ \A v \in SUBSET Targets : Continues(r, [n EXCEPT !.among = v])
        /\ \A v : Continues(r, [n EXCEPT !.svcs = v])
        /\ \A v : Continues(r, [n EXCEPT !.show = v])
        /\ \A v : Continues(r, [n EXCEPT !.out = v]) /\ [n EXCEPT !.out = v].out = v
    BY <1>4 DEF Continues, Shaped, Fields
  <1>6. \A v : Continues(r, [n EXCEPT !.tool = v, !.among = {}, !.svcs = {}])
    BY <1>4 DEF Continues, Shaped, Fields
  <1>. QED BY <1>2, <1>5, <1>6 DEF n

LEMMA ReadsKeep ==
    ASSUME OperationsTypeOK, UNCHANGED <<tables, tokens, sent, faults>>, hits' \in [Ips \cup Tokens -> Nat]
    PROVE  OperationsTypeOK'
  BY DEF OperationsTypeOK, TransfersTypeOK, tables

LEMMA HitsAreTyped == ASSUME OperationsTypeOK PROVE hits \in [Ips \cup Tokens -> Nat]
  BY DEF OperationsTypeOK, TransfersTypeOK

\* A request that only reads goes on, is refused or ends.
LEMMA PlainReads ==
    ASSUME OnceInv, NEW r \in live, Reads, r.todo # <<>>, r.q.op \notin Strict,
           (\E x : Goto(r, x) /\ Continues(r, x)) \/ Ends(r) \/ Refuses(r)
    PROVE  OnceInv'
  <1>1. TokensHold /\ UNCHANGED <<tokens, sent>> /\ torn \subseteq torn'
    BY DEF OnceInv, Reads, Quiet
  <1>2. TokensHold'
    <2>1. CASE \E x : Goto(r, x) /\ Continues(r, x)
      BY <1>1, <2>1, PlainNext
    <2>2. CASE Ends(r)
      <3>1. ~Redeems(r)
        BY DEF Redeems, Strict
      <3>. QED BY <1>1, <2>2, <3>1, IdleEnds
    <2>3. CASE Refuses(r)
      BY <1>1, <2>3, PlainRefuses
    <2>. QED BY <2>1, <2>2, <2>3
  <1>3. OperationsTypeOK'
    BY ReadsKeep, HitsAreTyped DEF OnceInv, Reads, Quiet
  <1>. QED BY <1>2, <1>3 DEF OnceInv

LEMMA PlainReadsAt ==
    ASSUME OnceInv, NEW r \in live, Reads, NEW s, At(r, s), s \in Common \ {"auth", "send", "reply"},
           (\E x : Goto(r, x) /\ Continues(r, x)) \/ Ends(r) \/ Refuses(r)
    PROVE  OnceInv'
  <1>1. r.todo # <<>> /\ Stage(r) = s /\ Sound(r)
    BY AtIsStage DEF OnceInv, TokensHold, TokensInv
  <1>2. r.q.op \notin Strict
    BY <1>1, NotStrict DEF Common
  <1>. QED BY <1>1, <1>2, PlainReads

LEMMA LooksAtAgent ==
    ASSUME OnceInv, NEW r \in live,
           AsksForCode(r) \/ FindVisible(r) \/ FindActive(r) \/ IsOnline(r) \/ ShowsAgent(r) \/ ListsTokens(r)
    PROVE  OnceInv'
  <1>1. Sound(r)
    BY DEF OnceInv, TokensHold, TokensInv
  <1>2. /\ Proceeds(r) => \E x : Goto(r, x) /\ Continues(r, x)
        /\ \A v : Shows(r, v) => \E x : Goto(r, x) /\ Continues(r, x)
    BY <1>1, NextContinues DEF Proceeds, Shows
  <1>3. {"totp", "visible", "active", "online", "agent", "tokens"} \subseteq Common \ {"auth", "send", "reply"}
    BY DEF Common
  <1>4. CASE AsksForCode(r)
    BY <1>2, <1>3, <1>4, PlainReadsAt DEF AsksForCode
  <1>5. CASE FindVisible(r)
    BY <1>2, <1>3, <1>5, PlainReadsAt DEF FindVisible
  <1>6. CASE FindActive(r)
    BY <1>2, <1>3, <1>6, PlainReadsAt DEF FindActive
  <1>7. CASE IsOnline(r)
    BY <1>2, <1>3, <1>7, PlainReadsAt DEF IsOnline
  <1>8. CASE ShowsAgent(r)
    BY <1>2, <1>3, <1>8, PlainReadsAt DEF ShowsAgent
  <1>9. CASE ListsTokens(r)
    BY <1>2, <1>3, <1>9, PlainReadsAt DEF ListsTokens
  <1>. QED BY <1>4, <1>5, <1>6, <1>7, <1>8, <1>9

LEMMA RunsTools ==
    ASSUME OnceInv, NEW r \in live,
           execute_tool(r) \/ reject_mcp_file_write_tool(r) \/ ensure_agent_with_state_visible(r) \/ EnsureAgentActive(r)
           \/ FindOnline(r) \/ LoadVisible(r)
    PROVE  OnceInv'
  <1>1. Sound(r)
    BY DEF OnceInv, TokensHold, TokensInv
  <1>2. /\ \A v : Shows(r, v) => \E x : Goto(r, x) /\ Continues(r, x)
        /\ \A v \in SUBSET Targets : Goto(r, [Next_(r) EXCEPT !.among = v]) => \E x : Goto(r, x) /\ Continues(r, x)
        /\ \A v : Goto(r, [Next_(r) EXCEPT !.tool = v, !.among = {}, !.svcs = {}]) => \E x : Goto(r, x) /\ Continues(r, x)
    BY <1>1, NextContinues DEF Shows
  <1>3. {"scope", "refused", "state", "both", "online_all", "agents"} \subseteq Common \ {"auth", "send", "reply"}
    BY DEF Common
  <1>4. CASE execute_tool(r)
    BY <1>2, <1>3, <1>4, PlainReadsAt DEF execute_tool
  <1>5. CASE reject_mcp_file_write_tool(r)
    BY <1>2, <1>3, <1>5, PlainReadsAt DEF reject_mcp_file_write_tool
  <1>6. CASE ensure_agent_with_state_visible(r)
    BY <1>2, <1>3, <1>6, PlainReadsAt DEF ensure_agent_with_state_visible
  <1>7. CASE EnsureAgentActive(r)
    <2>1. Next_(r).among \cup {On(r)} \in SUBSET Targets
      <3>1. Next_(r).among \subseteq Targets
        BY <1>1, NextContinues DEF Continues
      <3>2. On(r) \in Targets
        <4>1. r.todo \in Seq(StepRows) /\ r.todo # <<>>
          BY <1>1, <1>7 DEF Sound, WellFormed, EnsureAgentActive, At
        <4>2. r.todo[1] \in StepRows
          BY <4>1
        <4>. QED BY <4>2 DEF On, StepRows, Targets
      <3>. QED BY <3>1, <3>2
    <2>. QED BY <1>2, <1>3, <1>7, <2>1, PlainReadsAt DEF EnsureAgentActive
  <1>8. CASE FindOnline(r)
    <2>1. {a \in Agents : agent_visible(r, a) /\ ~agents[a].revoked /\ agents[a].online} \in SUBSET Targets
      BY DEF Targets
    <2>. QED BY <1>2, <1>3, <1>8, <2>1, PlainReadsAt DEF FindOnline
  <1>9. CASE LoadVisible(r)
    <2>1. {a \in Agents : agent_visible(r, a)} \in SUBSET Targets
      BY DEF Targets
    <2>. QED BY <1>2, <1>3, <1>9, <2>1, PlainReadsAt DEF LoadVisible
  <1>. QED BY <1>4, <1>5, <1>6, <1>7, <1>8, <1>9

LEMMA ReadsRows ==
    ASSUME OnceInv, NEW r \in live,
           ListsInventory(r) \/ FindServices(r) \/ TellsServices(r) \/ ListsResults(r) \/ ListsEvents(r) \/ ListsRules(r)
           \/ ListsTasks(r) \/ ListsNat(r) \/ ListsDdns(r)
    PROVE  OnceInv'
  <1>1. Sound(r)
    BY DEF OnceInv, TokensHold, TokensInv
  <1>2. /\ \A v : Shows(r, v) => \E x : Goto(r, x) /\ Continues(r, x)
        /\ \A v : ShowsRows(r, v) => \E x : Goto(r, x) /\ Continues(r, x)
        /\ \A v : Goto(r, [Next_(r) EXCEPT !.svcs = v]) => \E x : Goto(r, x) /\ Continues(r, x)
    BY <1>1, NextContinues DEF Shows, ShowsRows
  <1>3. {"inventory", "services", "tell", "results", "events", "rules", "tasks", "nat", "ddns"} \subseteq Common \ {"auth", "send", "reply"}
    BY DEF Common
  <1>4. CASE ListsInventory(r)
    BY <1>2, <1>3, <1>4, PlainReadsAt DEF ListsInventory
  <1>5. CASE FindServices(r)
    BY <1>2, <1>3, <1>5, PlainReadsAt DEF FindServices
  <1>6. CASE TellsServices(r)
    BY <1>2, <1>3, <1>6, PlainReadsAt DEF TellsServices
  <1>7. CASE ListsResults(r)
    BY <1>2, <1>3, <1>7, PlainReadsAt DEF ListsResults
  <1>8. CASE ListsEvents(r)
    BY <1>2, <1>3, <1>8, PlainReadsAt DEF ListsEvents
  <1>9. CASE ListsRules(r)
    BY <1>2, <1>3, <1>9, PlainReadsAt DEF ListsRules
  <1>10. CASE ListsTasks(r)
    BY <1>2, <1>3, <1>10, PlainReadsAt DEF ListsTasks
  <1>11. CASE ListsNat(r)
    BY <1>2, <1>3, <1>11, PlainReadsAt DEF ListsNat
  <1>12. CASE ListsDdns(r)
    BY <1>2, <1>3, <1>12, PlainReadsAt DEF ListsDdns
  <1>. QED BY <1>4, <1>5, <1>6, <1>7, <1>8, <1>9, <1>10, <1>11, <1>12

\* Steps put in front of what is left.
LEMMA FrontIsWellFormed ==
    ASSUME NEW q, q.op \notin Strict, NEW s, NEW d, Plain(s), WellFormed(d, q)
    PROVE  WellFormed(s \o d, q) /\ (Creates(s \o d) => Creates(d))
  <1>1. Once(s) /\ ~Creates(s)
    BY CommonIsOnce DEF Plain
  <1>2. Once(d)
    BY DEF Once, WellFormed
  <1>3. Once(s \o d) /\ (Creates(s \o d) => Creates(d))
    BY <1>1, <1>2, OnceCat
  <1>. QED BY <1>3 DEF Once, WellFormed

LEMMA RunsBatches ==
    ASSUME OnceInv, NEW r \in live, RunsBatch(r) \/ NextItem(r)
    PROVE  OnceInv'
  <1>1. Sound(r) /\ TokensHold
    BY DEF OnceInv, TokensHold, TokensInv
  <1>2. r.todo # <<>> /\ Stage(r) \in {"batch", "each"} /\ Reads
    BY AtIsStage DEF RunsBatch, NextItem
  <1>3. r.q.op \notin Strict
    BY <1>1, <1>2, NotStrict
  <1>4. OperationsTypeOK' /\ UNCHANGED <<tokens, sent>> /\ torn \subseteq torn'
    BY <1>2, ReadsKeep, HitsAreTyped DEF OnceInv, Reads, Quiet
  <1>5. r.begun \in BOOLEAN /\ r.among \subseteq Targets /\ WellFormed(r.todo, r.q) /\ DOMAIN r = Fields
    BY <1>1 DEF Sound, Shaped
  <1>6. CASE RunsBatch(r)
    <2> DEFINE n == Next_(r)  s == <<Step("each", Nothing)>>  x == [n EXCEPT !.todo = s \o n.todo]
    <2>1. Goto(r, x)
      BY <1>6 DEF RunsBatch
    <2>2. Continues(r, n) /\ Sound(n) /\ (Creates(n.todo) => Creates(r.todo))
      BY <1>1, <1>2, NextContinues, ContinuesIsSound
    <2> HIDE DEF n
    <2>3. Shaped(x) /\ x.q = r.q /\ x.begun = TRUE /\ x.among \subseteq Targets /\ x.todo = s \o n.todo
      BY <2>2 DEF Continues, Shaped, Fields
    <2>4. Plain(s)
      <3>1. "each" \in Common
        BY DEF Common
      <3>. QED BY <3>1, PlainOne
    <2>5. WellFormed(n.todo, r.q)
      BY <2>2 DEF Sound, Continues
    <2> HIDE DEF s
    <2>6. WellFormed(s \o n.todo, r.q) /\ (Creates(s \o n.todo) => Creates(n.todo))
      BY <1>3, <2>4, <2>5, FrontIsWellFormed
    <2> HIDE DEF x
    <2>7. TokensHold'
      BY <1>1, <1>3, <1>4, <2>1, <2>2, <2>3, <2>6, PlainGo
    <2>. QED BY <1>4, <2>7 DEF OnceInv
  <1>7. CASE NextItem(r)
    <2>1. CASE Proceeds(r)
      BY <1>1, <1>2, <1>3, <2>1, NextContinues, PlainReads DEF Proceeds
    <2>2. CASE \E a \in r.among : Goto(r, [r EXCEPT !.todo = dispatch_shell(a) \o r.todo, !.among = @ \ {a}])
      <3>1. PICK a \in r.among : Goto(r, [r EXCEPT !.todo = dispatch_shell(a) \o r.todo, !.among = @ \ {a}])
        BY <2>2
      <3> DEFINE x == [r EXCEPT !.todo = dispatch_shell(a) \o r.todo, !.among = @ \ {a}]
      <3>2. Shaped(x) /\ x.q = r.q /\ x.begun = r.begun /\ x.among \subseteq Targets /\ x.todo = dispatch_shell(a) \o r.todo
        BY <1>5 DEF Shaped, Fields
      <3> HIDE DEF x
      <3>3. Plain(dispatch_shell(a))
        <4>1. a \in Targets
          BY <1>5
        <4>2. {"online", "send", "reply"} \subseteq Common
          BY DEF Common
        <4>. QED BY <4>1, <4>2, PlainThree DEF dispatch_shell, Targets
      <3>4. WellFormed(x.todo, r.q) /\ (Creates(x.todo) => Creates(r.todo))
        BY <1>3, <1>5, <3>2, <3>3, FrontIsWellFormed
      <3>5. Goto(r, x)
        BY <3>1 DEF x
      <3>6. TokensHold'
        BY <1>1, <1>3, <1>4, <1>5, <3>2, <3>4, <3>5, PlainGo
      <3>. QED BY <1>4, <3>6 DEF OnceInv
    <2>. QED BY <1>7, <2>1, <2>2 DEF NextItem
  <1>. QED BY <1>6, <1>7

-----------------------------------------------------------------------------

LEMMA OnceFacts ==
    ASSUME OnceInv, NEW r \in live
    PROVE  /\ Steps(r) /\ Sound(r) /\ TokensHold /\ OperationsTypeOK /\ TransfersTypeOK
           /\ r.q.op \in Strict => Redeems(r) \/ r.q.op = "revoke"
  BY DEF OnceInv, Steps, OperationsTypeOK, TokensHold, TokensInv, Strict, Redeems

\* Reading steps of whoever uses or revokes a token, and the others' as well.
LEMMA AnyReads ==
    ASSUME OnceInv, NEW r \in live, UNCHANGED <<tables, tokens, sent, torn, faults>>, hits' \in [Ips \cup Tokens -> Nat], r.todo # <<>>,
           Stage(r) \in Early \cup {"auth", "find", "mine"}, Stage(r) = "find" => tokens[r.q.token] # Nothing \/ Ends(r),
           (\E x : Goto(r, x) /\ Continues(r, x)) \/ Ends(r)
    PROVE  OnceInv'
  <1>1. TokensHold /\ UNCHANGED <<tokens, sent>> /\ torn \subseteq torn' /\ Sound(r)
    BY OnceFacts
  <1>2. OperationsTypeOK'
    BY OnceFacts, ReadsKeep
  <1>3. TokensHold'
    <2>1. CASE Ends(r)
      <3>1. Stage(r) \notin {"body", "commit"} \cup Using
        BY DEF Early, Using
      <3>. QED BY <1>1, <2>1, <3>1, IdleEnds
    <2>2. ASSUME ~Ends(r), NEW x, Goto(r, x), Continues(r, x) PROVE TokensHold'
      <3>1. CASE r.q.op \notin Strict
        BY <1>1, <2>2, <3>1, PlainNext
      <3>2. CASE r.q.op = "revoke"
        BY <1>1, <2>2, <3>2, RevokeNext
      <3>3. CASE Redeems(r)
        <4>1. Stage(r) \in Early
          <5>1. r.q.op \in Strict /\ r.q.op # "revoke"
            BY <3>3 DEF Redeems, Strict
          <5>. QED BY <1>1, <5>1, StrictStages DEF Early
        <4>. QED BY <1>1, <2>2, <3>3, <4>1, EarlyNext
      <3>. QED BY <3>1, <3>2, <3>3, OnceFacts
    <2>. QED BY <2>1, <2>2
  <1>. QED BY <1>2, <1>3 DEF OnceInv

LEMMA Asks ==
    ASSUME OnceInv, NEW r \in live, (\E s : Authenticated(r, s)) \/ StartsTools(r)
    PROVE  OnceInv'
  <1>1. Sound(r) /\ r.todo # <<>> /\ Stage(r) = "auth" /\ Reads
    BY OnceFacts, AtIsStage DEF Authenticated, StartsTools
  <1>2. (\E x : Goto(r, x) /\ Continues(r, x)) \/ Ends(r)
    <2>1. \A v : Goto(r, [Next_(r) EXCEPT !.admin = v]) => \E x : Goto(r, x) /\ Continues(r, x)
      BY <1>1, NextContinues
    <2>. QED BY <2>1 DEF Authenticated, StartsTools
  <1>3. UNCHANGED <<tables, tokens, sent, torn, faults>> /\ hits' \in [Ips \cup Tokens -> Nat]
    BY <1>1, OnceFacts, HitsAreTyped DEF Reads, Quiet
  <1>. QED BY <1>1, <1>2, <1>3, AnyReads

LEMMA Looks ==
    ASSUME OnceInv, NEW r \in live,
           CheckRateLimit(r) \/ FindRecord(r) \/ FindIssuer(r) \/ FindIssuersCredential(r) \/ FindServer(r) \/ FindToken(r) \/ MayRevoke(r)
    PROVE  OnceInv'
  <1>0. Sound(r) /\ OperationsTypeOK /\ r.q.ip \in Ips /\ r.q.token \in Tokens
    BY OnceFacts DEF Sound, Requests
  <1>1. /\ \A v : Goto(r, [Next_(r) EXCEPT !.admin = v]) => \E x : Goto(r, x) /\ Continues(r, x)
        /\ Proceeds(r) => \E x : Goto(r, x) /\ Continues(r, x)
    BY <1>0, NextContinues DEF Proceeds
  <1>2. CASE CheckRateLimit(r)
    <2>1. r.todo # <<>> /\ Stage(r) \in {"ip", "limit"}
      BY <1>2, AtIsStage DEF CheckRateLimit
    <2>2. (\E x : Goto(r, x) /\ Continues(r, x)) \/ Ends(r)
      BY <1>1, <1>2 DEF CheckRateLimit
    <2>3. UNCHANGED <<tables, tokens, sent, torn, faults>>
      BY <1>2 DEF CheckRateLimit, Quiet
    <2>4. hits' \in [Ips \cup Tokens -> Nat]
      <3>1. hits \in [Ips \cup Tokens -> Nat]
        BY <1>0, HitsAreTyped
      <3>2. \E k \in Ips \cup Tokens : hits' = [hits EXCEPT ![k] = @ + 1]
        BY <1>0, <1>2 DEF CheckRateLimit
      <3>. QED BY <3>1, <3>2
    <2>. QED BY <2>1, <2>2, <2>3, <2>4, AnyReads DEF Early
  <1>3. CASE FindRecord(r) \/ FindIssuer(r) \/ FindIssuersCredential(r) \/ FindServer(r) \/ FindToken(r) \/ MayRevoke(r)
    <2>1. Reads
      BY <1>3 DEF FindRecord, FindIssuer, FindIssuersCredential, FindServer, FindToken, MayRevoke
    <2>2. UNCHANGED <<tables, tokens, sent, torn, faults>> /\ hits' \in [Ips \cup Tokens -> Nat]
      BY <1>0, <2>1, HitsAreTyped DEF Reads, Quiet
    <2>3. r.todo # <<>> /\ Stage(r) \in {"record", "issuer", "held", "server", "find", "mine"}
      BY <1>3, AtIsStage DEF FindRecord, FindIssuer, FindIssuersCredential, FindServer, FindToken, MayRevoke
    <2>4. (\E x : Goto(r, x) /\ Continues(r, x)) \/ Ends(r)
      BY <1>1, <1>3 DEF FindRecord, FindIssuer, FindIssuersCredential, FindServer, FindToken, MayRevoke
    <2>5. Stage(r) = "find" => tokens[r.q.token] # Nothing \/ Ends(r)
      <3>1. Stage(r) = "find" => FindToken(r)
        BY <1>3, AtIsStage DEF FindRecord, FindIssuer, FindIssuersCredential, FindServer, FindToken, MayRevoke
      <3>. QED BY <3>1 DEF FindToken
    <2>. QED BY <2>2, <2>3, <2>4, <2>5, AnyReads DEF Early
  <1>. QED BY <1>2, <1>3

LEMMA SendsAndReplies ==
    ASSUME OnceInv, NEW r \in live, (\E s : Send(r, s)) \/ Reply(r) \/ ReachesAgent(r)
    PROVE  OnceInv'
  <1>0. Sound(r) /\ TokensHold /\ OperationsTypeOK /\ (r.q.op \in Strict => Redeems(r) \/ r.q.op = "revoke") /\ Steps(r)
    BY OnceFacts
  <1>1. r.todo # <<>> /\ Stage(r) \in {"send", "reply", "reach"}
    BY AtIsStage DEF Send, Reply, ReachesAgent
  <1>2. Redeems(r) \/ r.q.op \notin Strict
    BY <1>0, <1>1, StrictStages
  <1>3. /\ Continues(r, Next_(r)) /\ \A v : Continues(r, [Next_(r) EXCEPT !.out = v]) /\ [Next_(r) EXCEPT !.out = v].out = v
    BY <1>0, NextContinues
  <1> DEFINE f == [Next_(r) EXCEPT !.todo = <<Step("result", Nothing)>>, !.out = "failed"]
  <1>4. Shaped(f) /\ f.q = r.q /\ f.begun = TRUE /\ f.among \subseteq Targets /\ f.todo = <<Step("result", Nothing)>> /\ f.out = "failed"
    BY <1>3 DEF Continues, Shaped, Fields
  <1>5. CASE \E s : Send(r, s)
    <2>1. UNCHANGED <<tables, tokens, hits, torn, faults>> /\ Stage(r) = "send" /\ Sound(r)
      BY <1>0, <1>5, AtIsStage DEF Send
    <2>2. \/ Proceeds(r) /\ sent' = sent \cup (IF Redeems(r) THEN {<<r.q.token, r.q.id>>} ELSE {})
          \/ UNCHANGED sent /\ IF Redeems(r) THEN Goto(r, f) ELSE Refuses(r)
      BY <1>5 DEF Send, Redeems
    <2>3. OperationsTypeOK'
      <3>1. sent' \subseteq Tokens \X Nat
        BY <1>0, <2>2, StepFacts
      <3>. QED BY <1>0, <2>1, <3>1 DEF OperationsTypeOK, TransfersTypeOK, tables
    <2>4. TokensHold'
      <3>1. CASE Redeems(r) /\ Proceeds(r) /\ sent' = sent \cup {<<r.q.token, r.q.id>>}
        BY <1>0, <1>1, <1>3, <2>1, <3>1, SendingNext DEF Proceeds
      <3>2. CASE Redeems(r) /\ UNCHANGED sent /\ Goto(r, f)
        <4>1. UNCHANGED <<tokens, sent>> /\ torn \subseteq torn'
          BY <2>1, <3>2
        <4> HIDE DEF f
        <4>. QED BY <1>0, <1>1, <1>4, <2>1, <3>2, <4>1, UsingNext
      <3>3. CASE ~Redeems(r) /\ Proceeds(r) /\ UNCHANGED sent
        BY <1>0, <1>1, <1>2, <1>3, <2>1, <3>3, PlainNext DEF Proceeds
      <3>4. CASE ~Redeems(r) /\ Refuses(r) /\ UNCHANGED sent
        BY <1>0, <1>2, <2>1, <3>4, PlainRefuses
      <3>. QED BY <2>2, <3>1, <3>2, <3>3, <3>4
    <2>. QED BY <2>3, <2>4 DEF OnceInv
  <1>6. CASE Reply(r)
    <2>1. Reads /\ Stage(r) = "reply"
      BY <1>6, AtIsStage DEF Reply
    <2>2. PICK v \in {"success", "failed"} : Goto(r, [Next_(r) EXCEPT !.out = v])
      BY <1>6 DEF Reply
    <2>3. CASE ~Redeems(r)
      BY <1>1, <1>2, <1>3, <2>1, <2>2, <2>3, PlainReads
    <2>4. CASE Redeems(r)
      <3> DEFINE x == [Next_(r) EXCEPT !.out = v]
      <3>1. Continues(r, x) /\ x.out = v /\ Goto(r, x)
        BY <1>3, <2>2
      <3> HIDE DEF x
      <3>2. UNCHANGED <<tokens, sent>> /\ torn \subseteq torn' /\ OperationsTypeOK'
        BY <1>0, <2>1, ReadsKeep, HitsAreTyped DEF Reads, Quiet
      <3>3. Shaped(x) /\ x.q = r.q /\ x.begun = TRUE /\ x.among \subseteq Targets /\ x.todo = Tail(r.todo)
        BY <3>1 DEF Continues
      <3>4. TokensHold'
        BY <1>0, <1>1, <2>1, <2>2, <2>4, <3>1, <3>2, <3>3, UsingNext
      <3>. QED BY <3>2, <3>4 DEF OnceInv
    <2>. QED BY <2>3, <2>4
  <1>7. CASE ReachesAgent(r)
    <2>1. Reads /\ Stage(r) = "reach"
      BY <1>7, AtIsStage DEF ReachesAgent
    <2>2. Redeems(r)
      <3>1. r.q.op \in Strict
        <4>1. SUFFICES ASSUME r.q.op \notin Strict PROVE FALSE
          OBVIOUS
        <4>2. Spared(r.todo) /\ r.todo \in Seq(StepRows)
          BY <1>0, <4>1 DEF Sound, WellFormed
        <4>3. 1 \in DOMAIN r.todo
          BY <1>1, <4>2, TailOf
        <4>. QED BY <1>1, <2>1, <4>2, <4>3 DEF Spared, Stage, Kept
      <3>. QED BY <1>2, <3>1
    <2>3. UNCHANGED <<tokens, sent>> /\ torn \subseteq torn' /\ OperationsTypeOK'
      BY <1>0, <2>1, ReadsKeep, HitsAreTyped DEF Reads, Quiet
    <2>4. Goto(r, Next_(r)) \/ Goto(r, f)
      BY <1>7 DEF ReachesAgent, Proceeds
    <2>5. CASE Goto(r, Next_(r))
      <3>1. Shaped(Next_(r)) /\ Next_(r).q = r.q /\ Next_(r).begun = TRUE /\ Next_(r).among \subseteq Targets /\ Next_(r).todo = Tail(r.todo)
        BY <1>3 DEF Continues
      <3>2. TokensHold'
        BY <1>0, <1>1, <2>1, <2>2, <2>3, <2>5, <3>1, UsingNext
      <3>. QED BY <2>3, <3>2 DEF OnceInv
    <2>6. CASE Goto(r, f)
      <3> HIDE DEF f
      <3>1. TokensHold'
        BY <1>0, <1>1, <1>4, <2>1, <2>2, <2>3, <2>6, UsingNext
      <3>. QED BY <2>3, <3>1 DEF OnceInv
    <2>. QED BY <2>4, <2>5, <2>6
  <1>. QED BY <1>5, <1>6, <1>7

-----------------------------------------------------------------------------

\* The steps only the strict take.
LEMMA KeptIsStrict ==
    ASSUME NEW r, Sound(r), r.todo # <<>>, Stage(r) \in Kept
    PROVE  IF Stage(r) = "revoke" THEN r.q.op = "revoke" ELSE Redeems(r)
  <1>1. r.todo \in Seq(StepRows)
    BY DEF Sound, WellFormed
  <1>2. 1 \in DOMAIN r.todo
    BY <1>1, TailOf
  <1>3. r.q.op \in Strict
    BY <1>2 DEF Sound, WellFormed, Spared, Stage
  <1>. QED BY <1>3, StrictStages DEF Kept, Strict, Redeems

LEMMA TypesAfter ==
    ASSUME OperationsTypeOK, UNCHANGED <<tables, hits, sent>>, TablesOK(users, creds, agents, tokens'), faults' \in 0..MaxFaults
    PROVE  OperationsTypeOK'
  BY DEF OperationsTypeOK, TransfersTypeOK, tables

LEMMA FaultsAreTyped ==
    ASSUME OperationsTypeOK
    PROVE  /\ UNCHANGED faults => faults' \in 0..MaxFaults
           /\ faults < MaxFaults /\ faults' = faults + 1 => faults' \in 0..MaxFaults
           /\ TablesOK(users, creds, agents, tokens)
  BY TransfersAssumption DEF OperationsTypeOK, TransfersTypeOK

LEMMA CreatesForAgent ==
    ASSUME NEW r, At(r, "create"), WellFormed(r.todo, r.q)
    PROVE  On(r) \in Agents
  <1>1. r.todo \in Seq(StepRows) /\ r.todo # <<>> /\ r.todo[1][1] = "create" /\ CreatesOnce(r.todo)
    BY DEF At, WellFormed
  <1>2. 1 \in DOMAIN r.todo
    BY <1>1, TailOf
  <1>. QED BY <1>1, <1>2 DEF CreatesOnce, On

LEMMA Creation ==
    ASSUME OnceInv, NEW r \in live, NEW scope, CreateToken(r, scope)
    PROVE  OnceInv'
  <1> DEFINE rec == [server |-> On(r), op |-> IF r.q.op = "upload_url" THEN "upload" ELSE "download", cred |-> r.q.by,
                     expired |-> FALSE, used |-> "no", by |-> Nothing, revoked |-> FALSE, dead |-> FALSE]
  <1>0. Steps(r) /\ Sound(r) /\ OperationsTypeOK /\ r.q.by \in Creds
    BY OnceFacts DEF Sound, Requests
  <1>1. At(r, "create") /\ UNCHANGED <<tables, hits, sent, torn, faults>> /\ Goto(r, Next_(r))
    BY DEF CreateToken, Proceeds
  <1>2. tokens' = Put(r.q.token, rec)
    BY DEF CreateToken, Put
  <1>3. rec \in TokenRows
    <2>1. On(r) \in Agents
      BY <1>0, <1>1, CreatesForAgent DEF Sound
    <2>. QED BY <1>0, <2>1 DEF TokenRows
  <1>4. rec.used = "no" /\ rec.by = Nothing /\ ~rec.dead
    OBVIOUS
  <1>5. Continues(r, Next_(r))
    BY <1>0, NextContinues
  <1> HIDE DEF rec
  <1>6. TokensHold' /\ TablesOK(users, creds, agents, tokens')
    BY <1>0, <1>1, <1>2, <1>3, <1>4, <1>5, CreatesToken
  <1>. QED BY <1>0, <1>1, <1>6, TypesAfter, FaultsAreTyped DEF OnceInv

LEMMA Takes ==
    ASSUME OnceInv, NEW r \in live, consume_temporary_transfer(r) \/ reserve_upload_once(r)
    PROVE  OnceInv'
  <1>0. Steps(r) /\ Sound(r) /\ OperationsTypeOK /\ TokensHold
    BY OnceFacts
  <1>1. r.todo # <<>> /\ Stage(r) \in {"consume", "reserve"} /\ UNCHANGED <<tables, hits, sent, torn, faults>>
    BY AtIsStage DEF consume_temporary_transfer, reserve_upload_once, Quiet
  <1>2. Redeems(r)
    BY <1>0, <1>1, KeptIsStrict DEF Kept
  <1>3. CASE UNCHANGED tokens /\ Ends(r)
    <2>1. Stage(r) \notin {"body", "commit"} \cup Using
      BY <1>1 DEF Using
    <2>2. TokensHold'
      BY <1>0, <1>1, <1>3, <2>1, IdleEnds
    <2>3. OperationsTypeOK'
      BY <1>0, <1>1, <1>3, TypesAfter, FaultsAreTyped
    <2>. QED BY <2>2, <2>3 DEF OnceInv
  <1>4. CASE ~(UNCHANGED tokens /\ Ends(r))
    <2> DEFINE u == IF Stage(r) = "consume" THEN "started" ELSE "receiving"
    <2>1. /\ Usable(r.q.token) /\ tokens[r.q.token].used = "no" /\ Goto(r, Next_(r))
          /\ tokens' = Rewritten(r.q.token, u, r.q.id)
      BY <1>4, AtIsStage DEF consume_temporary_transfer, reserve_upload_once, Proceeds, Rewritten
    <2>2. (Stage(r) = "consume" /\ u = "started") \/ (Stage(r) = "reserve" /\ u = "receiving")
      BY <1>1
    <2>3. tokens[r.q.token] # Nothing /\ ~tokens[r.q.token].revoked
      BY <2>1 DEF Usable
    <2>4. Continues(r, Next_(r))
      BY <1>0, NextContinues
    <2> HIDE DEF u
    <2>5. TokensHold' /\ TablesOK(users, creds, agents, tokens')
      BY <1>0, <1>1, <1>2, <2>1, <2>2, <2>3, <2>4, TakesToken
    <2>. QED BY <1>0, <1>1, <2>5, TypesAfter, FaultsAreTyped DEF OnceInv
  <1>. QED BY <1>3, <1>4

\* A token whose request is lost stays in use.
LEMMA LeavesTorn ==
    ASSUME OnceInv, NEW r \in live, Ends(r), UNCHANGED <<tables, tokens, hits, sent>>, faults < MaxFaults, faults' = faults + 1,
           torn \subseteq torn', Redeems(r) => r.q.token \in torn'
    PROVE  OnceInv'
  <1>0. TokensHold /\ OperationsTypeOK
    BY OnceFacts
  <1>1. \A t \in Tokens : tokens[t] # Nothing /\ Serves(r, t, tokens[t]) => t \in torn'
    BY DEF Serves
  <1>2. TokensHold'
    BY <1>0, <1>1, EndsQuietly
  <1>3. OperationsTypeOK'
    BY <1>0, TypesAfter, FaultsAreTyped
  <1>. QED BY <1>2, <1>3 DEF OnceInv

LEMMA Uploads ==
    ASSUME OnceInv, NEW r \in live, ReadsBody(r) \/ commit_temporary_upload(r)
    PROVE  OnceInv'
  <1>0. Steps(r) /\ Sound(r) /\ OperationsTypeOK /\ TokensHold /\ Continues(r, Next_(r))
    BY OnceFacts, NextContinues
  <1>1. r.todo # <<>> /\ Stage(r) \in {"body", "commit"} /\ UNCHANGED <<tables, hits, sent>>
    BY AtIsStage DEF ReadsBody, commit_temporary_upload, Quiet
  <1>2. Redeems(r)
    BY <1>0, <1>1, KeptIsStrict DEF Kept
  <1>3. CASE tokens' = release_upload_reservation(r) /\ Ends(r) /\ UNCHANGED <<torn, faults>>
    <2>1. TokensHold' /\ TablesOK(users, creds, agents, tokens')
      BY <1>0, <1>1, <1>2, <1>3, GivesBack
    <2>. QED BY <1>0, <1>1, <1>3, <2>1, TypesAfter, FaultsAreTyped DEF OnceInv
  <1>4. CASE Stage(r) = "body" /\ UNCHANGED <<tokens, torn, faults>> /\ Goto(r, Next_(r))
    <2>1. UNCHANGED <<tokens, sent>> /\ torn \subseteq torn'
      BY <1>1, <1>4
    <2>2. Shaped(Next_(r)) /\ Next_(r).q = r.q /\ Next_(r).begun = TRUE /\ Next_(r).among \subseteq Targets /\ Next_(r).todo = Tail(r.todo)
      BY <1>0 DEF Continues
    <2>3. TokensHold'
      BY <1>0, <1>1, <1>2, <1>4, <2>1, <2>2, UsingNext
    <2>. QED BY <1>0, <1>1, <1>4, <2>3, TypesAfter, FaultsAreTyped DEF OnceInv
  <1>5. CASE /\ Stage(r) = "commit" /\ commit_upload_reservation(r) /\ tokens' = [tokens EXCEPT ![r.q.token].used = "started"]
             /\ UNCHANGED <<torn, faults>> /\ Goto(r, Next_(r))
    <2>1. ~tokens[r.q.token].revoked /\ tokens[r.q.token] # Nothing /\ tokens[r.q.token].by = r.q.id
      BY <1>5 DEF commit_upload_reservation, Usable, Reserved
    <2>2. tokens' = Rewritten(r.q.token, "started", r.q.id)
      <3>1. tokens' = Reused(r.q.token, "started")
        BY <1>5 DEF Reused
      <3>2. TablesOK(users, creds, agents, tokens) /\ r.q.token \in Tokens
        BY <1>0, StepFacts
      <3>3. Reused(r.q.token, "started") = Rewritten(r.q.token, "started", r.q.id)
        BY <2>1, <3>2, UseOnly
      <3>. QED BY <3>1, <3>3
    <2>3. TokensHold' /\ TablesOK(users, creds, agents, tokens')
      BY <1>0, <1>1, <1>2, <1>5, <2>1, <2>2, Commits
    <2>. QED BY <1>0, <1>1, <1>5, <2>3, TypesAfter, FaultsAreTyped DEF OnceInv
  <1>6. CASE faults < MaxFaults /\ faults' = faults + 1 /\ torn' = torn \cup {r.q.token} /\ UNCHANGED tokens /\ Ends(r)
    BY <1>1, <1>6, LeavesTorn
  <1>. QED BY <1>3, <1>4, <1>5, <1>6, AtIsStage DEF ReadsBody, commit_temporary_upload, Proceeds, Quiet

LEMMA Records ==
    ASSUME OnceInv, NEW r \in live, record_temporary_transfer_result(r)
    PROVE  OnceInv'
  <1>0. Steps(r) /\ Sound(r) /\ OperationsTypeOK /\ TokensHold
    BY OnceFacts
  <1>1. r.todo # <<>> /\ Stage(r) = "result" /\ UNCHANGED <<tables, hits, sent>>
    BY AtIsStage DEF record_temporary_transfer_result
  <1>2. Redeems(r)
    BY <1>0, <1>1, KeptIsStrict DEF Kept
  <1>3. CASE tokens' = [tokens EXCEPT ![r.q.token].used = r.out] /\ UNCHANGED <<torn, faults>> /\ Ends(r)
    <2>1. tokens[r.q.token] # Nothing /\ tokens[r.q.token].by = r.q.id
      BY <1>0, <1>1, <1>2, StepFacts DEF HoldsToken, Using
    <2>2. tokens' = Rewritten(r.q.token, r.out, r.q.id)
      <3>1. tokens' = Reused(r.q.token, r.out)
        BY <1>3 DEF Reused
      <3>2. TablesOK(users, creds, agents, tokens) /\ r.q.token \in Tokens
        BY <1>0, StepFacts
      <3>3. Reused(r.q.token, r.out) = Rewritten(r.q.token, r.out, r.q.id)
        BY <2>1, <3>2, UseOnly
      <3>. QED BY <3>1, <3>3
    <2>3. TokensHold' /\ TablesOK(users, creds, agents, tokens')
      BY <1>0, <1>1, <1>2, <1>3, <2>2, Results
    <2>. QED BY <1>0, <1>1, <1>3, <2>3, TypesAfter, FaultsAreTyped DEF OnceInv
  <1>4. CASE faults < MaxFaults /\ faults' = faults + 1 /\ torn' = torn \cup {r.q.token} /\ UNCHANGED tokens /\ Ends(r)
    BY <1>1, <1>4, LeavesTorn
  <1>. QED BY <1>3, <1>4 DEF record_temporary_transfer_result

LEMMA Revokes ==
    ASSUME OnceInv, NEW r \in live, RevokeToken(r)
    PROVE  OnceInv'
  <1> DEFINE t == r.q.token  old == tokens[t]
             gone == old.used \in {"no", "receiving"}  rec == [old EXCEPT !.revoked = TRUE, !.dead = gone]
  <1>0. Steps(r) /\ Sound(r) /\ OperationsTypeOK /\ TokensHold /\ Continues(r, Next_(r)) /\ t \in Tokens
    BY OnceFacts, NextContinues, StepFacts
  <1>1. r.todo # <<>> /\ Stage(r) = "revoke" /\ UNCHANGED <<tables, hits, sent, torn, faults>> /\ Goto(r, Next_(r))
    BY AtIsStage DEF RevokeToken, Proceeds
  <1>2. r.q.op = "revoke"
    BY <1>0, <1>1, KeptIsStrict DEF Kept
  <1>3. tokens \in [Tokens -> TokenRows \cup {Nothing}] /\ old \in TokenRows
    BY <1>0, <1>1, <1>2, StepFacts DEF Holds, TablesOK
  <1>4. tokens' = Put(t, rec)
    BY <1>0, <1>3 DEF RevokeToken, Put
  <1>5. rec \in TokenRows /\ rec.used = old.used /\ rec.by = old.by /\ rec.revoked /\ (rec.dead => rec.used \in {"no", "receiving"})
    <2>1. gone \in BOOLEAN
      OBVIOUS
    <2>2. gone => old.used \in {"no", "receiving"}
      OBVIOUS
    <2> HIDE DEF gone, old
    <2>3. old \in TokenRows
      BY <1>3
    <2>4. rec \in TokenRows
      BY <2>1, <2>3 DEF TokenRows
    <2>5. rec.used = old.used /\ rec.by = old.by /\ rec.revoked = TRUE /\ rec.dead = gone
      BY <2>3 DEF TokenRows
    <2>. QED BY <2>2, <2>4, <2>5
  <1> HIDE DEF rec
  <1>6. SameUse(rec, tokens[t])
    BY <1>5 DEF SameUse
  <1>7. TokensHold' /\ TablesOK(users, creds, agents, tokens')
    BY <1>0, <1>1, <1>2, <1>4, <1>5, <1>6, RevokesToken
  <1>. QED BY <1>0, <1>1, <1>7, TypesAfter, FaultsAreTyped DEF OnceInv

-----------------------------------------------------------------------------

LEMMA Departs ==
    ASSUME OnceInv, NEW r \in live, Dropped(r) \/ Responds(r)
    PROVE  OnceInv'
  <1>1. CASE Dropped(r)
    <2>1. /\ Ends(r) /\ UNCHANGED <<tables, tokens, hits, sent>> /\ faults < MaxFaults /\ faults' = faults + 1
          /\ torn \subseteq torn' /\ (Redeems(r) => r.q.token \in torn')
      BY <1>1 DEF Dropped, Redeems
    <2>. QED BY <2>1, LeavesTorn
  <1>2. CASE Responds(r)
    <2>1. Ends(r) /\ UNCHANGED <<tables, tokens, hits, sent, torn, faults>> /\ Stage(r) = "end"
      BY <1>2 DEF Responds, Stage
    <2>2. TokensHold /\ OperationsTypeOK /\ torn \subseteq torn' /\ UNCHANGED <<tokens, sent>> /\ Stage(r) \notin {"body", "commit"} \cup Using
      BY <2>1, OnceFacts DEF Using
    <2>3. TokensHold'
      BY <2>1, <2>2, IdleEnds
    <2>4. OperationsTypeOK'
      BY <2>1, <2>2, TypesAfter, FaultsAreTyped
    <2>. QED BY <2>3, <2>4 DEF OnceInv
  <1>. QED BY <1>1, <1>2

\* The tables that other handlers change.
LEMMA TablesChange ==
    ASSUME OperationsTypeOK, NEW r, Sound(r), UNCHANGED <<tokens, sent, faults>>,
           \/ users' = [users EXCEPT ![r.q.user] = IF @ = "admin" THEN "member" ELSE @] /\ UNCHANGED <<creds, agents, rows, hits>>
           \/ creds' = [creds EXCEPT ![r.q.by].valid = FALSE] /\ UNCHANGED <<users, agents, rows, hits>>
           \/ agents' = [agents EXCEPT ![r.q.agent].owner = r.q.user] /\ UNCHANGED <<users, creds, rows, hits>>
           \/ agents' = [agents EXCEPT ![r.q.agent].revoked = TRUE] /\ UNCHANGED <<users, creds, rows, hits>>
           \/ /\ agents' = [agents EXCEPT ![r.q.agent].online = ~@ /\ ~agents[r.q.agent].revoked]
              /\ UNCHANGED <<users, creds, rows, hits>>
           \/ rows' = [rows EXCEPT ![r.q.row].server = r.q.agent] /\ UNCHANGED <<users, creds, agents, hits>>
           \/ hits' = [k \in Ips \cup Tokens |-> 0] /\ UNCHANGED tables
    PROVE  OperationsTypeOK'
  <1>0. r.q.user \in Users /\ r.q.by \in Creds /\ r.q.agent \in Agents /\ r.q.row \in Rows
    BY DEF Sound, Requests
  <1>1. /\ users \in [Users -> {"admin", "member", Nothing}] /\ creds \in [Creds -> CredRows] /\ agents \in [Agents -> AgentRows]
        /\ rows \in [Rows -> ReadRows] /\ hits \in [Ips \cup Tokens -> Nat]
    BY DEF OperationsTypeOK, TransfersTypeOK, TablesOK
  <1>2. users' \in [Users -> {"admin", "member", Nothing}]
    BY <1>0, <1>1 DEF tables
  <1>3. creds' \in [Creds -> CredRows]
    <2>1. CASE creds' = [creds EXCEPT ![r.q.by].valid = FALSE]
      <3>1. creds[r.q.by] \in CredRows
        BY <1>0, <1>1
      <3>2. [creds[r.q.by] EXCEPT !.valid = FALSE] \in CredRows
        BY <3>1 DEF CredRows
      <3>. QED BY <1>1, <2>1, <3>2
    <2>. QED BY <1>1, <2>1 DEF tables
  <1>4. agents' \in [Agents -> AgentRows]
    <2> DEFINE a == agents[r.q.agent]  on == ~a.online /\ ~a.revoked
    <2>1. a \in AgentRows
      BY <1>0, <1>1
    <2>2. on \in BOOLEAN
      OBVIOUS
    <2> HIDE DEF on, a
    <2>3. [a EXCEPT !.owner = r.q.user] \in AgentRows /\ [a EXCEPT !.revoked = TRUE] \in AgentRows /\ [a EXCEPT !.online = on] \in AgentRows
      BY <1>0, <2>1, <2>2 DEF AgentRows
    <2>4. \/ agents' = agents
          \/ agents' = [agents EXCEPT ![r.q.agent] = [a EXCEPT !.owner = r.q.user]]
          \/ agents' = [agents EXCEPT ![r.q.agent] = [a EXCEPT !.revoked = TRUE]]
          \/ agents' = [agents EXCEPT ![r.q.agent] = [a EXCEPT !.online = on]]
      BY DEF tables, a, on
    <2>. QED BY <1>0, <1>1, <2>3, <2>4
  <1>5. rows' \in [Rows -> ReadRows]
    <2>1. CASE rows' = [rows EXCEPT ![r.q.row].server = r.q.agent]
      <3>1. rows[r.q.row] \in ReadRows
        BY <1>0, <1>1
      <3>2. [rows[r.q.row] EXCEPT !.server = r.q.agent] \in ReadRows
        BY <1>0, <3>1 DEF ReadRows
      <3>. QED BY <1>1, <2>1, <3>2
    <2>. QED BY <1>1, <2>1 DEF tables
  <1>6. hits' \in [Ips \cup Tokens -> Nat]
    BY <1>1
  <1>. QED BY <1>2, <1>3, <1>4, <1>5, <1>6 DEF OperationsTypeOK, TransfersTypeOK, TablesOK

LEMMA ChangesHappen ==
    ASSUME OnceInv, NEW r \in live, Change(r)
    PROVE  OnceInv'
  <1>0. Steps(r) /\ Sound(r) /\ OperationsTypeOK /\ TokensHold
    BY OnceFacts
  <1>1. r.todo # <<>> /\ Stage(r) = "change" /\ UNCHANGED <<sent, torn, faults>> /\ Ends(r)
    BY AtIsStage DEF Change, Quiet
  <1>2. r.q.op \notin Strict /\ ~Redeems(r)
    BY <1>0, <1>1, NotStrict DEF Redeems, Strict
  <1>3. CASE UNCHANGED tokens
    <2>1. TokensHold'
      BY <1>0, <1>1, <1>2, <1>3, IdleEnds
    <2>2. OperationsTypeOK'
      <3>1. CASE UNCHANGED <<tables, hits>>
        BY <1>0, <1>1, <1>3, <3>1, TypesAfter, FaultsAreTyped
      <3>2. CASE ~UNCHANGED <<tables, hits>>
        <4>1. \/ users' = [users EXCEPT ![r.q.user] = IF @ = "admin" THEN "member" ELSE @] /\ UNCHANGED <<creds, agents, rows, hits>>
              \/ creds' = [creds EXCEPT ![r.q.by].valid = FALSE] /\ UNCHANGED <<users, agents, rows, hits>>
              \/ agents' = [agents EXCEPT ![r.q.agent].owner = r.q.user] /\ UNCHANGED <<users, creds, rows, hits>>
              \/ agents' = [agents EXCEPT ![r.q.agent].revoked = TRUE] /\ UNCHANGED <<users, creds, rows, hits>>
              \/ /\ agents' = [agents EXCEPT ![r.q.agent].online = ~@ /\ ~agents[r.q.agent].revoked]
                 /\ UNCHANGED <<users, creds, rows, hits>>
              \/ rows' = [rows EXCEPT ![r.q.row].server = r.q.agent] /\ UNCHANGED <<users, creds, agents, hits>>
              \/ hits' = [k \in Ips \cup Tokens |-> 0] /\ UNCHANGED tables
          BY <3>2 DEF Change
        <4>. QED BY <1>0, <1>1, <1>3, <4>1, TablesChange
      <3>. QED BY <3>1, <3>2
    <2>. QED BY <2>1, <2>2 DEF OnceInv
  <1>4. CASE ~UNCHANGED tokens
    <2> DEFINE t == r.q.token  old == tokens[t]  rec == [old EXCEPT !.expired = TRUE]
    <2>1. tokens' = [tokens EXCEPT ![t].expired = TRUE] /\ old # Nothing /\ UNCHANGED <<tables, hits>>
      BY <1>4 DEF Change
    <2>2. tokens \in [Tokens -> TokenRows \cup {Nothing}] /\ old \in TokenRows
      BY <1>0, <2>1, StepFacts DEF TablesOK
    <2>3. tokens' = Put(t, rec)
      BY <2>1 DEF Put
    <2>4. rec \in TokenRows /\ rec.used = old.used /\ rec.by = old.by /\ rec.revoked = old.revoked /\ rec.dead = old.dead
      BY <2>2 DEF TokenRows
    <2> HIDE DEF rec
    <2>5. SameUse(rec, tokens[t])
      BY <2>4 DEF SameUse
    <2>6. TokensHold' /\ TablesOK(users, creds, agents, tokens')
      BY <1>0, <1>1, <1>2, <2>1, <2>3, <2>4, <2>5, ExpiresToken
    <2>. QED BY <1>0, <1>1, <2>1, <2>6, TypesAfter, FaultsAreTyped DEF OnceInv
  <1>. QED BY <1>3, <1>4

LEMMA OnceNext == OnceInv /\ [OperationsNext]_transferVars => OnceInv'
  <1> SUFFICES ASSUME OnceInv, [OperationsNext]_transferVars PROVE OnceInv'
    OBVIOUS
  <1>1. CASE OperationsNext
    <2>1. PICK r \in live :
        \/ (r.q.op # "mcp" /\ Authenticated(r, Scopes(r.q))) \/ StartsTools(r)
        \/ AsksForCode(r) \/ FindVisible(r) \/ FindActive(r) \/ IsOnline(r)
        \/ ShowsAgent(r) \/ Send(r, ActsUnder(r)) \/ Reply(r)
        \/ CreateToken(r, ActsUnder(r)) \/ CheckRateLimit(r) \/ FindRecord(r) \/ FindIssuer(r)
        \/ FindIssuersCredential(r) \/ FindServer(r) \/ consume_temporary_transfer(r)
        \/ reserve_upload_once(r) \/ ReadsBody(r) \/ commit_temporary_upload(r) \/ ReachesAgent(r)
        \/ record_temporary_transfer_result(r) \/ ListsTokens(r) \/ FindToken(r) \/ MayRevoke(r) \/ RevokeToken(r)
        \/ execute_tool(r) \/ reject_mcp_file_write_tool(r) \/ ensure_agent_with_state_visible(r)
        \/ EnsureAgentActive(r) \/ FindOnline(r) \/ RunsBatch(r) \/ NextItem(r)
        \/ LoadVisible(r) \/ ListsInventory(r) \/ FindServices(r) \/ TellsServices(r) \/ ListsResults(r)
        \/ ListsEvents(r) \/ ListsRules(r) \/ ListsTasks(r) \/ ListsNat(r) \/ ListsDdns(r)
        \/ Dropped(r) \/ Responds(r) \/ Change(r)
      BY <1>1 DEF OperationsNext
    <2>. QED BY <2>1, Asks, LooksAtAgent, SendsAndReplies, Creation, Looks, Takes, Uploads, Records, Revokes, RunsTools, RunsBatches,
                ReadsRows, Departs, ChangesHappen
  <1>2. CASE UNCHANGED transferVars
    BY <1>2 DEF OnceInv, OperationsTypeOK, TransfersTypeOK, TokensHold, transferVars, tables
  <1>. QED BY <1>1, <1>2

-----------------------------------------------------------------------------
(* A token is used once. *)

LEMMA OnceIsUsedOnce == OnceInv => TokenIsUsedOnce
  <1> SUFFICES ASSUME OnceInv PROVE TokenIsUsedOnce
    OBVIOUS
  <1>1. /\ \A t \in Tokens : tokens[t] # Nothing => Accounted(t, tokens[t], live, sent, torn)
        /\ Recorded(tokens, sent) /\ sent \subseteq Tokens \X Nat
    BY DEF OnceInv, TokensHold, TokensInv, OperationsTypeOK, TransfersTypeOK
  <1>2. TokenServesOnce
    <2>1. ASSUME NEW t \in Tokens, tokens[t] # Nothing
          PROVE  Cardinality({x \in sent : x[1] = t}) <= (IF tokens[t].dead THEN 0 ELSE 1)
      <3> DEFINE S == {x \in sent : x[1] = t}
      <3>1. S \subseteq {<<t, tokens[t].by>>}
        BY <1>1 DEF Recorded
      <3>2. tokens[t].dead => S = {}
        BY <1>1, <2>1 DEF Recorded, Accounted
      <3>3. S = {} \/ S = {<<t, tokens[t].by>>}
        BY <3>1
      <3>4. Cardinality({}) = 0 /\ Cardinality({<<t, tokens[t].by>>}) = 1
        BY FS_EmptySet, FS_Singleton
      <3> HIDE DEF S
      <3>5. Cardinality(S) <= (IF tokens[t].dead THEN 0 ELSE 1)
        BY <3>2, <3>3, <3>4
      <3>. QED BY <3>5 DEF S
    <2>. QED BY <2>1 DEF TokenServesOnce
  <1>3. TokenIsAccountedFor
    BY <1>1 DEF TokenIsAccountedFor, Accounted, Serves
  <1>. QED BY <1>2, <1>3 DEF TokenIsUsedOnce

(***************************************************************************)
(* Users, credentials, Agents, tokens and rows keep their form.            *)
(***************************************************************************)
THEOREM OperationsTypes == OperationsSpec => []OperationsTypeOK
  <1>1. OnceInv => OperationsTypeOK
    BY DEF OnceInv
  <1>. QED BY OnceInit, OnceNext, <1>1, PTL DEF OperationsSpec

(***************************************************************************)
(* One operation is sent for a temporary URL's token, none for one revoked *)
(* before that, and a token in use is in the hands of a request under way, *)
(* however requests for it, its revocation and its expiry interleave and   *)
(* wherever they are dropped.                                              *)
(***************************************************************************)
THEOREM TokensAreUsedOnce == OperationsSpec => []TokenIsUsedOnce
  <1>. QED BY OnceInit, OnceNext, OnceIsUsedOnce, PTL DEF OperationsSpec

-----------------------------------------------------------------------------
(* Entitlement: what a request has met by the time it is where it is. *)

\* One that has not begun has met nothing.
Known(r) == IF r.begun THEN r.ever ELSE {}
Allowed(c, a) == creds[c].servers # Nothing => a \in creds[c].servers
Authority(c, admin, K) ==
    admin => /\ <<"admin", creds[c].user>> \in K
             /\ \A a \in Agents : Allowed(c, a) => <<"sees", c, a>> \in K

Asking(r) ==
    /\ \A i \in DOMAIN r.todo : r.todo[i][1] = "auth" => i = 1 /\ ~r.begun
    /\ r.q.op \in Changes => \A i \in DOMAIN r.todo : r.todo[i][1] = "change"
    /\ ~r.begun => r.show = {} /\ r.svcs = {} /\ r.among = {}
    /\ \/ r.q.op \in Changes \/ Stage(r) = "auth"
       \/ <<"credential", r.q.by>> \in Known(r) /\ Authority(r.q.by, r.admin, Known(r))

\* Before step i of d one of the steps S is made, and no refusal skips it alone.
Marking == {"scope", "each"}
Behind(d, i, S) == \E j \in 1..(i - 1) : d[j] \in S /\ \A k \in j..i : d[k][1] \notin Marking
Sees(a) == {<<"visible", a>>, <<"both", a>>}
Finds(a) == {<<"active", a>>, <<"both", a>>}
Aimed == {"visible", "active", "both", "state", "agent", "online", "send", "create"}
Sighted(d, c, K) ==
    \A i \in DOMAIN d :
        /\ d[i][1] \in Aimed => d[i][2] \in Agents
        /\ d[i][1] \in {"agent", "send", "create"} => <<"sees", c, d[i][2]>> \in K \/ Behind(d, i, Sees(d[i][2]))
        /\ d[i][1] \in {"send", "create"} => <<"active", d[i][2]>> \in K \/ Behind(d, i, Finds(d[i][2]))

\* The steps that act on an Agent come after the check of a tool that does.
Acting == {"send", "create", "batch", "each"}
Batching == {"batch", "each"}
ActingTools == {"exec", "inspect", "batch", "batch_online", "fs_list", "fs_read", "fs_url"}
Unscoped(d, m, i) == \A k \in m..i : d[k][1] # "scope"
Free(d, S) == \E i \in DOMAIN d : d[i][1] \in S /\ Unscoped(d, 1, i)
Checked(d, op) ==
    \A i \in DOMAIN d :
        /\ d[i][1] = "scope" => op = "mcp" /\ d[i][2] \in Tools
        /\ d[i][1] = "each" => Unscoped(d, 1, i)
        /\ d[i][1] \in Acting => \A m \in 1..(i - 1) : d[m][1] = "scope" /\ Unscoped(d, m + 1, i) => d[m][2] \in ActingTools
Righted(r) ==
    Free(r.todo, Acting) => IF r.begun THEN has_scope(r.q.by, r.admin, ActsUnder(r)) ELSE r.q.op \in Operations

\* A batch is not made of Agents that are only visible.
Sorted(d) == \A i, j \in DOMAIN d : d[j][1] = "agents" /\ j < i /\ d[i][1] \in Batching => ~Unscoped(d, j, i)
Gathered(r) ==
    /\ \A a \in r.among : a \in Agents /\ <<"sees", r.q.by, a>> \in Known(r)
    /\ Free(r.todo, Batching) => \A a \in r.among : <<"active", a>> \in Known(r)
    /\ \A x \in r.svcs : NeedsOfRow(r, x[1], x[2]) \subseteq Known(r)
    /\ r.show \subseteq Known(r)

\* A token's holder has met what its issuer may.
Redeeming(r) ==
    LET t == tokens[r.q.token]  s == Stage(r) IN
    /\ r.show = {}
    /\ s \notin {"end", "ip", "record"} => t # Nothing /\ t.op = r.q.op
    /\ s \notin {"end", "ip", "record", "issuer"} => users[creds[t.cred].user] # Nothing /\ Authority(t.cred, r.admin, Known(r))
    /\ s \notin {"end", "ip", "record", "issuer", "held"} =>
          <<"credential", t.cred>> \in Known(r) /\ has_scope(t.cred, r.admin, Scope(t.op))
    /\ s \notin {"end", "ip", "record", "issuer", "held", "server"} =>
          <<"sees", t.cred, t.server>> \in Known(r) /\ <<"active", t.server>> \in Known(r)
    /\ s \in Using => <<"usable", r.q.token>> \in Known(r)
Revoking(r) ==
    r.q.op = "revoke" /\ Stage(r) = "revoke" =>
        tokens[r.q.token] # Nothing /\ (r.admin \/ creds[tokens[r.q.token].cred].user = creds[r.q.by].user)

Formed(d, q, K) == Sighted(d, q.by, K) /\ Checked(d, q.op) /\ Sorted(d)
Good(r) ==
    IF Redeems(r) THEN Redeeming(r)
    ELSE Asking(r) /\ Formed(r.todo, r.q, Known(r)) /\ Righted(r) /\ Gathered(r) /\ Revoking(r)
Rights == \A r \in live : Good(r) /\ Facts \subseteq r.ever
ResultsInv == \A x \in Rows : rows[x].kind = "result" => rows[x].server # Nothing
EntitledInv == OnceInv /\ Rights /\ ResultsInv /\ OperationsAreEntitled

-----------------------------------------------------------------------------
(* Programs go on: a step is taken off. *)

LEMMA BehindNext ==
    ASSUME NEW d \in Seq(StepRows), d # <<>>, NEW e, e = Tail(d), NEW i \in DOMAIN e, NEW S, Behind(d, i + 1, S), d[1] \notin S
    PROVE  Behind(e, i, S)
  <1>1. /\ Len(d) \in Nat /\ DOMAIN e = 1..(Len(d) - 1) /\ \A m \in 1..(Len(d) - 1) : e[m] = d[m + 1]
    BY TailOf
  <1>2. PICK j \in 1..i : d[j] \in S /\ \A k \in j..(i + 1) : d[k][1] \notin Marking
    <2>1. PICK j \in 1..((i + 1) - 1) : d[j] \in S /\ \A k \in j..(i + 1) : d[k][1] \notin Marking
      BY DEF Behind
    <2>. QED BY <1>1, <2>1
  <1>3. j # 1
    BY <1>2
  <1>4. j - 1 \in 1..(i - 1) /\ e[j - 1] = d[j]
    BY <1>1, <1>2, <1>3
  <1>5. ASSUME NEW k \in (j - 1)..i PROVE e[k][1] \notin Marking
    <2>1. k + 1 \in j..(i + 1) /\ e[k] = d[k + 1]
      BY <1>1, <1>2, <1>4
    <2>. QED BY <1>2, <2>1
  <1>. QED BY <1>2, <1>4, <1>5 DEF Behind

LEMMA SightedNext ==
    ASSUME NEW d \in Seq(StepRows), d # <<>>, NEW e, e = Tail(d), NEW c, NEW K, NEW M, K \subseteq M, Sighted(d, c, K),
           d[1][1] \in {"visible", "both"} => <<"sees", c, d[1][2]>> \in M,
           d[1][1] \in {"active", "both"} => <<"active", d[1][2]>> \in M
    PROVE  Sighted(e, c, M)
  <1>1. /\ Len(d) \in Nat /\ DOMAIN d = 1..Len(d) /\ DOMAIN e = 1..(Len(d) - 1) /\ \A m \in 1..(Len(d) - 1) : e[m] = d[m + 1]
    BY TailOf
  <1>2. ASSUME NEW i \in DOMAIN e
        PROVE  /\ e[i][1] \in Aimed => e[i][2] \in Agents
               /\ e[i][1] \in {"agent", "send", "create"} => <<"sees", c, e[i][2]>> \in M \/ Behind(e, i, Sees(e[i][2]))
               /\ e[i][1] \in {"send", "create"} => <<"active", e[i][2]>> \in M \/ Behind(e, i, Finds(e[i][2]))
    <2> DEFINE a == e[i][2]
    <2>1. i + 1 \in DOMAIN d /\ e[i] = d[i + 1]
      BY <1>1
    <2>2. /\ e[i][1] \in Aimed => a \in Agents
          /\ e[i][1] \in {"agent", "send", "create"} => <<"sees", c, a>> \in K \/ Behind(d, i + 1, Sees(a))
          /\ e[i][1] \in {"send", "create"} => <<"active", a>> \in K \/ Behind(d, i + 1, Finds(a))
      BY <2>1 DEF Sighted
    <2> HIDE DEF a
    <2>3. ASSUME Behind(d, i + 1, Sees(a)) PROVE <<"sees", c, a>> \in M \/ Behind(e, i, Sees(a))
      <3>1. CASE d[1] \in Sees(a)
        <4>1. d[1][1] \in {"visible", "both"} /\ d[1][2] = a
          BY <3>1 DEF Sees
        <4>. QED BY <4>1
      <3>2. CASE d[1] \notin Sees(a)
        BY <2>3, <3>2, BehindNext
      <3>. QED BY <3>1, <3>2
    <2>4. ASSUME Behind(d, i + 1, Finds(a)) PROVE <<"active", a>> \in M \/ Behind(e, i, Finds(a))
      <3>1. CASE d[1] \in Finds(a)
        <4>1. d[1][1] \in {"active", "both"} /\ d[1][2] = a
          BY <3>1 DEF Finds
        <4>. QED BY <4>1
      <3>2. CASE d[1] \notin Finds(a)
        BY <2>4, <3>2, BehindNext
      <3>. QED BY <3>1, <3>2
    <2>5. /\ e[i][1] \in Aimed => a \in Agents
          /\ e[i][1] \in {"agent", "send", "create"} => <<"sees", c, a>> \in M \/ Behind(e, i, Sees(a))
          /\ e[i][1] \in {"send", "create"} => <<"active", a>> \in M \/ Behind(e, i, Finds(a))
      BY <2>2, <2>3, <2>4
    <2>. QED BY <2>5 DEF a
  <1>. QED BY <1>2 DEF Sighted

\* More is known.
LEMMA SightedMore == ASSUME NEW d, NEW c, NEW K, NEW M, K \subseteq M, Sighted(d, c, K) PROVE Sighted(d, c, M)
  BY DEF Sighted

LEMMA UnscopedNext ==
    ASSUME NEW d \in Seq(StepRows), d # <<>>, NEW e, e = Tail(d), NEW i \in DOMAIN e, NEW m \in Nat, m >= 1
    PROVE  /\ Unscoped(e, m, i) <=> Unscoped(d, m + 1, i + 1)
           /\ d[1][1] # "scope" /\ m = 1 /\ Unscoped(e, 1, i) => Unscoped(d, 1, i + 1)
           /\ Unscoped(d, 1, i + 1) => Unscoped(e, 1, i)
  <1>1. /\ Len(d) \in Nat /\ DOMAIN e = 1..(Len(d) - 1) /\ \A k \in 1..(Len(d) - 1) : e[k] = d[k + 1]
    BY TailOf
  <1>2. ASSUME NEW n \in Nat, n >= 1 PROVE Unscoped(e, n, i) <=> Unscoped(d, n + 1, i + 1)
    <2>1. ASSUME Unscoped(e, n, i), NEW k \in (n + 1)..(i + 1) PROVE d[k][1] # "scope"
      <3>1. k - 1 \in n..i /\ e[k - 1] = d[k]
        BY <1>1, <1>2
      <3>. QED BY <2>1, <3>1 DEF Unscoped
    <2>2. ASSUME Unscoped(d, n + 1, i + 1), NEW k \in n..i PROVE e[k][1] # "scope"
      <3>1. k + 1 \in (n + 1)..(i + 1) /\ e[k] = d[k + 1]
        BY <1>1, <1>2
      <3>. QED BY <2>2, <3>1 DEF Unscoped
    <2>. QED BY <2>1, <2>2 DEF Unscoped
  <1>3. ASSUME d[1][1] # "scope", Unscoped(e, 1, i), NEW k \in 1..(i + 1) PROVE d[k][1] # "scope"
    <2>1. Unscoped(d, 1 + 1, i + 1)
      BY <1>2, <1>3
    <2>2. k = 1 \/ k \in (1 + 1)..(i + 1)
      BY <1>1
    <2>. QED BY <1>3, <2>1, <2>2 DEF Unscoped
  <1>4. ASSUME Unscoped(d, 1, i + 1) PROVE Unscoped(e, 1, i)
    <2>1. Unscoped(d, 1 + 1, i + 1)
      <3>1. ASSUME NEW k \in (1 + 1)..(i + 1) PROVE k \in 1..(i + 1)
        BY <1>1
      <3>. QED BY <1>4, <3>1 DEF Unscoped
    <2>. QED BY <1>2, <2>1
  <1>. QED BY <1>2, <1>3, <1>4 DEF Unscoped

LEMMA CheckedNext ==
    ASSUME NEW d \in Seq(StepRows), d # <<>>, NEW e, e = Tail(d), NEW op, Checked(d, op), Sorted(d)
    PROVE  Checked(e, op) /\ Sorted(e)
  <1>1. /\ Len(d) \in Nat /\ DOMAIN d = 1..Len(d) /\ DOMAIN e = 1..(Len(d) - 1) /\ \A k \in 1..(Len(d) - 1) : e[k] = d[k + 1]
    BY TailOf
  <1>2. ASSUME NEW i \in DOMAIN e
        PROVE  /\ e[i][1] = "scope" => op = "mcp" /\ e[i][2] \in Tools
               /\ e[i][1] = "each" => Unscoped(e, 1, i)
    <2>1. i + 1 \in DOMAIN d /\ e[i] = d[i + 1]
      BY <1>1
    <2>2. /\ e[i][1] = "scope" => op = "mcp" /\ e[i][2] \in Tools
          /\ e[i][1] = "each" => Unscoped(d, 1, i + 1)
      BY <2>1 DEF Checked
    <2>3. 1 \in Nat /\ 1 >= 1
      OBVIOUS
    <2>4. Unscoped(d, 1, i + 1) => Unscoped(e, 1, i)
      BY <2>3, UnscopedNext
    <2>. QED BY <2>2, <2>4
  <1>3. ASSUME NEW i \in DOMAIN e, e[i][1] \in Acting, NEW m \in 1..(i - 1), e[m][1] = "scope", Unscoped(e, m + 1, i) PROVE e[m][2] \in ActingTools
    <2>1. i + 1 \in DOMAIN d /\ e[i] = d[i + 1] /\ e[m] = d[m + 1] /\ m + 1 \in 1..((i + 1) - 1) /\ m + 1 \in Nat /\ m + 1 >= 1
      BY <1>1
    <2>2. Unscoped(d, (m + 1) + 1, i + 1)
      BY <1>3, <2>1, UnscopedNext
    <2>. QED BY <1>3, <2>1, <2>2 DEF Checked
  <1>4. ASSUME NEW i \in DOMAIN e, NEW j \in DOMAIN e, e[j][1] = "agents", j < i, e[i][1] \in Batching PROVE ~Unscoped(e, j, i)
    <2>1. i + 1 \in DOMAIN d /\ e[i] = d[i + 1] /\ j + 1 \in DOMAIN d /\ e[j] = d[j + 1] /\ j + 1 < i + 1 /\ j \in Nat /\ j >= 1
      BY <1>1, <1>4
    <2>2. ~Unscoped(d, j + 1, i + 1)
      BY <1>4, <2>1 DEF Sorted
    <2>. QED BY <2>1, <2>2, UnscopedNext
  <1>. QED BY <1>2, <1>3, <1>4 DEF Checked, Sorted

LEMMA FreeNext ==
    ASSUME NEW d \in Seq(StepRows), d # <<>>, NEW e, e = Tail(d), NEW S, Free(e, S)
    PROVE  /\ d[1][1] # "scope" => Free(d, S)
           /\ d[1][1] = "scope" /\ S \subseteq Acting => \A op : Checked(d, op) => d[1][2] \in ActingTools
           /\ d[1][1] = "agents" /\ S \subseteq Batching => ~Sorted(d)
  <1>1. /\ Len(d) \in Nat /\ DOMAIN d = 1..Len(d) /\ DOMAIN e = 1..(Len(d) - 1) /\ \A k \in 1..(Len(d) - 1) : e[k] = d[k + 1]
    BY TailOf
  <1>2. PICK i \in DOMAIN e : e[i][1] \in S /\ Unscoped(e, 1, i)
    BY DEF Free
  <1>3. i + 1 \in DOMAIN d /\ e[i] = d[i + 1] /\ 1 \in DOMAIN d /\ 1 < i + 1 /\ 1 \in 1..((i + 1) - 1)
    BY <1>1
  <1>4. /\ d[1][1] # "scope" => Unscoped(d, 1, i + 1)
        /\ Unscoped(d, 1 + 1, i + 1)
    <2>1. 1 \in Nat /\ 1 >= 1
      OBVIOUS
    <2>. QED BY <1>2, <2>1, UnscopedNext
  <1>5. d[1][1] # "scope" => Free(d, S)
    BY <1>2, <1>3, <1>4 DEF Free
  <1>6. ASSUME d[1][1] = "scope", S \subseteq Acting, NEW op, Checked(d, op) PROVE d[1][2] \in ActingTools
    BY <1>2, <1>3, <1>4, <1>6 DEF Checked
  <1>7. ASSUME d[1][1] = "agents", S \subseteq Batching PROVE ~Sorted(d)
    BY <1>2, <1>3, <1>4, <1>7 DEF Sorted
  <1>. QED BY <1>5, <1>6, <1>7

-----------------------------------------------------------------------------
(* A refusal skips all up to the next mark. *)

LEMMA RestIsFormed ==
    ASSUME NEW d \in Seq(StepRows), NEW n \in DOMAIN d, n >= 2, d[n][1] \in Marking, \A k \in 2..(n - 1) : d[k][1] \notin Marking,
           NEW e, e = SubSeq(d, n, Len(d)), NEW q, NEW K, Formed(d, q, K)
    PROVE  /\ Formed(e, q, K)
           /\ \A S : Free(e, S) => Free(d, S)
  <1>1. /\ n \in Nat /\ n >= 1 /\ n <= Len(d) /\ Len(d) \in Nat
        /\ DOMAIN d = 1..Len(d) /\ DOMAIN e = 1..(Len(d) - n + 1)
        /\ \A i \in 1..(Len(d) - n + 1) : e[i] = d[i + n - 1] /\ i + n - 1 \in DOMAIN d
    BY SubOf
  <1>2. ASSUME NEW i \in DOMAIN e, NEW S, Behind(d, i + n - 1, S) PROVE Behind(e, i, S)
    <2>1. PICK j \in 1..((i + n - 1) - 1) : d[j] \in S /\ \A k \in j..(i + n - 1) : d[k][1] \notin Marking
      BY <1>2 DEF Behind
    <2>2. n \notin j..(i + n - 1)
      BY <2>1
    <2>3. j > n
      BY <1>1, <2>1, <2>2
    <2>4. j - n + 1 \in 1..(i - 1) /\ e[j - n + 1] = d[j]
      <3>1. j - n + 1 \in 1..(Len(d) - n + 1) /\ (j - n + 1) + n - 1 = j
        BY <1>1, <2>1, <2>3
      <3>. QED BY <1>1, <2>1, <2>3, <3>1
    <2>5. ASSUME NEW k \in (j - n + 1)..i PROVE e[k][1] \notin Marking
      <3>1. k \in 1..(Len(d) - n + 1) /\ k + n - 1 \in j..(i + n - 1)
        BY <1>1, <2>1, <2>3
      <3>. QED BY <1>1, <2>1, <3>1
    <2>. QED BY <2>1, <2>4, <2>5 DEF Behind
  <1>3. Sighted(e, q.by, K)
    <2>1. ASSUME NEW i \in DOMAIN e
          PROVE  /\ e[i][1] \in Aimed => e[i][2] \in Agents
                 /\ e[i][1] \in {"agent", "send", "create"} => <<"sees", q.by, e[i][2]>> \in K \/ Behind(e, i, Sees(e[i][2]))
                 /\ e[i][1] \in {"send", "create"} => <<"active", e[i][2]>> \in K \/ Behind(e, i, Finds(e[i][2]))
      <3>1. i + n - 1 \in DOMAIN d /\ e[i] = d[i + n - 1]
        BY <1>1
      <3>. QED BY <1>2, <3>1 DEF Formed, Sighted
    <2>. QED BY <2>1 DEF Sighted
  <1>4. ASSUME NEW i \in DOMAIN e, NEW m \in Nat, m >= 1 PROVE Unscoped(e, m, i) <=> Unscoped(d, m + n - 1, i + n - 1)
    <2>1. ASSUME Unscoped(e, m, i), NEW k \in (m + n - 1)..(i + n - 1) PROVE d[k][1] # "scope"
      <3>1. k - n + 1 \in m..i /\ k - n + 1 \in 1..(Len(d) - n + 1) /\ (k - n + 1) + n - 1 = k
        BY <1>1, <1>4
      <3>. QED BY <1>1, <2>1, <3>1 DEF Unscoped
    <2>2. ASSUME Unscoped(d, m + n - 1, i + n - 1), NEW k \in m..i PROVE e[k][1] # "scope"
      <3>1. k + n - 1 \in (m + n - 1)..(i + n - 1) /\ k \in 1..(Len(d) - n + 1)
        BY <1>1, <1>4
      <3>. QED BY <1>1, <2>2, <3>1 DEF Unscoped
    <2>. QED BY <2>1, <2>2 DEF Unscoped
  <1>5. ASSUME NEW i \in DOMAIN e, Unscoped(e, 1, i) PROVE Unscoped(d, 1, i + n - 1)
    <2>1. Unscoped(d, n, i + n - 1)
      <3>1. 1 \in Nat /\ 1 >= 1 /\ 1 + n - 1 = n
        BY <1>1
      <3>2. Unscoped(d, 1 + n - 1, i + n - 1)
        BY <1>4, <1>5, <3>1
      <3>. QED BY <3>1, <3>2
    <2>2. n \in n..(i + n - 1) /\ i \in Nat /\ i >= 1
      BY <1>1
    <2>3. d[n][1] # "scope"
      BY <2>1, <2>2 DEF Unscoped
    <2>4. d[n][1] = "each"
      BY <2>3 DEF Marking
    <2>5. Unscoped(d, 1, n)
      BY <2>4 DEF Formed, Checked
    <2>6. ASSUME NEW k \in 1..(i + n - 1) PROVE d[k][1] # "scope"
      <3>1. k \in 1..n \/ k \in n..(i + n - 1)
        BY <1>1, <2>2
      <3>. QED BY <2>1, <2>5, <3>1 DEF Unscoped
    <2>. QED BY <2>6 DEF Unscoped
  <1>6. Checked(e, q.op)
    <2>1. ASSUME NEW i \in DOMAIN e
          PROVE  /\ e[i][1] = "scope" => q.op = "mcp" /\ e[i][2] \in Tools
                 /\ e[i][1] = "each" => Unscoped(e, 1, i)
      <3>1. i + n - 1 \in DOMAIN d /\ e[i] = d[i + n - 1]
        BY <1>1
      <3>2. /\ e[i][1] = "scope" => q.op = "mcp" /\ e[i][2] \in Tools
            /\ e[i][1] = "each" => Unscoped(d, 1, i + n - 1)
        BY <3>1 DEF Formed, Checked
      <3>3. ASSUME Unscoped(d, 1, i + n - 1), NEW k \in 1..i PROVE e[k][1] # "scope"
        <4>1. k + n - 1 \in 1..(i + n - 1) /\ k \in 1..(Len(d) - n + 1)
          BY <1>1
        <4>. QED BY <1>1, <3>3, <4>1 DEF Unscoped
      <3>. QED BY <3>2, <3>3 DEF Unscoped
    <2>2. ASSUME NEW i \in DOMAIN e, e[i][1] \in Acting, NEW m \in 1..(i - 1), e[m][1] = "scope", Unscoped(e, m + 1, i) PROVE e[m][2] \in ActingTools
      <3>1. /\ i + n - 1 \in DOMAIN d /\ e[i] = d[i + n - 1] /\ e[m] = d[m + n - 1] /\ m + n - 1 \in 1..((i + n - 1) - 1)
            /\ m + 1 \in Nat /\ m + 1 >= 1 /\ (m + 1) + n - 1 = (m + n - 1) + 1
        BY <1>1
      <3>2. Unscoped(d, (m + 1) + n - 1, i + n - 1)
        BY <1>4, <2>2, <3>1
      <3>3. Unscoped(d, (m + n - 1) + 1, i + n - 1)
        BY <3>1, <3>2
      <3>. QED BY <2>2, <3>1, <3>3 DEF Formed, Checked
    <2>. QED BY <2>1, <2>2 DEF Checked
  <1>7. Sorted(e)
    <2>1. ASSUME NEW i \in DOMAIN e, NEW j \in DOMAIN e, e[j][1] = "agents", j < i, e[i][1] \in Batching PROVE ~Unscoped(e, j, i)
      <3>1. /\ i + n - 1 \in DOMAIN d /\ e[i] = d[i + n - 1] /\ j + n - 1 \in DOMAIN d /\ e[j] = d[j + n - 1]
            /\ j + n - 1 < i + n - 1 /\ j \in Nat /\ j >= 1
        BY <1>1, <2>1
      <3>2. ~Unscoped(d, j + n - 1, i + n - 1)
        BY <2>1, <3>1 DEF Formed, Sorted
      <3>. QED BY <1>4, <3>1, <3>2
    <2>. QED BY <2>1 DEF Sorted
  <1>8. ASSUME NEW S, Free(e, S) PROVE Free(d, S)
    <2>1. PICK i \in DOMAIN e : e[i][1] \in S /\ Unscoped(e, 1, i)
      BY <1>8 DEF Free
    <2>2. i + n - 1 \in DOMAIN d /\ e[i] = d[i + n - 1]
      BY <1>1
    <2>. QED BY <1>5, <2>1, <2>2 DEF Free
  <1>. QED BY <1>3, <1>6, <1>7, <1>8 DEF Formed

-----------------------------------------------------------------------------
(* A batch goes through its items: steps are put in front. *)

LEMMA BatchIsFormed ==
    ASSUME NEW d \in Seq(StepRows), d # <<>>, d[1][1] = "batch", NEW x \in StepRows, x[1] = "each", NEW e, e = <<x>> \o Tail(d),
           NEW q, NEW K, Formed(d, q, K)
    PROVE  Formed(e, q, K)
  <1>1. /\ Len(d) \in Nat /\ Len(d) >= 1 /\ DOMAIN d = 1..Len(d) /\ DOMAIN e = 1..Len(d) /\ e[1] = x
        /\ \A i \in 2..Len(d) : e[i] = d[i]
    <2> DEFINE t == Tail(d)
    <2>1. /\ Len(d) \in Nat /\ Len(d) >= 1 /\ t \in Seq(StepRows) /\ Len(t) = Len(d) - 1 /\ DOMAIN d = 1..Len(d)
          /\ \A i \in 2..Len(d) : d[i] = t[i - 1]
      BY TailOf
    <2>2. <<x>> \in Seq(StepRows) /\ Len(<<x>>) = 1 /\ <<x>>[1] = x
      BY OneStep
    <2> HIDE DEF t
    <2>3. /\ DOMAIN (<<x>> \o t) = 1..(1 + Len(t)) /\ \A i \in 1..1 : (<<x>> \o t)[i] = <<x>>[i]
          /\ \A i \in (1 + 1)..(1 + Len(t)) : (<<x>> \o t)[i] = t[i - 1]
      BY <2>1, <2>2, CatOf
    <2>4. e = <<x>> \o t
      BY DEF t
    <2>. QED BY <2>1, <2>2, <2>3, <2>4
  <1>2. ASSUME NEW i \in DOMAIN e, NEW S, d[1] \notin S, i # 1, Behind(d, i, S) PROVE Behind(e, i, S)
    <2>1. PICK j \in 1..(i - 1) : d[j] \in S /\ \A k \in j..i : d[k][1] \notin Marking
      BY <1>2 DEF Behind
    <2>2. j # 1
      BY <1>2, <2>1
    <2>3. \A k \in j..i : e[k] = d[k]
      BY <1>1, <2>1, <2>2
    <2>4. j \in j..i
      BY <1>1, <2>1
    <2>. QED BY <2>1, <2>3, <2>4 DEF Behind
  <1>3. Sighted(e, q.by, K)
    <2>1. ASSUME NEW i \in DOMAIN e
          PROVE  /\ e[i][1] \in Aimed => e[i][2] \in Agents
                 /\ e[i][1] \in {"agent", "send", "create"} => <<"sees", q.by, e[i][2]>> \in K \/ Behind(e, i, Sees(e[i][2]))
                 /\ e[i][1] \in {"send", "create"} => <<"active", e[i][2]>> \in K \/ Behind(e, i, Finds(e[i][2]))
      <3>1. CASE i = 1
        BY <1>1, <3>1 DEF Aimed
      <3>2. CASE i # 1
        <4>1. i \in DOMAIN d /\ e[i] = d[i]
          BY <1>1, <3>2
        <4>2. \A a : d[1] \notin Sees(a) /\ d[1] \notin Finds(a)
          BY DEF Sees, Finds
        <4>. QED BY <1>2, <3>2, <4>1, <4>2 DEF Formed, Sighted
      <3>. QED BY <3>1, <3>2
    <2>. QED BY <2>1 DEF Sighted
  <1>4. ASSUME NEW i \in DOMAIN e, NEW m \in Nat, m >= 1 PROVE Unscoped(e, m, i) <=> Unscoped(d, m, i)
    <2>1. ASSUME NEW k \in m..i PROVE (e[k][1] # "scope") <=> (d[k][1] # "scope")
      <3>1. k = 1 \/ k \in 2..Len(d)
        BY <1>1, <1>4
      <3>. QED BY <1>1, <3>1
    <2>. QED BY <2>1 DEF Unscoped
  <1>5. Checked(e, q.op)
    <2>1. ASSUME NEW i \in DOMAIN e
          PROVE  /\ e[i][1] = "scope" => q.op = "mcp" /\ e[i][2] \in Tools
                 /\ e[i][1] = "each" => Unscoped(e, 1, i)
                 /\ e[i][1] \in Acting => \A m \in 1..(i - 1) : e[m][1] = "scope" /\ Unscoped(e, m + 1, i) => e[m][2] \in ActingTools
      <3>1. CASE i = 1
        <4>1. \A k \in 1..1 : k = 1
          OBVIOUS
        <4>2. \A m \in 1..(1 - 1) : FALSE
          OBVIOUS
        <4>. QED BY <1>1, <3>1, <4>1, <4>2 DEF Unscoped
      <3>2. CASE i # 1
        <4>1. i \in DOMAIN d /\ e[i] = d[i]
          BY <1>1, <3>2
        <4>2. Unscoped(d, 1, i) => Unscoped(e, 1, i)
          <5>1. 1 \in Nat /\ 1 >= 1
            OBVIOUS
          <5>. QED BY <1>4, <5>1
        <4>3. ASSUME e[i][1] \in Acting, NEW m \in 1..(i - 1), e[m][1] = "scope", Unscoped(e, m + 1, i) PROVE e[m][2] \in ActingTools
          <5>1. m # 1
            BY <1>1, <4>3
          <5>2. e[m] = d[m] /\ m + 1 \in Nat /\ m + 1 >= 1
            BY <1>1, <5>1
          <5>3. Unscoped(d, m + 1, i)
            BY <1>4, <4>3, <5>2
          <5>. QED BY <4>1, <4>3, <5>2, <5>3 DEF Formed, Checked
        <4>. QED BY <4>1, <4>2, <4>3 DEF Formed, Checked
      <3>. QED BY <3>1, <3>2
    <2>. QED BY <2>1 DEF Checked
  <1>6. Sorted(e)
    <2>1. ASSUME NEW i \in DOMAIN e, NEW j \in DOMAIN e, e[j][1] = "agents", j < i, e[i][1] \in Batching PROVE ~Unscoped(e, j, i)
      <3>1. j # 1
        BY <1>1, <2>1
      <3>2. i \in DOMAIN d /\ j \in DOMAIN d /\ e[i] = d[i] /\ e[j] = d[j] /\ j \in Nat /\ j >= 1
        BY <1>1, <2>1, <3>1
      <3>. QED BY <1>4, <2>1, <3>2 DEF Formed, Sorted
    <2>. QED BY <2>1 DEF Sorted
  <1>. QED BY <1>3, <1>5, <1>6 DEF Formed

-----------------------------------------------------------------------------
(* Programs are put together. *)

\* Where the steps of s and of d are in s followed by d.
LEMMA CatPlaces ==
    ASSUME NEW s \in Seq(StepRows), NEW d \in Seq(StepRows), NEW e, e = s \o d, NEW n, n = Len(s)
    PROVE  /\ n \in Nat /\ Len(d) \in Nat /\ DOMAIN s = 1..n /\ DOMAIN d = 1..Len(d) /\ DOMAIN e = 1..(n + Len(d)) /\ e \in Seq(StepRows)
           /\ \A i \in DOMAIN s : i \in Nat /\ i >= 1 /\ i <= n /\ i \in DOMAIN e /\ e[i] = s[i]
           /\ \A i \in DOMAIN d : i \in Nat /\ i >= 1 /\ i + n \in DOMAIN e /\ e[i + n] = d[i]
           /\ \A k \in DOMAIN e : k \in DOMAIN s \/ (k - n \in DOMAIN d /\ k = (k - n) + n)
  <1>1. /\ e \in Seq(StepRows) /\ n \in Nat /\ Len(d) \in Nat /\ DOMAIN s = 1..n /\ DOMAIN d = 1..Len(d) /\ DOMAIN e = 1..(n + Len(d))
        /\ \A i \in 1..n : e[i] = s[i]
        /\ \A i \in 1..Len(d) : e[i + n] = d[i]
    BY CatOf
  <1>2. ASSUME NEW k \in 1..(n + Len(d)) PROVE k \in 1..n \/ (k - n \in 1..Len(d) /\ k = (k - n) + n)
    BY <1>1
  <1>3. \A i \in 1..n : i \in Nat /\ i >= 1 /\ i <= n /\ i \in 1..(n + Len(d))
    BY <1>1
  <1>4. \A i \in 1..Len(d) : i \in Nat /\ i >= 1 /\ i + n \in 1..(n + Len(d))
    BY <1>1
  <1>. QED BY <1>1, <1>2, <1>3, <1>4

LEMMA BehindCat ==
    ASSUME NEW s \in Seq(StepRows), NEW d \in Seq(StepRows), NEW e, e = s \o d, NEW n, n = Len(s), NEW S
    PROVE  /\ \A i \in DOMAIN s : Behind(s, i, S) => Behind(e, i, S)
           /\ \A i \in DOMAIN d : Behind(d, i, S) => Behind(e, i + n, S)
  <1>1. /\ n \in Nat /\ Len(d) \in Nat /\ DOMAIN s = 1..n /\ DOMAIN d = 1..Len(d)
        /\ \A i \in DOMAIN s : i \in Nat /\ i >= 1 /\ i <= n /\ e[i] = s[i]
        /\ \A i \in DOMAIN d : i \in Nat /\ i >= 1 /\ e[i + n] = d[i]
    BY CatPlaces
  <1>2. ASSUME NEW i \in DOMAIN s, Behind(s, i, S) PROVE Behind(e, i, S)
    <2>1. PICK j \in 1..(i - 1) : s[j] \in S /\ \A k \in j..i : s[k][1] \notin Marking
      BY <1>2 DEF Behind
    <2>2. j \in DOMAIN s /\ \A k \in j..i : k \in DOMAIN s
      BY <1>1, <2>1
    <2>3. e[j] \in S /\ \A k \in j..i : e[k][1] \notin Marking
      BY <1>1, <2>1, <2>2
    <2>. QED BY <2>1, <2>3 DEF Behind
  <1>3. ASSUME NEW i \in DOMAIN d, Behind(d, i, S) PROVE Behind(e, i + n, S)
    <2>1. PICK j \in 1..(i - 1) : d[j] \in S /\ \A k \in j..i : d[k][1] \notin Marking
      BY <1>3 DEF Behind
    <2>2. j \in DOMAIN d /\ j + n \in 1..((i + n) - 1)
      BY <1>1, <2>1
    <2>3. ASSUME NEW k \in (j + n)..(i + n) PROVE e[k][1] \notin Marking
      <3>1. k - n \in j..i /\ k - n \in DOMAIN d /\ k = (k - n) + n
        BY <1>1, <2>1, <2>2
      <3>2. e[(k - n) + n] = d[k - n]
        BY <1>1, <3>1
      <3>. QED BY <2>1, <3>1, <3>2
    <2>4. e[j + n] \in S
      BY <1>1, <2>1, <2>2
    <2>. QED BY <2>2, <2>3, <2>4 DEF Behind
  <1>. QED BY <1>2, <1>3

LEMMA SightedCat ==
    ASSUME NEW s \in Seq(StepRows), NEW d \in Seq(StepRows), NEW e, e = s \o d, NEW c, NEW K, Sighted(s, c, K), Sighted(d, c, K)
    PROVE  Sighted(e, c, K)
  <1>0. PICK n : n = Len(s)
    OBVIOUS
  <1>1. /\ \A i \in DOMAIN s : e[i] = s[i]
        /\ \A i \in DOMAIN d : e[i + n] = d[i]
        /\ \A k \in DOMAIN e : k \in DOMAIN s \/ (k - n \in DOMAIN d /\ k = (k - n) + n)
    BY <1>0, CatPlaces
  <1>2. \A S : /\ \A i \in DOMAIN s : Behind(s, i, S) => Behind(e, i, S)
               /\ \A i \in DOMAIN d : Behind(d, i, S) => Behind(e, i + n, S)
    BY <1>0, BehindCat
  <1>3. ASSUME NEW k \in DOMAIN e
        PROVE  /\ e[k][1] \in Aimed => e[k][2] \in Agents
               /\ e[k][1] \in {"agent", "send", "create"} => <<"sees", c, e[k][2]>> \in K \/ Behind(e, k, Sees(e[k][2]))
               /\ e[k][1] \in {"send", "create"} => <<"active", e[k][2]>> \in K \/ Behind(e, k, Finds(e[k][2]))
    <2>1. CASE k \in DOMAIN s
      BY <1>1, <1>2, <2>1 DEF Sighted
    <2>2. ASSUME NEW i \in DOMAIN d, k = i + n
          PROVE  /\ e[k][1] \in Aimed => e[k][2] \in Agents
                 /\ e[k][1] \in {"agent", "send", "create"} => <<"sees", c, e[k][2]>> \in K \/ Behind(e, k, Sees(e[k][2]))
                 /\ e[k][1] \in {"send", "create"} => <<"active", e[k][2]>> \in K \/ Behind(e, k, Finds(e[k][2]))
      BY <1>1, <1>2, <2>2 DEF Sighted
    <2>. QED BY <1>1, <2>1, <2>2
  <1>. QED BY <1>3 DEF Sighted

LEMMA UnscopedCat ==
    ASSUME NEW s \in Seq(StepRows), NEW d \in Seq(StepRows), NEW e, e = s \o d, NEW n, n = Len(s)
    PROVE  /\ \A i \in DOMAIN s, m \in Nat \ {0} : Unscoped(e, m, i) <=> Unscoped(s, m, i)
           /\ \A i \in DOMAIN d, m \in Nat \ {0} : Unscoped(e, m + n, i + n) <=> Unscoped(d, m, i)
           /\ \A i \in DOMAIN d, m \in 1..n : Unscoped(e, m, i + n) => Unscoped(d, 1, i)
           /\ (\A i \in DOMAIN s : s[i][1] # "scope") => \A i \in DOMAIN d : Unscoped(d, 1, i) => Unscoped(e, 1, i + n)
  <1>1. /\ n \in Nat /\ Len(d) \in Nat /\ DOMAIN s = 1..n /\ DOMAIN d = 1..Len(d)
        /\ \A i \in DOMAIN s : i \in Nat /\ i >= 1 /\ i <= n /\ e[i] = s[i]
        /\ \A i \in DOMAIN d : i \in Nat /\ i >= 1 /\ e[i + n] = d[i]
    BY CatPlaces
  <1>2. ASSUME NEW i \in DOMAIN s, NEW m \in Nat \ {0} PROVE Unscoped(e, m, i) <=> Unscoped(s, m, i)
    <2>1. \A k \in m..i : k \in DOMAIN s
      BY <1>1
    <2>. QED BY <1>1, <2>1 DEF Unscoped
  <1>3. ASSUME NEW i \in DOMAIN d, NEW m \in Nat \ {0} PROVE Unscoped(e, m + n, i + n) <=> Unscoped(d, m, i)
    <2>1. ASSUME Unscoped(e, m + n, i + n), NEW k \in m..i PROVE d[k][1] # "scope"
      <3>1. k \in DOMAIN d /\ k + n \in (m + n)..(i + n)
        BY <1>1
      <3>. QED BY <1>1, <2>1, <3>1 DEF Unscoped
    <2>2. ASSUME Unscoped(d, m, i), NEW k \in (m + n)..(i + n) PROVE e[k][1] # "scope"
      <3>1. k - n \in m..i /\ k - n \in DOMAIN d /\ k = (k - n) + n
        BY <1>1
      <3>2. e[(k - n) + n] = d[k - n]
        BY <1>1, <3>1
      <3>. QED BY <2>2, <3>1, <3>2 DEF Unscoped
    <2>. QED BY <2>1, <2>2 DEF Unscoped
  <1>4. ASSUME NEW i \in DOMAIN d, NEW m \in 1..n, Unscoped(e, m, i + n) PROVE Unscoped(d, 1, i)
    <2>1. \A k \in (1 + n)..(i + n) : k \in m..(i + n)
      BY <1>1
    <2>2. Unscoped(e, 1 + n, i + n) /\ 1 \in Nat \ {0}
      BY <1>4, <2>1 DEF Unscoped
    <2>. QED BY <1>3, <2>2
  <1>5. ASSUME \A i \in DOMAIN s : s[i][1] # "scope", NEW i \in DOMAIN d, Unscoped(d, 1, i), NEW k \in 1..(i + n) PROVE e[k][1] # "scope"
    <2>1. Unscoped(e, 1 + n, i + n)
      <3>1. 1 \in Nat \ {0}
        OBVIOUS
      <3>. QED BY <1>3, <1>5, <3>1
    <2>2. k \in DOMAIN s \/ k \in (1 + n)..(i + n)
      BY <1>1
    <2>. QED BY <1>1, <1>5, <2>1, <2>2 DEF Unscoped
  <1>6. ASSUME \A i \in DOMAIN s : s[i][1] # "scope", NEW i \in DOMAIN d, Unscoped(d, 1, i) PROVE Unscoped(e, 1, i + n)
    BY <1>5, <1>6 DEF Unscoped
  <1>. QED BY <1>2, <1>3, <1>4, <1>6

\* After steps without a check or a list of Agents, or before a check.
LEMMA CheckedCat ==
    ASSUME NEW s \in Seq(StepRows), NEW d \in Seq(StepRows), NEW op, Checked(s, op), Checked(d, op), Sorted(s), Sorted(d),
           \/ \A i \in DOMAIN s : s[i][1] \notin {"scope", "agents"}
           \/ d # <<>> /\ d[1][1] = "scope",
           NEW e, e = s \o d
    PROVE  Checked(e, op) /\ Sorted(e)
  <1>0. PICK n : n = Len(s)
    OBVIOUS
  <1>1. /\ n \in Nat /\ Len(d) \in Nat /\ DOMAIN s = 1..n /\ DOMAIN d = 1..Len(d) /\ DOMAIN e = 1..(n + Len(d))
        /\ \A i \in DOMAIN s : i \in Nat /\ i >= 1 /\ i <= n /\ e[i] = s[i]
        /\ \A i \in DOMAIN d : i \in Nat /\ i >= 1 /\ e[i + n] = d[i]
        /\ \A k \in DOMAIN e : k \in DOMAIN s \/ (k - n \in DOMAIN d /\ k = (k - n) + n)
    BY <1>0, CatPlaces
  <1>2. /\ \A i \in DOMAIN s, m \in Nat \ {0} : Unscoped(e, m, i) <=> Unscoped(s, m, i)
        /\ \A i \in DOMAIN d, m \in Nat \ {0} : Unscoped(e, m + n, i + n) <=> Unscoped(d, m, i)
        /\ \A i \in DOMAIN d, m \in 1..n : Unscoped(e, m, i + n) => Unscoped(d, 1, i)
        /\ (\A i \in DOMAIN s : s[i][1] # "scope") => \A i \in DOMAIN d : Unscoped(d, 1, i) => Unscoped(e, 1, i + n)
    BY <1>0, UnscopedCat
  <1>3. d # <<>> /\ d[1][1] = "scope" => \A i \in DOMAIN d : ~Unscoped(d, 1, i)
    <2>1. \A i \in DOMAIN d : 1 \in 1..i
      BY <1>1
    <2>. QED BY <2>1 DEF Unscoped
  <1>4. ASSUME NEW k \in DOMAIN e
        PROVE  /\ e[k][1] = "scope" => op = "mcp" /\ e[k][2] \in Tools
               /\ e[k][1] = "each" => Unscoped(e, 1, k)
    <2>1. 1 \in Nat \ {0}
      OBVIOUS
    <2>2. CASE k \in DOMAIN s
      BY <1>1, <1>2, <2>1, <2>2 DEF Checked
    <2>3. ASSUME NEW i \in DOMAIN d, k = i + n
          PROVE  /\ e[k][1] = "scope" => op = "mcp" /\ e[k][2] \in Tools
                 /\ e[k][1] = "each" => Unscoped(e, 1, k)
      BY <1>1, <1>2, <1>3, <2>3 DEF Checked
    <2>. QED BY <1>1, <2>2, <2>3
  <1>5. ASSUME NEW k \in DOMAIN e, e[k][1] \in Acting, NEW m \in 1..(k - 1), e[m][1] = "scope", Unscoped(e, m + 1, k) PROVE e[m][2] \in ActingTools
    <2>1. CASE k \in DOMAIN s
      <3>1. m \in DOMAIN s /\ m + 1 \in Nat \ {0}
        BY <1>1, <2>1
      <3>. QED BY <1>1, <1>2, <1>5, <2>1, <3>1 DEF Checked
    <2>2. ASSUME NEW i \in DOMAIN d, k = i + n PROVE e[m][2] \in ActingTools
      <3>1. CASE m \in 1..n
        <4>1. d # <<>> /\ d[1][1] = "scope"
          BY <1>1, <1>5, <3>1
        <4>2. Unscoped(d, 1, i)
          <5>1. CASE m + 1 \in 1..n
            BY <1>2, <1>5, <2>2, <5>1
          <5>2. CASE m + 1 = 1 + n
            <6>1. 1 \in Nat \ {0}
              OBVIOUS
            <6>. QED BY <1>2, <1>5, <2>2, <5>2, <6>1
          <5>. QED BY <1>1, <3>1, <5>1, <5>2
        <4>. QED BY <1>3, <4>1, <4>2
      <3>2. CASE m \notin 1..n
        <4> DEFINE j == m - n
        <4>1. j \in 1..(i - 1) /\ j \in DOMAIN d /\ m = j + n /\ m + 1 = (j + 1) + n /\ j + 1 \in Nat \ {0}
          BY <1>1, <2>2, <3>2
        <4> HIDE DEF j
        <4>2. e[m] = d[j] /\ e[k] = d[i]
          BY <1>1, <2>2, <4>1
        <4>3. Unscoped(d, j + 1, i)
          BY <1>2, <1>5, <2>2, <4>1
        <4>. QED BY <1>5, <4>1, <4>2, <4>3 DEF Checked
      <3>. QED BY <3>1, <3>2
    <2>. QED BY <1>1, <2>1, <2>2
  <1>6. ASSUME NEW k \in DOMAIN e, NEW m \in DOMAIN e, e[m][1] = "agents", m < k, e[k][1] \in Batching PROVE ~Unscoped(e, m, k)
    <2>1. CASE k \in DOMAIN s
      <3>1. m \in DOMAIN s /\ m \in Nat \ {0}
        BY <1>1, <1>6, <2>1
      <3>. QED BY <1>1, <1>2, <1>6, <2>1, <3>1 DEF Sorted
    <2>2. ASSUME NEW i \in DOMAIN d, k = i + n PROVE ~Unscoped(e, m, k)
      <3>1. CASE m \in DOMAIN s
        BY <1>1, <1>2, <1>3, <1>6, <2>2, <3>1
      <3>2. ASSUME NEW j \in DOMAIN d, m = j + n PROVE ~Unscoped(e, m, k)
        <4>0. i \in Nat /\ j \in Nat /\ n \in Nat /\ j >= 1 /\ e[m] = d[j] /\ e[k] = d[i]
          BY <1>1, <2>2, <3>2
        <4>1. j < i /\ j \in Nat \ {0} /\ e[m] = d[j] /\ e[k] = d[i]
          BY <1>6, <2>2, <3>2, <4>0
        <4>2. ~Unscoped(d, j, i)
          BY <1>6, <4>1 DEF Sorted
        <4>. QED BY <1>2, <2>2, <3>2, <4>1, <4>2
      <3>. QED BY <1>1, <3>1, <3>2
    <2>. QED BY <1>1, <2>1, <2>2
  <1>. QED BY <1>4, <1>5, <1>6 DEF Checked, Sorted

LEMMA ItemIsFormed ==
    ASSUME NEW d \in Seq(StepRows), NEW a \in Agents, NEW e, e = dispatch_shell(a) \o d,
           NEW q, NEW K, Formed(d, q, K), <<"sees", q.by, a>> \in K, <<"active", a>> \in K
    PROVE  Formed(e, q, K)
  <1> DEFINE s == dispatch_shell(a)
  <1>1. s \in Seq(StepRows) /\ DOMAIN s = 1..3 /\ s[1] = <<"online", a>> /\ s[2] = <<"send", a>> /\ s[3] = <<"reply", a>>
    <2>1. Step("online", a) \in StepRows /\ Step("send", a) \in StepRows /\ Step("reply", a) \in StepRows
      BY StepIsRow DEF StepNames
    <2>. QED BY <2>1, ThreeSteps DEF dispatch_shell, Step
  <1> HIDE DEF s
  <1>2. \A i \in DOMAIN s : s[i][1] \in {"online", "send", "reply"} /\ s[i][2] = a
    BY <1>1
  <1>3. Sighted(s, q.by, K)
    BY <1>2 DEF Sighted
  <1>4. Checked(s, q.op) /\ Sorted(s)
    <2>1. ASSUME NEW i \in DOMAIN s, NEW m \in 1..(i - 1) PROVE s[m][1] # "scope"
      <3>1. m \in DOMAIN s
        BY <1>1
      <3>. QED BY <1>2, <3>1
    <2>. QED BY <1>2, <2>1 DEF Checked, Sorted, Batching
  <1>5. e = s \o d
    BY DEF s
  <1>6. Sighted(e, q.by, K)
    BY <1>1, <1>3, <1>5, SightedCat DEF Formed
  <1>7. \A i \in DOMAIN s : s[i][1] \notin {"scope", "agents"}
    BY <1>2
  <1>8. Checked(e, q.op) /\ Sorted(e)
    BY <1>1, <1>4, <1>5, <1>7, CheckedCat DEF Formed
  <1>. QED BY <1>6, <1>8 DEF Formed

-----------------------------------------------------------------------------
(* What requests have met they have met for good. *)

\* No step takes back what credentials are, that users are there and what tokens are for.
Steady ==
    /\ \A c \in Creds : /\ creds'[c].user = creds[c].user /\ creds'[c].kind = creds[c].kind
                        /\ creds'[c].scopes = creds[c].scopes /\ creds'[c].servers = creds[c].servers
    /\ \A u \in Users : users[u] # Nothing => users'[u] # Nothing
    /\ \A t \in Tokens : tokens[t] # Nothing =>
          /\ tokens'[t] # Nothing
          /\ tokens'[t].cred = tokens[t].cred /\ tokens'[t].op = tokens[t].op /\ tokens'[t].server = tokens[t].server

\* s is x with more to remember.
Like(x, s) ==
    /\ s.q = x.q /\ s.todo = x.todo /\ s.begun = x.begun /\ s.admin = x.admin /\ s.tool = x.tool /\ s.among = x.among
    /\ s.svcs = x.svcs /\ s.show = x.show /\ Known(x) \subseteq Known(s)

LEMMA Recalled ==
    ASSUME NEW L, \A r \in L : Shaped(r) /\ r.begun \in BOOLEAN, live' = Noted(L)
    PROVE  \A s \in live' : Facts' \subseteq s.ever /\ \E r \in L : Like(r, s)
  <1> DEFINE N(r) == [r EXCEPT !.ever = IF r.begun THEN r.ever \cup Facts' ELSE Facts']
  <1>1. live' = {N(r) : r \in L}
    BY DEF Noted
  <1>2. ASSUME NEW r \in L
        PROVE  /\ N(r).q = r.q /\ N(r).todo = r.todo /\ N(r).begun = r.begun /\ N(r).admin = r.admin /\ N(r).tool = r.tool
               /\ N(r).among = r.among /\ N(r).svcs = r.svcs /\ N(r).show = r.show
               /\ N(r).ever = IF r.begun THEN r.ever \cup Facts' ELSE Facts'
    BY DEF Shaped, Fields
  <1> HIDE DEF N
  <1>3. ASSUME NEW r \in L PROVE Like(r, N(r)) /\ Facts' \subseteq N(r).ever
    <2>1. Known(r) \subseteq Known(N(r))
      BY <1>2 DEF Known
    <2>. QED BY <1>2, <2>1 DEF Like
  <1>. QED BY <1>1, <1>3

LEMMA AuthorityStill ==
    ASSUME Steady, NEW c \in Creds, NEW admin, NEW K, NEW M, K \subseteq M, Authority(c, admin, K)
    PROVE  Authority(c, admin, M)'
  BY DEF Steady, Authority, Allowed

LEMMA ScopeStill == ASSUME Steady, NEW c \in Creds, NEW admin, NEW s, has_scope(c, admin, s) PROVE has_scope(c, admin, s)'
  BY DEF Steady, has_scope, member_cookie_scope_allowed

LEMMA RedeemingStill ==
    ASSUME OperationsTypeOK, Steady, NEW x, NEW s, Like(x, s), x.q \in Requests, Redeeming(x)
    PROVE  Redeeming(s)'
  <1> DEFINE t == tokens[x.q.token]  u == tokens'[x.q.token]
  <1>1. Stage(s) = Stage(x) /\ s.q = x.q /\ s.admin = x.admin /\ s.show = x.show /\ Known(x) \subseteq Known(s) /\ x.q.token \in Tokens
    BY DEF Like, Stage, Requests
  <1>2. ASSUME t # Nothing
        PROVE  /\ u # Nothing /\ u.cred = t.cred /\ u.op = t.op /\ u.server = t.server
               /\ t.cred \in Creds /\ creds[t.cred].user \in Users /\ creds'[t.cred].user = creds[t.cred].user
    <2>1. t \in TokenRows /\ creds \in [Creds -> CredRows]
      BY <1>1, <1>2 DEF OperationsTypeOK, TransfersTypeOK, TablesOK
    <2>2. t.cred \in Creds
      BY <2>1 DEF TokenRows
    <2>3. creds[t.cred] \in CredRows
      BY <2>1, <2>2
    <2>. QED BY <1>1, <1>2, <2>2, <2>3 DEF Steady, CredRows
  <1> DEFINE st == Stage(x)
  <1>3. /\ x.show = {}
        /\ st \notin {"end", "ip", "record"} => t # Nothing /\ t.op = x.q.op
        /\ st \notin {"end", "ip", "record", "issuer"} => users[creds[t.cred].user] # Nothing /\ Authority(t.cred, x.admin, Known(x))
        /\ st \notin {"end", "ip", "record", "issuer", "held"} =>
              <<"credential", t.cred>> \in Known(x) /\ has_scope(t.cred, x.admin, Scope(t.op))
        /\ st \notin {"end", "ip", "record", "issuer", "held", "server"} =>
              <<"sees", t.cred, t.server>> \in Known(x) /\ <<"active", t.server>> \in Known(x)
        /\ st \in Using => <<"usable", x.q.token>> \in Known(x)
    BY DEF Redeeming
  <1> HIDE DEF t, u, st
  <1>4. st \notin {"end", "ip", "record"} => u # Nothing /\ u.op = x.q.op
    BY <1>2, <1>3
  <1>5. ASSUME st \notin {"end", "ip", "record", "issuer"}
        PROVE  /\ users'[creds'[u.cred].user] # Nothing
               /\ x.admin => /\ <<"admin", creds'[u.cred].user>> \in Known(s)
                             /\ \A a \in Agents : (creds'[u.cred].servers # Nothing => a \in creds'[u.cred].servers) => <<"sees", u.cred, a>> \in Known(s)
    <2>1. t # Nothing /\ users[creds[t.cred].user] # Nothing /\ Authority(t.cred, x.admin, Known(x))
      BY <1>3, <1>5
    <2>2. t.cred \in Creds /\ u.cred = t.cred /\ creds[t.cred].user \in Users /\ creds'[t.cred].user = creds[t.cred].user
      BY <1>2, <2>1
    <2>3. creds'[t.cred].servers = creds[t.cred].servers /\ users'[creds'[u.cred].user] # Nothing
      BY <2>1, <2>2 DEF Steady
    <2>. QED BY <1>1, <2>1, <2>2, <2>3 DEF Authority, Allowed
  <1>6. ASSUME st \notin {"end", "ip", "record", "issuer", "held"}
        PROVE  /\ <<"credential", u.cred>> \in Known(s)
               /\ IF creds'[u.cred].kind = "session" THEN x.admin \/ member_cookie_scope_allowed(Scope(u.op)) ELSE Scope(u.op) \in creds'[u.cred].scopes
    <2>1. t # Nothing /\ <<"credential", t.cred>> \in Known(x) /\ has_scope(t.cred, x.admin, Scope(t.op))
      BY <1>3, <1>6
    <2>2. t.cred \in Creds /\ u.cred = t.cred /\ u.op = t.op
      BY <1>2, <2>1
    <2>3. creds'[t.cred].kind = creds[t.cred].kind /\ creds'[t.cred].scopes = creds[t.cred].scopes
      BY <2>2 DEF Steady
    <2>. QED BY <1>1, <2>1, <2>2, <2>3 DEF has_scope
  <1>7. st \notin {"end", "ip", "record", "issuer", "held", "server"} => <<"sees", u.cred, u.server>> \in Known(s) /\ <<"active", u.server>> \in Known(s)
    BY <1>1, <1>2, <1>3
  <1>8. st \in Using => <<"usable", x.q.token>> \in Known(s)
    BY <1>1, <1>3
  <1>9. st = Stage(x) /\ x.show = {}
    BY <1>3 DEF st
  <1>. QED BY <1>1, <1>9, <1>4, <1>5, <1>6, <1>7, <1>8 DEF Redeeming, Authority, Allowed, has_scope, member_cookie_scope_allowed, Scope, Using, Known, Stage, u

LEMMA AskingStill ==
    ASSUME OperationsTypeOK, Steady, NEW x, NEW s, Like(x, s), x.q \in Requests, Asking(x)
    PROVE  Asking(s)'
  <1>1. /\ s.q = x.q /\ s.todo = x.todo /\ s.begun = x.begun /\ s.admin = x.admin /\ s.among = x.among /\ s.svcs = x.svcs /\ s.show = x.show
        /\ Known(x) \subseteq Known(s) /\ Stage(s) = Stage(x) /\ x.q.by \in Creds
    BY DEF Like, Stage, Requests
  <1>2. Authority(x.q.by, x.admin, Known(x)) => Authority(x.q.by, x.admin, Known(s))'
    <2>1. creds'[x.q.by].user = creds[x.q.by].user /\ creds'[x.q.by].servers = creds[x.q.by].servers
      BY <1>1 DEF Steady
    <2>. QED BY <1>1, <2>1 DEF Authority, Allowed, Known
  <1>3. Stage(s)' = Stage(x) /\ Known(s)' = Known(s)
    BY <1>1 DEF Stage, Known
  <1>. QED BY <1>1, <1>2, <1>3 DEF Asking

LEMMA NeedsStill ==
    ASSUME OperationsTypeOK, Steady, NEW x, NEW s, Like(x, s), x.q \in Requests, NEW y, NEW w
    PROVE  NeedsOfRow(s, y, w)' = NeedsOfRow(x, y, w)
  <1>1. s.q = x.q /\ s.admin = x.admin /\ x.q.by \in Creds
    BY DEF Like, Requests
  <1>2. creds'[x.q.by].user = creds[x.q.by].user /\ creds'[x.q.by].servers = creds[x.q.by].servers
    BY <1>1 DEF Steady
  <1>. QED BY <1>1, <1>2 DEF NeedsOfRow, Listed, Asker

LEMMA GatheredStill ==
    ASSUME OperationsTypeOK, Steady, NEW x, NEW s, Like(x, s), x.q \in Requests, Gathered(x)
    PROVE  Gathered(s)'
  <1>1. /\ s.q = x.q /\ s.todo = x.todo /\ s.among = x.among /\ s.svcs = x.svcs /\ s.show = x.show /\ Known(x) \subseteq Known(s)
        /\ Known(s)' = Known(s)
    BY DEF Like, Known
  <1>2. ASSUME NEW y \in s.svcs PROVE NeedsOfRow(s, y[1], y[2])' \subseteq Known(s)
    <2>1. NeedsOfRow(s, y[1], y[2])' = NeedsOfRow(x, y[1], y[2])
      BY NeedsStill
    <2>2. NeedsOfRow(x, y[1], y[2]) \subseteq Known(x)
      BY <1>1 DEF Gathered
    <2>. QED BY <1>1, <2>1, <2>2
  <1>3. /\ \A a \in s.among : a \in Agents /\ <<"sees", s.q.by, a>> \in Known(s)
        /\ Free(s.todo, Batching) => \A a \in s.among : <<"active", a>> \in Known(s)
        /\ s.show \subseteq Known(s)
    BY <1>1 DEF Gathered
  <1>4. \A y \in s.svcs : NeedsOfRow(s, y[1], y[2])' \subseteq Known(s)'
    BY <1>1, <1>2
  <1>. QED BY <1>1, <1>3, <1>4 DEF Gathered

LEMMA GoodStill ==
    ASSUME OperationsTypeOK, Steady, NEW x, NEW s, Like(x, s), x.q \in Requests, Good(x)
    PROVE  Good(s)'
  <1>1. /\ s.q = x.q /\ s.todo = x.todo /\ s.begun = x.begun /\ s.admin = x.admin /\ s.tool = x.tool
        /\ Known(x) \subseteq Known(s) /\ Stage(s) = Stage(x) /\ x.q.by \in Creds /\ x.q.token \in Tokens
    BY DEF Like, Stage, Requests
  <1>2. CASE Redeems(x)
    <2>1. Redeeming(s)'
      BY <1>2, RedeemingStill DEF Good
    <2>2. Redeems(s)'
      BY <1>1, <1>2 DEF Redeems
    <2>. QED BY <2>1, <2>2 DEF Good
  <1>3. CASE ~Redeems(x)
    <2>1. Asking(x) /\ Formed(x.todo, x.q, Known(x)) /\ Righted(x) /\ Gathered(x) /\ Revoking(x)
      BY <1>3 DEF Good
    <2>2. Asking(s)' /\ Gathered(s)'
      BY <2>1, AskingStill, GatheredStill
    <2>3. Formed(s.todo, s.q, Known(s))
      BY <1>1, <2>1, SightedMore DEF Formed
    <2>4. Formed(s.todo, s.q, Known(s))'
      <3>1. Known(s)' = Known(s)
        BY DEF Known
      <3>. QED BY <2>3, <3>1 DEF Formed, Sighted, Checked, Sorted, Behind, Unscoped
    <2>5. Righted(s)'
      <3>1. Free(s.todo, Acting)' => Free(x.todo, Acting)
        BY <1>1 DEF Free, Unscoped
      <3>2. ActsUnder(s)' = ActsUnder(x)
        BY <1>1 DEF ActsUnder, Scope
      <3>3. has_scope(x.q.by, x.admin, ActsUnder(x)) => has_scope(s.q.by, s.admin, ActsUnder(s))'
        <4>1. creds'[x.q.by].kind = creds[x.q.by].kind /\ creds'[x.q.by].scopes = creds[x.q.by].scopes
          BY <1>1 DEF Steady
        <4>. QED BY <1>1, <3>2, <4>1 DEF has_scope, member_cookie_scope_allowed
      <3>. QED BY <1>1, <2>1, <3>1, <3>3 DEF Righted
    <2>6. Revoking(s)'
      <3>1. SUFFICES ASSUME s.q.op = "revoke", Stage(s)' = "revoke"
                     PROVE  tokens'[s.q.token] # Nothing /\ (s.admin \/ creds'[tokens'[s.q.token].cred].user = creds'[s.q.by].user)
        BY DEF Revoking
      <3>2. Stage(x) = "revoke"
        BY <1>1, <3>1 DEF Stage
      <3>3. tokens[x.q.token] # Nothing /\ (x.admin \/ creds[tokens[x.q.token].cred].user = creds[x.q.by].user)
        BY <1>1, <2>1, <3>1, <3>2 DEF Revoking
      <3>4. tokens[x.q.token] \in TokenRows
        BY <1>1, <3>3 DEF OperationsTypeOK, TransfersTypeOK, TablesOK
      <3>5. tokens[x.q.token].cred \in Creds
        BY <3>4 DEF TokenRows
      <3>. QED BY <1>1, <3>3, <3>5 DEF Steady
    <2>7. ~Redeems(s)'
      BY <1>1, <1>3 DEF Redeems
    <2>. QED BY <2>2, <2>4, <2>5, <2>6, <2>7 DEF Good
  <1>. QED BY <1>2, <1>3

\* A step that leaves requests L, each of them as it should be.
LEMMA RightsAfter ==
    ASSUME OperationsTypeOK, Steady, NEW L, \A r \in L : Shaped(r) /\ r.begun \in BOOLEAN /\ r.q \in Requests /\ Good(r), live' = Noted(L)
    PROVE  Rights'
  <1>1. \A s \in live' : Facts' \subseteq s.ever /\ \E r \in L : Like(r, s)
    BY Recalled
  <1>2. ASSUME NEW s \in live' PROVE Good(s)'
    <2>1. PICK r \in L : Like(r, s)
      BY <1>1
    <2>. QED BY <2>1, GoodStill
  <1>. QED BY <1>1, <1>2 DEF Rights

LEMMA RightsGo ==
    ASSUME OnceInv, Rights, Steady, NEW r \in live, NEW x, Goto(r, x), Shaped(x), x.begun \in BOOLEAN, x.q = r.q, Good(x)
    PROVE  Rights'
  <1>1. OperationsTypeOK /\ \A y \in live : Sound(y)
    BY DEF OnceInv, TokensHold, TokensInv
  <1> DEFINE L == (live \ {r}) \cup {x}
  <1>2. \A y \in L : Shaped(y) /\ y.begun \in BOOLEAN /\ y.q \in Requests /\ Good(y)
    BY <1>1 DEF Sound, Rights
  <1>3. live' = Noted(L)
    BY DEF Goto
  <1> HIDE DEF L
  <1>. QED BY <1>1, <1>2, <1>3, RightsAfter

LEMMA RightsEnd ==
    ASSUME OnceInv, Rights, Steady, NEW r \in live, Ends(r)
    PROVE  Rights'
  <1>1. OperationsTypeOK /\ \A y \in live : Sound(y)
    BY DEF OnceInv, TokensHold, TokensInv
  <1> DEFINE L == live \ {r}
  <1>2. \A y \in L : Shaped(y) /\ y.begun \in BOOLEAN /\ y.q \in Requests /\ Good(y)
    BY <1>1 DEF Sound, Rights
  <1>3. live' = Noted(L)
    BY DEF Ends
  <1> HIDE DEF L
  <1>. QED BY <1>1, <1>2, <1>3, RightsAfter

-----------------------------------------------------------------------------
(* A request goes on to its next step, or is refused. *)

LEMMA GoodFacts ==
    ASSUME OnceInv, Rights, NEW r \in live
    PROVE  /\ Sound(r) /\ Good(r) /\ Facts \subseteq r.ever /\ r.todo \in Seq(StepRows) /\ r.begun \in BOOLEAN /\ Shaped(r)
           /\ r.q \in Requests /\ r.q.by \in Creds /\ r.q.token \in Tokens /\ r.q.agent \in Agents /\ OperationsTypeOK
  BY DEF OnceInv, TokensHold, TokensInv, Rights, Sound, WellFormed, Requests

\* Past authentication.
LEMMA BegunFacts ==
    ASSUME OnceInv, Rights, NEW r \in live, ~Redeems(r), r.todo # <<>>, Stage(r) \notin {"auth", "change"}
    PROVE  /\ r.begun = TRUE /\ Known(r) = r.ever /\ r.q.op \notin Changes
           /\ <<"credential", r.q.by>> \in r.ever /\ Authority(r.q.by, r.admin, r.ever)
           /\ Formed(r.todo, r.q, r.ever) /\ Gathered(r) /\ Asking(r) /\ Righted(r)
           /\ Free(r.todo, Acting) => has_scope(r.q.by, r.admin, ActsUnder(r))
  <1>1. Sound(r) /\ Good(r) /\ r.todo \in Seq(StepRows) /\ r.begun \in BOOLEAN
    BY GoodFacts
  <1>2. Asking(r) /\ Formed(r.todo, r.q, Known(r)) /\ Gathered(r) /\ Righted(r)
    BY <1>1 DEF Good
  <1>3. 1 \in DOMAIN r.todo
    BY <1>1, TailOf
  <1>4. r.q.op \notin Changes
    BY <1>2, <1>3 DEF Asking, Stage
  <1>5. <<"credential", r.q.by>> \in Known(r) /\ Authority(r.q.by, r.admin, Known(r))
    BY <1>2, <1>4 DEF Asking
  <1>6. r.begun = TRUE /\ Known(r) = r.ever
    BY <1>1, <1>5 DEF Known
  <1>. QED BY <1>2, <1>4, <1>5, <1>6 DEF Righted

\* What x has gathered it may have.
Gathers(r, x) ==
    /\ \A a \in x.among : a \in Agents /\ <<"sees", r.q.by, a>> \in r.ever
    /\ Free(x.todo, Batching) => \A a \in x.among : <<"active", a>> \in r.ever
    /\ \A y \in x.svcs : NeedsOfRow(r, y[1], y[2]) \subseteq r.ever
    /\ x.show \subseteq r.ever
\* x is r after its first step.
Follows(r, x) == Continues(r, x) /\ x.ever = r.ever /\ x.admin = r.admin

LEMMA StepOn ==
    ASSUME OnceInv, Rights, NEW r \in live, ~Redeems(r), r.todo # <<>>, Stage(r) \notin {"auth", "change", "scope"},
           NEW x, Follows(r, x), x.tool = r.tool, Gathers(r, x),
           Stage(r) \in {"visible", "both"} => <<"sees", r.q.by, On(r)>> \in r.ever,
           Stage(r) \in {"active", "both"} => <<"active", On(r)>> \in r.ever,
           Stage(r) = "mine" /\ r.q.op = "revoke" => tokens[r.q.token] # Nothing /\ (r.admin \/ creds[tokens[r.q.token].cred].user = creds[r.q.by].user)
    PROVE  Good(x)
  <1>1. Sound(r) /\ r.todo \in Seq(StepRows)
    BY GoodFacts
  <1>2. /\ r.begun = TRUE /\ r.q.op \notin Changes /\ <<"credential", r.q.by>> \in r.ever /\ Authority(r.q.by, r.admin, r.ever)
        /\ Formed(r.todo, r.q, r.ever) /\ Asking(r) /\ (Free(r.todo, Acting) => has_scope(r.q.by, r.admin, ActsUnder(r)))
    BY BegunFacts
  <1>3. x.q = r.q /\ x.todo = Tail(r.todo) /\ x.begun = TRUE /\ x.ever = r.ever /\ x.admin = r.admin /\ Known(x) = r.ever
    BY DEF Follows, Continues, Known
  <1>4. r.todo[1][1] = Stage(r) /\ r.todo[1][2] = On(r)
    BY DEF Stage, On
  <1>5. ~Redeems(x)
    BY <1>3 DEF Redeems
  <1>6. Asking(x)
    <2>1. ASSUME NEW i \in DOMAIN x.todo PROVE x.todo[i][1] # "auth"
      <3>1. i + 1 \in DOMAIN r.todo /\ x.todo[i] = r.todo[i + 1] /\ i + 1 # 1
        BY <1>1, <1>3, TailOf
      <3>. QED BY <1>2, <3>1 DEF Asking
    <2>. QED BY <1>2, <1>3, <2>1 DEF Asking
  <1>7. Formed(x.todo, x.q, Known(x))
    <2>1. Sighted(x.todo, r.q.by, r.ever)
      <3>1. /\ r.todo[1][1] \in {"visible", "both"} => <<"sees", r.q.by, r.todo[1][2]>> \in r.ever
            /\ r.todo[1][1] \in {"active", "both"} => <<"active", r.todo[1][2]>> \in r.ever
        BY <1>4
      <3>2. Sighted(r.todo, r.q.by, r.ever) /\ r.ever \subseteq r.ever
        BY <1>2 DEF Formed
      <3> DEFINE d == r.todo  e == x.todo  c == r.q.by  K == r.ever
      <3>3. d \in Seq(StepRows) /\ d # <<>> /\ e = Tail(d) /\ K \subseteq K /\ Sighted(d, c, K)
            /\ (d[1][1] \in {"visible", "both"} => <<"sees", c, d[1][2]>> \in K)
            /\ (d[1][1] \in {"active", "both"} => <<"active", d[1][2]>> \in K)
        BY <1>1, <1>3, <3>1, <3>2
      <3> HIDE DEF d, e, c, K
      <3>4. Sighted(e, c, K)
        BY <3>3, SightedNext
      <3>. QED BY <3>4 DEF d, e, c, K
    <2>2. Checked(x.todo, r.q.op) /\ Sorted(x.todo)
      BY <1>1, <1>2, <1>3, CheckedNext DEF Formed
    <2>. QED BY <1>3, <2>1, <2>2 DEF Formed
  <1>8. Righted(x)
    <2>1. Free(x.todo, Acting) => Free(r.todo, Acting)
      BY <1>1, <1>3, <1>4, FreeNext
    <2>2. ActsUnder(x) = ActsUnder(r)
      BY <1>3 DEF ActsUnder
    <2>. QED BY <1>2, <1>3, <2>1, <2>2 DEF Righted
  <1>9. Gathered(x)
    <2>1. \A y : NeedsOfRow(x, y[1], y[2]) = NeedsOfRow(r, y[1], y[2])
      BY <1>3 DEF NeedsOfRow, Listed, Asker
    <2>. QED BY <1>3, <2>1 DEF Gathered, Gathers
  <1>10. Revoking(x)
    <2>1. SUFFICES ASSUME x.q.op = "revoke", Stage(x) = "revoke" PROVE Stage(r) = "mine"
      BY <1>3 DEF Revoking
    <2>2. r.q.op \in Strict /\ Continues(r, x) /\ r.q.op = "revoke"
      BY <1>3, <2>1 DEF Strict, Follows
    <2>3. <<Stage(r), "revoke">> \in Links("revoke")
      BY <1>1, <2>1, <2>2, StrictNext
    <2>. QED BY <2>3 DEF Links
  <1>. QED BY <1>5, <1>6, <1>7, <1>8, <1>9, <1>10 DEF Good

\* Nothing gathered, nothing shown.
LEMMA GathersStill ==
    ASSUME OnceInv, Rights, NEW r \in live, ~Redeems(r), r.todo # <<>>, Stage(r) \notin {"auth", "change", "scope"},
           NEW x, Continues(r, x), x.among = r.among, x.svcs = r.svcs, x.show \subseteq r.ever
    PROVE  Gathers(r, x)
  <1>1. r.todo \in Seq(StepRows) /\ Gathered(r) /\ Known(r) = r.ever
    BY GoodFacts, BegunFacts
  <1>2. Free(x.todo, Batching) => Free(r.todo, Batching)
    BY <1>1, FreeNext DEF Continues, Stage
  <1>. QED BY <1>1, <1>2 DEF Gathered, Gathers

LEMMA StepRefused ==
    ASSUME OnceInv, Rights, Steady, NEW r \in live, ~Redeems(r), r.todo # <<>>, Stage(r) \notin {"auth", "change"}, Refuses(r)
    PROVE  Rights'
  <1>1. CASE Marks(r) = {}
    BY <1>1, RightsEnd DEF Refuses
  <1>2. CASE Marks(r) # {}
    <2> DEFINE k == CHOOSE i \in Marks(r) : \A j \in Marks(r) : i <= j
               x == [r EXCEPT !.todo = SubSeq(r.todo, k, Len(r.todo))]
    <2>1. Goto(r, x)
      BY <1>2 DEF Refuses
    <2>2. Sound(r) /\ r.todo \in Seq(StepRows) /\ Shaped(r) /\ r.begun \in BOOLEAN
      BY GoodFacts
    <2>3. Marks(r) \subseteq Nat /\ \A i \in Marks(r) : i \in DOMAIN r.todo /\ i >= 2 /\ r.todo[i][1] \in Marking
      BY <2>2 DEF Marks, Marking
    <2>4. k \in Marks(r) /\ \A j \in Marks(r) : k <= j
      <3>1. \E i \in Marks(r) : \A j \in Marks(r) : i <= j
        BY <2>3, <1>2, LeastOf
      <3>. QED BY <3>1
    <2>5. Shaped(x) /\ x.q = r.q /\ x.begun = r.begun /\ x.among = r.among /\ x.admin = r.admin /\ x.tool = r.tool
          /\ x.svcs = r.svcs /\ x.show = r.show /\ x.ever = r.ever /\ x.todo = SubSeq(r.todo, k, Len(r.todo))
      BY <2>2 DEF Shaped, Fields
    <2> HIDE DEF x, k
    <2>6. \A j \in 2..(k - 1) : r.todo[j][1] \notin Marking
      <3>1. ASSUME NEW j \in 2..(k - 1), r.todo[j][1] \in Marking PROVE FALSE
        <4>1. k \in Nat /\ k <= Len(r.todo) /\ Len(r.todo) \in Nat
          BY <2>2, <2>3, <2>4
        <4>2. j \in 2..Len(r.todo) /\ ~(k <= j)
          BY <4>1
        <4>3. j \in Marks(r)
          BY <3>1, <4>2 DEF Marks, Marking
        <4>. QED BY <2>4, <4>2, <4>3
      <3>. QED BY <3>1
    <2>7. /\ r.begun = TRUE /\ r.q.op \notin Changes /\ <<"credential", r.q.by>> \in r.ever /\ Authority(r.q.by, r.admin, r.ever)
          /\ Formed(r.todo, r.q, r.ever) /\ Asking(r) /\ (Free(r.todo, Acting) => has_scope(r.q.by, r.admin, ActsUnder(r)))
          /\ Gathered(r) /\ Known(r) = r.ever
      BY BegunFacts
    <2>8. Formed(x.todo, r.q, r.ever) /\ \A S : Free(x.todo, S) => Free(r.todo, S)
      BY <2>2, <2>3, <2>4, <2>5, <2>6, <2>7, RestIsFormed
    <2>9. Known(x) = r.ever /\ ~Redeems(x)
      BY <2>5, <2>7 DEF Known, Redeems
    <2>10. Asking(x)
      <3>1. ASSUME NEW i \in DOMAIN x.todo PROVE x.todo[i][1] # "auth"
        <4>1. i + k - 1 \in DOMAIN r.todo /\ x.todo[i] = r.todo[i + k - 1] /\ i + k - 1 # 1
          BY <2>2, <2>3, <2>4, <2>5, SubOf
        <4>. QED BY <2>7, <4>1 DEF Asking
      <3>. QED BY <2>5, <2>7, <2>9, <3>1 DEF Asking
    <2>11. Righted(x)
      <3>1. ActsUnder(x) = ActsUnder(r)
        BY <2>5 DEF ActsUnder
      <3>. QED BY <2>5, <2>7, <2>8, <3>1 DEF Righted
    <2>12. Gathered(x)
      <3>1. \A y : NeedsOfRow(x, y[1], y[2]) = NeedsOfRow(r, y[1], y[2])
        BY <2>5 DEF NeedsOfRow, Listed, Asker
      <3>. QED BY <2>5, <2>7, <2>8, <2>9, <3>1 DEF Gathered
    <2>13. Revoking(x)
      <3>1. x.todo # <<>> /\ x.todo[1][1] \in Marking
        <4>1. k \in DOMAIN r.todo /\ r.todo[k][1] \in Marking
          BY <2>3, <2>4
        <4>2. x.todo # <<>> /\ x.todo[1] = r.todo[1 + k - 1] /\ k \in Nat
          BY <2>2, <2>5, <4>1, SubOf
        <4>. QED BY <4>1, <4>2
      <3>. QED BY <3>1 DEF Revoking, Stage, Marking
    <2>14. Good(x)
      BY <2>5, <2>8, <2>9, <2>10, <2>11, <2>12, <2>13 DEF Good
    <2>. QED BY <2>1, <2>2, <2>5, <2>14, RightsGo
  <1>. QED BY <1>1, <1>2

-----------------------------------------------------------------------------
(* What is read is so. *)

LEMMA ReadsAreSteady == ASSUME UNCHANGED <<tables, tokens>> PROVE Steady
  BY DEF tables, Steady

LEMMA SoNow ==
    ASSUME OperationsTypeOK
    PROVE  /\ \A c \in Creds : creds[c].valid /\ users[creds[c].user] # Nothing => <<"credential", c>> \in Facts
           /\ \A c \in Creds, a \in Agents : CanSee(c, IsAdmin(creds[c].user), a) => <<"sees", c, a>> \in Facts
           /\ \A a \in Agents : ~agents[a].revoked => <<"active", a>> \in Facts
           /\ \A u \in Users : IsAdmin(u) => <<"admin", u>> \in Facts
           /\ \A t \in Tokens : Usable(t) => <<"usable", t>> \in Facts
           /\ \A x \in Rows : <<"row", x, rows[x]>> \in Facts
  <1>1. \A c \in Creds, a \in Agents : CanSee(c, IsAdmin(creds[c].user), a) => <<"sees", c, a>> \in Facts
    <2>1. ASSUME NEW c \in Creds, NEW a \in Agents, CanSee(c, IsAdmin(creds[c].user), a) PROVE <<"sees", c, a>> \in Facts
      <3>1. <<c, a>> \in {y \in Creds \X Agents : CanSee(y[1], IsAdmin(creds[y[1]].user), y[2])}
        BY <2>1
      <3>2. <<"sees", <<c, a>>[1], <<c, a>>[2]>> \in
              {<<"sees", x[1], x[2]>> : x \in {y \in Creds \X Agents : CanSee(y[1], IsAdmin(creds[y[1]].user), y[2])}}
        BY <3>1
      <3>. QED BY <3>2 DEF Facts
    <2>. QED BY <2>1
  <1>2. \A c \in Creds : creds[c].valid /\ users[creds[c].user] # Nothing => <<"credential", c>> \in Facts
    BY DEF Facts
  <1>3. \A a \in Agents : ~agents[a].revoked => <<"active", a>> \in Facts
    BY DEF Facts
  <1>4. \A u \in Users : IsAdmin(u) => <<"admin", u>> \in Facts
    BY DEF Facts
  <1>5. \A t \in Tokens : Usable(t) => <<"usable", t>> \in Facts
    BY DEF Facts
  <1>6. \A x \in Rows : <<"row", x, rows[x]>> \in Facts
    BY DEF Facts
  <1>. QED BY <1>1, <1>2, <1>3, <1>4, <1>5, <1>6

\* By ownership, or by a role that was looked up before.
LEMMA SeesAgent ==
    ASSUME OperationsTypeOK, NEW c \in Creds, NEW a \in Agents, NEW admin, NEW K, Facts \subseteq K, Authority(c, admin, K), CanSee(c, admin, a)
    PROVE  <<"sees", c, a>> \in K
  <1>1. CASE admin
    BY <1>1 DEF Authority, Allowed, CanSee
  <1>2. CASE ~admin
    <2>1. CanSee(c, IsAdmin(creds[c].user), a)
      BY <1>2 DEF CanSee
    <2>. QED BY <2>1, SoNow
  <1>. QED BY <1>1, <1>2

\* A credential that is good now has the authority of its user's role.
LEMMA HasAuthority ==
    ASSUME OperationsTypeOK, NEW c \in Creds, NEW K, Facts \subseteq K
    PROVE  Authority(c, IsAdmin(creds[c].user), K)
  <1> DEFINE u == creds[c].user
  <1>1. u \in Users
    <2>1. creds[c] \in CredRows
      BY DEF OperationsTypeOK, TransfersTypeOK, TablesOK
    <2>. QED BY <2>1 DEF CredRows
  <1>2. SUFFICES ASSUME IsAdmin(u) PROVE <<"admin", u>> \in K /\ \A a \in Agents : Allowed(c, a) => <<"sees", c, a>> \in K
    BY DEF Authority
  <1>3. \A a \in Agents : Allowed(c, a) => CanSee(c, IsAdmin(u), a)
    BY <1>2 DEF Allowed, CanSee
  <1>4. \A a \in Agents : CanSee(c, IsAdmin(u), a) => <<"sees", c, a>> \in Facts
    BY SoNow
  <1>. QED BY <1>1, <1>2, <1>3, <1>4, SoNow

LEMMA NextFollows ==
    ASSUME NEW r, Sound(r)
    PROVE  LET n == Next_(r) IN
           /\ Follows(r, n) /\ n.tool = r.tool /\ n.among = r.among /\ n.svcs = r.svcs /\ n.show = r.show
           /\ \A v : LET x == [n EXCEPT !.out = v] IN
                Follows(r, x) /\ x.tool = r.tool /\ x.among = r.among /\ x.svcs = r.svcs /\ x.show = r.show
           /\ \A v : LET x == [n EXCEPT !.show = v] IN
                Follows(r, x) /\ x.tool = r.tool /\ x.among = r.among /\ x.svcs = r.svcs /\ x.show = v
           /\ \A v : LET x == [n EXCEPT !.svcs = v] IN
                Follows(r, x) /\ x.tool = r.tool /\ x.among = r.among /\ x.svcs = v /\ x.show = r.show
           /\ \A v \in SUBSET Targets : LET x == [n EXCEPT !.among = v] IN
                Follows(r, x) /\ x.tool = r.tool /\ x.among = v /\ x.svcs = r.svcs /\ x.show = r.show
           /\ \A v : LET x == [n EXCEPT !.admin = v] IN
                /\ Continues(r, x) /\ x.ever = r.ever /\ x.admin = v
                /\ x.tool = r.tool /\ x.among = r.among /\ x.svcs = r.svcs /\ x.show = r.show
           /\ \A v : LET x == [n EXCEPT !.tool = v, !.among = {}, !.svcs = {}] IN
                Follows(r, x) /\ x.tool = v /\ x.among = {} /\ x.svcs = {} /\ x.show = r.show
  <1> DEFINE n == Next_(r)
  <1>1. DOMAIN r = Fields /\ r.among \subseteq Targets
    BY DEF Sound, Shaped
  <1>2. /\ DOMAIN n = Fields /\ n.q = r.q /\ n.todo = Tail(r.todo) /\ n.begun = TRUE /\ n.among = r.among
        /\ n.ever = r.ever /\ n.admin = r.admin /\ n.tool = r.tool /\ n.svcs = r.svcs /\ n.show = r.show
    BY <1>1 DEF Next_, Fields
  <1> HIDE DEF n
  <1>3. Follows(r, n)
    BY <1>1, <1>2 DEF Follows, Continues, Shaped
  <1>4. \A v : LET x == [n EXCEPT !.out = v] IN
                Follows(r, x) /\ x.tool = r.tool /\ x.among = r.among /\ x.svcs = r.svcs /\ x.show = r.show
    BY <1>1, <1>2 DEF Follows, Continues, Shaped, Fields
  <1>5. \A v : LET x == [n EXCEPT !.show = v] IN
                Follows(r, x) /\ x.tool = r.tool /\ x.among = r.among /\ x.svcs = r.svcs /\ x.show = v
    BY <1>1, <1>2 DEF Follows, Continues, Shaped, Fields
  <1>6. \A v : LET x == [n EXCEPT !.svcs = v] IN
                Follows(r, x) /\ x.tool = r.tool /\ x.among = r.among /\ x.svcs = v /\ x.show = r.show
    BY <1>1, <1>2 DEF Follows, Continues, Shaped, Fields
  <1>7. \A v \in SUBSET Targets : LET x == [n EXCEPT !.among = v] IN
                Follows(r, x) /\ x.tool = r.tool /\ x.among = v /\ x.svcs = r.svcs /\ x.show = r.show
    BY <1>1, <1>2 DEF Follows, Continues, Shaped, Fields
  <1>8. \A v : LET x == [n EXCEPT !.admin = v] IN
                /\ Continues(r, x) /\ x.ever = r.ever /\ x.admin = v
                /\ x.tool = r.tool /\ x.among = r.among /\ x.svcs = r.svcs /\ x.show = r.show
    BY <1>1, <1>2 DEF Continues, Shaped, Fields
  <1>9. \A v : LET x == [n EXCEPT !.tool = v, !.among = {}, !.svcs = {}] IN
                Follows(r, x) /\ x.tool = v /\ x.among = {} /\ x.svcs = {} /\ x.show = r.show
    BY <1>1, <1>2 DEF Follows, Continues, Shaped, Fields
  <1>. QED BY <1>2, <1>3, <1>4, <1>5, <1>6, <1>7, <1>8, <1>9 DEF n

PlainStages ==
    {"totp", "visible", "active", "online", "agent", "tokens", "find", "mine", "revoke", "create", "both", "online_all", "batch", "each", "refused",
     "agents", "inventory", "services", "tell", "results", "events", "rules", "tasks", "nat", "ddns", "state"}
LEMMA AtPlain ==
    ASSUME NEW r, Sound(r), NEW s \in PlainStages, At(r, s)
    PROVE  ~Redeems(r) /\ r.todo # <<>> /\ Stage(r) = s /\ Stage(r) \notin {"auth", "change", "scope"}
  <1>1. r.todo # <<>> /\ Stage(r) = s
    BY AtIsStage
  <1>2. Redeems(r) => r.q.op \in Strict /\ r.q.op # "revoke"
    BY DEF Redeems, Strict
  <1>3. ~Redeems(r)
    BY <1>1, <1>2, StrictStages DEF PlainStages
  <1>. QED BY <1>1, <1>3 DEF PlainStages

\* The Agent a step is about.
LEMMA OnAgent ==
    ASSUME OnceInv, Rights, NEW r \in live, ~Redeems(r), r.todo # <<>>, Stage(r) \in Aimed
    PROVE  On(r) \in Agents
  <1>1. r.todo \in Seq(StepRows) /\ Formed(r.todo, r.q, r.ever)
    BY GoodFacts, BegunFacts DEF Aimed
  <1>2. 1 \in DOMAIN r.todo
    BY <1>1, TailOf
  <1>. QED BY <1>1, <1>2 DEF Formed, Sighted, On, Stage

\* A step that gathers nothing.
LEMMA GoesOn ==
    ASSUME OnceInv, Rights, UNCHANGED <<tables, tokens>>, NEW r \in live, ~Redeems(r), r.todo # <<>>, Stage(r) \notin {"auth", "change", "scope"},
           NEW x, Goto(r, x), Follows(r, x), x.tool = r.tool, x.among = r.among, x.svcs = r.svcs, x.show \subseteq r.ever,
           Stage(r) \in {"visible", "both"} => <<"sees", r.q.by, On(r)>> \in r.ever,
           Stage(r) \in {"active", "both"} => <<"active", On(r)>> \in r.ever,
           Stage(r) = "mine" /\ r.q.op = "revoke" => tokens[r.q.token] # Nothing /\ (r.admin \/ creds[tokens[r.q.token].cred].user = creds[r.q.by].user)
    PROVE  Rights'
  <1>1. Steady
    BY ReadsAreSteady
  <1>2. Gathers(r, x)
    BY GathersStill DEF Follows
  <1>3. Good(x)
    BY <1>2, StepOn
  <1>. QED BY <1>1, <1>3, RightsGo DEF Follows, Continues

-----------------------------------------------------------------------------
(* Each action: what requests have met. *)

LEMMA ShownStill ==
    ASSUME OnceInv, Rights, NEW r \in live, ~Redeems(r), r.todo # <<>>, Stage(r) \notin {"auth", "change"}
    PROVE  r.show \subseteq r.ever
  BY BegunFacts DEF Gathered

LEMMA Proceeding ==
    ASSUME OnceInv, Rights, Reads, NEW r \in live, NEW s \in PlainStages, At(r, s), Proceeds(r),
           s \in {"visible", "both"} => <<"sees", r.q.by, On(r)>> \in r.ever,
           s \in {"active", "both"} => <<"active", On(r)>> \in r.ever,
           s = "mine" /\ r.q.op = "revoke" => tokens[r.q.token] # Nothing /\ (r.admin \/ creds[tokens[r.q.token].cred].user = creds[r.q.by].user)
    PROVE  Rights'
  <1> DEFINE x == Next_(r)
  <1>1. Sound(r)
    BY GoodFacts
  <1>2. ~Redeems(r) /\ r.todo # <<>> /\ Stage(r) = s /\ Stage(r) \notin {"auth", "change", "scope"}
    BY <1>1, AtPlain
  <1>3. Follows(r, x) /\ x.tool = r.tool /\ x.among = r.among /\ x.svcs = r.svcs /\ x.show = r.show /\ Goto(r, x)
    BY <1>1, NextFollows DEF Proceeds
  <1>4. x.show \subseteq r.ever
    BY <1>2, <1>3, ShownStill
  <1>5. UNCHANGED <<tables, tokens>>
    BY DEF Reads
  <1> HIDE DEF x
  <1>. QED BY <1>2, <1>3, <1>4, <1>5, GoesOn

LEMMA Refusing ==
    ASSUME OnceInv, Rights, Reads, NEW r \in live, NEW s \in PlainStages \cup {"scope"}, At(r, s), Refuses(r)
    PROVE  Rights'
  <1>1. Sound(r)
    BY GoodFacts
  <1>2. r.todo # <<>> /\ Stage(r) = s /\ Stage(r) \notin {"auth", "change"}
    BY AtIsStage DEF PlainStages
  <1>3. ~Redeems(r)
    <2>1. CASE s \in PlainStages
      BY <1>1, <2>1, AtPlain
    <2>2. CASE s = "scope"
      BY <1>1, <1>2, <2>2, NotStrict DEF Redeems, Strict
    <2>. QED BY <2>1, <2>2
  <1>4. Steady
    BY ReadsAreSteady DEF Reads
  <1>. QED BY <1>2, <1>3, <1>4, StepRefused

LEMMA Ending ==
    ASSUME OnceInv, Rights, Reads, NEW r \in live, Ends(r)
    PROVE  Rights'
  BY ReadsAreSteady, RightsEnd DEF Reads

LEMMA Showing ==
    ASSUME OnceInv, Rights, Reads, NEW r \in live, NEW s \in PlainStages \ {"visible", "both", "active", "mine"}, At(r, s), NEW v, Shows(r, v), v \subseteq r.ever
    PROVE  Rights'
  <1> DEFINE n == Next_(r)  x == [n EXCEPT !.show = n.show \cup v]
  <1>1. Sound(r)
    BY GoodFacts
  <1>2. ~Redeems(r) /\ r.todo # <<>> /\ Stage(r) = s /\ Stage(r) \notin {"auth", "change", "scope"}
    BY <1>1, AtPlain
  <1>3. Goto(r, x) /\ n.show = r.show
    BY <1>1, NextFollows DEF Shows
  <1>4. Follows(r, x) /\ x.tool = r.tool /\ x.among = r.among /\ x.svcs = r.svcs /\ x.show = n.show \cup v
    <2>1. \A w : LET y == [n EXCEPT !.show = w] IN
              Follows(r, y) /\ y.tool = r.tool /\ y.among = r.among /\ y.svcs = r.svcs /\ y.show = w
      BY <1>1, NextFollows
    <2> HIDE DEF n
    <2>. QED BY <2>1
  <1>5. x.show \subseteq r.ever
    <2>1. r.show \subseteq r.ever
      BY <1>2, ShownStill
    <2>. QED BY <1>3, <1>4, <2>1
  <1>6. UNCHANGED <<tables, tokens>>
    BY DEF Reads
  <1> HIDE DEF x, n
  <1>. QED BY <1>2, <1>3, <1>4, <1>5, <1>6, GoesOn

LEMMA RightsLook ==
    ASSUME OnceInv, Rights, NEW r \in live,
           AsksForCode(r) \/ FindVisible(r) \/ FindActive(r) \/ IsOnline(r) \/ ShowsAgent(r) \/ ListsTokens(r) \/ FindToken(r) \/ MayRevoke(r)
           \/ reject_mcp_file_write_tool(r) \/ ensure_agent_with_state_visible(r)
    PROVE  Rights'
  <1>1. Sound(r) /\ Facts \subseteq r.ever /\ r.q.by \in Creds /\ r.q.token \in Tokens /\ OperationsTypeOK /\ r.todo \in Seq(StepRows)
    BY GoodFacts
  <1>2. ASSUME NEW s \in PlainStages, At(r, s)
        PROVE  /\ <<"credential", r.q.by>> \in r.ever /\ Authority(r.q.by, r.admin, r.ever) /\ Formed(r.todo, r.q, r.ever)
               /\ s \in Aimed => On(r) \in Agents
    <2>1. ~Redeems(r) /\ r.todo # <<>> /\ Stage(r) = s /\ Stage(r) \notin {"auth", "change", "scope"}
      BY <1>1, <1>2, AtPlain
    <2>. QED BY <2>1, BegunFacts, OnAgent
  <1>3. ASSUME NEW s \in PlainStages, At(r, s), s \in Aimed, agent_visible(r, On(r)) PROVE <<"sees", r.q.by, On(r)>> \in r.ever
    BY <1>1, <1>2, <1>3, SeesAgent DEF agent_visible
  <1>4. CASE AsksForCode(r)
    <2>1. At(r, "totp") /\ Reads /\ (Proceeds(r) \/ Ends(r)) /\ "totp" \in PlainStages
      BY <1>4 DEF AsksForCode, PlainStages
    <2>. QED BY <2>1, Proceeding, Ending
  <1>5. CASE FindVisible(r)
    <2>1. At(r, "visible") /\ Reads /\ ((agent_visible(r, On(r)) /\ Proceeds(r)) \/ Refuses(r)) /\ "visible" \in PlainStages /\ "visible" \in Aimed
      BY <1>5 DEF FindVisible, PlainStages, Aimed
    <2>2. CASE Refuses(r)
      BY <2>1, <2>2, Refusing
    <2>3. CASE agent_visible(r, On(r)) /\ Proceeds(r)
      <3>1. <<"sees", r.q.by, On(r)>> \in r.ever
        BY <1>3, <2>1, <2>3
      <3>. QED BY <2>1, <2>3, <3>1, Proceeding
    <2>. QED BY <2>1, <2>2, <2>3
  <1>6. CASE FindActive(r)
    <2>1. At(r, "active") /\ Reads /\ ((~agents[On(r)].revoked /\ Proceeds(r)) \/ Ends(r)) /\ "active" \in PlainStages /\ "active" \in Aimed
      BY <1>6 DEF FindActive, PlainStages, Aimed
    <2>2. ~agents[On(r)].revoked => <<"active", On(r)>> \in r.ever
      BY <1>1, <1>2, <2>1, SoNow
    <2>3. CASE ~agents[On(r)].revoked /\ Proceeds(r)
      BY <2>1, <2>2, <2>3, Proceeding
    <2>. QED BY <2>1, <2>3, Ending
  <1>7. CASE IsOnline(r)
    <2>1. At(r, "online") /\ Reads /\ (Proceeds(r) \/ Refuses(r)) /\ "online" \in PlainStages
      BY <1>7 DEF IsOnline, PlainStages
    <2>. QED BY <2>1, Proceeding, Refusing
  <1>8. CASE ShowsAgent(r)
    <2> DEFINE v == {<<"sees", r.q.by, On(r)>>}
    <2>1. At(r, "agent") /\ Reads /\ Shows(r, v) /\ "agent" \in PlainStages
      BY <1>8 DEF ShowsAgent, PlainStages
    <2>2. 1 \in DOMAIN r.todo /\ Formed(r.todo, r.q, r.ever) /\ r.todo[1][1] = "agent" /\ r.todo[1][2] = On(r)
      BY <1>1, <1>2, <2>1, TailOf DEF At, On
    <2>3. ~Behind(r.todo, 1, Sees(On(r)))
      <3>1. \A j \in 1..(1 - 1) : FALSE
        OBVIOUS
      <3>. QED BY <3>1 DEF Behind
    <2>4. v \subseteq r.ever
      BY <2>2, <2>3 DEF Formed, Sighted
    <2> HIDE DEF v
    <2>. QED BY <2>1, <2>4, Showing
  <1>9. CASE ListsTokens(r)
    <2> DEFINE v == UNION {NeedsOfToken(r, t) : t \in VisibleTokens(r)}
    <2>1. At(r, "tokens") /\ Reads /\ Shows(r, v) /\ "tokens" \in PlainStages
      BY <1>9 DEF ListsTokens, PlainStages
    <2>2. <<"credential", r.q.by>> \in r.ever /\ Authority(r.q.by, r.admin, r.ever)
      BY <1>2, <2>1
    <2>3. \A t \in VisibleTokens(r) : NeedsOfToken(r, t) \subseteq r.ever
      BY <2>2 DEF VisibleTokens, NeedsOfToken, Authority
    <2>4. v \subseteq r.ever
      BY <2>3
    <2> HIDE DEF v
    <2>. QED BY <2>1, <2>4, Showing
  <1>10. CASE FindToken(r)
    <2>1. At(r, "find") /\ Reads /\ (Proceeds(r) \/ Ends(r)) /\ "find" \in PlainStages
      BY <1>10 DEF FindToken, PlainStages
    <2>. QED BY <2>1, Proceeding, Ending
  <1>11. CASE MayRevoke(r)
    <2>1. At(r, "mine") /\ Reads /\ ((temporary_transfer_visible_to_auth(r) /\ Proceeds(r)) \/ Ends(r)) /\ "mine" \in PlainStages
      BY <1>11 DEF MayRevoke, PlainStages
    <2>2. r.q.op = "revoke" => tokens[r.q.token] # Nothing
      BY <2>1, AtIsStage DEF OnceInv, TokensHold, TokensInv, Holds
    <2>3. temporary_transfer_visible_to_auth(r) => r.admin \/ creds[tokens[r.q.token].cred].user = creds[r.q.by].user
      BY DEF temporary_transfer_visible_to_auth
    <2>4. CASE temporary_transfer_visible_to_auth(r) /\ Proceeds(r)
      BY <2>1, <2>2, <2>3, <2>4, Proceeding
    <2>. QED BY <2>1, <2>4, Ending
  <1>12. CASE reject_mcp_file_write_tool(r)
    <2>1. At(r, "refused") /\ Reads /\ Refuses(r) /\ "refused" \in PlainStages
      BY <1>12 DEF reject_mcp_file_write_tool, PlainStages
    <2>. QED BY <2>1, Refusing
  <1>13. CASE ensure_agent_with_state_visible(r)
    <2> DEFINE v == {<<"sees", r.q.by, On(r)>>}
    <2>1. At(r, "state") /\ Reads /\ ((agent_visible(r, On(r)) /\ Shows(r, v)) \/ Refuses(r)) /\ "state" \in PlainStages /\ "state" \in Aimed
      BY <1>13 DEF ensure_agent_with_state_visible, PlainStages, Aimed
    <2>2. agent_visible(r, On(r)) => v \subseteq r.ever
      BY <1>3, <2>1
    <2> HIDE DEF v
    <2>3. CASE agent_visible(r, On(r)) /\ Shows(r, v)
      BY <2>1, <2>2, <2>3, Showing
    <2>. QED BY <2>1, <2>3, Refusing
  <1>. QED BY <1>4, <1>5, <1>6, <1>7, <1>8, <1>9, <1>10, <1>11, <1>12, <1>13

\* What a request that only asks has met.
LEMMA AskedFor ==
    ASSUME OnceInv, Rights, NEW r \in live, NEW s \in PlainStages, At(r, s)
    PROVE  /\ Sound(r) /\ ~Redeems(r) /\ r.todo # <<>> /\ Stage(r) = s /\ Stage(r) \notin {"auth", "change", "scope"}
           /\ Facts \subseteq r.ever /\ r.q.by \in Creds /\ OperationsTypeOK /\ r.todo \in Seq(StepRows)
           /\ Authority(r.q.by, r.admin, r.ever) /\ Formed(r.todo, r.q, r.ever) /\ (s \in Aimed => On(r) \in Agents)
           /\ \A a \in r.among : a \in Agents /\ <<"sees", r.q.by, a>> \in r.ever
           /\ Free(r.todo, Batching) => \A a \in r.among : <<"active", a>> \in r.ever
           /\ \A x \in r.svcs : NeedsOfRow(r, x[1], x[2]) \subseteq r.ever
           /\ r.show \subseteq r.ever
           /\ \A a \in Agents : agent_visible(r, a) => <<"sees", r.q.by, a>> \in r.ever
           /\ \A a \in Agents : ~agents[a].revoked => <<"active", a>> \in r.ever
  <1>1. Sound(r) /\ Facts \subseteq r.ever /\ r.q.by \in Creds /\ OperationsTypeOK /\ r.todo \in Seq(StepRows)
    BY GoodFacts
  <1>2. ~Redeems(r) /\ r.todo # <<>> /\ Stage(r) = s /\ Stage(r) \notin {"auth", "change", "scope"}
    BY <1>1, AtPlain
  <1>3. Authority(r.q.by, r.admin, r.ever) /\ Formed(r.todo, r.q, r.ever) /\ Gathered(r) /\ Known(r) = r.ever
    BY <1>2, BegunFacts
  <1>4. s \in Aimed => On(r) \in Agents
    BY <1>2, OnAgent
  <1>5. \A a \in Agents : agent_visible(r, a) => <<"sees", r.q.by, a>> \in r.ever
    BY <1>1, <1>3, SeesAgent DEF agent_visible
  <1>6. \A a \in Agents : ~agents[a].revoked => <<"active", a>> \in r.ever
    BY <1>1, SoNow
  <1>. QED BY <1>1, <1>2, <1>3, <1>4, <1>5, <1>6 DEF Gathered

LEMMA RightsGather ==
    ASSUME OnceInv, Rights, NEW r \in live, EnsureAgentActive(r) \/ FindOnline(r) \/ LoadVisible(r)
    PROVE  Rights'
  <1>0. ASSUME NEW s \in {"both", "online_all", "agents"}, At(r, s), Reads, NEW v, v \subseteq Agents, Goto(r, [Next_(r) EXCEPT !.among = v]),
               \A a \in v : <<"sees", r.q.by, a>> \in r.ever,
               s \in {"both", "online_all"} /\ Free(r.todo, Batching) => \A a \in v : <<"active", a>> \in r.ever,
               s = "both" => <<"sees", r.q.by, On(r)>> \in r.ever /\ <<"active", On(r)>> \in r.ever
        PROVE  Rights'
    <2> DEFINE x == [Next_(r) EXCEPT !.among = v]
    <2>1. s \in PlainStages /\ v \in SUBSET Targets
      BY <1>0 DEF PlainStages, Targets
    <2>2. /\ Sound(r) /\ ~Redeems(r) /\ r.todo # <<>> /\ Stage(r) = s /\ Stage(r) \notin {"auth", "change", "scope"}
          /\ r.todo \in Seq(StepRows) /\ Formed(r.todo, r.q, r.ever)
          /\ \A y \in r.svcs : NeedsOfRow(r, y[1], y[2]) \subseteq r.ever
          /\ r.show \subseteq r.ever
      BY <1>0, <2>1, AskedFor
    <2>3. Follows(r, x) /\ x.tool = r.tool /\ x.among = v /\ x.svcs = r.svcs /\ x.show = r.show
      BY <2>1, <2>2, NextFollows
    <2> HIDE DEF x
    <2>4. Free(x.todo, Batching) => Free(r.todo, Batching) /\ s # "agents"
      <3>1. x.todo = Tail(r.todo) /\ r.todo[1][1] = s
        BY <2>2, <2>3 DEF Follows, Continues, Stage
      <3>2. Sorted(r.todo)
        BY <2>2 DEF Formed
      <3>. QED BY <2>2, <3>1, <3>2, FreeNext
    <2>5. Gathers(r, x)
      BY <1>0, <2>2, <2>3, <2>4 DEF Gathers
    <2>6. Good(x)
      BY <1>0, <2>2, <2>3, <2>5, StepOn
    <2>7. Goto(r, x) /\ Steady
      BY <1>0, ReadsAreSteady DEF x, Reads
    <2>. QED BY <2>3, <2>6, <2>7, RightsGo DEF Follows, Continues
  <1>1. CASE EnsureAgentActive(r)
    <2>1. "both" \in PlainStages /\ "both" \in Aimed /\ At(r, "both") /\ Reads
      BY <1>1 DEF PlainStages, Aimed, EnsureAgentActive
    <2>2. CASE Refuses(r)
      BY <2>1, <2>2, Refusing
    <2>3. CASE ~Refuses(r)
      <3> DEFINE v == Next_(r).among \cup {On(r)}
      <3>1. agent_visible(r, On(r)) /\ ~agents[On(r)].revoked /\ Goto(r, [Next_(r) EXCEPT !.among = v])
        BY <1>1, <2>3 DEF EnsureAgentActive
      <3>2. /\ On(r) \in Agents /\ Sound(r) /\ \A a \in r.among : a \in Agents /\ <<"sees", r.q.by, a>> \in r.ever
            /\ Free(r.todo, Batching) => \A a \in r.among : <<"active", a>> \in r.ever
        BY <2>1, AskedFor
      <3>3. <<"sees", r.q.by, On(r)>> \in r.ever /\ <<"active", On(r)>> \in r.ever
        BY <2>1, <3>1, <3>2, AskedFor
      <3>4. Next_(r).among = r.among
        BY <3>2, NextFollows
      <3>5. /\ v \subseteq Agents /\ \A a \in v : <<"sees", r.q.by, a>> \in r.ever
            /\ Free(r.todo, Batching) => \A a \in v : <<"active", a>> \in r.ever
        BY <3>2, <3>3, <3>4
      <3> HIDE DEF v
      <3>. QED BY <1>0, <2>1, <3>1, <3>3, <3>5
    <2>. QED BY <2>2, <2>3
  <1>2. CASE FindOnline(r)
    <2> DEFINE v == {a \in Agents : agent_visible(r, a) /\ ~agents[a].revoked /\ agents[a].online}
    <2>1. "online_all" \in PlainStages /\ At(r, "online_all") /\ Reads /\ Goto(r, [Next_(r) EXCEPT !.among = v])
      BY <1>2 DEF PlainStages, FindOnline
    <2>2. v \subseteq Agents /\ \A a \in v : <<"sees", r.q.by, a>> \in r.ever /\ <<"active", a>> \in r.ever
      BY <2>1, AskedFor
    <2> HIDE DEF v
    <2>. QED BY <1>0, <2>1, <2>2
  <1>3. CASE LoadVisible(r)
    <2> DEFINE v == {a \in Agents : agent_visible(r, a)}
    <2>1. "agents" \in PlainStages /\ At(r, "agents") /\ Reads /\ Goto(r, [Next_(r) EXCEPT !.among = v])
      BY <1>3 DEF PlainStages, LoadVisible
    <2>2. v \subseteq Agents /\ \A a \in v : <<"sees", r.q.by, a>> \in r.ever
      BY <2>1, AskedFor
    <2> HIDE DEF v
    <2>. QED BY <1>0, <2>1, <2>2
  <1>. QED BY <1>1, <1>2, <1>3

\* A row that may be shown.
LEMMA MayShow ==
    ASSUME OnceInv, Rights, NEW r \in live, NEW s \in PlainStages, At(r, s), NEW x \in Rows,
           rows[x].server = Nothing => ~Listed(r),
           rows[x].server # Nothing => About(r, x) \/ ~Restricted(r),
           rows[x].kind = "nat" \/ r.admin \/ rows[x].owner = Asker(r)
    PROVE  NeedsOfRow(r, x, rows[x]) \subseteq r.ever
  <1>1. /\ Facts \subseteq r.ever /\ OperationsTypeOK /\ Authority(r.q.by, r.admin, r.ever)
        /\ \A a \in r.among : a \in Agents /\ <<"sees", r.q.by, a>> \in r.ever
    BY AskedFor
  <1>2. <<"row", x, rows[x]>> \in r.ever
    BY <1>1, SoNow
  <1>3. rows[x].server \in Agents \cup {Nothing}
    <2>1. rows[x] \in ReadRows
      BY <1>1 DEF OperationsTypeOK
    <2>. QED BY <2>1 DEF ReadRows
  <1>4. rows[x].server # Nothing => <<"sees", r.q.by, rows[x].server>> \in r.ever
    <2>1. CASE About(r, x)
      BY <1>1, <2>1 DEF About
    <2>2. CASE ~Restricted(r) /\ rows[x].server # Nothing
      BY <1>1, <1>3, <2>2 DEF Restricted, Authority, Allowed
    <2>. QED BY <2>1, <2>2
  <1>. QED BY <1>2, <1>4 DEF NeedsOfRow

LEMMA ShowingRows ==
    ASSUME OnceInv, Rights, Reads, NEW r \in live, NEW s \in PlainStages \ {"visible", "both", "active", "mine"}, At(r, s), NEW xs, xs \subseteq Rows, ShowsRows(r, xs),
           \A x \in xs : /\ rows[x].server = Nothing => ~Listed(r)
                         /\ rows[x].server # Nothing => About(r, x) \/ ~Restricted(r)
                         /\ rows[x].kind = "nat" \/ r.admin \/ rows[x].owner = Asker(r)
    PROVE  Rights'
  <1> DEFINE v == UNION {NeedsOfRow(r, x, rows[x]) : x \in xs}
  <1>1. \A x \in xs : NeedsOfRow(r, x, rows[x]) \subseteq r.ever
    BY MayShow
  <1>2. v \subseteq r.ever
    BY <1>1
  <1>3. Shows(r, v)
    BY DEF ShowsRows
  <1> HIDE DEF v
  <1>. QED BY <1>2, <1>3, Showing

\* Agents that were found are Agents.
LEMMA FoundAgents ==
    ASSUME OnceInv, Rights, NEW r \in live, NEW s \in PlainStages, At(r, s)
    PROVE  /\ Nothing \notin r.among
           /\ Listed(r) => Nothing \notin creds[r.q.by].servers
           /\ ~Restricted(r) => ~Listed(r) /\ r.admin
           /\ \A x \in Rows : About(r, x) => rows[x].server # Nothing
  <1>1. r.q.by \in Creds /\ OperationsTypeOK /\ \A a \in r.among : a \in Agents
    BY AskedFor
  <1>2. Nothing \notin Agents
    BY TransfersAssumption
  <1>3. Listed(r) => creds[r.q.by].servers \subseteq Agents
    <2>1. creds[r.q.by] \in CredRows
      BY <1>1 DEF OperationsTypeOK, TransfersTypeOK, TablesOK
    <2>. QED BY <2>1 DEF CredRows, Listed
  <1>4. Nothing \notin r.among
    BY <1>1, <1>2
  <1>. QED BY <1>2, <1>3, <1>4 DEF Listed, Restricted, About

LEMMA RightsServices ==
    ASSUME OnceInv, Rights, NEW r \in live, FindServices(r)
    PROVE  Rights'
  <1> DEFINE v == {<<x, rows[x]>> : x \in ServiceRows(r)}  y == [Next_(r) EXCEPT !.svcs = v]
  <1>1. "services" \in PlainStages /\ At(r, "services") /\ Reads /\ Goto(r, y)
    BY DEF PlainStages, FindServices
  <1>2. /\ Sound(r) /\ ~Redeems(r) /\ r.todo # <<>> /\ Stage(r) = "services" /\ Stage(r) \notin {"auth", "change", "scope"}
        /\ r.todo \in Seq(StepRows) /\ r.show \subseteq r.ever
        /\ \A a \in r.among : a \in Agents /\ <<"sees", r.q.by, a>> \in r.ever
        /\ Free(r.todo, Batching) => \A a \in r.among : <<"active", a>> \in r.ever
    BY <1>1, AskedFor
  <1>3. \A x \in ServiceRows(r) : NeedsOfRow(r, x, rows[x]) \subseteq r.ever
    <2>1. SUFFICES ASSUME NEW x \in ServiceRows(r) PROVE NeedsOfRow(r, x, rows[x]) \subseteq r.ever
      OBVIOUS
    <2>2. /\ ~Restricted(r) => ~Listed(r) /\ r.admin
          /\ \A w \in Rows : About(r, w) => rows[w].server # Nothing
      BY <1>1, FoundAgents
    <2>3. /\ x \in Rows /\ (r.admin \/ rows[x].owner = Asker(r))
          /\ Restricted(r) => About(r, x) \/ (rows[x].server = Nothing /\ ~Listed(r))
      BY DEF ServiceRows, Owned, OfKind
    <2>4. /\ rows[x].server = Nothing => ~Listed(r)
          /\ rows[x].server # Nothing => About(r, x) \/ ~Restricted(r)
      BY <2>2, <2>3
    <2>. QED BY <1>1, <2>3, <2>4, MayShow
  <1>4. \A w \in v : NeedsOfRow(r, w[1], w[2]) \subseteq r.ever
    BY <1>3
  <1>5. Follows(r, y) /\ y.tool = r.tool /\ y.among = r.among /\ y.svcs = v /\ y.show = r.show
    <2>1. \A w : LET z == [Next_(r) EXCEPT !.svcs = w] IN
              Follows(r, z) /\ z.tool = r.tool /\ z.among = r.among /\ z.svcs = w /\ z.show = r.show
      BY <1>2, NextFollows
    <2> HIDE DEF v
    <2>. QED BY <2>1
  <1> HIDE DEF v, y
  <1>6. Free(y.todo, Batching) => Free(r.todo, Batching)
    BY <1>2, <1>5, FreeNext DEF Follows, Continues, Stage
  <1>7. Gathers(r, y)
    BY <1>2, <1>4, <1>5, <1>6 DEF Gathers
  <1>8. Good(y)
    BY <1>2, <1>5, <1>7, StepOn
  <1>9. Steady
    BY <1>1, ReadsAreSteady DEF Reads
  <1>. QED BY <1>1, <1>5, <1>8, <1>9, RightsGo DEF Follows, Continues

LEMMA RightsTell ==
    ASSUME OnceInv, Rights, ResultsInv, NEW r \in live, ListsInventory(r) \/ TellsServices(r) \/ ListsResults(r)
    PROVE  Rights'
  <1>1. CASE ListsInventory(r)
    <2> DEFINE v == {<<"sees", r.q.by, a>> : a \in r.among}
    <2>1. "inventory" \in PlainStages /\ At(r, "inventory") /\ Reads /\ Shows(r, v)
      BY <1>1 DEF PlainStages, ListsInventory
    <2>2. v \subseteq r.ever
      BY <2>1, AskedFor
    <2> HIDE DEF v
    <2>. QED BY <2>1, <2>2, Showing
  <1>2. CASE TellsServices(r)
    <2> DEFINE v == UNION {NeedsOfRow(r, x[1], x[2]) : x \in r.svcs}
    <2>1. "tell" \in PlainStages /\ At(r, "tell") /\ Reads /\ Shows(r, v)
      BY <1>2 DEF PlainStages, TellsServices
    <2>2. \A x \in r.svcs : NeedsOfRow(r, x[1], x[2]) \subseteq r.ever
      BY <2>1, AskedFor
    <2>3. v \subseteq r.ever
      BY <2>2
    <2> HIDE DEF v
    <2>. QED BY <2>1, <2>3, Showing
  <1>3. CASE ListsResults(r)
    <2> DEFINE mine == {x \in OfKind("result") : \E s \in r.svcs : s[1] = rows[x].of}
               xs == {y \in mine : Restricted(r) => About(r, y)}
               v == {<<"sees", r.q.by, rows[x].server>> : x \in xs}
    <2>1. "results" \in PlainStages /\ At(r, "results") /\ Reads /\ Shows(r, v)
      BY <1>3 DEF PlainStages, ListsResults
    <2>2. /\ OperationsTypeOK /\ Authority(r.q.by, r.admin, r.ever)
          /\ \A a \in r.among : a \in Agents /\ <<"sees", r.q.by, a>> \in r.ever
      BY <2>1, AskedFor
    <2>3. ASSUME NEW x \in xs PROVE <<"sees", r.q.by, rows[x].server>> \in r.ever
      <3>1. x \in Rows /\ rows[x].kind = "result" /\ (Restricted(r) => About(r, x))
        BY DEF OfKind
      <3>2. rows[x].server \in Agents
        <4>1. rows[x] \in ReadRows
          BY <2>2, <3>1 DEF OperationsTypeOK
        <4>. QED BY <3>1, <4>1 DEF ReadRows, ResultsInv
      <3>. QED BY <2>2, <3>1, <3>2 DEF Restricted, About, Authority, Allowed
    <2>4. v \subseteq r.ever
      BY <2>3
    <2> HIDE DEF v
    <2>. QED BY <2>1, <2>4, Showing
  <1>. QED BY <1>1, <1>2, <1>3

LEMMA RightsRows ==
    ASSUME OnceInv, Rights, NEW r \in live, ListsEvents(r) \/ ListsRules(r) \/ ListsTasks(r) \/ ListsNat(r) \/ ListsDdns(r)
    PROVE  Rights'
  <1>0. ASSUME NEW s \in {"events", "rules", "tasks", "nat", "ddns"}, At(r, s), Reads, NEW xs, xs \subseteq Rows, ShowsRows(r, xs),
               \A x \in xs : /\ Listed(r) /\ rows[x].server = Nothing => Nothing \in creds[r.q.by].servers \/ About(r, x)
                             /\ rows[x].server # Nothing => About(r, x) \/ ~Restricted(r)
                             /\ rows[x].kind = "nat" \/ r.admin \/ rows[x].owner = Asker(r)
        PROVE  Rights'
    <2>1. s \in PlainStages \ {"visible", "both", "active", "mine"} /\ s \in PlainStages
      BY <1>0 DEF PlainStages
    <2>2. /\ Listed(r) => Nothing \notin creds[r.q.by].servers
          /\ \A x \in Rows : About(r, x) => rows[x].server # Nothing
      BY <1>0, <2>1, FoundAgents
    <2>3. \A x \in xs : rows[x].server = Nothing => ~Listed(r)
      BY <1>0, <2>2
    <2>. QED BY <1>0, <2>1, <2>3, ShowingRows
  <1>00. ASSUME NEW s \in {"events", "rules", "tasks", "nat", "ddns"}, At(r, s) PROVE ~Restricted(r) => ~Listed(r)
    BY DEF Restricted, Listed
  <1>1. CASE ListsEvents(r)
    <2> DEFINE xs == {x \in Owned(r, "event") :
                         /\ Listed(r) => rows[x].server \in creds[r.q.by].servers
                         /\ Restricted(r) => About(r, x) \/ (rows[x].server = Nothing /\ \E s \in r.svcs : s[1] = rows[x].of)}
    <2>1. At(r, "events") /\ Reads /\ ShowsRows(r, xs)
      BY <1>1 DEF ListsEvents
    <2>2. /\ xs \subseteq Rows
          /\ \A x \in xs : /\ Listed(r) /\ rows[x].server = Nothing => Nothing \in creds[r.q.by].servers \/ About(r, x)
                           /\ rows[x].server # Nothing => About(r, x) \/ ~Restricted(r)
                           /\ rows[x].kind = "nat" \/ r.admin \/ rows[x].owner = Asker(r)
      BY DEF Owned, OfKind
    <2> HIDE DEF xs
    <2>. QED BY <1>0, <2>1, <2>2
  <1>2. CASE ListsRules(r)
    <2> DEFINE xs == {x \in Owned(r, "rule") : Restricted(r) => About(r, x) \/ (rows[x].server = Nothing /\ ~Listed(r))}
    <2>1. At(r, "rules") /\ Reads /\ ShowsRows(r, xs)
      BY <1>2 DEF ListsRules
    <2>2. /\ xs \subseteq Rows
          /\ \A x \in xs : /\ Listed(r) /\ rows[x].server = Nothing => Nothing \in creds[r.q.by].servers \/ About(r, x)
                           /\ rows[x].server # Nothing => About(r, x) \/ ~Restricted(r)
                           /\ rows[x].kind = "nat" \/ r.admin \/ rows[x].owner = Asker(r)
      BY <1>00, <2>1 DEF Owned, OfKind
    <2> HIDE DEF xs
    <2>. QED BY <1>0, <2>1, <2>2
  <1>3. CASE ListsTasks(r)
    <2> DEFINE xs == {x \in {y \in OfKind("task") : rows[y].owner = Asker(r)} :
                         Restricted(r) => About(r, x) \/ (rows[x].server = Nothing /\ ~Listed(r))}
    <2>1. At(r, "tasks") /\ Reads /\ ShowsRows(r, xs)
      BY <1>3 DEF ListsTasks
    <2>2. /\ xs \subseteq Rows
          /\ \A x \in xs : /\ Listed(r) /\ rows[x].server = Nothing => Nothing \in creds[r.q.by].servers \/ About(r, x)
                           /\ rows[x].server # Nothing => About(r, x) \/ ~Restricted(r)
                           /\ rows[x].kind = "nat" \/ r.admin \/ rows[x].owner = Asker(r)
      BY <1>00, <2>1 DEF OfKind
    <2> HIDE DEF xs
    <2>. QED BY <1>0, <2>1, <2>2
  <1>4. CASE ListsNat(r)
    <2> DEFINE xs == {x \in OfKind("nat") : About(r, x)}
    <2>1. At(r, "nat") /\ Reads /\ ShowsRows(r, xs)
      BY <1>4 DEF ListsNat
    <2>2. /\ xs \subseteq Rows
          /\ \A x \in xs : /\ Listed(r) /\ rows[x].server = Nothing => Nothing \in creds[r.q.by].servers \/ About(r, x)
                           /\ rows[x].server # Nothing => About(r, x) \/ ~Restricted(r)
                           /\ rows[x].kind = "nat" \/ r.admin \/ rows[x].owner = Asker(r)
      BY DEF OfKind
    <2> HIDE DEF xs
    <2>. QED BY <1>0, <2>1, <2>2
  <1>5. CASE ListsDdns(r)
    <2> DEFINE xs == {x \in Owned(r, "ddns") : IF rows[x].server = Nothing THEN ~Listed(r) ELSE About(r, x)}
    <2>1. At(r, "ddns") /\ Reads /\ ShowsRows(r, xs)
      BY <1>5 DEF ListsDdns
    <2>2. /\ xs \subseteq Rows
          /\ \A x \in xs : /\ Listed(r) /\ rows[x].server = Nothing => Nothing \in creds[r.q.by].servers \/ About(r, x)
                           /\ rows[x].server # Nothing => About(r, x) \/ ~Restricted(r)
                           /\ rows[x].kind = "nat" \/ r.admin \/ rows[x].owner = Asker(r)
      BY DEF Owned, OfKind
    <2> HIDE DEF xs
    <2>. QED BY <1>0, <2>1, <2>2
  <1>. QED BY <1>1, <1>2, <1>3, <1>4, <1>5

-----------------------------------------------------------------------------
(* Each action: what is still to be done. *)

LEMMA GoodBegun ==
    ASSUME NEW x, ~Redeems(x), x.begun = TRUE, x.q.op \notin Changes, \A i \in DOMAIN x.todo : x.todo[i][1] # "auth",
           <<"credential", x.q.by>> \in x.ever, Authority(x.q.by, x.admin, x.ever), Formed(x.todo, x.q, x.ever),
           Free(x.todo, Acting) => has_scope(x.q.by, x.admin, ActsUnder(x)), Gathers(x, x), Revoking(x)
    PROVE  Good(x)
  <1>1. Known(x) = x.ever
    BY DEF Known
  <1>2. Asking(x) /\ Righted(x) /\ Gathered(x)
    BY <1>1 DEF Asking, Righted, Gathered, Gathers
  <1>. QED BY <1>1, <1>2 DEF Good

LEMMA RightsBatch ==
    ASSUME OnceInv, Rights, NEW r \in live, RunsBatch(r)
    PROVE  Rights'
  <1> DEFINE n == Next_(r)  y == Step("each", Nothing)  x == [n EXCEPT !.todo = <<y>> \o n.todo]
  <1>1. "batch" \in PlainStages /\ At(r, "batch") /\ Reads /\ Goto(r, x)
    BY DEF PlainStages, RunsBatch
  <1>2. /\ Sound(r) /\ ~Redeems(r) /\ r.todo # <<>> /\ Stage(r) = "batch" /\ Stage(r) \notin {"auth", "change", "scope"}
        /\ r.todo \in Seq(StepRows) /\ Formed(r.todo, r.q, r.ever) /\ r.show \subseteq r.ever
        /\ \A a \in r.among : a \in Agents /\ <<"sees", r.q.by, a>> \in r.ever
        /\ Free(r.todo, Batching) => \A a \in r.among : <<"active", a>> \in r.ever
        /\ \A z \in r.svcs : NeedsOfRow(r, z[1], z[2]) \subseteq r.ever
    BY <1>1, AskedFor
  <1>3. y \in StepRows /\ y[1] = "each"
    BY Named DEF StepNames
  <1>4. /\ DOMAIN n = Fields /\ n.q = r.q /\ n.todo = Tail(r.todo) /\ n.begun = TRUE /\ n.among = r.among
        /\ n.ever = r.ever /\ n.admin = r.admin /\ n.tool = r.tool /\ n.svcs = r.svcs /\ n.show = r.show
    BY <1>2, NextFollows DEF Follows, Continues, Shaped
  <1> HIDE DEF n, y
  <1>5. /\ Shaped(x) /\ x.q = r.q /\ x.todo = <<y>> \o Tail(r.todo) /\ x.begun = TRUE /\ x.among = r.among
        /\ x.ever = r.ever /\ x.admin = r.admin /\ x.tool = r.tool /\ x.svcs = r.svcs /\ x.show = r.show
    BY <1>4 DEF Shaped, Fields
  <1> HIDE DEF x
  <1>6. r.todo[1][1] = "batch" /\ 1 \in DOMAIN r.todo
    BY <1>2, TailOf DEF Stage
  <1>7. Formed(x.todo, x.q, x.ever)
    BY <1>2, <1>3, <1>5, <1>6, BatchIsFormed
  <1>8. Free(r.todo, Batching) /\ Free(r.todo, Acting)
    <2>1. Unscoped(r.todo, 1, 1)
      BY <1>6 DEF Unscoped
    <2>. QED BY <1>6, <2>1 DEF Free, Batching, Acting
  <1>9. /\ r.q.op \notin Changes /\ <<"credential", r.q.by>> \in r.ever /\ Authority(r.q.by, r.admin, r.ever)
        /\ Asking(r) /\ has_scope(r.q.by, r.admin, ActsUnder(r)) /\ r.begun = TRUE
    BY <1>2, <1>8, BegunFacts
  <1>10. \A i \in DOMAIN x.todo : x.todo[i][1] # "auth"
    <2>1. <<y>> \in Seq(StepRows) /\ Tail(r.todo) \in Seq(StepRows) /\ DOMAIN <<y>> = 1..1 /\ <<y>>[1] = y /\ Len(<<y>>) = 1
      BY <1>2, <1>3, TailOf, OneStep
    <2> DEFINE t == Tail(r.todo)  s == <<y>>
    <2>2. \A i \in DOMAIN t : t[i][1] # "auth"
      <3>1. \A i \in DOMAIN t : i + 1 \in DOMAIN r.todo /\ t[i] = r.todo[i + 1] /\ i + 1 # 1
        BY <1>2, TailOf
      <3>. QED BY <1>9, <3>1 DEF Asking
    <2>3. \A i \in DOMAIN s : s[i][1] # "auth"
      BY <1>3, <2>1
    <2>4. s \in Seq(StepRows) /\ t \in Seq(StepRows) /\ x.todo = s \o t
      BY <1>5, <2>1
    <2> HIDE DEF t, s
    <2>5. PICK m : m = Len(s)
      OBVIOUS
    <2>6. /\ \A i \in DOMAIN s : x.todo[i] = s[i]
          /\ \A i \in DOMAIN t : x.todo[i + m] = t[i]
          /\ \A k \in DOMAIN x.todo : k \in DOMAIN s \/ (k - m \in DOMAIN t /\ k = (k - m) + m)
      BY <2>4, <2>5, CatPlaces
    <2>. QED BY <2>2, <2>3, <2>6
  <1>11. \A z : NeedsOfRow(x, z[1], z[2]) = NeedsOfRow(r, z[1], z[2])
    BY <1>5 DEF NeedsOfRow, Listed, Asker
  <1>12. Gathers(x, x)
    BY <1>2, <1>5, <1>8, <1>11 DEF Gathers
  <1>13. ActsUnder(x) = ActsUnder(r) /\ ~Redeems(x)
    BY <1>2, <1>5 DEF ActsUnder, Redeems
  <1>14. Revoking(x)
    <2>1. r.q.op \notin Strict
      BY <1>2, NotStrict
    <2>. QED BY <1>5, <2>1 DEF Revoking, Strict
  <1>15. Good(x)
    BY <1>5, <1>7, <1>9, <1>10, <1>12, <1>13, <1>14, GoodBegun
  <1>16. Steady
    BY <1>1, ReadsAreSteady DEF Reads
  <1>. QED BY <1>1, <1>5, <1>15, <1>16, RightsGo

LEMMA RightsItem ==
    ASSUME OnceInv, Rights, NEW r \in live, NextItem(r)
    PROVE  Rights'
  <1>1. "each" \in PlainStages /\ At(r, "each") /\ Reads
    BY DEF PlainStages, NextItem
  <1>2. CASE Proceeds(r)
    BY <1>1, <1>2, Proceeding
  <1>3. ASSUME NEW a \in r.among, Goto(r, [r EXCEPT !.todo = dispatch_shell(a) \o r.todo, !.among = r.among \ {a}]) PROVE Rights'
    <2> DEFINE s == dispatch_shell(a)  x == [r EXCEPT !.todo = s \o r.todo, !.among = r.among \ {a}]
    <2>1. Goto(r, x)
      BY <1>3
    <2>2. /\ Sound(r) /\ ~Redeems(r) /\ r.todo # <<>> /\ Stage(r) = "each" /\ Stage(r) \notin {"auth", "change", "scope"}
          /\ r.todo \in Seq(StepRows) /\ Formed(r.todo, r.q, r.ever) /\ r.show \subseteq r.ever
          /\ \A b \in r.among : b \in Agents /\ <<"sees", r.q.by, b>> \in r.ever
          /\ Free(r.todo, Batching) => \A b \in r.among : <<"active", b>> \in r.ever
          /\ \A z \in r.svcs : NeedsOfRow(r, z[1], z[2]) \subseteq r.ever
      BY <1>1, AskedFor
    <2>3. r.todo[1][1] = "each" /\ 1 \in DOMAIN r.todo
      BY <2>2, TailOf DEF Stage
    <2>4. Free(r.todo, Batching) /\ Free(r.todo, Acting)
      <3>1. Unscoped(r.todo, 1, 1)
        BY <2>3 DEF Unscoped
      <3>. QED BY <2>3, <3>1 DEF Free, Batching, Acting
    <2>5. /\ r.q.op \notin Changes /\ <<"credential", r.q.by>> \in r.ever /\ Authority(r.q.by, r.admin, r.ever)
          /\ Asking(r) /\ has_scope(r.q.by, r.admin, ActsUnder(r)) /\ r.begun = TRUE
      BY <2>2, <2>4, BegunFacts
    <2>6. s \in Seq(StepRows) /\ DOMAIN s = 1..3 /\ s[1] = <<"online", a>> /\ s[2] = <<"send", a>> /\ s[3] = <<"reply", a>>
      <3>1. a \in Agents
        BY <2>2
      <3>2. Step("online", a) \in StepRows /\ Step("send", a) \in StepRows /\ Step("reply", a) \in StepRows
        BY <3>1, StepIsRow DEF StepNames
      <3>. QED BY <3>2, ThreeSteps DEF dispatch_shell, Step
    <2>7. s = dispatch_shell(a)
      OBVIOUS
    <2> HIDE DEF s
    <2>8. /\ Shaped(x) /\ x.q = r.q /\ x.todo = s \o r.todo /\ x.begun = TRUE /\ x.among = r.among \ {a}
          /\ x.ever = r.ever /\ x.admin = r.admin /\ x.tool = r.tool /\ x.svcs = r.svcs /\ x.show = r.show
      BY <2>2, <2>5 DEF Sound, Shaped, Fields
    <2> HIDE DEF x
    <2>9. Formed(x.todo, x.q, x.ever)
      <3>1. <<"sees", r.q.by, a>> \in r.ever /\ <<"active", a>> \in r.ever /\ a \in Agents
        BY <2>2, <2>4
      <3>2. x.todo = dispatch_shell(a) \o r.todo
        BY <2>7, <2>8
      <3> DEFINE K == r.ever  q == r.q
      <3>3. <<"sees", q.by, a>> \in K /\ <<"active", a>> \in K /\ Formed(r.todo, q, K)
        BY <2>2, <3>1
      <3> HIDE DEF K, q
      <3>4. Formed(x.todo, q, K)
        BY <2>2, <3>1, <3>2, <3>3, ItemIsFormed
      <3>. QED BY <2>8, <3>4 DEF K, q
    <2>10. \A i \in DOMAIN x.todo : x.todo[i][1] # "auth"
      <3>1. \A i \in DOMAIN r.todo : r.todo[i][1] # "auth"
        BY <2>5 DEF Asking
      <3>2. \A i \in DOMAIN s : s[i][1] # "auth"
        BY <2>6
      <3>3. PICK m : m = Len(s)
        OBVIOUS
      <3>4. /\ \A i \in DOMAIN s : x.todo[i] = s[i]
            /\ \A i \in DOMAIN r.todo : x.todo[i + m] = r.todo[i]
            /\ \A k \in DOMAIN x.todo : k \in DOMAIN s \/ (k - m \in DOMAIN r.todo /\ k = (k - m) + m)
        BY <2>2, <2>6, <2>8, <3>3, CatPlaces
      <3>. QED BY <3>1, <3>2, <3>4
    <2>11. \A z : NeedsOfRow(x, z[1], z[2]) = NeedsOfRow(r, z[1], z[2])
      BY <2>8 DEF NeedsOfRow, Listed, Asker
    <2>12. Gathers(x, x)
      BY <2>2, <2>4, <2>8, <2>11 DEF Gathers
    <2>13. ActsUnder(x) = ActsUnder(r) /\ ~Redeems(x)
      BY <2>2, <2>8 DEF ActsUnder, Redeems
    <2>14. Revoking(x)
      <3>1. r.q.op \notin Strict
        BY <2>2, NotStrict
      <3>. QED BY <2>8, <3>1 DEF Revoking, Strict
    <2>15. Good(x)
      BY <2>5, <2>8, <2>9, <2>10, <2>12, <2>13, <2>14, GoodBegun
    <2>16. Steady
      BY <1>1, ReadsAreSteady DEF Reads
    <2>. QED BY <2>1, <2>8, <2>15, <2>16, RightsGo
  <1>. QED BY <1>2, <1>3 DEF NextItem

LEMMA RightsTool ==
    ASSUME OnceInv, Rights, NEW r \in live, execute_tool(r)
    PROVE  Rights'
  <1>1. At(r, "scope") /\ Reads
    BY DEF execute_tool
  <1>2. CASE Refuses(r)
    BY <1>1, <1>2, Refusing
  <1>3. CASE ~Refuses(r)
    <2> DEFINE x == [Next_(r) EXCEPT !.tool = On(r), !.among = {}, !.svcs = {}]
    <2>1. Goto(r, x) /\ \E s \in check_mcp_tool_scope(On(r)) : s = "any" \/ has_scope(r.q.by, r.admin, s)
      BY <1>3 DEF execute_tool
    <2>2. Sound(r) /\ r.todo \in Seq(StepRows) /\ r.todo # <<>> /\ Stage(r) = "scope" /\ r.todo[1][1] = "scope" /\ r.todo[1][2] = On(r)
      BY <1>1, GoodFacts, AtIsStage DEF At, On
    <2>3. r.q.op \notin Strict /\ ~Redeems(r)
      BY <2>2, NotStrict DEF Redeems, Strict
    <2>4. /\ r.begun = TRUE /\ Known(r) = r.ever /\ r.q.op \notin Changes
          /\ <<"credential", r.q.by>> \in r.ever /\ Authority(r.q.by, r.admin, r.ever)
          /\ Formed(r.todo, r.q, r.ever) /\ Gathered(r) /\ Asking(r)
      BY <2>2, <2>3, BegunFacts
    <2>5. Follows(r, x) /\ x.tool = On(r) /\ x.among = {} /\ x.svcs = {} /\ x.show = r.show
      <3>1. \A v : LET z == [Next_(r) EXCEPT !.tool = v, !.among = {}, !.svcs = {}] IN
                Follows(r, z) /\ z.tool = v /\ z.among = {} /\ z.svcs = {} /\ z.show = r.show
        BY <2>2, NextFollows
      <3>. QED BY <3>1
    <2> HIDE DEF x
    <2>6. x.q = r.q /\ x.todo = Tail(r.todo) /\ x.begun = TRUE /\ x.ever = r.ever /\ x.admin = r.admin /\ Shaped(x)
      BY <2>5 DEF Follows, Continues
    <2>7. Formed(x.todo, x.q, x.ever)
      <3>1. Sighted(x.todo, r.q.by, r.ever)
        <4> DEFINE c == r.q.by  K == r.ever  d == r.todo  e == x.todo
        <4>1. d \in Seq(StepRows) /\ d # <<>> /\ e = Tail(d) /\ K \subseteq K /\ Sighted(d, c, K) /\ d[1][1] = "scope"
          BY <2>2, <2>4, <2>6 DEF Formed
        <4> HIDE DEF c, K, d, e
        <4>2. Sighted(e, c, K)
          BY <4>1, SightedNext
        <4>. QED BY <4>2 DEF c, K, e
      <3>2. Checked(x.todo, r.q.op) /\ Sorted(x.todo)
        BY <2>2, <2>4, <2>6, CheckedNext DEF Formed
      <3>. QED BY <2>6, <3>1, <3>2 DEF Formed
    <2>8. \A i \in DOMAIN x.todo : x.todo[i][1] # "auth"
      <3>1. \A i \in DOMAIN x.todo : i + 1 \in DOMAIN r.todo /\ x.todo[i] = r.todo[i + 1] /\ i + 1 # 1
        BY <2>2, <2>6, TailOf
      <3>. QED BY <2>4, <3>1 DEF Asking
    <2>9. Free(x.todo, Acting) => has_scope(x.q.by, x.admin, ActsUnder(x))
      <3>1. SUFFICES ASSUME Free(x.todo, Acting) PROVE has_scope(x.q.by, x.admin, ActsUnder(x))
        OBVIOUS
      <3>2. On(r) \in ActingTools
        BY <2>2, <2>4, <2>6, <3>1, FreeNext DEF Formed
      <3>3. r.q.op = "mcp"
        <4>1. 1 \in DOMAIN r.todo
          BY <2>2, TailOf
        <4>. QED BY <2>2, <2>4, <4>1 DEF Formed, Checked
      <3>4. ActsUnder(x) = IF On(r) \in {"fs_list", "fs_read", "fs_url"} THEN "transfer:read" ELSE "server:exec"
        BY <2>5, <2>6, <3>3 DEF ActsUnder
      <3>5. check_mcp_tool_scope(On(r)) = {ActsUnder(x)} /\ ActsUnder(x) # "any"
        BY <3>2, <3>4 DEF check_mcp_tool_scope, ActingTools
      <3>. QED BY <2>1, <2>6, <3>5
    <2>10. Gathers(x, x)
      BY <2>4, <2>5, <2>6 DEF Gathers, Gathered
    <2>11. ~Redeems(x) /\ Revoking(x)
      BY <2>3, <2>6 DEF Redeems, Revoking, Strict
    <2>12. Good(x)
      BY <2>4, <2>6, <2>7, <2>8, <2>9, <2>10, <2>11, GoodBegun
    <2>13. Steady
      BY <1>1, ReadsAreSteady DEF Reads
    <2>. QED BY <2>1, <2>6, <2>12, <2>13, RightsGo
  <1>. QED BY <1>2, <1>3

LEMMA RightsAuth ==
    ASSUME OnceInv, Rights, NEW r \in live, (r.q.op # "mcp" /\ Authenticated(r, Scopes(r.q))) \/ StartsTools(r)
    PROVE  Rights'
  <1> DEFINE u == creds[r.q.by].user  x == [Next_(r) EXCEPT !.admin = IsAdmin(u)]
  <1>1. At(r, "auth") /\ Reads
    BY DEF Authenticated, StartsTools
  <1>2. CASE Ends(r)
    BY <1>1, <1>2, Ending
  <1>3. CASE ~Ends(r)
    <2>1. /\ Goto(r, x) /\ creds[r.q.by].valid /\ users[u] # Nothing
          /\ r.q.op # "mcp" => \E s \in Scopes(r.q) : has_scope(r.q.by, IsAdmin(u), s)
      BY <1>3 DEF Authenticated, StartsTools, MayAsk
    <2>2. /\ Sound(r) /\ r.todo \in Seq(StepRows) /\ r.todo # <<>> /\ Stage(r) = "auth" /\ r.todo[1][1] = "auth"
          /\ OperationsTypeOK /\ r.q.by \in Creds /\ Facts \subseteq r.ever /\ Good(r)
      BY <1>1, GoodFacts, AtIsStage DEF At
    <2>3. ~Redeems(r)
      <3>1. Redeems(r) => r.q.op \in Strict /\ r.q.op # "revoke"
        BY DEF Redeems, Strict
      <3>. QED BY <2>2, <3>1, StrictStages
    <2>4. Asking(r) /\ Formed(r.todo, r.q, Known(r)) /\ Righted(r)
      BY <2>2, <2>3 DEF Good
    <2>5. 1 \in DOMAIN r.todo
      BY <2>2, TailOf
    <2>6. ~r.begun /\ r.q.op \notin Changes /\ r.show = {} /\ r.svcs = {} /\ r.among = {} /\ Known(r) = {}
      BY <2>2, <2>4, <2>5 DEF Asking, Known
    <2>7. /\ Continues(r, x) /\ x.ever = r.ever /\ x.admin = IsAdmin(u)
          /\ x.tool = r.tool /\ x.among = r.among /\ x.svcs = r.svcs /\ x.show = r.show
      <3>1. \A v : LET z == [Next_(r) EXCEPT !.admin = v] IN
                /\ Continues(r, z) /\ z.ever = r.ever /\ z.admin = v
                /\ z.tool = r.tool /\ z.among = r.among /\ z.svcs = r.svcs /\ z.show = r.show
        BY <2>2, NextFollows
      <3> HIDE DEF u
      <3>. QED BY <3>1
    <2> HIDE DEF x
    <2>8. x.q = r.q /\ x.todo = Tail(r.todo) /\ x.begun = TRUE /\ Shaped(x)
      BY <2>7 DEF Continues
    <2>9. Formed(x.todo, x.q, x.ever)
      <3>1. Sighted(x.todo, r.q.by, r.ever)
        <4> DEFINE c == r.q.by  K == Known(r)  M == r.ever  d == r.todo  e == x.todo
        <4>1. d \in Seq(StepRows) /\ d # <<>> /\ e = Tail(d) /\ K \subseteq M /\ Sighted(d, c, K) /\ d[1][1] = "auth"
          BY <2>2, <2>4, <2>6, <2>8 DEF Formed
        <4> HIDE DEF c, K, M, d, e
        <4>2. Sighted(e, c, M)
          BY <4>1, SightedNext
        <4>. QED BY <4>2 DEF c, M, e
      <3>2. Checked(x.todo, r.q.op) /\ Sorted(x.todo)
        BY <2>2, <2>4, <2>8, CheckedNext DEF Formed
      <3>. QED BY <2>7, <2>8, <3>1, <3>2 DEF Formed
    <2>10. \A i \in DOMAIN x.todo : x.todo[i][1] # "auth"
      <3>1. \A i \in DOMAIN x.todo : i + 1 \in DOMAIN r.todo /\ x.todo[i] = r.todo[i + 1] /\ i + 1 # 1
        BY <2>2, <2>8, TailOf
      <3>. QED BY <2>4, <3>1 DEF Asking
    <2>11. Free(x.todo, Acting) => has_scope(x.q.by, x.admin, ActsUnder(x))
      <3>1. SUFFICES ASSUME Free(x.todo, Acting) PROVE has_scope(x.q.by, x.admin, ActsUnder(x))
        OBVIOUS
      <3>2. Free(r.todo, Acting)
        BY <2>2, <2>8, <3>1, FreeNext
      <3>3. r.q.op \in Operations
        BY <2>4, <2>6, <3>2 DEF Righted
      <3>4. r.q.op \notin {"mcp", "resource", "prompt"}
        BY <3>3 DEF Operations
      <3>5. Scopes(r.q) = {Scope(r.q.op)} /\ ActsUnder(x) = Scope(r.q.op)
        BY <2>8, <3>4 DEF Scopes, ActsUnder
      <3>. QED BY <2>1, <2>7, <2>8, <3>4, <3>5
    <2>12. <<"credential", x.q.by>> \in x.ever /\ Authority(x.q.by, x.admin, x.ever)
      <3>1. <<"credential", r.q.by>> \in Facts
        BY <2>1, <2>2, SoNow
      <3>2. Authority(r.q.by, IsAdmin(u), r.ever)
        BY <2>2, HasAuthority
      <3>. QED BY <2>2, <2>7, <2>8, <3>1, <3>2
    <2>13. Gathers(x, x)
      BY <2>6, <2>7 DEF Gathers
    <2>14. ~Redeems(x)
      BY <2>3, <2>8 DEF Redeems
    <2>15. Revoking(x)
      <3>1. SUFFICES ASSUME r.q.op = "revoke", Stage(x) = "revoke" PROVE FALSE
        BY <2>8 DEF Revoking
      <3>2. <<Stage(r), "revoke">> \in Links("revoke")
        BY <2>2, <2>7, <3>1, StrictNext DEF Strict
      <3>. QED BY <2>2, <3>2 DEF Links
    <2>16. Good(x)
      BY <2>6, <2>8, <2>9, <2>10, <2>11, <2>12, <2>13, <2>14, <2>15, GoodBegun
    <2>17. Steady
      BY <1>1, ReadsAreSteady DEF Reads
    <2>. QED BY <2>1, <2>8, <2>16, <2>17, RightsGo
  <1>. QED BY <1>2, <1>3

-----------------------------------------------------------------------------
(* Each action: whoever holds a token. *)

LEMMA PutIsSteady ==
    ASSUME OperationsTypeOK, UNCHANGED tables, NEW t \in Tokens, NEW rec \in TokenRows, tokens' = Put(t, rec),
           tokens[t] # Nothing => rec.cred = tokens[t].cred /\ rec.op = tokens[t].op /\ rec.server = tokens[t].server
    PROVE  Steady
  <1>1. tokens \in [Tokens -> TokenRows \cup {Nothing}] /\ rec # Nothing
    BY TransfersAssumption DEF OperationsTypeOK, TransfersTypeOK, TablesOK
  <1>2. tokens'[t] = rec /\ \A v \in Tokens \ {t} : tokens'[v] = tokens[v]
    BY <1>1 DEF Put
  <1>. QED BY <1>1, <1>2 DEF Steady, tables

LEMMA RewritesAreSteady ==
    ASSUME OperationsTypeOK, UNCHANGED tables, NEW t \in Tokens, tokens[t] # Nothing,
           NEW u \in {"no", "receiving", "started", "success", "failed"}, NEW b \in Nat \cup {Nothing}, tokens' = Rewritten(t, u, b)
    PROVE  Steady
  <1> DEFINE rec == [tokens[t] EXCEPT !.used = u, !.by = b]
  <1>1. tokens \in [Tokens -> TokenRows \cup {Nothing}] /\ tokens[t] \in TokenRows
    BY DEF OperationsTypeOK, TransfersTypeOK, TablesOK
  <1>2. rec \in TokenRows /\ rec.cred = tokens[t].cred /\ rec.op = tokens[t].op /\ rec.server = tokens[t].server
    BY <1>1 DEF TokenRows
  <1>3. tokens' = Put(t, rec)
    BY <1>1 DEF Rewritten, Put
  <1> HIDE DEF rec
  <1>. QED BY <1>2, <1>3, PutIsSteady

Onward(op) == Links(op) \cup {<<"reach", "result">>, <<"send", "result">>, <<"result", "end">>}
LEMMA RedeemGo ==
    ASSUME OnceInv, Rights, Steady, NEW r \in live, Redeems(r), r.todo # <<>>, NEW x, Goto(r, x), Shaped(x), x.q = r.q, x.begun = TRUE,
           x.ever = r.ever, x.show = r.show, <<Stage(r), Stage(x)>> \in Onward(r.q.op),
           Stage(r) = "record" => tokens[r.q.token] # Nothing /\ tokens[r.q.token].op = r.q.op,
           IF Stage(r) = "issuer"
           THEN users[creds[tokens[r.q.token].cred].user] # Nothing /\ Authority(tokens[r.q.token].cred, x.admin, r.ever)
           ELSE x.admin = r.admin,
           Stage(r) = "held" => <<"credential", tokens[r.q.token].cred>> \in r.ever /\ has_scope(tokens[r.q.token].cred, r.admin, Scope(tokens[r.q.token].op)),
           Stage(r) = "server" =>
               <<"sees", tokens[r.q.token].cred, tokens[r.q.token].server>> \in r.ever /\ <<"active", tokens[r.q.token].server>> \in r.ever,
           Stage(r) \in {"consume", "commit"} => <<"usable", r.q.token>> \in r.ever
    PROVE  Rights'
  <1> DEFINE t == tokens[r.q.token]  s == Stage(r)  z == Stage(x)
  <1>1. Good(r) /\ Sound(r)
    BY GoodFacts
  <1>2. /\ r.show = {}
        /\ s \notin {"end", "ip", "record"} => t # Nothing /\ t.op = r.q.op
        /\ s \notin {"end", "ip", "record", "issuer"} => users[creds[t.cred].user] # Nothing /\ Authority(t.cred, r.admin, Known(r))
        /\ s \notin {"end", "ip", "record", "issuer", "held"} =>
              <<"credential", t.cred>> \in Known(r) /\ has_scope(t.cred, r.admin, Scope(t.op))
        /\ s \notin {"end", "ip", "record", "issuer", "held", "server"} =>
              <<"sees", t.cred, t.server>> \in Known(r) /\ <<"active", t.server>> \in Known(r)
        /\ s \in Using => <<"usable", r.q.token>> \in Known(r)
    BY <1>1 DEF Good, Redeeming
  <1>3. Known(r) \subseteq r.ever /\ Known(x) = r.ever
    BY DEF Known
  <1>4. r.q.op # "revoke"
    BY DEF Redeems
  <1>5. /\ z \notin {"end", "ip", "record"} => s = "record" \/ s \notin {"end", "ip", "record"}
        /\ z \notin {"end", "ip", "record", "issuer"} => s = "issuer" \/ s \notin {"end", "ip", "record", "issuer"}
        /\ z \notin {"end", "ip", "record", "issuer", "held"} => s = "held" \/ s \notin {"end", "ip", "record", "issuer", "held"}
        /\ z \notin {"end", "ip", "record", "issuer", "held", "server"} => s = "server" \/ s \notin {"end", "ip", "record", "issuer", "held", "server"}
        /\ z \in Using => s \in {"consume", "commit"} \/ s \in Using
    BY <1>4 DEF Onward, Links, Using
  <1>6. Redeems(x)
    BY DEF Redeems
  <1>7. t = tokens[r.q.token] /\ s = Stage(r) /\ z = Stage(x)
    OBVIOUS
  <1> HIDE DEF t, s, z
  <1>8. z \notin {"end", "ip", "record"} => t # Nothing /\ t.op = r.q.op
    BY <1>2, <1>5, <1>7
  <1>9. z \notin {"end", "ip", "record", "issuer"} => users[creds[t.cred].user] # Nothing /\ Authority(t.cred, x.admin, r.ever)
    <2>1. CASE s = "issuer"
      BY <1>7, <2>1
    <2>2. CASE s \notin {"end", "ip", "record", "issuer"}
      <3>1. users[creds[t.cred].user] # Nothing /\ Authority(t.cred, r.admin, Known(r)) /\ x.admin = r.admin
        BY <1>2, <1>7, <2>2
      <3>. QED BY <1>3, <3>1 DEF Authority
    <2>. QED BY <1>5, <2>1, <2>2
  <1>10. z \notin {"end", "ip", "record", "issuer", "held"} => <<"credential", t.cred>> \in r.ever /\ has_scope(t.cred, x.admin, Scope(t.op))
    <2>1. CASE s = "held"
      BY <1>7, <2>1
    <2>2. CASE s \notin {"end", "ip", "record", "issuer", "held"}
      BY <1>2, <1>3, <1>7, <2>2
    <2>. QED BY <1>5, <2>1, <2>2
  <1>11. z \notin {"end", "ip", "record", "issuer", "held", "server"} => <<"sees", t.cred, t.server>> \in r.ever /\ <<"active", t.server>> \in r.ever
    <2>1. CASE s = "server"
      BY <1>7, <2>1
    <2>2. CASE s \notin {"end", "ip", "record", "issuer", "held", "server"}
      BY <1>2, <1>3, <2>2
    <2>. QED BY <1>5, <2>1, <2>2
  <1>12. z \in Using => <<"usable", r.q.token>> \in r.ever
    BY <1>2, <1>3, <1>5, <1>7
  <1>13. Redeeming(x)
    BY <1>2, <1>3, <1>7, <1>8, <1>9, <1>10, <1>11, <1>12 DEF Redeeming
  <1>14. Good(x)
    BY <1>6, <1>13 DEF Good
  <1>. QED BY <1>14, RightsGo

\* The same, with one step taken off.
LEMMA RedeemOn ==
    ASSUME NEW r, Sound(r), Redeems(r), r.todo # <<>>, NEW x, Continues(r, x)
    PROVE  <<Stage(r), Stage(x)>> \in Onward(r.q.op)
  <1>1. r.q.op \in Strict /\ r.q.op # "revoke"
    BY DEF Redeems, Strict
  <1>2. /\ Stage(x) = "end" => Stage(r) = LastOf(r.q.op)
        /\ Stage(x) # "end" => <<Stage(r), Stage(x)>> \in Links(r.q.op)
    BY <1>1, StrictNext
  <1>. QED BY <1>1, <1>2 DEF Onward, LastOf

\* The steps a token's holder alone takes.
LEMMA AtRedeeming ==
    ASSUME OnceInv, Rights, NEW r \in live, NEW s \in {"ip", "record", "issuer", "held", "server", "limit"}, At(r, s), Redeems(r)
    PROVE  /\ Sound(r) /\ r.todo # <<>> /\ Stage(r) = s /\ OperationsTypeOK /\ Facts \subseteq r.ever /\ r.q.token \in Tokens
           /\ s \in {"issuer", "held", "server"} => tokens[r.q.token] \in TokenRows
           /\ s \in {"held", "server"} => Authority(tokens[r.q.token].cred, r.admin, r.ever) /\ users[creds[tokens[r.q.token].cred].user] # Nothing
  <1>1. /\ Sound(r) /\ OperationsTypeOK /\ Facts \subseteq r.ever /\ r.q.token \in Tokens /\ r.todo # <<>> /\ Stage(r) = s /\ Good(r)
    BY GoodFacts, AtIsStage
  <1>2. Redeeming(r) /\ Known(r) \subseteq r.ever
    BY <1>1 DEF Good, Known
  <1>3. s \in {"issuer", "held", "server"} => tokens[r.q.token] # Nothing
    BY <1>1, <1>2 DEF Redeeming
  <1>4. s \in {"issuer", "held", "server"} => tokens[r.q.token] \in TokenRows
    BY <1>1, <1>3 DEF OperationsTypeOK, TransfersTypeOK, TablesOK
  <1>5. s \in {"held", "server"} => Authority(tokens[r.q.token].cred, r.admin, Known(r)) /\ users[creds[tokens[r.q.token].cred].user] # Nothing
    BY <1>1, <1>2 DEF Redeeming
  <1>6. s \in {"held", "server"} => Authority(tokens[r.q.token].cred, r.admin, r.ever)
    BY <1>2, <1>5 DEF Authority
  <1>. QED BY <1>1, <1>4, <1>5, <1>6

LEMMA RedeemProceeds ==
    ASSUME OnceInv, Rights, Steady, NEW r \in live, Redeems(r), r.todo # <<>>, Proceeds(r), Stage(r) # "issuer",
           Stage(r) = "record" => tokens[r.q.token] # Nothing /\ tokens[r.q.token].op = r.q.op,
           Stage(r) = "held" => <<"credential", tokens[r.q.token].cred>> \in r.ever /\ has_scope(tokens[r.q.token].cred, r.admin, Scope(tokens[r.q.token].op)),
           Stage(r) = "server" =>
               <<"sees", tokens[r.q.token].cred, tokens[r.q.token].server>> \in r.ever /\ <<"active", tokens[r.q.token].server>> \in r.ever,
           Stage(r) \in {"consume", "commit"} => <<"usable", r.q.token>> \in r.ever
    PROVE  Rights'
  <1> DEFINE x == Next_(r)
  <1>1. Sound(r)
    BY GoodFacts
  <1>2. Follows(r, x) /\ x.show = r.show /\ Goto(r, x)
    BY <1>1, NextFollows DEF Proceeds
  <1>3. <<Stage(r), Stage(x)>> \in Onward(r.q.op)
    BY <1>1, <1>2, RedeemOn DEF Follows
  <1>4. Shaped(x) /\ x.q = r.q /\ x.begun = TRUE /\ x.ever = r.ever /\ x.admin = r.admin
    BY <1>2 DEF Follows, Continues
  <1> HIDE DEF x
  <1>. QED BY <1>2, <1>3, <1>4, RedeemGo

LEMMA RightsValidate ==
    ASSUME OnceInv, Rights, NEW r \in live,
           CheckRateLimit(r) \/ FindRecord(r) \/ FindIssuer(r) \/ FindIssuersCredential(r) \/ FindServer(r)
    PROVE  Rights'
  <1> DEFINE t == tokens[r.q.token]
  <1>1. Steady
    BY ReadsAreSteady DEF CheckRateLimit, FindRecord, FindIssuer, FindIssuersCredential, FindServer, Reads
  <1>2. \E s \in {"ip", "limit", "record", "issuer", "held", "server"} : At(r, s)
    BY DEF CheckRateLimit, FindRecord, FindIssuer, FindIssuersCredential, FindServer
  <1>3. Redeems(r) /\ r.todo # <<>>
    <2>1. Sound(r) /\ r.todo # <<>> /\ Stage(r) \in {"ip", "limit", "record", "issuer", "held", "server"}
      BY <1>2, GoodFacts, AtIsStage
    <2>. QED BY <2>1, KeptIsStrict DEF Kept
  <1>4. CASE Ends(r)
    BY <1>1, <1>4, RightsEnd
  <1>5. CASE CheckRateLimit(r) /\ ~Ends(r)
    <2>1. Proceeds(r) /\ Stage(r) \in {"ip", "limit"}
      BY <1>5, AtIsStage DEF CheckRateLimit
    <2>. QED BY <1>1, <1>3, <2>1, RedeemProceeds
  <1>6. CASE FindRecord(r) /\ ~Ends(r)
    <2>1. Proceeds(r) /\ Stage(r) = "record" /\ t # Nothing /\ t.op = r.q.op
      BY <1>6, AtIsStage DEF FindRecord, validate_transfer_record_state
    <2>. QED BY <1>1, <1>3, <2>1, RedeemProceeds
  <1>7. CASE FindIssuersCredential(r) /\ ~Ends(r)
    <2>1. At(r, "held") /\ Proceeds(r) /\ Stage(r) = "held" /\ creds[t.cred].valid /\ has_scope(t.cred, r.admin, Scope(t.op))
      BY <1>7, AtIsStage DEF FindIssuersCredential
    <2>2. t \in TokenRows /\ users[creds[t.cred].user] # Nothing /\ OperationsTypeOK /\ Facts \subseteq r.ever
      BY <1>3, <2>1, AtRedeeming
    <2>3. t.cred \in Creds
      BY <2>2 DEF TokenRows
    <2>4. <<"credential", t.cred>> \in r.ever
      BY <2>1, <2>2, <2>3, SoNow
    <2>. QED BY <1>1, <1>3, <2>1, <2>4, RedeemProceeds
  <1>8. CASE FindServer(r) /\ ~Ends(r)
    <2>1. At(r, "server") /\ Proceeds(r) /\ Stage(r) = "server" /\ ~agents[t.server].revoked /\ CanSee(t.cred, r.admin, t.server)
      BY <1>8, AtIsStage DEF FindServer
    <2>2. t \in TokenRows /\ Authority(t.cred, r.admin, r.ever) /\ OperationsTypeOK /\ Facts \subseteq r.ever
      BY <1>3, <2>1, AtRedeeming
    <2>3. t.cred \in Creds /\ t.server \in Agents
      BY <2>2 DEF TokenRows
    <2>4. <<"active", t.server>> \in r.ever
      BY <2>1, <2>2, <2>3, SoNow
    <2>5. <<"sees", t.cred, t.server>> \in r.ever
      BY <2>1, <2>2, <2>3, SeesAgent
    <2>. QED BY <1>1, <1>3, <2>1, <2>4, <2>5, RedeemProceeds
  <1>9. CASE FindIssuer(r) /\ ~Ends(r)
    <2> DEFINE u == creds[t.cred].user  x == [Next_(r) EXCEPT !.admin = IsAdmin(u)]
    <2>1. At(r, "issuer") /\ Goto(r, x) /\ Stage(r) = "issuer" /\ users[u] # Nothing
      BY <1>9, AtIsStage DEF FindIssuer
    <2>2. Sound(r) /\ t \in TokenRows /\ OperationsTypeOK /\ Facts \subseteq r.ever
      BY <1>3, <2>1, AtRedeeming
    <2>3. t.cred \in Creds
      BY <2>2 DEF TokenRows
    <2>4. Authority(t.cred, IsAdmin(u), r.ever)
      BY <2>2, <2>3, HasAuthority
    <2>5. Continues(r, x) /\ x.ever = r.ever /\ x.admin = IsAdmin(u) /\ x.show = r.show
      <3>1. \A v : LET z == [Next_(r) EXCEPT !.admin = v] IN
                /\ Continues(r, z) /\ z.ever = r.ever /\ z.admin = v
                /\ z.tool = r.tool /\ z.among = r.among /\ z.svcs = r.svcs /\ z.show = r.show
        BY <2>2, NextFollows
      <3> HIDE DEF u
      <3>. QED BY <3>1
    <2> HIDE DEF x
    <2>6. <<Stage(r), Stage(x)>> \in Onward(r.q.op)
      BY <1>3, <2>2, <2>5, RedeemOn
    <2>7. Shaped(x) /\ x.q = r.q /\ x.begun = TRUE
      BY <2>5 DEF Continues
    <2>8. Authority(t.cred, x.admin, r.ever)
      BY <2>4, <2>5
    <2>. QED BY <1>1, <1>3, <2>1, <2>5, <2>6, <2>7, <2>8, RedeemGo
  <1>. QED BY <1>4, <1>5, <1>6, <1>7, <1>8, <1>9

LEMMA RightsUse ==
    ASSUME OnceInv, Rights, NEW r \in live,
           consume_temporary_transfer(r) \/ reserve_upload_once(r) \/ ReadsBody(r) \/ commit_temporary_upload(r) \/ record_temporary_transfer_result(r)
    PROVE  Rights'
  <1> DEFINE t == r.q.token
  <1>0. UNCHANGED tables /\ \E s \in {"consume", "reserve", "body", "commit", "result"} : At(r, s)
    BY DEF consume_temporary_transfer, reserve_upload_once, ReadsBody, commit_temporary_upload, record_temporary_transfer_result
  <1>1. /\ Sound(r) /\ OperationsTypeOK /\ Facts \subseteq r.ever /\ t \in Tokens /\ r.q.id \in Nat /\ r.todo # <<>>
        /\ Stage(r) \in {"consume", "reserve", "body", "commit", "result"} /\ TablesOK(users, creds, agents, tokens)
    BY <1>0, GoodFacts, AtIsStage, OnceFacts, StepFacts
  <1>2. Redeems(r)
    BY <1>1, KeptIsStrict DEF Kept
  <1>3. HoldsToken(r, tokens[t], sent)
    BY <1>2, OnceFacts, StepFacts
  <1>4. Usable(t) => <<"usable", t>> \in r.ever
    BY <1>1, SoNow
  <1>5. \A u \in {"no", "receiving", "started", "success", "failed"}, b \in Nat \cup {Nothing} :
            tokens[t] # Nothing /\ tokens' = Rewritten(t, u, b) => Steady
    BY <1>0, <1>1, RewritesAreSteady
  <1>6. UNCHANGED tokens => Steady
    BY <1>0, ReadsAreSteady
  <1>7. CASE consume_temporary_transfer(r) \/ reserve_upload_once(r)
    <2>1. CASE UNCHANGED tokens /\ Ends(r)
      BY <1>6, <2>1, RightsEnd
    <2>2. CASE ~(UNCHANGED tokens /\ Ends(r))
      <3> DEFINE u == IF Stage(r) = "consume" THEN "started" ELSE "receiving"
      <3>1. Usable(t) /\ tokens' = Rewritten(t, u, r.q.id) /\ Proceeds(r) /\ Stage(r) \in {"consume", "reserve"}
        BY <1>7, <2>2, AtIsStage DEF consume_temporary_transfer, reserve_upload_once, Rewritten
      <3>2. tokens[t] # Nothing
        BY <3>1 DEF Usable
      <3>3. Steady
        BY <1>1, <1>5, <3>1, <3>2
      <3>. QED BY <1>1, <1>2, <1>4, <3>1, <3>3, RedeemProceeds
    <2>. QED BY <2>1, <2>2
  <1>8. ASSUME Stage(r) \in {"body", "commit"}, tokens' = release_upload_reservation(r) PROVE Steady
    <2>1. tokens[t] # Nothing /\ tokens[t].used = "receiving" /\ tokens[t].by = r.q.id
      BY <1>3, <1>8 DEF HoldsToken
    <2>2. tokens' = Rewritten(t, "no", Nothing)
      BY <1>8, <2>1 DEF release_upload_reservation, Reserved, Rewritten
    <2>. QED BY <1>5, <2>1, <2>2
  <1>9. CASE ReadsBody(r)
    <2>0. At(r, "body") /\ ((tokens' = tokens /\ Proceeds(r)) \/ (tokens' = release_upload_reservation(r) /\ Ends(r)))
      BY <1>9 DEF ReadsBody
    <2>1. Stage(r) = "body"
      BY <2>0, AtIsStage
    <2>2. CASE tokens' = tokens /\ Proceeds(r)
      <3>1. Steady /\ Proceeds(r) /\ Stage(r) = "body" /\ r.todo # <<>>
        BY <1>1, <1>6, <2>1, <2>2
      <3>. QED BY <1>2, <3>1, RedeemProceeds
    <2>3. CASE tokens' = release_upload_reservation(r) /\ Ends(r)
      BY <1>8, <2>1, <2>3, RightsEnd
    <2>. QED BY <2>0, <2>2, <2>3
  <1>10. CASE commit_temporary_upload(r)
    <2>1. /\ Stage(r) = "commit"
          /\ \/ commit_upload_reservation(r) /\ tokens' = [tokens EXCEPT ![t].used = "started"] /\ Proceeds(r)
             \/ tokens' = release_upload_reservation(r) /\ Ends(r)
             \/ UNCHANGED tokens /\ Ends(r)
      BY <1>10, AtIsStage DEF commit_temporary_upload
    <2>2. CASE commit_upload_reservation(r) /\ tokens' = [tokens EXCEPT ![t].used = "started"] /\ Proceeds(r)
      <3>1. tokens[t] # Nothing /\ tokens[t].by = r.q.id /\ Usable(t)
        BY <2>2 DEF commit_upload_reservation, Usable, Reserved
      <3>2. tokens' = Rewritten(t, "started", r.q.id)
        <4>1. tokens' = Reused(t, "started")
          BY <2>2 DEF Reused
        <4>. QED BY <1>1, <3>1, <4>1, UseOnly
      <3>3. Steady
        BY <1>1, <1>5, <3>1, <3>2
      <3>. QED BY <1>1, <1>2, <1>4, <2>1, <2>2, <3>1, <3>3, RedeemProceeds
    <2>3. CASE tokens' = release_upload_reservation(r) /\ Ends(r)
      BY <1>8, <2>1, <2>3, RightsEnd
    <2>4. CASE UNCHANGED tokens /\ Ends(r)
      BY <1>6, <2>4, RightsEnd
    <2>. QED BY <2>1, <2>2, <2>3, <2>4
  <1>11. CASE record_temporary_transfer_result(r)
    <2>1. Stage(r) = "result" /\ Ends(r) /\ (tokens' = [tokens EXCEPT ![t].used = r.out] \/ UNCHANGED tokens)
      BY <1>11, AtIsStage DEF record_temporary_transfer_result
    <2>2. CASE tokens' = [tokens EXCEPT ![t].used = r.out]
      <3>1. tokens[t] # Nothing /\ tokens[t].by = r.q.id /\ r.out \in {"success", "failed"}
        BY <1>3, <2>1 DEF HoldsToken, Using
      <3>2. tokens' = Rewritten(t, r.out, r.q.id)
        <4>1. tokens' = Reused(t, r.out)
          BY <2>2 DEF Reused
        <4>. QED BY <1>1, <3>1, <4>1, UseOnly
      <3>3. Steady
        BY <1>1, <1>5, <3>1, <3>2
      <3>. QED BY <2>1, <3>3, RightsEnd
    <2>3. CASE UNCHANGED tokens
      BY <1>6, <2>1, <2>3, RightsEnd
    <2>. QED BY <2>1, <2>2, <2>3
  <1>. QED BY <1>7, <1>9, <1>10, <1>11

-----------------------------------------------------------------------------
(* Operations: what was done, the asker was entitled to. *)

LEMMA NeedsMet ==
    ASSUME OperationsTypeOK, NEW c \in Creds, NEW a, NEW s, NEW admin, NEW K, <<"credential", c>> \in K, <<"sees", c, a>> \in K,
           <<"active", a>> \in K, has_scope(c, admin, s), Authority(c, admin, K)
    PROVE  Needs(c, s, a) \subseteq K
  <1>1. creds[c].kind \in {"session", "pat"}
    BY DEF OperationsTypeOK, TransfersTypeOK, TablesOK, CredRows
  <1>2. CASE creds[c].kind = "pat"
    <2>1. s \in creds[c].scopes
      BY <1>2 DEF has_scope
    <2>. QED BY <1>2, <2>1 DEF Needs
  <1>3. CASE creds[c].kind = "session"
    <2>1. member_cookie_scope_allowed(s) \/ <<"admin", creds[c].user>> \in K
      BY <1>3 DEF has_scope, Authority
    <2>2. creds[c].kind # "pat"
      BY <1>3
    <2>. QED BY <2>1, <2>2 DEF Needs
  <1>. QED BY <1>1, <1>2, <1>3

LEMMA AimsAtAgent ==
    ASSUME OnceInv, Rights, NEW r \in live, ~Redeems(r), r.todo # <<>>, Stage(r) \in {"send", "create"}
    PROVE  On(r) \in Agents /\ Needs(r.q.by, ActsUnder(r), On(r)) \subseteq r.ever
  <1> DEFINE d == r.todo
  <1>1. d \in Seq(StepRows) /\ d # <<>> /\ r.q.by \in Creds /\ OperationsTypeOK /\ Stage(r) = d[1][1] /\ On(r) = d[1][2]
    BY GoodFacts DEF Stage, On
  <1>2. /\ <<"credential", r.q.by>> \in r.ever /\ Authority(r.q.by, r.admin, r.ever) /\ Sighted(d, r.q.by, r.ever)
        /\ Free(d, Acting) => has_scope(r.q.by, r.admin, ActsUnder(r))
    BY BegunFacts DEF Formed
  <1>3. 1 \in DOMAIN d
    BY <1>1, TailOf
  <1> HIDE DEF d
  <1>4. \A S : ~Behind(d, 1, S)
    BY DEF Behind
  <1>5. On(r) \in Agents /\ <<"sees", r.q.by, On(r)>> \in r.ever /\ <<"active", On(r)>> \in r.ever
    BY <1>1, <1>2, <1>3, <1>4 DEF Sighted, Aimed
  <1>6. Free(d, Acting)
    <2>1. Unscoped(d, 1, 1)
      BY <1>1 DEF Unscoped
    <2>2. d[1][1] \in Acting
      BY <1>1 DEF Acting
    <2>. QED BY <1>3, <2>1, <2>2 DEF Free
  <1>. QED BY <1>1, <1>2, <1>5, <1>6, NeedsMet

LEMMA RedeemEntitled ==
    ASSUME OnceInv, Rights, NEW r \in live, Redeems(r), r.todo # <<>>, Stage(r) = "send"
    PROVE  \A s : Entitling(r, s) \subseteq r.ever
  <1> DEFINE t == tokens[r.q.token]
  <1>1. Redeeming(r) /\ OperationsTypeOK /\ r.q.token \in Tokens /\ r.q.token # Nothing /\ Known(r) \subseteq r.ever
    BY GoodFacts, TransfersAssumption DEF Good, Known
  <1>2. /\ t # Nothing /\ Authority(t.cred, r.admin, Known(r)) /\ <<"credential", t.cred>> \in Known(r)
        /\ has_scope(t.cred, r.admin, Scope(t.op)) /\ <<"sees", t.cred, t.server>> \in Known(r) /\ <<"active", t.server>> \in Known(r)
        /\ <<"usable", r.q.token>> \in Known(r)
    BY <1>1 DEF Redeeming, Using
  <1>3. t \in TokenRows
    BY <1>1, <1>2 DEF OperationsTypeOK, TransfersTypeOK, TablesOK
  <1>4. t.cred \in Creds
    BY <1>3 DEF TokenRows
  <1>5. Needs(t.cred, Scope(t.op), t.server) \subseteq Known(r)
    <2> DEFINE c == t.cred  a == t.server  s == Scope(t.op)  K == Known(r)  m == r.admin
    <2>1. /\ c \in Creds /\ <<"credential", c>> \in K /\ <<"sees", c, a>> \in K /\ <<"active", a>> \in K /\ has_scope(c, m, s) /\ Authority(c, m, K)
          /\ OperationsTypeOK
      BY <1>1, <1>2, <1>4
    <2> HIDE DEF c, a, s, K, m
    <2>2. Needs(c, s, a) \subseteq K
      BY <2>1, NeedsMet
    <2>. QED BY <2>2 DEF c, a, s, K
  <1>6. Target(r) = t.server
    BY <1>1 DEF Target, Redeems
  <1>. QED BY <1>1, <1>2, <1>5, <1>6 DEF Entitling, Redeems

LEMMA FailedOf ==
    ASSUME NEW r, Sound(r)
    PROVE  LET f == [Next_(r) EXCEPT !.todo = <<Step("result", Nothing)>>, !.out = "failed"] IN
           Shaped(f) /\ f.q = r.q /\ f.begun = TRUE /\ f.ever = r.ever /\ f.admin = r.admin /\ f.show = r.show /\ Stage(f) = "result"
  <1> DEFINE n == Next_(r)  f == [n EXCEPT !.todo = <<Step("result", Nothing)>>, !.out = "failed"]
  <1>1. DOMAIN n = Fields /\ n.q = r.q /\ n.begun = TRUE /\ n.ever = r.ever /\ n.admin = r.admin /\ n.show = r.show
    <2>1. DOMAIN r = Fields
      BY DEF Sound, Shaped
    <2>. QED BY <2>1 DEF Next_, Fields
  <1> HIDE DEF n
  <1>2. DOMAIN f = Fields /\ f.q = r.q /\ f.begun = TRUE /\ f.ever = r.ever /\ f.admin = r.admin /\ f.show = r.show /\ f.todo = <<Step("result", Nothing)>>
    BY <1>1 DEF Fields
  <1>3. Stage(f) = "result"
    <2> HIDE DEF f
    <2>. QED BY <1>2 DEF Stage, Step
  <1>. QED BY <1>2, <1>3 DEF n, Shaped

LEMMA RedeemFails ==
    ASSUME OnceInv, Rights, Steady, NEW r \in live, Redeems(r), r.todo # <<>>, Stage(r) \in {"send", "reach"},
           Goto(r, [Next_(r) EXCEPT !.todo = <<Step("result", Nothing)>>, !.out = "failed"])
    PROVE  Rights'
  <1> DEFINE f == [Next_(r) EXCEPT !.todo = <<Step("result", Nothing)>>, !.out = "failed"]
  <1>1. Shaped(f) /\ f.q = r.q /\ f.begun = TRUE /\ f.ever = r.ever /\ f.admin = r.admin /\ f.show = r.show /\ Stage(f) = "result" /\ Goto(r, f)
    <2>1. Sound(r)
      BY GoodFacts
    <2>. QED BY <2>1, FailedOf
  <1> HIDE DEF f
  <1>2. <<Stage(r), Stage(f)>> \in Onward(r.q.op)
    BY <1>1 DEF Onward
  <1>. QED BY <1>1, <1>2, RedeemGo

LEMMA RightsSend ==
    ASSUME OnceInv, Rights, OperationsAreEntitled, NEW r \in live, Send(r, ActsUnder(r))
    PROVE  Rights' /\ OperationsAreEntitled'
  <1>0. Sound(r) /\ r.todo # <<>> /\ Stage(r) = "send" /\ UNCHANGED <<tables, tokens>>
    BY GoodFacts, AtIsStage DEF Send
  <1>1. Steady
    BY <1>0, ReadsAreSteady
  <1>2. CASE Redeems(r)
    <2>1. \/ acted' = [needs |-> Entitling(r, ActsUnder(r)), ever |-> r.ever] /\ Proceeds(r)
          \/ acted' = acted /\ Goto(r, [Next_(r) EXCEPT !.todo = <<Step("result", Nothing)>>, !.out = "failed"])
      BY <1>2 DEF Send, Redeems
    <2>2. CASE acted' = [needs |-> Entitling(r, ActsUnder(r)), ever |-> r.ever] /\ Proceeds(r)
      <3>1. Rights'
        BY <1>0, <1>1, <1>2, <2>2, RedeemProceeds
      <3>2. Entitling(r, ActsUnder(r)) \subseteq r.ever
        BY <1>0, <1>2, RedeemEntitled
      <3>. QED BY <2>2, <3>1, <3>2 DEF OperationsAreEntitled
    <2>3. CASE acted' = acted /\ Goto(r, [Next_(r) EXCEPT !.todo = <<Step("result", Nothing)>>, !.out = "failed"])
      <3>1. Rights'
        BY <1>0, <1>1, <1>2, <2>3, RedeemFails
      <3>. QED BY <2>3, <3>1 DEF OperationsAreEntitled
    <2>. QED BY <2>1, <2>2, <2>3
  <1>3. CASE ~Redeems(r)
    <2>0. Entitling(r, ActsUnder(r)) = Needs(r.q.by, ActsUnder(r), On(r))
      BY <1>3 DEF Entitling, Target, Redeems
    <2>1. \/ acted' = [needs |-> Needs(r.q.by, ActsUnder(r), On(r)), ever |-> r.ever] /\ Proceeds(r)
          \/ acted' = acted /\ Refuses(r)
      BY <1>3, <2>0 DEF Send, Redeems
    <2>2. CASE acted' = [needs |-> Needs(r.q.by, ActsUnder(r), On(r)), ever |-> r.ever] /\ Proceeds(r)
      <3> DEFINE x == Next_(r)
      <3>1. Goto(r, x) /\ Follows(r, x) /\ x.tool = r.tool /\ x.among = r.among /\ x.svcs = r.svcs /\ x.show = r.show
        BY <1>0, <2>2, NextFollows DEF Proceeds
      <3> HIDE DEF x
      <3>2. x.show \subseteq r.ever
        BY <1>0, <1>3, <3>1, ShownStill
      <3>3. Rights'
        BY <1>0, <1>3, <3>1, <3>2, GoesOn
      <3>4. Needs(r.q.by, ActsUnder(r), On(r)) \subseteq r.ever
        BY <1>0, <1>3, AimsAtAgent
      <3>. QED BY <2>2, <3>3, <3>4 DEF OperationsAreEntitled
    <2>3. CASE acted' = acted /\ Refuses(r)
      <3>1. Rights'
        BY <1>0, <1>1, <1>3, <2>3, StepRefused
      <3>. QED BY <2>3, <3>1 DEF OperationsAreEntitled
    <2>. QED BY <2>1, <2>2, <2>3
  <1>. QED BY <1>2, <1>3

LEMMA RightsReply ==
    ASSUME OnceInv, Rights, NEW r \in live, Reply(r)
    PROVE  Rights'
  <1>0. Sound(r) /\ r.todo # <<>> /\ Stage(r) = "reply" /\ UNCHANGED <<tables, tokens>>
    BY GoodFacts, AtIsStage DEF Reply, Reads
  <1>1. Steady
    BY <1>0, ReadsAreSteady
  <1>2. PICK v \in {"success", "failed"} : Goto(r, [Next_(r) EXCEPT !.out = v])
    BY DEF Reply
  <1> DEFINE x == [Next_(r) EXCEPT !.out = v]
  <1>3. Goto(r, x) /\ Follows(r, x) /\ x.tool = r.tool /\ x.among = r.among /\ x.svcs = r.svcs /\ x.show = r.show
    BY <1>0, <1>2, NextFollows
  <1> HIDE DEF x
  <1>4. CASE Redeems(r)
    <2>1. Continues(r, x) /\ x.ever = r.ever /\ x.admin = r.admin
      BY <1>3 DEF Follows
    <2>2. <<Stage(r), Stage(x)>> \in Onward(r.q.op)
      BY <1>0, <1>4, <2>1, RedeemOn
    <2>3. Shaped(x) /\ x.q = r.q /\ x.begun = TRUE
      BY <2>1 DEF Continues
    <2>. QED BY <1>0, <1>1, <1>3, <1>4, <2>1, <2>2, <2>3, RedeemGo
  <1>5. CASE ~Redeems(r)
    <2>1. x.show \subseteq r.ever
      BY <1>0, <1>3, <1>5, ShownStill
    <2>. QED BY <1>0, <1>3, <1>5, <2>1, GoesOn
  <1>. QED BY <1>4, <1>5

LEMMA RightsReach ==
    ASSUME OnceInv, Rights, NEW r \in live, ReachesAgent(r)
    PROVE  Rights'
  <1>0. Sound(r) /\ r.todo # <<>> /\ Stage(r) = "reach" /\ UNCHANGED <<tables, tokens>>
    BY GoodFacts, AtIsStage DEF ReachesAgent, Reads
  <1>1. Steady
    BY <1>0, ReadsAreSteady
  <1>2. Redeems(r)
    BY <1>0, KeptIsStrict DEF Kept
  <1>3. Proceeds(r) \/ Goto(r, [Next_(r) EXCEPT !.todo = <<Step("result", Nothing)>>, !.out = "failed"])
    BY DEF ReachesAgent
  <1>4. CASE Proceeds(r)
    BY <1>0, <1>1, <1>2, <1>4, RedeemProceeds
  <1>5. CASE Goto(r, [Next_(r) EXCEPT !.todo = <<Step("result", Nothing)>>, !.out = "failed"])
    BY <1>0, <1>1, <1>2, <1>5, RedeemFails
  <1>. QED BY <1>3, <1>4, <1>5

\* After a step that writes a token.
LEMMA WritesOn ==
    ASSUME OnceInv, Rights, Steady, NEW r \in live, ~Redeems(r), r.todo # <<>>, Stage(r) \in {"create", "revoke"}, Proceeds(r)
    PROVE  Rights'
  <1> DEFINE x == Next_(r)
  <1>1. Goto(r, x) /\ Follows(r, x) /\ x.tool = r.tool /\ x.among = r.among /\ x.svcs = r.svcs /\ x.show = r.show
    <2>1. Sound(r)
      BY GoodFacts
    <2>. QED BY <2>1, NextFollows DEF Proceeds
  <1> HIDE DEF x
  <1>2. Continues(r, x) /\ Shaped(x) /\ x.begun = TRUE /\ x.q = r.q
    BY <1>1 DEF Follows, Continues
  <1>3. x.show \subseteq r.ever
    BY <1>1, ShownStill
  <1>4. Gathers(r, x)
    BY <1>1, <1>2, <1>3, GathersStill
  <1>5. Good(x)
    BY <1>1, <1>4, StepOn
  <1>. QED BY <1>1, <1>2, <1>5, RightsGo

LEMMA RightsCreate ==
    ASSUME OnceInv, Rights, OperationsAreEntitled, NEW r \in live, CreateToken(r, ActsUnder(r))
    PROVE  Rights' /\ OperationsAreEntitled'
  <1> DEFINE rec == [server |-> On(r), op |-> IF r.q.op = "upload_url" THEN "upload" ELSE "download", cred |-> r.q.by,
                     expired |-> FALSE, used |-> "no", by |-> Nothing, revoked |-> FALSE, dead |-> FALSE]
  <1>1. At(r, "create") /\ UNCHANGED tables /\ Proceeds(r) /\ acted' = [needs |-> Needs(r.q.by, ActsUnder(r), On(r)), ever |-> r.ever]
    BY DEF CreateToken
  <1>2. r.todo # <<>> /\ Stage(r) = "create" /\ ~Redeems(r)
    <2>1. "create" \in PlainStages
      BY DEF PlainStages
    <2>. QED BY <1>1, <2>1, AskedFor
  <1>3. On(r) \in Agents /\ Needs(r.q.by, ActsUnder(r), On(r)) \subseteq r.ever
    BY <1>2, AimsAtAgent
  <1>4. OperationsTypeOK /\ r.q.by \in Creds /\ r.q.token \in Tokens /\ r.todo \in Seq(StepRows)
    BY GoodFacts
  <1>5. rec \in TokenRows
    BY <1>3, <1>4 DEF TokenRows
  <1>6. tokens' = Put(r.q.token, rec)
    BY DEF CreateToken, Put
  <1> HIDE DEF rec
  <1>7. tokens[r.q.token] = Nothing
    <2>1. Holds(r, tokens, sent)
      BY OnceFacts, StepFacts
    <2>2. Creates(r.todo)
      <3>1. 1 \in DOMAIN r.todo /\ r.todo[1][1] = "create"
        BY <1>1, <1>2, <1>4, TailOf DEF At
      <3>. QED BY <3>1 DEF Creates
    <2>. QED BY <2>1, <2>2 DEF Holds
  <1>8. Steady
    BY <1>1, <1>4, <1>5, <1>6, <1>7, PutIsSteady
  <1>9. Rights'
    BY <1>1, <1>2, <1>8, WritesOn
  <1>. QED BY <1>1, <1>3, <1>9 DEF OperationsAreEntitled

LEMMA RightsRevoke ==
    ASSUME OnceInv, Rights, OperationsAreEntitled, NEW r \in live, RevokeToken(r)
    PROVE  Rights' /\ OperationsAreEntitled'
  <1> DEFINE t == r.q.token  old == tokens[t]
             gone == old.used \in {"no", "receiving"}  rec == [old EXCEPT !.revoked = TRUE, !.dead = gone]
  <1>1. At(r, "revoke") /\ UNCHANGED tables /\ Proceeds(r) /\ acted' = [needs |-> NeedsOfToken(r, t), ever |-> r.ever]
    BY DEF RevokeToken
  <1>2. r.todo # <<>> /\ Stage(r) = "revoke" /\ ~Redeems(r) /\ Authority(r.q.by, r.admin, r.ever)
    <2>1. "revoke" \in PlainStages
      BY DEF PlainStages
    <2>. QED BY <1>1, <2>1, AskedFor
  <1>3. /\ OperationsTypeOK /\ Sound(r) /\ Good(r) /\ t \in Tokens
    BY GoodFacts
  <1>4. r.q.op = "revoke"
    BY <1>2, <1>3, KeptIsStrict DEF Kept
  <1>5. old # Nothing /\ (r.admin \/ creds[old.cred].user = creds[r.q.by].user)
    BY <1>2, <1>3, <1>4 DEF Good, Revoking
  <1>6. <<"credential", r.q.by>> \in r.ever
    BY <1>2, BegunFacts
  <1>7. NeedsOfToken(r, t) \subseteq r.ever
    BY <1>2, <1>5, <1>6 DEF NeedsOfToken, Authority
  <1>8. tokens \in [Tokens -> TokenRows \cup {Nothing}] /\ old \in TokenRows
    BY <1>3, <1>5 DEF OperationsTypeOK, TransfersTypeOK, TablesOK
  <1>9. tokens' = Put(t, rec)
    BY <1>3, <1>8 DEF RevokeToken, Put
  <1>10. rec \in TokenRows /\ rec.cred = old.cred /\ rec.op = old.op /\ rec.server = old.server
    <2>1. gone \in BOOLEAN
      OBVIOUS
    <2> HIDE DEF gone, old
    <2>2. old \in TokenRows
      BY <1>8
    <2>. QED BY <2>1, <2>2 DEF TokenRows
  <1> HIDE DEF rec
  <1>11. Steady
    BY <1>1, <1>3, <1>9, <1>10, PutIsSteady
  <1>12. Rights'
    BY <1>1, <1>2, <1>11, WritesOn
  <1>. QED BY <1>1, <1>7, <1>12 DEF OperationsAreEntitled

LEMMA RightsDepart ==
    ASSUME OnceInv, Rights, OperationsAreEntitled, NEW r \in live, Dropped(r) \/ Responds(r)
    PROVE  Rights' /\ OperationsAreEntitled'
  <1>1. Ends(r) /\ UNCHANGED <<tables, tokens>>
    BY DEF Dropped, Responds
  <1>2. Rights'
    BY <1>1, ReadsAreSteady, RightsEnd
  <1>3. r.show \subseteq r.ever
    <2>1. Good(r)
      BY GoodFacts
    <2>2. Known(r) \subseteq r.ever
      BY DEF Known
    <2>3. r.show \subseteq Known(r)
      BY <2>1 DEF Good, Redeeming, Gathered
    <2>. QED BY <2>2, <2>3
  <1>4. acted' = acted \/ acted' = [needs |-> r.show, ever |-> r.ever]
    BY DEF Dropped, Responds
  <1>. QED BY <1>2, <1>3, <1>4 DEF OperationsAreEntitled

LEMMA RightsChange ==
    ASSUME OnceInv, Rights, ResultsInv, NEW r \in live, Change(r)
    PROVE  Rights' /\ ResultsInv'
  <1>1. /\ OperationsTypeOK /\ r.q \in Requests /\ r.q.token \in Tokens /\ r.q.agent \in Agents /\ r.q.by \in Creds
        /\ r.q.user \in Users /\ r.q.row \in Rows /\ r.q.agent # Nothing
    BY GoodFacts, TransfersAssumption DEF Requests
  <1>2. /\ users \in [Users -> {"admin", "member", Nothing}] /\ creds \in [Creds -> CredRows]
        /\ tokens \in [Tokens -> TokenRows \cup {Nothing}] /\ rows \in [Rows -> ReadRows]
    BY <1>1 DEF OperationsTypeOK, TransfersTypeOK, TablesOK
  <1>3. Ends(r)
    BY DEF Change
  <1>4. Steady
    <2>1. CASE users' = [users EXCEPT ![r.q.user] = IF @ = "admin" THEN "member" ELSE @] /\ UNCHANGED <<creds, tokens>>
      <3>1. "member" # Nothing
        BY TransfersAssumption
      <3>. QED BY <1>2, <2>1, <3>1 DEF Steady
    <2>2. CASE creds' = [creds EXCEPT ![r.q.by].valid = FALSE] /\ UNCHANGED <<users, tokens>>
      <3>1. \A c \in Creds : /\ creds'[c].user = creds[c].user /\ creds'[c].kind = creds[c].kind
                             /\ creds'[c].scopes = creds[c].scopes /\ creds'[c].servers = creds[c].servers
        BY <1>1, <1>2, <2>2 DEF CredRows
      <3>. QED BY <2>2, <3>1 DEF Steady
    <2>3. CASE UNCHANGED <<users, creds, tokens>>
      BY <2>3 DEF Steady
    <2>4. CASE UNCHANGED tables /\ tokens[r.q.token] # Nothing /\ tokens' = [tokens EXCEPT ![r.q.token].expired = TRUE]
      <3> DEFINE t == r.q.token  old == tokens[t]  rec == [old EXCEPT !.expired = TRUE]
      <3>1. old \in TokenRows /\ t \in Tokens /\ tokens' = Put(t, rec)
        BY <1>1, <1>2, <2>4 DEF Put
      <3>2. rec \in TokenRows /\ rec.cred = old.cred /\ rec.op = old.op /\ rec.server = old.server
        <4> HIDE DEF old
        <4>. QED BY <3>1 DEF TokenRows
      <3> HIDE DEF rec
      <3>. QED BY <1>1, <2>4, <3>1, <3>2, PutIsSteady
    <2>. QED BY <2>1, <2>2, <2>3, <2>4 DEF Change, tables
  <1>5. Rights'
    BY <1>3, <1>4, RightsEnd
  <1>6. rows' = rows \/ rows' = [rows EXCEPT ![r.q.row].server = r.q.agent]
    BY DEF Change, tables
  <1>7. CASE rows' = rows
    BY <1>5, <1>7 DEF ResultsInv
  <1>8. CASE rows' = [rows EXCEPT ![r.q.row].server = r.q.agent]
    <2>1. \A x \in Rows : rows'[x].kind = rows[x].kind /\ (rows'[x].server = rows[x].server \/ rows'[x].server = r.q.agent)
      BY <1>1, <1>2, <1>8 DEF ReadRows
    <2>. QED BY <1>1, <1>5, <2>1 DEF ResultsInv
  <1>. QED BY <1>6, <1>7, <1>8

-----------------------------------------------------------------------------
(* Entitlement: the programs. *)

LEMMA CatTwice ==
    ASSUME NEW s \in Seq(StepRows), NEW d \in Seq(StepRows), NEW f \in Seq(StepRows)
    PROVE  (s \o d) \o f = s \o (d \o f)
  OBVIOUS

\* A program that only reads, and one that acts on Agents it has looked at.
ReadSteps == {"totp", "tokens", "find", "mine", "revoke", "refused", "agents", "inventory", "services", "tell", "results", "events", "rules",
              "tasks", "nat", "ddns", "state"}
Reading(d) == Made(d, ReadSteps) /\ \A i \in DOMAIN d : d[i][1] = "state" => d[i][2] \in Agents
DoSteps == {"totp", "visible", "active", "both", "online", "send", "reply", "create", "agent", "batch", "online_all"}
Doing(d) == Made(d, DoSteps) /\ \A c : Sighted(d, c, {})

LEMMA ReadingCat == ASSUME NEW s, NEW d, Reading(s), Reading(d) PROVE Reading(s \o d)
  <1> DEFINE e == s \o d  n == Len(s)
  <1>1. s \in Seq(StepRows) /\ d \in Seq(StepRows) /\ Made(e, ReadSteps)
    BY MadeCat DEF Reading, Made
  <1>2. \A k \in DOMAIN e : (k \in DOMAIN s /\ e[k] = s[k]) \/ (k - n \in DOMAIN d /\ e[k] = d[k - n])
    BY <1>1, CatPlaces
  <1> HIDE DEF e
  <1>3. \A i \in DOMAIN e : e[i][1] = "state" => e[i][2] \in Agents
    BY <1>2 DEF Reading
  <1>. QED BY <1>1, <1>3 DEF Reading, e

LEMMA ReadingOne ==
    ASSUME NEW s \in ReadSteps, NEW a \in Agents \cup {Nothing}, s = "state" => a \in Agents
    PROVE  Reading(<<Step(s, a)>>)
  <1> DEFINE x == Step(s, a)
  <1>1. x \in StepRows /\ x[1] = s /\ x[2] = a
    BY StepIsRow DEF ReadSteps, StepNames
  <1> HIDE DEF x
  <1>2. <<x>> \in Seq(StepRows) /\ DOMAIN <<x>> = 1..1 /\ <<x>>[1] = x
    BY <1>1, OneStep
  <1>. QED BY <1>1, <1>2 DEF Reading, Made, x

LEMMA DoingCat == ASSUME NEW s, NEW d, Doing(s), Doing(d) PROVE Doing(s \o d)
  <1> DEFINE e == s \o d
  <1>1. s \in Seq(StepRows) /\ d \in Seq(StepRows) /\ Made(e, DoSteps)
    BY MadeCat DEF Doing, Made
  <1>2. ASSUME NEW c PROVE Sighted(e, c, {})
    <2>1. Sighted(s, c, {}) /\ Sighted(d, c, {})
      BY DEF Doing
    <2>. QED BY <1>1, <2>1, SightedCat
  <1>. QED BY <1>1, <1>2 DEF Doing

\* It looks at a, or does something with a.
Toward(d, N, a) == Made(d, N) /\ \A i \in DOMAIN d : d[i][2] = a
Watches == {"visible", "active", "both", "online"}
Acts == {"online", "send", "reply", "create", "agent"}
LEMMA TowardOne ==
    ASSUME NEW N, NEW s \in StepNames, s \in N, NEW a \in Agents
    PROVE  Toward(<<Step(s, a)>>, N, a)
  <1> DEFINE x == Step(s, a)
  <1>1. x \in StepRows /\ x[1] = s /\ x[2] = a
    BY StepIsRow
  <1> HIDE DEF x
  <1>2. <<x>> \in Seq(StepRows) /\ DOMAIN <<x>> = 1..1 /\ <<x>>[1] = x
    BY <1>1, OneStep
  <1>. QED BY <1>1, <1>2 DEF Toward, Made, x
LEMMA TowardCat == ASSUME NEW N, NEW a, NEW s, NEW d, Toward(s, N, a), Toward(d, N, a) PROVE Toward(s \o d, N, a)
  <1> DEFINE e == s \o d  n == Len(s)
  <1>1. s \in Seq(StepRows) /\ d \in Seq(StepRows) /\ Made(e, N)
    BY MadeCat DEF Toward, Made
  <1>2. \A k \in DOMAIN e : (k \in DOMAIN s /\ e[k] = s[k]) \/ (k - n \in DOMAIN d /\ e[k] = d[k - n])
    BY <1>1, CatPlaces
  <1> HIDE DEF e
  <1>3. \A i \in DOMAIN e : e[i][2] = a
    BY <1>2 DEF Toward
  <1>. QED BY <1>1, <1>3 DEF Toward, e

LEMMA LooksFirst ==
    ASSUME NEW a \in Agents, NEW s, Toward(s, Watches, a), NEW d, Toward(d, Acts, a), \E j \in DOMAIN s : s[j] \in Sees(a),
           (\E j \in DOMAIN s : s[j] \in Finds(a)) \/ (\A i \in DOMAIN d : d[i][1] \notin {"send", "create"})
    PROVE  Doing(s \o d)
  <1> DEFINE e == s \o d  n == Len(s)
  <1>1. s \in Seq(StepRows) /\ d \in Seq(StepRows) /\ Made(e, DoSteps)
    <2>1. Made(s, DoSteps) /\ Made(d, DoSteps)
      BY MadeMore DEF Toward, Watches, Acts, DoSteps
    <2>. QED BY <2>1, MadeCat DEF Made
  <1>2. /\ n \in Nat /\ DOMAIN s = 1..n /\ DOMAIN e = 1..(n + Len(d)) /\ Len(d) \in Nat
        /\ \A i \in DOMAIN s : i \in DOMAIN e /\ e[i] = s[i]
        /\ \A k \in DOMAIN e : (k \in DOMAIN s /\ e[k] = s[k]) \/ (k - n \in DOMAIN d /\ e[k] = d[k - n])
        /\ DOMAIN d = 1..Len(d)
    BY <1>1, CatPlaces
  <1> HIDE DEF e, n
  <1>3. \A k \in DOMAIN e : e[k][2] = a /\ e[k][1] \in DoSteps /\ e[k][1] \notin Marking
    BY <1>1, <1>2 DEF Toward, Made, DoSteps, Marking
  <1>4. ASSUME NEW S, NEW j \in DOMAIN s, s[j] \in S, NEW k \in DOMAIN e, k \notin DOMAIN s PROVE Behind(e, k, S)
    <2>1. j \in 1..(k - 1) /\ e[j] \in S
      BY <1>2, <1>4
    <2>2. \A m \in j..k : e[m][1] \notin Marking
      BY <1>2, <1>3, <1>4
    <2>. QED BY <2>1, <2>2 DEF Behind
  <1>5. ASSUME NEW c, NEW k \in DOMAIN e
        PROVE  /\ e[k][1] \in Aimed => e[k][2] \in Agents
               /\ e[k][1] \in {"agent", "send", "create"} => <<"sees", c, e[k][2]>> \in {} \/ Behind(e, k, Sees(e[k][2]))
               /\ e[k][1] \in {"send", "create"} => <<"active", e[k][2]>> \in {} \/ Behind(e, k, Finds(e[k][2]))
    <2>1. e[k][2] = a
      BY <1>3, <1>5
    <2>2. CASE k \in DOMAIN s
      <3>1. e[k][1] \in Watches
        BY <1>2, <2>2 DEF Toward, Made
      <3>. QED BY <2>1, <3>1 DEF Watches
    <2>3. CASE k \notin DOMAIN s
      <3>1. Behind(e, k, Sees(a))
        BY <1>4, <1>5, <2>3
      <3>2. CASE e[k][1] \in {"send", "create"}
        <4>1. k - n \in DOMAIN d /\ e[k] = d[k - n]
          BY <1>2, <1>5, <2>3
        <4>2. \E j \in DOMAIN s : s[j] \in Finds(a)
          BY <3>2, <4>1
        <4>3. Behind(e, k, Finds(a))
          BY <1>4, <1>5, <2>3, <4>2
        <4>. QED BY <2>1, <3>1, <4>3
      <3>3. CASE e[k][1] \notin {"send", "create"}
        BY <2>1, <3>1, <3>3
      <3>. QED BY <3>2, <3>3
    <2>. QED BY <2>2, <2>3
  <1>6. \A c : Sighted(e, c, {})
    BY <1>5 DEF Sighted
  <1>. QED BY <1>1, <1>6 DEF Doing, e

LEMMA PartsRead ==
    /\ Reading(load_all_visible_agents_with_state) /\ Reading(build_enriched_server_json) /\ Reading(Tell) /\ Reading(Found) /\ Reading(<<>>)
    /\ Reading(<<Step("results", Nothing)>>) /\ Reading(<<Step("events", Nothing)>>) /\ Reading(<<Step("rules", Nothing)>>)
    /\ Reading(<<Step("tasks", Nothing)>>) /\ Reading(<<Step("nat", Nothing), Step("ddns", Nothing)>>) /\ Reading(<<Step("refused", Nothing)>>)
    /\ \A a \in Agents : Reading(<<Step("state", a)>>)
  <1>1. \A s \in ReadSteps \ {"state"} : Reading(<<Step(s, Nothing)>>)
    BY ReadingOne
  <1>2. /\ Reading(<<Step("agents", Nothing)>>) /\ Reading(<<Step("inventory", Nothing)>>) /\ Reading(<<Step("tell", Nothing)>>)
        /\ Reading(<<Step("services", Nothing)>>) /\ Reading(<<Step("results", Nothing)>>) /\ Reading(<<Step("events", Nothing)>>)
        /\ Reading(<<Step("rules", Nothing)>>) /\ Reading(<<Step("tasks", Nothing)>>) /\ Reading(<<Step("nat", Nothing)>>)
        /\ Reading(<<Step("ddns", Nothing)>>) /\ Reading(<<Step("refused", Nothing)>>)
    BY <1>1 DEF ReadSteps
  <1>3. Reading(load_all_visible_agents_with_state) /\ Reading(build_enriched_server_json) /\ Reading(Tell)
    BY <1>2 DEF load_all_visible_agents_with_state, build_enriched_server_json, Tell
  <1>4. Reading(Found)
    BY <1>2, <1>3, ReadingCat DEF Found
  <1>5. Reading(<<>>)
    BY MadeOfNone DEF Reading
  <1>6. Reading(<<Step("nat", Nothing), Step("ddns", Nothing)>>)
    <2> DEFINE x == Step("nat", Nothing)  y == Step("ddns", Nothing)
    <2>1. x \in StepRows /\ y \in StepRows /\ x[1] = "nat" /\ y[1] = "ddns"
      BY StepIsRow DEF StepNames
    <2> HIDE DEF x, y
    <2>2. Made(<<x, y>>, {"nat", "ddns"})
      BY <2>1, MadeOfTwo
    <2>3. Made(<<x, y>>, ReadSteps)
      BY <2>2, MadeMore DEF ReadSteps
    <2>. QED BY <2>2, <2>3 DEF Reading, Made, x, y
  <1>7. \A a \in Agents : Reading(<<Step("state", a)>>)
    BY ReadingOne DEF ReadSteps
  <1>. QED BY <1>2, <1>3, <1>4, <1>5, <1>6, <1>7

LEMMA ReadersRead ==
    /\ Reading(exec_whoami) /\ Reading(exec_server_list) /\ Reading(exec_server_resolve) /\ Reading(exec_service_list)
    /\ Reading(exec_service_history) /\ Reading(exec_alert_events) /\ Reading(exec_alert_rules) /\ Reading(exec_task_list)
    /\ Reading(exec_network_topology) /\ Reading(exec_cluster_overview) /\ Reading(exec_cluster_diagnose)
    /\ \A a \in Agents : Reading(exec_server_get(a)) /\ Reading(exec_server_metrics(a))
  <1> USE PartsRead, ReadingCat
  <1>1. Reading(exec_whoami)
    BY DEF exec_whoami
  <1>2. Reading(exec_server_list) /\ Reading(exec_server_resolve)
    BY DEF exec_server_list, exec_server_resolve
  <1>3. Reading(exec_service_list)
    BY DEF exec_service_list
  <1>4. Reading(exec_service_history)
    <2>1. Reading(Found \o Tell \o load_all_visible_agents_with_state)
      <3>1. Reading(Found \o Tell)
        OBVIOUS
      <3>. QED BY <3>1
    <2>. QED BY <2>1 DEF exec_service_history
  <1>5. Reading(exec_alert_events) /\ Reading(exec_alert_rules)
    <2>1. Reading(load_all_visible_agents_with_state \o Found)
      OBVIOUS
    <2>. QED BY <2>1 DEF exec_alert_events, exec_alert_rules
  <1>6. Reading(exec_task_list) /\ Reading(exec_network_topology)
    BY DEF exec_task_list, exec_network_topology
  <1>7. Reading(exec_cluster_diagnose)
    BY <1>2, <1>3 DEF exec_cluster_diagnose
  <1>8. Reading(exec_cluster_overview)
    <2>1. Reading(exec_server_list \o exec_service_list)
      BY <1>2, <1>3
    <2>. QED BY <2>1, <1>5 DEF exec_cluster_overview
  <1>9. \A a \in Agents : Reading(exec_server_get(a)) /\ Reading(exec_server_metrics(a))
    BY DEF exec_server_get, exec_server_metrics
  <1>. QED BY <1>1, <1>2, <1>3, <1>4, <1>5, <1>6, <1>7, <1>8, <1>9

LEMMA ItemsRead ==
    ASSUME NEW q \in Requests
    PROVE  /\ q.item \in Items["resource"] => Reading(read_resource(q))
           /\ q.item \in Items["prompt"] => Reading(get_prompt(q))
  <1>1. q.agent \in Agents
    BY DEF Requests
  <1> USE ReadersRead, ReadingCat
  <1>2. ASSUME q.item \in Items["resource"] PROVE Reading(read_resource(q))
    <2>1. Reading(exec_alert_events \o exec_alert_rules)
      OBVIOUS
    <2>2. Reading(exec_server_get(q.agent) \o exec_server_metrics(q.agent))
      BY <1>1
    <2>3. q.item \in {"overview", "inventory", "health", "active", "topology", "telemetry"}
      BY <1>2 DEF Items
    <2>. QED BY <2>1, <2>2, <2>3 DEF read_resource
  <1>3. ASSUME q.item \in Items["prompt"] PROVE Reading(get_prompt(q))
    <2>1. Reading(exec_cluster_overview \o exec_cluster_diagnose)
      OBVIOUS
    <2>2. Reading(exec_server_resolve \o exec_server_get(q.agent) \o exec_server_metrics(q.agent))
      <3>1. Reading(exec_server_resolve \o exec_server_get(q.agent))
        BY <1>1
      <3>. QED BY <1>1, <3>1
    <2>3. Reading(exec_cluster_diagnose \o exec_alert_events \o exec_service_list)
      <3>1. Reading(exec_cluster_diagnose \o exec_alert_events)
        OBVIOUS
      <3>. QED BY <3>1
    <2>4. Reading(exec_cluster_overview \o exec_server_list \o exec_network_topology)
      <3>1. Reading(exec_cluster_overview \o exec_server_list)
        OBVIOUS
      <3>. QED BY <3>1
    <2>5. q.item \in {"audit", "troubleshoot", "triage", "capacity"}
      BY <1>3 DEF Items
    <2>. QED BY <2>1, <2>2, <2>3, <2>4, <2>5 DEF get_prompt
  <1>. QED BY <1>2, <1>3

\* What looks at an Agent, and what then acts on it.
LEMMA PartsAim ==
    ASSUME NEW a \in Agents
    PROVE  /\ Toward(ensure_server_visible(a), Watches, a) /\ \E j \in DOMAIN ensure_server_visible(a) : ensure_server_visible(a)[j] \in Sees(a)
           /\ Toward(ensure_agent_active(a), Watches, a) /\ \E j \in DOMAIN ensure_agent_active(a) : ensure_agent_active(a)[j] \in Sees(a) \cap Finds(a)
           /\ \A s \in {ensure_server_active(a), ensure_server_online(a)} :
                 /\ Toward(s, Watches, a)
                 /\ \E j \in DOMAIN s : s[j] \in Sees(a)
                 /\ \E j \in DOMAIN s : s[j] \in Finds(a)
           /\ Toward(dispatch_file_task(a), Acts, a) /\ Toward(dispatch_shell(a), Acts, a) /\ Toward(dispatch_mcp_file_task(a), Acts, a)
           /\ Toward(<<Step("send", a)>>, Acts, a) /\ Toward(<<Step("create", a)>>, Acts, a) /\ Toward(<<Step("agent", a)>>, Acts, a)
  <1> DEFINE v == <<Step("visible", a)>>  w == <<Step("active", a)>>  o == <<Step("online", a)>>  b == <<Step("both", a)>>
  <1>1. /\ Toward(v, Watches, a) /\ Toward(w, Watches, a) /\ Toward(o, Watches, a) /\ Toward(b, Watches, a)
        /\ Toward(<<Step("send", a)>>, Acts, a) /\ Toward(<<Step("create", a)>>, Acts, a) /\ Toward(<<Step("agent", a)>>, Acts, a)
        /\ Toward(<<Step("online", a)>>, Acts, a) /\ Toward(<<Step("reply", a)>>, Acts, a)
    <2>1. (\A s \in Watches : Toward(<<Step(s, a)>>, Watches, a)) /\ (\A s \in Acts : Toward(<<Step(s, a)>>, Acts, a))
      <3>1. Watches \subseteq StepNames /\ Acts \subseteq StepNames
        BY DEF StepNames, Watches, Acts
      <3>. QED BY <3>1, TowardOne
    <2>2. {"visible", "active", "online", "both"} \subseteq Watches /\ {"send", "create", "agent", "online", "reply"} \subseteq Acts
      BY DEF Watches, Acts
    <2>. QED BY <2>1, <2>2
  <1>2. /\ v \in Seq(StepRows) /\ w \in Seq(StepRows) /\ o \in Seq(StepRows) /\ b \in Seq(StepRows)
    BY <1>1 DEF Toward, Made
  <1>3. /\ 1 \in DOMAIN v /\ v[1] \in Sees(a) /\ 1 \in DOMAIN w /\ w[1] \in Finds(a) /\ 1 \in DOMAIN b /\ b[1] \in Sees(a) \cap Finds(a)
    BY DEF Step, Sees, Finds
  <1>4. dispatch_file_task(a) = <<Step("send", a)>> \o <<Step("reply", a)>>
    BY DEF dispatch_file_task
  <1>5. /\ dispatch_shell(a) = (<<Step("online", a)>> \o <<Step("send", a)>>) \o <<Step("reply", a)>>
        /\ dispatch_mcp_file_task(a) = (<<Step("online", a)>> \o <<Step("send", a)>>) \o <<Step("reply", a)>>
    BY DEF dispatch_shell, dispatch_mcp_file_task
  <1>6. Toward(dispatch_file_task(a), Acts, a)
    BY <1>1, <1>4, TowardCat
  <1>7. Toward(dispatch_shell(a), Acts, a) /\ Toward(dispatch_mcp_file_task(a), Acts, a)
    <2>1. Toward(<<Step("online", a)>> \o <<Step("send", a)>>, Acts, a)
      BY <1>1, TowardCat
    <2>. QED BY <1>1, <1>5, <2>1, TowardCat
  <1>8. ensure_server_visible(a) = v /\ ensure_agent_active(a) = b /\ ensure_server_active(a) = v \o w /\ ensure_server_online(a) = (v \o w) \o o
    BY DEF ensure_server_visible, ensure_agent_active, ensure_server_active, ensure_server_online
  <1> HIDE DEF v, w, o, b
  <1>9. ASSUME NEW s, NEW d, Toward(s, Watches, a), Toward(d, Watches, a), NEW S, (\E j \in DOMAIN s : s[j] \in S) \/ (\E j \in DOMAIN d : d[j] \in S)
        PROVE  \E j \in DOMAIN (s \o d) : (s \o d)[j] \in S
    <2> DEFINE e == s \o d  n == Len(s)
    <2>1. /\ \A i \in DOMAIN s : i \in DOMAIN e /\ e[i] = s[i]
          /\ \A i \in DOMAIN d : i + n \in DOMAIN e /\ e[i + n] = d[i]
      <3>1. s \in Seq(StepRows) /\ d \in Seq(StepRows)
        BY <1>9 DEF Toward, Made
      <3>. QED BY <3>1, CatPlaces
    <2> HIDE DEF e, n
    <2>2. \E j \in DOMAIN e : e[j] \in S
      BY <1>9, <2>1
    <2>. QED BY <2>2 DEF e
  <1>10. /\ Toward(v \o w, Watches, a) /\ \E j \in DOMAIN (v \o w) : (v \o w)[j] \in Sees(a)
         /\ \E j \in DOMAIN (v \o w) : (v \o w)[j] \in Finds(a)
    BY <1>1, <1>3, <1>9, TowardCat
  <1> DEFINE vw == v \o w
  <1>11. vw = v \o w
    OBVIOUS
  <1> HIDE DEF vw
  <1>12. /\ Toward(vw \o o, Watches, a) /\ \E j \in DOMAIN (vw \o o) : (vw \o o)[j] \in Sees(a)
         /\ \E j \in DOMAIN (vw \o o) : (vw \o o)[j] \in Finds(a)
    BY <1>1, <1>9, <1>10, <1>11, TowardCat
  <1>. QED BY <1>1, <1>3, <1>6, <1>7, <1>8, <1>10, <1>11, <1>12

LEMMA SendersDo ==
    ASSUME NEW a \in Agents, NEW b \in Agents
    PROVE  /\ Doing(exec_server_exec(a)) /\ Doing(exec_server_inspect(a)) /\ Doing(exec_fs_list(a)) /\ Doing(exec_fs_read(a))
           /\ Doing(exec_fs_download_url(a)) /\ Doing(exec_server_batch_exec(a, b)) /\ Doing(exec_batch_online)
           /\ Doing(ensure_server_online(a) \o dispatch_file_task(a)) /\ Doing(ensure_server_online(a) \o <<Step("send", a)>>)
           /\ Doing(build_temp_url(a)) /\ Doing(ensure_server_visible(a) \o <<Step("agent", a)>>)
  <1>1. ASSUME NEW s \in {ensure_agent_active(a), ensure_server_active(a), ensure_server_online(a)}, NEW d, Toward(d, Acts, a)
        PROVE  Doing(s \o d)
    <2>1. Toward(s, Watches, a) /\ (\E j \in DOMAIN s : s[j] \in Sees(a)) /\ (\E j \in DOMAIN s : s[j] \in Finds(a))
      BY <1>1, PartsAim
    <2>. QED BY <1>1, <2>1, LooksFirst
  <1>2. /\ Toward(dispatch_file_task(a), Acts, a) /\ Toward(dispatch_shell(a), Acts, a) /\ Toward(dispatch_mcp_file_task(a), Acts, a)
        /\ Toward(<<Step("send", a)>>, Acts, a) /\ Toward(<<Step("create", a)>>, Acts, a) /\ Toward(<<Step("agent", a)>>, Acts, a)
    BY PartsAim
  <1>3. /\ Doing(exec_server_exec(a)) /\ Doing(exec_server_inspect(a)) /\ Doing(exec_fs_list(a)) /\ Doing(exec_fs_read(a))
        /\ Doing(exec_fs_download_url(a))
    BY <1>1, <1>2 DEF exec_server_exec, exec_server_inspect, exec_fs_list, exec_fs_read, exec_fs_download_url
  <1>4. /\ Doing(ensure_server_online(a) \o dispatch_file_task(a)) /\ Doing(ensure_server_online(a) \o <<Step("send", a)>>)
        /\ Doing(build_temp_url(a))
    BY <1>1, <1>2 DEF build_temp_url
  <1>5. Doing(ensure_server_visible(a) \o <<Step("agent", a)>>)
    <2> DEFINE s == ensure_server_visible(a)  d == <<Step("agent", a)>>
    <2>1. Toward(s, Watches, a) /\ (\E j \in DOMAIN s : s[j] \in Sees(a)) /\ Toward(d, Acts, a)
      BY <1>2, PartsAim
    <2>2. \A i \in DOMAIN d : d[i][1] \notin {"send", "create"}
      BY DEF Step
    <2> HIDE DEF s, d
    <2>3. Doing(s \o d)
      BY <2>1, <2>2, LooksFirst
    <2>. QED BY <2>3 DEF s, d
  <1>6. ASSUME NEW s \in {"both", "batch", "online_all"}, NEW x \in Agents \cup {Nothing}, s = "both" => x \in Agents
        PROVE  Doing(<<Step(s, x)>>)
    <2> DEFINE y == Step(s, x)
    <2>1. y \in StepRows /\ y[1] = s /\ y[2] = x
      BY <1>6, StepIsRow DEF StepNames
    <2> HIDE DEF y
    <2>2. <<y>> \in Seq(StepRows) /\ DOMAIN <<y>> = 1..1 /\ <<y>>[1] = y
      BY <2>1, OneStep
    <2>3. \A c : Sighted(<<y>>, c, {})
      BY <1>6, <2>1, <2>2 DEF Sighted, Aimed
    <2>. QED BY <1>6, <2>1, <2>2, <2>3 DEF Doing, Made, DoSteps, y
  <1>7. Doing(exec_server_batch_exec(a, b))
    <2>1. Doing(ensure_agent_active(a)) /\ Doing(ensure_agent_active(b)) /\ Doing(<<Step("batch", Nothing)>>)
      BY <1>6 DEF ensure_agent_active
    <2>2. Doing(ensure_agent_active(a) \o ensure_agent_active(b))
      BY <2>1, DoingCat
    <2>. QED BY <2>1, <2>2, DoingCat DEF exec_server_batch_exec
  <1>8. Doing(exec_batch_online)
    <2>1. Doing(<<Step("online_all", Nothing)>>) /\ Doing(<<Step("batch", Nothing)>>)
      BY <1>6
    <2>2. exec_batch_online = <<Step("online_all", Nothing)>> \o <<Step("batch", Nothing)>>
      BY DEF exec_batch_online
    <2>. QED BY <2>1, <2>2, DoingCat
  <1>. QED BY <1>3, <1>4, <1>5, <1>7, <1>8

\* What follows the authentication.
LEMMA BodiesAreFormed ==
    ASSUME NEW d, Reading(d) \/ Doing(d)
    PROVE  /\ d \in Seq(StepRows) /\ (\A i \in DOMAIN d : d[i][1] \notin {"auth", "scope", "each"}) /\ (\A c : Sighted(d, c, {}))
           /\ \A op : Checked(d, op)
           /\ Sorted(d)
           /\ Reading(d) => \A i \in DOMAIN d : d[i][1] \notin Acting
  <1>1. CASE Reading(d)
    <2>1. /\ d \in Seq(StepRows)
          /\ \A i \in DOMAIN d : d[i][1] \in ReadSteps /\ (d[i][1] = "state" => d[i][2] \in Agents)
      BY <1>1 DEF Reading, Made
    <2>2. \A i \in DOMAIN d : d[i][1] \notin {"auth", "scope", "each", "batch"} /\ d[i][1] \notin Acting
      BY <2>1 DEF ReadSteps, Acting
    <2>3. \A c : Sighted(d, c, {})
      BY <2>1 DEF Sighted, ReadSteps, Aimed
    <2>4. \A op : Checked(d, op)
      BY <2>2 DEF Checked
    <2>5. Sorted(d)
      BY <2>2 DEF Sorted, Batching
    <2>. QED BY <2>1, <2>2, <2>3, <2>4, <2>5
  <1>2. CASE Doing(d)
    <2>1. d \in Seq(StepRows) /\ (\A i \in DOMAIN d : d[i][1] \in DoSteps) /\ (\A c : Sighted(d, c, {})) /\ DOMAIN d = 1..Len(d) /\ Len(d) \in Nat
      BY <1>2 DEF Doing, Made
    <2>2. \A i \in DOMAIN d : d[i][1] \notin {"auth", "scope", "each", "agents"}
      BY <2>1 DEF DoSteps
    <2>3. \A op : Checked(d, op)
      <3>1. ASSUME NEW i \in DOMAIN d, NEW m \in 1..(i - 1) PROVE d[m][1] # "scope"
        <4>1. m \in DOMAIN d
          BY <2>1, <3>1
        <4>. QED BY <2>2, <4>1
      <3>. QED BY <2>2, <3>1 DEF Checked
    <2>4. Sorted(d)
      BY <2>2 DEF Sorted
    <2>5. Reading(d) => \A i \in DOMAIN d : d[i][1] \notin Acting
      BY DEF Reading, Made, ReadSteps, Acting
    <2>. QED BY <2>1, <2>2, <2>3, <2>4, <2>5
  <1>. QED BY <1>1, <1>2

\* A program begins with the authentication.
Opening(d, op) ==
    /\ d \in Seq(StepRows) /\ d # <<>> /\ d[1][1] = "auth" /\ (\A i \in DOMAIN d : d[i][1] = "auth" => i = 1)
    /\ (\A c : Sighted(d, c, {})) /\ Checked(d, op) /\ Sorted(d)
Prelude(d) == d \in Seq(StepRows) /\ d # <<>> /\ d[1][1] = "auth" /\ (\A i \in DOMAIN d : d[i][1] = IF i = 1 THEN "auth" ELSE "totp")
LEMMA Opens ==
    ASSUME NEW s, Prelude(s), NEW d \in Seq(StepRows), \A i \in DOMAIN d : d[i][1] # "auth", \A c : Sighted(d, c, {}), NEW op, Checked(d, op), Sorted(d)
    PROVE  Opening(s \o d, op)
  <1> DEFINE e == s \o d  n == Len(s)
  <1>1. s \in Seq(StepRows) /\ s # <<>> /\ (\A i \in DOMAIN s : s[i][1] \in {"auth", "totp"}) /\ 1 \in DOMAIN s
    BY TailOf DEF Prelude
  <1>2. (\A c : Sighted(s, c, {})) /\ Checked(s, op) /\ Sorted(s) /\ (\A i \in DOMAIN s : s[i][1] \notin {"scope", "agents"})
    <2>1. \A i \in DOMAIN s : s[i][1] \notin {"scope", "agents", "each"} /\ s[i][1] \notin Acting /\ s[i][1] \notin Aimed
      BY <1>1 DEF Acting, Aimed
    <2>2. \A c : Sighted(s, c, {})
      BY <2>1 DEF Sighted, Aimed
    <2>. QED BY <2>1, <2>2 DEF Checked, Sorted
  <1>3. Checked(e, op) /\ Sorted(e)
    BY <1>1, <1>2, CheckedCat
  <1>4. ASSUME NEW c PROVE Sighted(e, c, {})
    BY <1>1, <1>2, SightedCat
  <1>5. /\ e \in Seq(StepRows) /\ 1 \in DOMAIN e /\ e[1] = s[1]
        /\ \A k \in DOMAIN e : (k \in DOMAIN s /\ e[k] = s[k]) \/ (k - n \in DOMAIN d /\ e[k] = d[k - n])
    BY <1>1, CatPlaces
  <1> HIDE DEF e, n
  <1>6. \A k \in DOMAIN e : e[k][1] = "auth" => k = 1
    BY <1>5 DEF Prelude
  <1>7. e # <<>> /\ e[1][1] = "auth"
    BY <1>5 DEF Prelude
  <1>. QED BY <1>3, <1>4, <1>5, <1>6, <1>7 DEF Opening, e

\* The call of a tool begins with its check.
Block(d) ==
    /\ d \in Seq(StepRows) /\ d # <<>> /\ d[1][1] = "scope" /\ (\A i \in DOMAIN d : d[i][1] # "auth")
    /\ (\A c : Sighted(d, c, {})) /\ Checked(d, "mcp") /\ Sorted(d)
LEMMA CheckIsFirst ==
    ASSUME NEW t \in Tools, NEW d, Reading(d) \/ Doing(d), t \notin ActingTools => Reading(d)
    PROVE  Block(Scoped(t) \o d)
  <1> DEFINE x == Step("scope", t)  s == <<x>>  e == s \o d
  <1>1. x \in StepRows /\ x[1] = "scope" /\ x[2] = t
    BY StepIsRow DEF StepNames
  <1>2. /\ d \in Seq(StepRows) /\ (\A i \in DOMAIN d : d[i][1] \notin {"auth", "scope", "each"}) /\ (\A c : Sighted(d, c, {})) /\ Sorted(d)
        /\ t \notin ActingTools => \A i \in DOMAIN d : d[i][1] \notin Acting
    BY BodiesAreFormed
  <1> HIDE DEF x
  <1>3. s \in Seq(StepRows) /\ DOMAIN s = 1..1 /\ s[1] = x /\ Len(s) = 1
    BY <1>1, OneStep
  <1>4. \A c : Sighted(s, c, {})
    BY <1>1, <1>3 DEF Sighted, Aimed
  <1> HIDE DEF s
  <1>5. /\ e \in Seq(StepRows) /\ Len(d) \in Nat /\ DOMAIN d = 1..Len(d) /\ DOMAIN e = 1..(1 + Len(d)) /\ e[1] = x
        /\ \A k \in DOMAIN e : k = 1 \/ (k - 1 \in DOMAIN d /\ e[k] = d[k - 1])
    <2> DEFINE n == Len(s)
    <2>0. s \in Seq(StepRows) /\ d \in Seq(StepRows)
      BY <1>2, <1>3
    <2>1. n = 1 /\ DOMAIN s = 1..1
      BY <1>3
    <2> HIDE DEF n
    <2>2. /\ e \in Seq(StepRows) /\ Len(d) \in Nat /\ DOMAIN d = 1..Len(d) /\ DOMAIN e = 1..(n + Len(d))
          /\ \A i \in DOMAIN s : e[i] = s[i]
          /\ \A i \in DOMAIN d : e[i + n] = d[i]
          /\ \A k \in DOMAIN e : k \in DOMAIN s \/ (k - n \in DOMAIN d /\ k = (k - n) + n)
      BY <2>0, CatPlaces DEF n
    <2> HIDE DEF e
    <2>3. \A k \in DOMAIN e : k \in DOMAIN s \/ (k - n \in DOMAIN d /\ e[k] = d[k - n])
      BY <2>2
    <2>. QED BY <1>3, <2>1, <2>2, <2>3
  <1>6. ASSUME NEW c PROVE Sighted(e, c, {})
    BY <1>2, <1>3, <1>4, SightedCat
  <1> HIDE DEF e
  <1>7. \A k \in DOMAIN e : (e[k][1] = "scope" <=> k = 1) /\ e[k][1] \notin {"auth", "each"} /\ (k # 1 => e[k] = d[k - 1] /\ k - 1 \in DOMAIN d)
    BY <1>1, <1>2, <1>5
  <1>8. Checked(e, "mcp")
    <2>1. ASSUME NEW i \in DOMAIN e, e[i][1] \in Acting, NEW m \in 1..(i - 1), e[m][1] = "scope" PROVE e[m][2] \in ActingTools
      <3>1. m \in DOMAIN e /\ i # 1
        BY <1>5, <2>1
      <3>2. m = 1 /\ e[m][2] = t
        BY <1>1, <1>5, <1>7, <2>1, <3>1
      <3>. QED BY <1>2, <1>7, <2>1, <3>1, <3>2
    <2>2. \A i \in DOMAIN e : e[i][1] = "scope" => e[i][2] \in Tools
      BY <1>1, <1>5, <1>7
    <2>. QED BY <1>7, <2>1, <2>2 DEF Checked
  <1>9. Sorted(e)
    <2>1. SUFFICES ASSUME NEW i \in DOMAIN e, NEW j \in DOMAIN e, e[j][1] = "agents", j < i, e[i][1] \in Batching PROVE FALSE
      BY DEF Sorted
    <2>2. i # 1 /\ j # 1
      BY <1>5, <1>7, <2>1
    <2>3. i - 1 \in DOMAIN d /\ j - 1 \in DOMAIN d /\ d[j - 1][1] = "agents" /\ d[i - 1][1] \in Batching /\ j - 1 < i - 1
      BY <1>5, <1>7, <2>1, <2>2
    <2>4. ~Unscoped(d, j - 1, i - 1)
      BY <1>2, <2>3 DEF Sorted
    <2>5. \A k \in (j - 1)..(i - 1) : k \in DOMAIN d
      BY <1>5, <2>3
    <2>. QED BY <1>2, <2>4, <2>5 DEF Unscoped
  <1>10. e # <<>> /\ e[1][1] = "scope"
    BY <1>1, <1>5
  <1>. QED BY <1>5, <1>6, <1>7, <1>8, <1>9, <1>10 DEF Block, e, s, x, Scoped

LEMMA CallsAreBlocks ==
    ASSUME NEW q \in Requests, NEW t \in Tools
    PROVE  Block(handle_jsonrpc_request(t, q))
  <1>1. q.agent \in Agents /\ q.other \in Agents
    BY DEF Requests
  <1>2. CASE t \in {"whoami", "servers", "resolve", "server", "metrics", "services", "history", "events", "rules", "task"}
    <2>1. Reading(execute(t, q))
      BY <1>1, <1>2, ReadersRead DEF execute
    <2>. QED BY <2>1, CheckIsFirst DEF handle_jsonrpc_request
  <1>3. CASE t \in {"topology", "overview", "diagnose", "fs_write"}
    <2>1. Reading(execute(t, q))
      BY <1>1, <1>3, ReadersRead, PartsRead DEF execute
    <2>. QED BY <2>1, CheckIsFirst DEF handle_jsonrpc_request
  <1>4. CASE t \in {"exec", "inspect", "batch", "batch_online", "fs_list", "fs_read", "fs_url"}
    <2>1. Doing(execute(t, q))
      BY <1>1, <1>4, SendersDo DEF execute
    <2>2. t \in ActingTools
      BY <1>4 DEF ActingTools
    <2>. QED BY <2>1, <2>2, CheckIsFirst DEF handle_jsonrpc_request
  <1>. QED BY <1>2, <1>3, <1>4 DEF Tools

LEMMA BlockCat == ASSUME NEW s, NEW d, Block(s), Block(d) PROVE Block(s \o d)
  <1> DEFINE e == s \o d  n == Len(s)
  <1>1. s \in Seq(StepRows) /\ d \in Seq(StepRows) /\ s # <<>> /\ 1 \in DOMAIN s
    BY TailOf DEF Block
  <1>2. Checked(e, "mcp") /\ Sorted(e)
    BY <1>1, CheckedCat DEF Block
  <1>3. ASSUME NEW c PROVE Sighted(e, c, {})
    BY <1>1, SightedCat DEF Block
  <1>4. /\ e \in Seq(StepRows) /\ 1 \in DOMAIN e /\ e[1] = s[1]
        /\ \A k \in DOMAIN e : (k \in DOMAIN s /\ e[k] = s[k]) \/ (k - n \in DOMAIN d /\ e[k] = d[k - n])
    BY <1>1, CatPlaces
  <1> HIDE DEF e, n
  <1>5. (\A k \in DOMAIN e : e[k][1] # "auth") /\ e # <<>> /\ e[1][1] = "scope"
    BY <1>4 DEF Block
  <1>. QED BY <1>2, <1>3, <1>4, <1>5 DEF Block, e

LEMMA OpensBlock ==
    ASSUME NEW s, Prelude(s), NEW d, Block(d)
    PROVE  Opening(s \o d, "mcp") /\ ~Free(s \o d, Acting)
  <1> DEFINE e == s \o d  n == Len(s)
  <1>1. s \in Seq(StepRows) /\ d \in Seq(StepRows) /\ 1 \in DOMAIN d /\ d[1][1] = "scope" /\ (\A i \in DOMAIN s : s[i][1] \in {"auth", "totp"})
    BY TailOf DEF Block, Prelude
  <1>2. Opening(e, "mcp")
    BY Opens DEF Block
  <1>3. /\ n \in Nat /\ 1 + n \in DOMAIN e /\ e[1 + n] = d[1] /\ DOMAIN s = 1..n /\ DOMAIN e = 1..(n + Len(d)) /\ Len(d) \in Nat
        /\ \A i \in DOMAIN s : e[i] = s[i]
    BY <1>1, CatPlaces
  <1> HIDE DEF e, n
  <1>4. ASSUME NEW i \in DOMAIN e, e[i][1] \in Acting, Unscoped(e, 1, i) PROVE FALSE
    <2>1. i > n
      BY <1>1, <1>3, <1>4 DEF Acting
    <2>2. 1 + n \in 1..i
      BY <1>3, <1>4, <2>1
    <2>. QED BY <1>1, <1>3, <1>4, <2>2 DEF Unscoped
  <1>. QED BY <1>2, <1>4 DEF Free, e

LEMMA Preludes ==
    ASSUME NEW a \in Agents \cup {Nothing}
    PROVE  Prelude(<<Step("auth", a)>>) /\ Prelude(<<Step("auth", a), Step("totp", a)>>)
  <1> DEFINE x == Step("auth", a)  y == Step("totp", a)
  <1>1. x \in StepRows /\ x[1] = "auth" /\ y \in StepRows /\ y[1] = "totp"
    BY StepIsRow DEF StepNames
  <1> HIDE DEF x, y
  <1>2. <<x>> \in Seq(StepRows) /\ DOMAIN <<x>> = 1..1 /\ <<x>>[1] = x /\ <<x>> # <<>>
    BY <1>1, OneStep
  <1>3. <<x, y>> \in Seq(StepRows) /\ DOMAIN <<x, y>> = 1..2 /\ <<x, y>>[1] = x /\ <<x, y>>[2] = y /\ <<x, y>> # <<>>
    BY <1>1, TwoSteps
  <1>4. Prelude(<<x>>)
    BY <1>1, <1>2 DEF Prelude
  <1>5. Prelude(<<x, y>>)
    BY <1>1, <1>3 DEF Prelude
  <1>. QED BY <1>4, <1>5 DEF x, y

LEMMA PreludeMore == ASSUME NEW s, Prelude(s) PROVE Prelude(s \o <<Step("totp", Nothing)>>)
  <1> DEFINE y == Step("totp", Nothing)  d == <<y>>  e == s \o d  n == Len(s)
  <1>1. y \in StepRows /\ y[1] = "totp"
    BY StepIsRow DEF StepNames
  <1> HIDE DEF y
  <1>2. d \in Seq(StepRows) /\ DOMAIN d = 1..1 /\ d[1] = y
    BY <1>1, OneStep
  <1>3. s \in Seq(StepRows) /\ 1 \in DOMAIN s
    BY TailOf DEF Prelude
  <1> HIDE DEF d
  <1>4. /\ e \in Seq(StepRows) /\ 1 \in DOMAIN e /\ e[1] = s[1] /\ n \in Nat /\ DOMAIN s = 1..n /\ (\A k \in DOMAIN s : e[k] = s[k])
        /\ \A k \in DOMAIN e : (k \in DOMAIN s /\ e[k] = s[k]) \/ (k - n \in DOMAIN d /\ e[k] = d[k - n])
    <2>1. s \in Seq(StepRows) /\ d \in Seq(StepRows) /\ 1 \in DOMAIN s
      BY <1>2, <1>3
    <2>. QED BY <2>1, CatPlaces
  <1> HIDE DEF e, n
  <1>5. \A k \in DOMAIN e : e[k][1] = IF k = 1 THEN "auth" ELSE "totp"
    <2>1. ASSUME NEW k \in DOMAIN e, k \in DOMAIN s PROVE e[k][1] = IF k = 1 THEN "auth" ELSE "totp"
      <3>1. e[k] = s[k]
        BY <1>4, <2>1
      <3>. QED BY <2>1, <3>1 DEF Prelude
    <2>2. ASSUME NEW k \in DOMAIN e, k \notin DOMAIN s PROVE e[k][1] = "totp" /\ k # 1
      <3>1. k - n \in DOMAIN d /\ e[k] = d[k - n] /\ k # 1
        BY <1>3, <1>4, <2>2
      <3>2. d[k - n] = y
        BY <1>2, <3>1
      <3>. QED BY <1>1, <3>1, <3>2
    <2>. QED BY <2>1, <2>2
  <1>6. e # <<>> /\ e[1][1] = "auth"
    BY <1>4 DEF Prelude
  <1>. QED BY <1>4, <1>5, <1>6 DEF Prelude, e, d, y

LEMMA OpensBody ==
    ASSUME NEW s, Prelude(s), NEW d, Reading(d) \/ Doing(d), NEW op
    PROVE  Opening(s \o d, op) /\ (Reading(d) => ~Free(s \o d, Acting))
  <1> DEFINE e == s \o d  n == Len(s)
  <1>1. /\ d \in Seq(StepRows) /\ (\A i \in DOMAIN d : d[i][1] \notin {"auth", "scope", "each"}) /\ (\A c : Sighted(d, c, {})) /\ Sorted(d)
        /\ Checked(d, op) /\ (Reading(d) => \A i \in DOMAIN d : d[i][1] \notin Acting)
    BY BodiesAreFormed
  <1>2. Opening(e, op)
    BY <1>1, Opens
  <1>3. ASSUME Reading(d) PROVE ~Free(e, Acting)
    <2>1. s \in Seq(StepRows) /\ \A i \in DOMAIN s : s[i][1] \in {"auth", "totp"}
      BY DEF Prelude
    <2>2. \A k \in DOMAIN e : (k \in DOMAIN s /\ e[k] = s[k]) \/ (k - n \in DOMAIN d /\ e[k] = d[k - n])
      BY <1>1, <2>1, CatPlaces
    <2> HIDE DEF e, n
    <2>3. \A i \in DOMAIN s : s[i][1] \notin Acting
      BY <2>1 DEF Acting
    <2>. QED BY <1>1, <1>3, <2>2, <2>3 DEF Free
  <1>. QED BY <1>2, <1>3

LEMMA OpensParts ==
    ASSUME NEW s, Prelude(s), NEW d \in Seq(StepRows), NEW f \in Seq(StepRows), Doing(d \o f), NEW op
    PROVE  Opening((s \o d) \o f, op)
  <1>1. (s \o d) \o f = s \o (d \o f)
    BY CatTwice DEF Prelude
  <1>. QED BY <1>1, OpensBody

LEMMA OperationsOpen ==
    ASSUME NEW a \in Agents, NEW op
    PROVE  /\ Opening(list_files(a), op) /\ Opening(read_file(a), op) /\ Opening(write_file(a), op) /\ Opening(delete_file(a), op)
           /\ Opening(get_config(a), op) /\ Opening(apply_config(a), op) /\ Opening(apply_sensitive(a), op) /\ Opening(force_update(a), op)
           /\ Opening(download_url(a), op) /\ Opening(upload_url(a), op)
           /\ Opening(list_temporary_transfers, op) /\ Opening(revoke_temporary_transfer, op)
  <1> DEFINE A == <<Step("auth", a)>>  T == <<Step("auth", a), Step("totp", a)>>  N == <<Step("auth", Nothing)>>
             V == ensure_server_visible(a)  O == ensure_server_online(a)  F == dispatch_file_task(a)
             S == <<Step("send", a)>>  G == <<Step("agent", a)>>  U == build_temp_url(a)
             L == <<Step("tokens", Nothing)>>  R == (<<Step("find", Nothing)>> \o <<Step("mine", Nothing)>>) \o <<Step("revoke", Nothing)>>
  <1>1. Prelude(A) /\ Prelude(T) /\ Prelude(N)
    BY Preludes
  <1>2. Doing(O \o F) /\ Doing(O \o S) /\ Doing(U) /\ Doing(V \o G)
    BY SendersDo
  <1>3. Reading(L) /\ Reading(R)
    <2>1. Reading(L) /\ Reading(<<Step("find", Nothing)>>) /\ Reading(<<Step("mine", Nothing)>>) /\ Reading(<<Step("revoke", Nothing)>>)
      BY ReadingOne DEF ReadSteps
    <2>2. Reading(<<Step("find", Nothing)>> \o <<Step("mine", Nothing)>>)
      BY <2>1, ReadingCat
    <2>. QED BY <2>1, <2>2, ReadingCat
  <1>4. /\ A \in Seq(StepRows) /\ T \in Seq(StepRows) /\ O \in Seq(StepRows) /\ V \in Seq(StepRows) /\ F \in Seq(StepRows)
        /\ S \in Seq(StepRows) /\ G \in Seq(StepRows)
    BY EnsuresArePlain DEF Plain, Made
  <1>5. list_temporary_transfers = N \o L /\ revoke_temporary_transfer = N \o R
    BY DEF list_temporary_transfers, revoke_temporary_transfer
  <1>6. /\ list_files(a) = (A \o O) \o F /\ read_file(a) = (A \o O) \o F /\ write_file(a) = (T \o O) \o F
        /\ delete_file(a) = (T \o O) \o F /\ get_config(a) = (A \o V) \o G /\ apply_config(a) = (A \o O) \o S
        /\ apply_sensitive(a) = (T \o O) \o S /\ force_update(a) = (T \o O) \o S
        /\ download_url(a) = A \o U /\ upload_url(a) = T \o U
    BY DEF list_files, read_file, write_file, delete_file, get_config, apply_config, apply_sensitive, force_update, download_url, upload_url,
           require_transfer_write_sensitive_auth, require_remote_config_patch_auth, require_force_update_auth
  <1> HIDE DEF A, T, N, V, O, F, S, G, U, L, R
  <1>7. /\ Opening((A \o O) \o F, op) /\ Opening((T \o O) \o F, op) /\ Opening((A \o V) \o G, op) /\ Opening((A \o O) \o S, op)
        /\ Opening((T \o O) \o S, op)
    BY <1>1, <1>2, <1>4, OpensParts
  <1>8. Opening(A \o U, op) /\ Opening(T \o U, op) /\ Opening(N \o L, op) /\ Opening(N \o R, op)
    BY <1>1, <1>2, <1>3, OpensBody
  <1>. QED BY <1>5, <1>6, <1>7, <1>8

LEMMA ToolsOpen ==
    ASSUME NEW q \in Requests, q.op = "mcp", q.tool # "none"
    PROVE  /\ Opening(handle_mcp_jsonrpc(q), "mcp") /\ ~Free(handle_mcp_jsonrpc(q), Acting)
           /\ Opening(execute_mcp_studio(q), "mcp") /\ ~Free(execute_mcp_studio(q), Acting)
  <1> DEFINE A == <<Step("auth", Nothing)>>  H == handle_jsonrpc_request(q.tool, q)  C == check_mcp_studio_sensitive_totp(q)
             T == IF q.then = "none" THEN <<>> ELSE handle_jsonrpc_request(q.then, q)
  <1>1. q.tool \in Tools /\ q.then \in Tools \cup {"none"}
    BY DEF Requests
  <1>2. Block(H) /\ (T = <<>> \/ Block(T))
    BY <1>1, CallsAreBlocks
  <1>3. Prelude(A) /\ Prelude(A \o C)
    <2>1. Prelude(A)
      BY Preludes
    <2>2. C = <<>> \/ C = <<Step("totp", Nothing)>>
      BY DEF check_mcp_studio_sensitive_totp
    <2> HIDE DEF A
    <2>3. Prelude(A \o <<Step("totp", Nothing)>>)
      BY <2>1, PreludeMore
    <2>4. A \o <<>> = A
      BY <2>1 DEF Prelude
    <2>. QED BY <2>1, <2>2, <2>3, <2>4
  <1>4. handle_mcp_jsonrpc(q) = (A \o H) \o T /\ execute_mcp_studio(q) = (A \o C) \o H
    BY DEF handle_mcp_jsonrpc, execute_mcp_studio
  <1> HIDE DEF A, H, C, T
  <1>5. Opening((A \o C) \o H, "mcp") /\ ~Free((A \o C) \o H, Acting)
    BY <1>2, <1>3, OpensBlock
  <1>6. Opening((A \o H) \o T, "mcp") /\ ~Free((A \o H) \o T, Acting)
    <2>1. A \in Seq(StepRows) /\ H \in Seq(StepRows)
      BY <1>2, <1>3 DEF Block, Prelude
    <2>2. CASE T = <<>>
      <3>1. (A \o H) \o <<>> = A \o H
        BY <2>1
      <3>. QED BY <1>2, <1>3, <2>2, <3>1, OpensBlock
    <2>3. CASE Block(T)
      <3>1. (A \o H) \o T = A \o (H \o T)
        BY <2>1, <2>3, CatTwice DEF Block
      <3>2. Block(H \o T)
        BY <1>2, <2>3, BlockCat
      <3>. QED BY <1>3, <3>1, <3>2, OpensBlock
    <2>. QED BY <1>2, <2>2, <2>3
  <1>. QED BY <1>4, <1>5, <1>6

\* Every program but the changes and the uses of a token.
LEMMA ProgramsOpen ==
    ASSUME NEW w \in Workloads, NEW q \in w, q.op \notin {"download", "upload"}, q.op \notin Changes
    PROVE  Opening(Program(q), q.op) /\ (Free(Program(q), Acting) => q.op \in Operations)
  <1>1. /\ q \in Requests /\ (q.op = "mcp" => q.tool # "none") /\ (q.op \in {"resource", "prompt"} => q.item \in Items[q.op])
    BY WorkloadsAssumption
  <1>2. q.op \in Operations \cup {"mcp", "resource", "prompt"} /\ q.agent \in Agents
    BY <1>1 DEF Requests
  <1>3. CASE q.op = "mcp"
    <2>1. Program(q) = IF q.via = "rpc" THEN handle_mcp_jsonrpc(q) ELSE execute_mcp_studio(q)
      BY <1>3 DEF Program, Changes
    <2>. QED BY <1>1, <1>3, <2>1, ToolsOpen
  <1>4. CASE q.op = "resource"
    <2>1. Program(q) = <<Step("auth", Nothing)>> \o read_resource(q)
      BY <1>4 DEF Program, Changes
    <2>2. Reading(read_resource(q))
      BY <1>1, <1>4, ItemsRead
    <2>. QED BY <2>1, <2>2, Preludes, OpensBody
  <1>5. CASE q.op = "prompt"
    <2>1. Program(q) = <<Step("auth", Nothing)>> \o get_prompt(q)
      BY <1>5 DEF Program, Changes
    <2>2. Reading(get_prompt(q))
      BY <1>1, <1>5, ItemsRead
    <2>. QED BY <2>1, <2>2, Preludes, OpensBody
  <1>6. CASE q.op \in Operations
    <2>1. Program(q) = Operation(q)
      BY <1>6 DEF Program, Changes, Operations
    <2>2. CASE q.op \in {"list", "read", "write", "delete", "config", "apply"}
      <3>1. Opening(Operation(q), q.op)
        BY <1>2, <2>2, OperationsOpen DEF Operation
      <3>. QED BY <1>6, <2>1, <3>1
    <2>3. CASE q.op \in {"sensitive", "update", "download_url", "upload_url", "tokens", "revoke"}
      <3>1. Opening(Operation(q), q.op)
        BY <1>2, <2>3, OperationsOpen DEF Operation
      <3>. QED BY <1>6, <2>1, <3>1
    <2>. QED BY <1>6, <2>2, <2>3 DEF Operations
  <1>. QED BY <1>2, <1>3, <1>4, <1>5, <1>6

-----------------------------------------------------------------------------
(* Entitlement: the beginning, and every step. *)

LEMMA EntitledInit == OperationsInit => EntitledInv
  <1> SUFFICES ASSUME OperationsInit PROVE EntitledInv
    OBVIOUS
  <1>1. OnceInv
    BY OnceInit
  <1>2. PICK x \in Stored : users = x.users /\ creds = x.creds /\ agents = x.agents /\ tokens = x.tokens /\ rows = x.rows
    BY DEF OperationsInit, TransfersInit
  <1>3. PICK w \in Workloads :
          live = {[q |-> q, todo |-> Program(q), begun |-> FALSE, admin |-> FALSE, out |-> "none",
                   tool |-> "none", got |-> Nothing, among |-> {}, svcs |-> {}, show |-> {}, ever |-> Facts] : q \in w}
    BY DEF OperationsInit, TransfersInit
  <1>4. ResultsInv
    BY <1>2, StoredAssumption DEF ResultsInv
  <1>5. OperationsAreEntitled
    BY DEF OperationsInit, TransfersInit, OperationsAreEntitled
  <1>6. ASSUME NEW r \in live PROVE Good(r) /\ Facts \subseteq r.ever
    <2>1. PICK q \in w : r = [q |-> q, todo |-> Program(q), begun |-> FALSE, admin |-> FALSE, out |-> "none",
                   tool |-> "none", got |-> Nothing, among |-> {}, svcs |-> {}, show |-> {}, ever |-> Facts]
      BY <1>3, <1>6
    <2>2. /\ r.q \in w /\ r.todo = Program(r.q) /\ r.begun = FALSE /\ r.among = {} /\ r.svcs = {} /\ r.show = {} /\ r.ever = Facts
      BY <2>1
    <2>3. Known(r) = {}
      BY <2>2 DEF Known
    <2>4. CASE Redeems(r)
      <3>1. r.todo # <<>> /\ r.todo[1][1] = "ip"
        BY <2>2, <2>4, ProgramsAreWellFormed DEF Redeems
      <3>2. Stage(r) = "ip"
        BY <3>1 DEF Stage
      <3>. QED BY <2>2, <2>4, <3>2 DEF Good, Redeeming, Using
    <2>5. CASE ~Redeems(r) /\ r.q.op \in Changes
      <3> DEFINE y == Step("change", Nothing)
      <3>1. r.todo = <<y>>
        BY <2>2, <2>5 DEF Program, Changes
      <3>2. y[1] = "change"
        BY DEF Step
      <3> HIDE DEF y
      <3>3. DOMAIN r.todo = 1..1 /\ r.todo[1] = y
        BY <3>1
      <3>4. \A i \in DOMAIN r.todo : r.todo[i][1] = "change"
        BY <3>2, <3>3
      <3>5. Asking(r)
        BY <2>2, <2>5, <3>4 DEF Asking
      <3>6. Formed(r.todo, r.q, {})
        BY <3>4 DEF Formed, Sighted, Aimed, Checked, Acting, Sorted
      <3>7. Righted(r) /\ Gathered(r)
        BY <2>2, <3>4 DEF Righted, Free, Acting, Gathered, Batching
      <3>8. Revoking(r)
        BY <2>5 DEF Revoking, Changes
      <3>. QED BY <2>2, <2>3, <2>5, <3>5, <3>6, <3>7, <3>8 DEF Good
    <2>6. CASE ~Redeems(r) /\ r.q.op \notin Changes
      <3>1. Opening(r.todo, r.q.op) /\ (Free(r.todo, Acting) => r.q.op \in Operations)
        BY <2>2, <2>6, ProgramsOpen DEF Redeems
      <3>2. Stage(r) = "auth"
        BY <3>1 DEF Opening, Stage
      <3>3. Asking(r)
        BY <2>2, <2>6, <3>1, <3>2 DEF Asking, Opening
      <3>4. Formed(r.todo, r.q, {})
        BY <3>1 DEF Formed, Opening
      <3>5. Righted(r)
        BY <2>2, <3>1 DEF Righted
      <3>6. Gathered(r)
        BY <2>2 DEF Gathered
      <3>7. Revoking(r)
        BY <3>2 DEF Revoking
      <3>. QED BY <2>2, <2>3, <2>6, <3>3, <3>4, <3>5, <3>6, <3>7 DEF Good
    <2>. QED BY <2>2, <2>4, <2>5, <2>6
  <1>. QED BY <1>1, <1>4, <1>5, <1>6 DEF EntitledInv, Rights

LEMMA EntitledIdle == EntitledInv /\ UNCHANGED transferVars => EntitledInv'
  <1> SUFFICES ASSUME EntitledInv, UNCHANGED transferVars PROVE EntitledInv'
    OBVIOUS
  <1>1. OnceInv'
    BY OnceNext DEF EntitledInv
  <1>2. /\ users' = users /\ creds' = creds /\ agents' = agents /\ tokens' = tokens /\ rows' = rows /\ live' = live /\ acted' = acted
    BY DEF transferVars, tables
  <1>3. ResultsInv' /\ OperationsAreEntitled'
    BY <1>2 DEF EntitledInv, ResultsInv, OperationsAreEntitled
  <1>4. Facts' = Facts
    BY <1>2 DEF Facts, IsAdmin, CanSee, Usable
  <1>5. Steady
    BY <1>2, ReadsAreSteady DEF tables
  <1>6. ASSUME NEW s \in live' PROVE Good(s)' /\ Facts' \subseteq s.ever
    <2>1. s \in live
      BY <1>2, <1>6
    <2>2. OnceInv /\ Rights
      BY DEF EntitledInv
    <2>3. Good(s) /\ Facts \subseteq s.ever /\ s.q \in Requests /\ OperationsTypeOK
      BY <2>1, <2>2, GoodFacts
    <2>4. Like(s, s)
      BY DEF Like
    <2>. QED BY <1>4, <1>5, <2>3, <2>4, GoodStill
  <1>. QED BY <1>1, <1>3, <1>6 DEF EntitledInv, Rights

\* A step of a request that is under way, or of a change.
LEMMA EntitledStep ==
    ASSUME EntitledInv, OperationsNext
    PROVE  Rights' /\ ResultsInv' /\ OperationsAreEntitled'
  <1>0. OnceInv /\ Rights /\ ResultsInv /\ OperationsAreEntitled
    BY DEF EntitledInv
  <1> HIDE DEF EntitledInv
  <1>1. PICK r \in live :
        \/ (r.q.op # "mcp" /\ Authenticated(r, Scopes(r.q))) \/ StartsTools(r)
        \/ AsksForCode(r) \/ FindVisible(r) \/ FindActive(r) \/ IsOnline(r)
        \/ ShowsAgent(r) \/ Send(r, ActsUnder(r)) \/ Reply(r)
        \/ CreateToken(r, ActsUnder(r)) \/ CheckRateLimit(r) \/ FindRecord(r) \/ FindIssuer(r)
        \/ FindIssuersCredential(r) \/ FindServer(r) \/ consume_temporary_transfer(r)
        \/ reserve_upload_once(r) \/ ReadsBody(r) \/ commit_temporary_upload(r) \/ ReachesAgent(r)
        \/ record_temporary_transfer_result(r) \/ ListsTokens(r) \/ FindToken(r) \/ MayRevoke(r) \/ RevokeToken(r)
        \/ execute_tool(r) \/ reject_mcp_file_write_tool(r) \/ ensure_agent_with_state_visible(r)
        \/ EnsureAgentActive(r) \/ FindOnline(r) \/ RunsBatch(r) \/ NextItem(r)
        \/ LoadVisible(r) \/ ListsInventory(r) \/ FindServices(r) \/ TellsServices(r) \/ ListsResults(r)
        \/ ListsEvents(r) \/ ListsRules(r) \/ ListsTasks(r) \/ ListsNat(r) \/ ListsDdns(r)
        \/ Dropped(r) \/ Responds(r) \/ Change(r)
    BY DEF OperationsNext
  <1>2. ASSUME UNCHANGED <<rows, acted>> PROVE ResultsInv' /\ OperationsAreEntitled'
    BY <1>0, <1>2 DEF ResultsInv, OperationsAreEntitled
  <1>3. ASSUME Reads PROVE UNCHANGED <<rows, acted>>
    BY <1>3 DEF Reads, Quiet, tables
  <1>4. CASE (r.q.op # "mcp" /\ Authenticated(r, Scopes(r.q))) \/ StartsTools(r)
    <2>1. Reads
      BY <1>4 DEF Authenticated, StartsTools
    <2>. QED BY <1>0, <1>2, <1>3, <1>4, <2>1, RightsAuth
  <1>5. CASE AsksForCode(r) \/ FindVisible(r) \/ FindActive(r) \/ IsOnline(r) \/ ShowsAgent(r) \/ ListsTokens(r) \/ FindToken(r) \/ MayRevoke(r)
             \/ reject_mcp_file_write_tool(r) \/ ensure_agent_with_state_visible(r)
    <2>1. Reads
      BY <1>5 DEF AsksForCode, FindVisible, FindActive, IsOnline, ShowsAgent, ListsTokens, FindToken, MayRevoke, reject_mcp_file_write_tool,
                  ensure_agent_with_state_visible
    <2>. QED BY <1>0, <1>2, <1>3, <1>5, <2>1, RightsLook
  <1>6. CASE Send(r, ActsUnder(r))
    <2>1. ResultsInv'
      BY <1>0, <1>6 DEF Send, tables, ResultsInv
    <2>. QED BY <1>0, <1>6, <2>1, RightsSend
  <1>7. CASE Reply(r) \/ ReachesAgent(r)
    <2>1. Reads
      BY <1>7 DEF Reply, ReachesAgent
    <2>. QED BY <1>0, <1>2, <1>3, <1>7, <2>1, RightsReply, RightsReach
  <1>8. CASE CreateToken(r, ActsUnder(r))
    <2>1. ResultsInv'
      BY <1>0, <1>8 DEF CreateToken, tables, ResultsInv
    <2>. QED BY <1>0, <1>8, <2>1, RightsCreate
  <1>9. CASE RevokeToken(r)
    <2>1. ResultsInv'
      BY <1>0, <1>9 DEF RevokeToken, tables, ResultsInv
    <2>. QED BY <1>0, <1>9, <2>1, RightsRevoke
  <1>10. CASE CheckRateLimit(r) \/ FindRecord(r) \/ FindIssuer(r) \/ FindIssuersCredential(r) \/ FindServer(r)
    <2>1. UNCHANGED <<rows, acted>>
      BY <1>10 DEF CheckRateLimit, FindRecord, FindIssuer, FindIssuersCredential, FindServer, Reads, Quiet, tables
    <2>. QED BY <1>0, <1>2, <1>10, <2>1, RightsValidate
  <1>11. CASE \/ consume_temporary_transfer(r) \/ reserve_upload_once(r) \/ ReadsBody(r) \/ commit_temporary_upload(r)
              \/ record_temporary_transfer_result(r)
    <2>1. UNCHANGED <<rows, acted>>
      BY <1>11 DEF consume_temporary_transfer, reserve_upload_once, ReadsBody, commit_temporary_upload, record_temporary_transfer_result,
                   Quiet, tables
    <2>. QED BY <1>0, <1>2, <1>11, <2>1, RightsUse
  <1>12. CASE execute_tool(r) \/ RunsBatch(r) \/ NextItem(r)
    <2>1. Reads
      BY <1>12 DEF execute_tool, RunsBatch, NextItem
    <2>. QED BY <1>0, <1>2, <1>3, <1>12, <2>1, RightsTool, RightsBatch, RightsItem
  <1>13. CASE EnsureAgentActive(r) \/ FindOnline(r) \/ LoadVisible(r) \/ FindServices(r)
    <2>1. Reads
      BY <1>13 DEF EnsureAgentActive, FindOnline, LoadVisible, FindServices
    <2>. QED BY <1>0, <1>2, <1>3, <1>13, <2>1, RightsGather, RightsServices
  <1>14. CASE ListsInventory(r) \/ TellsServices(r) \/ ListsResults(r)
    <2>1. Reads
      BY <1>14 DEF ListsInventory, TellsServices, ListsResults
    <2>. QED BY <1>0, <1>2, <1>3, <1>14, <2>1, RightsTell
  <1>15. CASE ListsEvents(r) \/ ListsRules(r) \/ ListsTasks(r) \/ ListsNat(r) \/ ListsDdns(r)
    <2>1. Reads
      BY <1>15 DEF ListsEvents, ListsRules, ListsTasks, ListsNat, ListsDdns
    <2>. QED BY <1>0, <1>2, <1>3, <1>15, <2>1, RightsRows
  <1>16. CASE Dropped(r) \/ Responds(r)
    <2>1. ResultsInv'
      BY <1>0, <1>16 DEF Dropped, Responds, tables, ResultsInv
    <2>. QED BY <1>0, <1>16, <2>1, RightsDepart
  <1>17. CASE Change(r)
    <2>1. OperationsAreEntitled'
      BY <1>0, <1>17 DEF Change, Quiet, OperationsAreEntitled
    <2>. QED BY <1>0, <1>17, <2>1, RightsChange
  <1>. QED BY <1>1, <1>4, <1>5, <1>6, <1>7, <1>8, <1>9, <1>10, <1>11, <1>12, <1>13, <1>14, <1>15, <1>16, <1>17

LEMMA EntitledNext == EntitledInv /\ [OperationsNext]_transferVars => EntitledInv'
  <1> SUFFICES ASSUME EntitledInv, [OperationsNext]_transferVars PROVE EntitledInv'
    OBVIOUS
  <1>1. CASE UNCHANGED transferVars
    BY <1>1, EntitledIdle
  <1>2. CASE OperationsNext
    <2>1. OnceInv'
      BY OnceNext DEF EntitledInv
    <2>2. Rights' /\ ResultsInv' /\ OperationsAreEntitled'
      BY <1>2, EntitledStep
    <2>. QED BY <2>1, <2>2 DEF EntitledInv
  <1>. QED BY <1>1, <1>2

(***************************************************************************)
(* Whatever is sent to an Agent, created, revoked or shown, by a request,  *)
(* a tool of the MCP server or a temporary URL, whoever asked for it (or   *)
(* issued the URL) was entitled to it at some moment since it was asked    *)
(* for, however the roles, owners, credentials and Agents changed between  *)
(* the reads of server_ops.rs, transfers.rs and mcp/executor.rs.           *)
(***************************************************************************)
THEOREM OperationsEntitled == OperationsSpec => []OperationsAreEntitled
  <1>1. EntitledInv => OperationsAreEntitled
    BY DEF EntitledInv
  <1>. QED BY <1>1, EntitledInit, EntitledNext, PTL DEF OperationsSpec

-----------------------------------------------------------------------------
(***************************************************************************)
(* Task dispatch.                                                          *)
(***************************************************************************)

USE DEF outer, Set

-----------------------------------------------------------------------------
(* The inductive invariant: what the row, the registry and the leftovers of *)
(* a dispatch can be, given where the dispatch is.                          *)

\* The row is written once before the wait and once after it.
RowFollowsRun ==
    \A r \in Runs :
        /\ pc[r] \in {"start", "send", "close", "insert"} => row[r] = NoRow
        /\ pc[r] \in {"await", "expired", "update"} => row[r] = Pending

\* A statement left in flight finds no row of its own, and no Agent result.
OrphanIsFirst ==
    \A r \in Runs :
        orphan[r] # "none" =>
            /\ pc[r] = "aborted"
            /\ orphan[r] \in {"close", "insert"} => row[r] = NoRow
            /\ row[r].why # "agent"

\* The cleanup works for dispatches that ended without a result of their own.
CleanupIsLate == \A r \in Runs : cleanup[r] # 0 => pc[r] \in {"error", "aborted"}

\* A channel holds a result only after the command was answered, and then the
\* registry has let go of it.
ReplyFollowsTask ==
    \A r \in Runs :
        /\ reply[r] # "none" => task[r] = "replied" /\ r \notin waiters
        /\ pc[r] \in {"start", "send", "close"} => task[r] = "none"

\* What a dispatch is about to store agrees with how far it has come and with
\* what its channel holds.
VerdictFollowsReply ==
    \A r \in Runs :
        /\ pc[r] = "insert" => verdict[r] = Pending
        /\ pc[r] = "expired" => verdict[r] = ServerTimeout
        /\ (pc[r] = "update" /\ reply[r] # "none") =>
               verdict[r] \in {FromAgent(reply[r]), ServerTimeout}

IInv ==
    /\ TypeOK
    /\ WaitersAreLive
    /\ RowFollowsRun
    /\ OrphanIsFirst
    /\ CleanupIsLate
    /\ ReplyFollowsTask
    /\ VerdictFollowsReply
    /\ ReplyIsRecorded

-----------------------------------------------------------------------------
(* Type correctness. *)

LEMMA KnownContents ==
  /\ {NoRow, Pending, Offline, SendFailed, Disconnected, ServerTimeout, Cancelled, Restarted}
         \subseteq Contents
  /\ \A s \in Answers : FromAgent(s) \in Contents
  BY DEF Contents

LEMMA EffectType ==
  ASSUME NEW s, NEW old \in Contents, NEW new \in Contents
  PROVE  Effect(s, old, new) \in Contents
  BY KnownContents DEF Effect

LEMMA SettleType ==
  ASSUME NEW old \in Contents, NEW why \in {Cancelled, Restarted}
  PROVE  Settle(old, why) \in Contents
  BY KnownContents DEF Settle

LEMMA CountType ==
  ASSUME NEW f, NEW b \in Batches
  PROVE  Count(f, b) \in [Statuses -> Nat]
<1>1. ASSUME NEW s \in Statuses
      PROVE  Cardinality({r \in RunsOf(b) : f[r].status = s}) \in Nat
  <2>1. {r \in RunsOf(b) : f[r].status = s} \subseteq Runs
    BY DEF RunsOf
  <2> QED BY <2>1, BatchAssumption, FS_Subset, FS_CardinalityType
<1> QED BY <1>1 DEF Count

LEMMA TypeInit == Init => TypeOK
<1> SUFFICES ASSUME Init PROVE TypeOK
  OBVIOUS
<1> QED BY KnownContents, LimitAssumption DEF Init, TypeOK, RunPC, Active, Statements

LEMMA TypeRun ==
  ASSUME TypeOK, NEW r \in Runs, RunStep(r)
  PROVE  TypeOK'
<1> USE KnownContents DEF TypeOK, RunPC, Active
<1>1. CASE StartOffline(r) BY <1>1 DEF StartOffline
<1>2. CASE StartOnline(r) BY <1>2 DEF StartOnline
<1>3. CASE SendOk(r) BY <1>3 DEF SendOk
<1>4. CASE SendErr(r) BY <1>4 DEF SendErr
<1>5. CASE Write(r)
  <2>1. Effect(pc[r], row[r], verdict[r]) \in Contents
    BY EffectType
  <2> QED BY <1>5, <2>1 DEF Write, AfterWrite
<1>6. CASE WriteFails(r)
  <2>1. \A e : Effect(e, row[r], verdict[r]) \in Contents
    BY EffectType
  <2>2. row' \in [Runs -> Contents]
    BY <1>6, <2>1 DEF WriteFails
  <2> QED BY <1>6, <2>2, LimitAssumption DEF WriteFails
<1>7. CASE AwaitResult(r) BY <1>7 DEF AwaitResult
<1>8. CASE AwaitClosed(r) BY <1>8 DEF AwaitClosed
<1>9. CASE AwaitExpires(r) BY <1>9 DEF AwaitExpires
<1>10. CASE ReceiverDropped(r) BY <1>10 DEF ReceiverDropped
<1> QED BY <1>1, <1>2, <1>3, <1>4, <1>5, <1>6, <1>7, <1>8, <1>9, <1>10 DEF RunStep

LEMMA TypeLeftover ==
  ASSUME TypeOK, NEW r \in Runs,
         CleanupStep(r) \/ Deliver(r) \/ OrphanLands(r) \/ OrphanVanishes(r)
  PROVE  TypeOK'
<1> USE DEF TypeOK
<1>1. CASE CleanupAttempt(r)
  <2>1. Settle(row[r], Cancelled) \in Contents
    BY SettleType
  <2> QED BY <1>1, <2>1, LimitAssumption DEF CleanupAttempt
<1>2. CASE CleanupFails(r) BY <1>2, LimitAssumption DEF CleanupFails
<1>3. CASE Deliver(r) BY <1>3 DEF Deliver
<1>4. CASE OrphanLands(r)
  <2>1. Effect(orphan[r], row[r], verdict[r]) \in Contents
    BY EffectType
  <2> QED BY <1>4, <2>1 DEF OrphanLands, Statements
<1>5. CASE OrphanVanishes(r) BY <1>5 DEF OrphanVanishes, Statements
<1> QED BY <1>1, <1>2, <1>3, <1>4, <1>5 DEF CleanupStep

LEMMA TypeOuter ==
  ASSUME TypeOK,
         \/ \E b \in Batches : BatchReturns(b) \/ BatchAborted(b)
         \/ SessionUp \/ SessionDown \/ OthersChange \/ Restart
  PROVE  TypeOK'
<1> USE DEF TypeOK
<1>1. ASSUME NEW b \in Batches, BatchReturns(b) PROVE TypeOK'
  <2>1. Count(verdict, b) \in [Statuses -> Nat]
    BY CountType
  <2> QED BY <1>1, <2>1 DEF BatchReturns
<1>2. ASSUME NEW b \in Batches, BatchAborted(b) PROVE TypeOK'
  BY <1>2, LimitAssumption DEF BatchAborted, DropWaiters, RunPC, Active, Statements
<1>3. CASE SessionUp BY <1>3 DEF SessionUp
<1>4. CASE SessionDown BY <1>4 DEF SessionDown
<1>5. CASE OthersChange
  <2>1. Cardinality(waiters) \in Nat
    BY BatchAssumption, FS_Subset, FS_CardinalityType
  <2> QED BY <1>5, <2>1, LimitAssumption DEF OthersChange, RegistryHasRoom
<1>6. CASE Restart
  <2>1. \A r \in Runs : Settle(row[r], Restarted) \in Contents
    BY SettleType
  <2>2. row' \in [Runs -> Contents]
    BY <1>6, <2>1 DEF Restart
  <2>3. (pc' \in [Runs -> RunPC]) /\ (orphan' \in [Runs -> Statements])
    BY <1>6 DEF Restart, RunPC, Active, Statements
  <2>4. (cleanup' \in [Runs -> 0..MaxAttempts]) /\ (restarts' \in 0..MaxRestarts)
    BY <1>6, LimitAssumption DEF Restart
  <2>5. /\ task' \in [Runs -> {"none", "sent", "replied", "lost"}]
        /\ batch' \in [Batches -> {"running", "ok", "failed", "aborted", "crashed"}]
    BY <1>6 DEF Restart
  <2>6. (waiters' \subseteq Runs) /\ (online' \in BOOLEAN)
    BY <1>6 DEF Restart
  <2>7. others' \in 0..MaxWaiters
    BY <1>6, LimitAssumption DEF Restart
  <2> QED BY <1>6, <2>2, <2>3, <2>4, <2>5, <2>6, <2>7 DEF Restart
<1> QED BY <1>1, <1>2, <1>3, <1>4, <1>5, <1>6

-----------------------------------------------------------------------------
(* What statements do to rows. *)

LEMMA EffectFacts ==
  /\ \A old, new : Effect("none", old, new) = old
  /\ \A old, new : Effect("close", old, new) = new /\ Effect("insert", old, new) = new
  /\ \A new : Effect("update", Pending, new) = new
  /\ \A new : Effect("update", NoRow, new) = NoRow
  BY DEF Effect, Pending, NoRow

LEMMA Reasons ==
  /\ NoRow.why # "agent" /\ Pending.why # "agent" /\ Offline.why # "agent"
  /\ SendFailed.why # "agent" /\ Disconnected.why # "agent" /\ ServerTimeout.why # "agent"
  /\ Cancelled.why # "agent" /\ Restarted.why # "agent"
  /\ NoRow.status # "pending" /\ ServerTimeout.status # "pending"
  /\ \A s \in Answers : FromAgent(s).status # "pending"
  BY DEF NoRow, Pending, Offline, SendFailed, Disconnected, ServerTimeout, Cancelled,
         Restarted, FromAgent, Answers

LEMMA SettleFacts ==
  ASSUME NEW old \in Contents, NEW why
  PROVE  /\ old.why = "agent" => Settle(old, why) = old
         /\ old.status # "pending" => Settle(old, why) = old
         /\ Settle(old, why) \in {old, why}
<1>1. old.why = "agent" => old.status \in Answers
  <2>1. CASE old \in {FromAgent(s) : s \in Answers}
    BY <2>1 DEF FromAgent
  <2>2. CASE old \in {NoRow, Pending, Offline, SendFailed, Disconnected, ServerTimeout,
                     Cancelled, Restarted}
    BY <2>2, Reasons
  <2> QED BY <2>1, <2>2 DEF Contents
<1>2. "pending" \notin Answers
  BY DEF Answers
<1> QED BY <1>1, <1>2 DEF Settle

-----------------------------------------------------------------------------
(* The invariant is inductive. *)

LEMMA InvInit == Init => IInv
<1> SUFFICES ASSUME Init PROVE IInv
  OBVIOUS
<1>1. TypeOK
  BY TypeInit
<1>2. WaitersAreLive /\ RowFollowsRun /\ OrphanIsFirst /\ CleanupIsLate
  BY DEF Init, WaitersAreLive, RowFollowsRun, OrphanIsFirst, CleanupIsLate
<1>3. ReplyFollowsTask /\ VerdictFollowsReply /\ ReplyIsRecorded
  BY DEF Init, ReplyFollowsTask, VerdictFollowsReply, ReplyIsRecorded
<1> QED BY <1>1, <1>2, <1>3 DEF IInv

LEMMA InvRun ==
  ASSUME IInv, NEW r \in Runs, RunStep(r)
  PROVE  IInv'
<1> USE DEF IInv
<1>0. TypeOK'
  BY TypeRun
<1>1. CASE StartOffline(r)
  BY <1>0, <1>1 DEF StartOffline, TypeOK, WaitersAreLive, RowFollowsRun, OrphanIsFirst,
     CleanupIsLate, ReplyFollowsTask, VerdictFollowsReply, ReplyIsRecorded
<1>2. CASE StartOnline(r)
  BY <1>0, <1>2 DEF StartOnline, TypeOK, WaitersAreLive, RowFollowsRun, OrphanIsFirst,
     CleanupIsLate, ReplyFollowsTask, VerdictFollowsReply, ReplyIsRecorded
<1>3. CASE SendOk(r)
  BY <1>0, <1>3 DEF SendOk, TypeOK, WaitersAreLive, RowFollowsRun, OrphanIsFirst,
     CleanupIsLate, ReplyFollowsTask, VerdictFollowsReply, ReplyIsRecorded
<1>4. CASE SendErr(r)
  BY <1>0, <1>4 DEF SendErr, TypeOK, WaitersAreLive, RowFollowsRun, OrphanIsFirst,
     CleanupIsLate, ReplyFollowsTask, VerdictFollowsReply, ReplyIsRecorded
<1>5. CASE Write(r)
  <2> DEFINE new == Effect(pc[r], row[r], verdict[r])
  <2>1. new = verdict[r]
    BY <1>5, EffectFacts DEF Write, RowFollowsRun
  <2>2. row' = [row EXCEPT ![r] = verdict[r]]
    BY <1>5, <2>1 DEF Write
  <2>3. pc[r] = "insert" => verdict[r] = Pending
    BY DEF VerdictFollowsReply
  <2>4. RowFollowsRun'
    BY <1>5, <2>2, <2>3 DEF Write, AfterWrite, TypeOK, RowFollowsRun
  <2>5. (WaitersAreLive /\ CleanupIsLate /\ ReplyFollowsTask /\ VerdictFollowsReply)'
    BY <1>5 DEF Write, AfterWrite, TypeOK, WaitersAreLive, CleanupIsLate, ReplyFollowsTask,
                VerdictFollowsReply
  <2>6. OrphanIsFirst'
    BY <1>5, <2>2 DEF Write, TypeOK, OrphanIsFirst
  <2>7. ReplyIsRecorded'
    BY <1>5, <2>2 DEF Write, AfterWrite, TypeOK, ReplyFollowsTask, VerdictFollowsReply,
                      ReplyIsRecorded
  <2> QED BY <1>0, <2>4, <2>5, <2>6, <2>7
<1>6. CASE WriteFails(r)
  BY <1>0, <1>6, EffectFacts DEF WriteFails, Guarded, TypeOK, WaitersAreLive, RowFollowsRun,
     OrphanIsFirst, CleanupIsLate, ReplyFollowsTask, VerdictFollowsReply, ReplyIsRecorded
<1>7. CASE AwaitResult(r)
  BY <1>0, <1>7 DEF AwaitResult, TypeOK, WaitersAreLive, RowFollowsRun, OrphanIsFirst,
     CleanupIsLate, ReplyFollowsTask, VerdictFollowsReply, ReplyIsRecorded
<1>8. CASE AwaitClosed(r)
  BY <1>0, <1>8 DEF AwaitClosed, TypeOK, WaitersAreLive, RowFollowsRun, OrphanIsFirst,
     CleanupIsLate, ReplyFollowsTask, VerdictFollowsReply, ReplyIsRecorded
<1>9. CASE AwaitExpires(r)
  BY <1>0, <1>9 DEF AwaitExpires, TypeOK, WaitersAreLive, RowFollowsRun, OrphanIsFirst,
     CleanupIsLate, ReplyFollowsTask, VerdictFollowsReply, ReplyIsRecorded
<1>10. CASE ReceiverDropped(r)
  BY <1>0, <1>10 DEF ReceiverDropped, TypeOK, WaitersAreLive, RowFollowsRun, OrphanIsFirst,
     CleanupIsLate, ReplyFollowsTask, VerdictFollowsReply, ReplyIsRecorded
<1> QED BY <1>1, <1>2, <1>3, <1>4, <1>5, <1>6, <1>7, <1>8, <1>9, <1>10 DEF RunStep

LEMMA InvLeftover ==
  ASSUME IInv, NEW r \in Runs,
         CleanupStep(r) \/ Deliver(r) \/ OrphanLands(r) \/ OrphanVanishes(r)
  PROVE  IInv'
<1> USE DEF IInv
<1>0. TypeOK'
  BY TypeLeftover
<1>1. CASE CleanupAttempt(r)
  <2>1. cleanup[r] # 0 /\ pc[r] \in {"error", "aborted"}
    BY <1>1 DEF CleanupAttempt, CleanupIsLate
  <2>2. row' = [row EXCEPT ![r] = Settle(row[r], Cancelled)]
    BY <1>1 DEF CleanupAttempt
  <2>3. /\ row[r] = NoRow => Settle(row[r], Cancelled) = NoRow
        /\ row[r].why # "agent" => Settle(row[r], Cancelled).why # "agent"
    BY SettleFacts, Reasons DEF TypeOK
  <2>4. (RowFollowsRun /\ ReplyIsRecorded)'
    BY <1>1, <2>1, <2>2 DEF CleanupAttempt, TypeOK, RowFollowsRun, ReplyIsRecorded
  <2>5. OrphanIsFirst'
    BY <1>1, <2>2, <2>3 DEF CleanupAttempt, TypeOK, OrphanIsFirst
  <2>6. (WaitersAreLive /\ CleanupIsLate /\ ReplyFollowsTask /\ VerdictFollowsReply)'
    BY <1>1, <2>1 DEF CleanupAttempt, TypeOK, WaitersAreLive, CleanupIsLate, ReplyFollowsTask,
                VerdictFollowsReply
  <2> QED BY <1>0, <2>4, <2>5, <2>6
<1>2. CASE CleanupFails(r)
  <2>1. cleanup[r] # 0
    BY <1>2 DEF CleanupFails
  <2> QED BY <1>0, <1>2, <2>1 DEF CleanupFails, TypeOK, WaitersAreLive, RowFollowsRun, OrphanIsFirst,
     CleanupIsLate, ReplyFollowsTask, VerdictFollowsReply, ReplyIsRecorded
<1>3. CASE Deliver(r)
  BY <1>0, <1>3 DEF Deliver, TypeOK, WaitersAreLive, RowFollowsRun, OrphanIsFirst,
     CleanupIsLate, ReplyFollowsTask, VerdictFollowsReply, ReplyIsRecorded
<1>4. CASE OrphanLands(r)
  BY <1>0, <1>4 DEF OrphanLands, TypeOK, WaitersAreLive, RowFollowsRun, OrphanIsFirst,
     CleanupIsLate, ReplyFollowsTask, VerdictFollowsReply, ReplyIsRecorded
<1>5. CASE OrphanVanishes(r)
  BY <1>0, <1>5 DEF OrphanVanishes, TypeOK, WaitersAreLive, RowFollowsRun, OrphanIsFirst,
     CleanupIsLate, ReplyFollowsTask, VerdictFollowsReply, ReplyIsRecorded
<1> QED BY <1>1, <1>2, <1>3, <1>4, <1>5 DEF CleanupStep

LEMMA InvOuter ==
  ASSUME IInv,
         \/ \E b \in Batches : BatchReturns(b) \/ BatchAborted(b)
         \/ SessionUp \/ SessionDown \/ OthersChange \/ Restart
  PROVE  IInv'
<1> USE DEF IInv
<1>0. TypeOK'
  BY TypeOuter
<1>1. ASSUME NEW b \in Batches, BatchReturns(b) PROVE IInv'
  BY <1>0, <1>1 DEF BatchReturns, TypeOK, WaitersAreLive, RowFollowsRun, OrphanIsFirst,
     CleanupIsLate, ReplyFollowsTask, VerdictFollowsReply, ReplyIsRecorded
<1>2. ASSUME NEW b \in Batches, BatchAborted(b) PROVE IInv'
  <2> DEFINE gone == {r \in RunsOf(b) : pc[r] \in Active \cup {"start"}}
  <2>1. /\ pc' = [r \in Runs |-> IF r \in gone THEN "aborted" ELSE pc[r]]
        /\ waiters' = waiters \ gone
        /\ orphan' = [r \in Runs |-> IF r \in gone /\ pc[r] \in Statements THEN pc[r] ELSE orphan[r]]
        /\ cleanup' = [r \in Runs |-> IF r \in gone /\ pc[r] \in Guarded THEN MaxAttempts ELSE cleanup[r]]
        /\ UNCHANGED <<verdict, reply, task, row>>
    BY <1>2 DEF BatchAborted, DropWaiters
  <2>2. \A r \in gone : row[r] \in {NoRow, Pending} /\ row[r].why # "agent"
    BY Reasons DEF RowFollowsRun, Active, RunsOf
  <2>3. (WaitersAreLive /\ RowFollowsRun /\ CleanupIsLate)'
    BY <2>1 DEF TypeOK, WaitersAreLive, RowFollowsRun, CleanupIsLate
  <2>4. OrphanIsFirst'
    BY <2>1, <2>2 DEF TypeOK, OrphanIsFirst, RowFollowsRun
  <2>5. (ReplyFollowsTask /\ VerdictFollowsReply /\ ReplyIsRecorded)'
    BY <2>1 DEF TypeOK, ReplyFollowsTask, VerdictFollowsReply, ReplyIsRecorded
  <2> QED BY <1>0, <2>3, <2>4, <2>5
<1>3. CASE SessionUp
  BY <1>0, <1>3 DEF SessionUp, TypeOK, WaitersAreLive, RowFollowsRun, OrphanIsFirst,
     CleanupIsLate, ReplyFollowsTask, VerdictFollowsReply, ReplyIsRecorded
<1>4. CASE SessionDown
  BY <1>0, <1>4 DEF SessionDown, TypeOK, WaitersAreLive, RowFollowsRun, OrphanIsFirst,
     CleanupIsLate, ReplyFollowsTask, VerdictFollowsReply, ReplyIsRecorded
<1>5. CASE OthersChange
  BY <1>0, <1>5 DEF OthersChange, TypeOK, WaitersAreLive, RowFollowsRun, OrphanIsFirst,
     CleanupIsLate, ReplyFollowsTask, VerdictFollowsReply, ReplyIsRecorded
<1>6. CASE Restart
  <2>1. \A r \in Runs : pc'[r] \notin Active \cup {"start"}
    BY <1>6 DEF Restart, TypeOK, Active
  <2>2. \A r \in Runs : pc'[r] = "done" => pc[r] = "done"
    BY <1>6 DEF Restart, TypeOK
  <2>3. (WaitersAreLive /\ RowFollowsRun /\ OrphanIsFirst /\ CleanupIsLate)'
    BY <1>6, <2>1 DEF Restart, WaitersAreLive, RowFollowsRun, OrphanIsFirst, CleanupIsLate, Active
  <2>4. (ReplyFollowsTask /\ VerdictFollowsReply)'
    BY <1>6, <2>1 DEF Restart, ReplyFollowsTask, VerdictFollowsReply, TypeOK, Active
  <2>5. ReplyIsRecorded'
    <3> SUFFICES ASSUME NEW r \in Runs, pc'[r] = "done", reply'[r] # "none"
                 PROVE  row'[r] \in {FromAgent(reply'[r]), ServerTimeout}
      BY DEF ReplyIsRecorded
    <3>1. reply'[r] = reply[r] /\ reply[r] \in Answers
      BY <1>6 DEF Restart, TypeOK
    <3>2. row[r] \in {FromAgent(reply[r]), ServerTimeout} /\ row[r] \in Contents
      BY <2>2, <3>1 DEF ReplyIsRecorded, TypeOK
    <3>3. row[r].status # "pending"
      BY <3>1, <3>2, Reasons
    <3>4. row'[r] = Settle(row[r], Restarted)
      BY <1>6 DEF Restart
    <3> QED BY <3>1, <3>2, <3>3, <3>4, SettleFacts
  <2> QED BY <1>0, <2>3, <2>4, <2>5
<1> QED BY <1>1, <1>2, <1>3, <1>4, <1>5, <1>6

\* The invariant is inductive for dispatches in any number.
THEOREM Invariance == Spec => []IInv
<1>1. Init => IInv
  BY InvInit
<1>2. IInv /\ [Next]_vars => IInv'
  <2> SUFFICES ASSUME IInv, [Next]_vars PROVE IInv'
    OBVIOUS
  <2>1. ASSUME NEW r \in Runs, RunStep(r) PROVE IInv'
    BY <2>1, InvRun
  <2>2. ASSUME NEW r \in Runs,
               CleanupStep(r) \/ Deliver(r) \/ OrphanLands(r) \/ OrphanVanishes(r)
        PROVE  IInv'
    BY <2>2, InvLeftover
  <2>3. CASE \/ \E b \in Batches : BatchReturns(b) \/ BatchAborted(b)
             \/ SessionUp \/ SessionDown \/ OthersChange \/ Restart
    BY <2>3, InvOuter
  <2>4. CASE UNCHANGED vars
    BY <2>4 DEF vars, IInv, TypeOK, WaitersAreLive, RowFollowsRun, OrphanIsFirst,
     CleanupIsLate, ReplyFollowsTask, VerdictFollowsReply, ReplyIsRecorded
  <2> QED BY <2>1, <2>2, <2>3, <2>4 DEF Next
<1> QED BY <1>1, <1>2, PTL DEF Spec

\* Every variable keeps its type: in particular the cleanup's attempts never
\* underflow and the counts stored with a task are numbers.
THEOREM TypeCorrect == Spec => []TypeOK
<1>1. IInv => TypeOK
  BY DEF IInv
<1> QED BY <1>1, Invariance, PTL

\* No waiter outlives its dispatch in the response registry.
THEOREM NoWaiterLeaks == Spec => []WaitersAreLive
<1>1. IInv => WaitersAreLive
  BY DEF IInv
<1> QED BY <1>1, Invariance, PTL

\* A run whose result was delivered records it, or a timeout.
THEOREM RepliesAreRecorded == Spec => []ReplyIsRecorded
<1>1. IInv => ReplyIsRecorded
  BY DEF IInv
<1> QED BY <1>1, Invariance, PTL

\* A stored Agent result is final: neither a second statement of the dispatch,
\* nor one left in flight, nor the cleanup, nor a restart overwrites it.
THEOREM ResultsAreFinal == Spec => ResultIsFinal
<1>1. IInv /\ [Next]_vars => [\A r \in Runs : row[r].why = "agent" => row'[r] = row[r]]_vars
  <2> SUFFICES ASSUME IInv, Next, NEW r \in Runs, row[r].why = "agent"
               PROVE  row'[r] = row[r]
    OBVIOUS
  <2> USE DEF IInv
  <2>1. /\ row[r] # NoRow /\ row[r] # Pending
        /\ pc[r] \notin {"close", "insert", "update"}
        /\ orphan[r] = "none"
    BY Reasons DEF RowFollowsRun, OrphanIsFirst
  <2>2. \A why : Settle(row[r], why) = row[r]
    BY SettleFacts DEF TypeOK
  <2>3. ASSUME NEW q \in Runs, RunStep(q) PROVE row'[r] = row[r]
    <3>1. CASE Write(q) \/ WriteFails(q)
      <4>1. q # r
        BY <2>1, <3>1 DEF Write, WriteFails
      <4>2. \E e : row' = [row EXCEPT ![q] = e]
        BY <3>1 DEF Write, WriteFails
      <4> QED BY <4>1, <4>2 DEF TypeOK
    <3>2. CASE ~(Write(q) \/ WriteFails(q))
      BY <2>3, <3>2 DEF RunStep, StartOffline, StartOnline, SendOk, SendErr, AwaitResult,
         AwaitClosed, AwaitExpires, ReceiverDropped
    <3> QED BY <3>1, <3>2
  <2>4. ASSUME NEW q \in Runs, CleanupStep(q) PROVE row'[r] = row[r]
    BY <2>2, <2>4 DEF CleanupStep, CleanupAttempt, CleanupFails, TypeOK
  <2>5. ASSUME NEW q \in Runs, Deliver(q) \/ OrphanLands(q) \/ OrphanVanishes(q)
        PROVE  row'[r] = row[r]
    BY <2>1, <2>5 DEF Deliver, OrphanLands, OrphanVanishes, TypeOK
  <2>6. CASE Restart
    BY <2>2, <2>6 DEF Restart
  <2>7. CASE \/ \E b \in Batches : BatchReturns(b) \/ BatchAborted(b)
             \/ SessionUp \/ SessionDown \/ OthersChange
    BY <2>7 DEF BatchReturns, BatchAborted, SessionUp, SessionDown, OthersChange
  <2> QED BY <2>3, <2>4, <2>5, <2>6, <2>7 DEF Next
<1> QED BY <1>1, Invariance, PTL DEF Spec, ResultIsFinal

-----------------------------------------------------------------------------
(* The summary. *)

\* While its batch runs, a dispatch that has ended has stored its verdict.
DoneIsStored ==
    \A r \in Runs : (pc[r] = "done" /\ batch[BatchOf[r]] = "running") => row[r] = verdict[r]

LEMMA DoneInit == Init => DoneIsStored
  BY DEF Init, DoneIsStored

LEMMA DoneRun ==
  ASSUME IInv, DoneIsStored, NEW r \in Runs, RunStep(r)
  PROVE  DoneIsStored'
<1> USE DEF IInv
<1>1. batch' = batch
  BY DEF RunStep, StartOffline, StartOnline, SendOk, SendErr, Write, WriteFails, AwaitResult,
         AwaitClosed, AwaitExpires, ReceiverDropped
<1>2. \A q \in Runs \ {r} : pc'[q] = pc[q] /\ row'[q] = row[q] /\ verdict'[q] = verdict[q]
  BY DEF RunStep, StartOffline, StartOnline, SendOk, SendErr, Write, WriteFails, AwaitResult,
         AwaitClosed, AwaitExpires, ReceiverDropped, TypeOK
<1>3. pc'[r] = "done" => row'[r] = verdict'[r]
  <2>1. CASE Write(r)
    <3>1. /\ row'[r] = Effect(pc[r], row[r], verdict[r]) /\ verdict' = verdict
          /\ pc[r] \in {"close", "insert", "update"}
      BY <2>1 DEF Write, TypeOK
    <3>2. pc[r] = "update" => row[r] # NoRow
      <4>1. Pending # NoRow
        BY DEF Pending, NoRow
      <4> QED BY <4>1 DEF RowFollowsRun
    <3> QED BY <3>1, <3>2 DEF Effect
  <2>2. CASE ~Write(r)
    BY <2>2 DEF RunStep, StartOffline, StartOnline, SendOk, SendErr, WriteFails, AwaitResult,
         AwaitClosed, AwaitExpires, ReceiverDropped, TypeOK
  <2> QED BY <2>1, <2>2
<1> QED BY <1>1, <1>2, <1>3 DEF DoneIsStored

LEMMA DoneNext == IInv /\ DoneIsStored /\ [Next]_vars => DoneIsStored'
<1> SUFFICES ASSUME IInv, DoneIsStored, [Next]_vars PROVE DoneIsStored'
  OBVIOUS
<1> USE DEF IInv
<1>1. ASSUME NEW r \in Runs, RunStep(r) PROVE DoneIsStored'
  BY <1>1, DoneRun
<1>2. ASSUME NEW r \in Runs, CleanupStep(r) \/ OrphanLands(r) PROVE DoneIsStored'
  <2>1. pc[r] # "done" /\ UNCHANGED <<pc, batch, verdict>>
    BY <1>2 DEF CleanupStep, CleanupAttempt, CleanupFails, OrphanLands, CleanupIsLate,
                OrphanIsFirst, TypeOK
  <2>2. \A q \in Runs \ {r} : row'[q] = row[q]
    BY <1>2 DEF CleanupStep, CleanupAttempt, CleanupFails, OrphanLands, TypeOK
  <2> QED BY <2>1, <2>2 DEF DoneIsStored
<1>3. ASSUME NEW r \in Runs, Deliver(r) \/ OrphanVanishes(r) PROVE DoneIsStored'
  BY <1>3 DEF Deliver, OrphanVanishes, DoneIsStored
<1>4. ASSUME NEW b \in Batches, BatchReturns(b) \/ BatchAborted(b) PROVE DoneIsStored'
  <2>1. /\ UNCHANGED <<row, verdict>>
        /\ \A r \in Runs : pc'[r] = "done" => pc[r] = "done"
        /\ \A k \in Batches : batch'[k] = "running" => batch[k] = "running"
    BY <1>4 DEF BatchReturns, BatchAborted, TypeOK
  <2> QED BY <2>1, BatchAssumption DEF DoneIsStored
<1>5. CASE SessionUp \/ SessionDown \/ OthersChange \/ UNCHANGED vars
  BY <1>5 DEF SessionUp, SessionDown, OthersChange, vars, DoneIsStored
<1>6. CASE Restart
  <2>1. \A b \in Batches : batch'[b] # "running"
    BY <1>6 DEF Restart
  <2> QED BY <2>1, BatchAssumption DEF DoneIsStored
<1> QED BY <1>1, <1>2, <1>3, <1>4, <1>5, <1>6 DEF Next

\* The counts stored with the task when its batch returns are those of the
\* rows, although each was counted from what the dispatch itself remembers.
THEOREM SummaryIsTrue == Spec => SummaryMatchesRows
<1>1. ASSUME IInv, DoneIsStored, Next, NEW b \in Batches, batch[b] = "running", batch'[b] = "ok"
      PROVE  summary'[b] = Count(row', b)
  <2> USE DEF IInv
  <2>0. CASE \E r \in Runs : \/ RunStep(r) \/ CleanupStep(r) \/ Deliver(r)
                             \/ OrphanLands(r) \/ OrphanVanishes(r)
    BY <1>1, <2>0 DEF RunStep, StartOffline, StartOnline, SendOk, SendErr, Write, WriteFails,
       AwaitResult, AwaitClosed, AwaitExpires, ReceiverDropped, CleanupStep, CleanupAttempt,
       CleanupFails, Deliver, OrphanLands, OrphanVanishes
  <2>1. CASE ~\E r \in Runs : \/ RunStep(r) \/ CleanupStep(r) \/ Deliver(r)
                              \/ OrphanLands(r) \/ OrphanVanishes(r)
    <3>1. PICK k \in Batches : BatchReturns(k) \/ BatchAborted(k)
      BY <1>1, <2>1 DEF Next, SessionUp, SessionDown, OthersChange, Restart
    <3>2. BatchReturns(k) /\ k = b
      BY <1>1, <3>1 DEF BatchReturns, BatchAborted, TypeOK
    <3>3. /\ \A r \in RunsOf(b) : pc[r] = "done"
          /\ summary'[b] = Count(verdict, b) /\ row' = row
      BY <1>1, <3>2 DEF BatchReturns, TypeOK
    <3>4. \A r \in RunsOf(b) : row[r] = verdict[r]
      BY <1>1, <3>3 DEF DoneIsStored, RunsOf
    <3>5. ASSUME NEW s \in Statuses
          PROVE  {r \in RunsOf(b) : verdict[r].status = s} = {r \in RunsOf(b) : row[r].status = s}
      BY <3>4
    <3>6. Count(verdict, b) = Count(row, b)
      BY <3>5 DEF Count
    <3> QED BY <3>3, <3>6
  <2> QED BY <2>0, <2>1
<1>2. IInv /\ DoneIsStored /\ [Next]_vars =>
        [\A b \in Batches :
            (batch[b] = "running" /\ batch'[b] = "ok") => summary'[b] = Count(row', b)]_vars
  BY <1>1
<1>3. Init /\ []IInv /\ [][Next]_vars => []DoneIsStored
  BY DoneInit, DoneNext, PTL
<1> QED BY <1>2, <1>3, Invariance, PTL DEF Spec, SummaryMatchesRows

=============================================================================

-------------------------- MODULE AlertEngineProofs --------------------------
(***************************************************************************)
(* The alert engine's states agree with the events it stored, and the      *)
(* events of a rule come in order, for any rules, conditions and bounds.   *)
(*                                                                         *)
(* What has to be carried along: a decision stays true until its event is  *)
(* stored, because only the loop changes states and time only grows; and   *)
(* the loop works on a copy of the rule, whose mode is that of the row and *)
(* of the rule's last event however often rows are edited or deleted.      *)
(***************************************************************************)
EXTENDS AlertEngine, TLAPS

Busy == {"check", "decide", "insert", "tasks", "channels", "store"}
After == {"tasks", "channels", "store"}
Fields == {"id", "rule", "i", "trusted", "hit", "kind", "tasks", "told"}

\* The variables the argument is about.
RulesTyped ==
    /\ time \in Times
    /\ row \in [Rules -> Rule \cup {Nothing, Deleted}]
    /\ create # Idle => create.rule \in Rule
    /\ states \in [Rules -> State \cup {Nothing}]
    /\ last \in [Rules -> Event \cup {Nothing}]
    /\ pc \in Busy \cup {"idle", "next"}
    /\ \A x \in todo : x.id \in Rules /\ x.rule \in Rule

\* A rule in evaluation is a record of the loop's locals.
CurTyped ==
    pc \in Busy => /\ cur = [f \in Fields |-> cur[f]]
                   /\ cur.id \in Rules /\ cur.rule \in Rule

\* x is a copy of rule r: its row is there, was edited without a change of mode, or
\* is deleted, and the events stored for it are of this mode.
CopyOf(r, x) ==
    /\ row[r] # Nothing
    /\ row[r] # Deleted => row[r].mode = x.mode
    /\ last[r] # Nothing => last[r].mode = x.mode

CopiesAgree ==
    /\ \A x \in todo : CopyOf(x.id, x.rule)
    /\ pc \in Busy => CopyOf(cur.id, cur.rule)

\* An event is of the mode of the rule's row.
EventsAgree ==
    \A r \in Rules : last[r] # Nothing =>
        /\ last[r].at <= time
        /\ row[r] # Nothing
        /\ row[r] # Deleted => row[r].mode = last[r].mode

\* What evaluate_rule decided is still so when its event is stored.
DecisionStands ==
    pc = "insert" =>
        \/ cur.kind = "fired" /\ MayFire(cur.id, cur.rule.mode)
        \/ cur.kind = "recovered" /\ Active(cur.id)

\* Between the event and the new state, the rule's last event is the one decided.
EventIsStored ==
    pc \in After => /\ last[cur.id] # Nothing
                    /\ last[cur.id].kind = cur.kind
                    /\ last[cur.id].mode = cur.rule.mode

\* The throttle counts from the last event or from later.
ThrottleCounts ==
    \A r \in Rules :
        ~Firing(r) /\ Active(r) /\ last[r].mode = "always" =>
            states[r].always # Nothing /\ states[r].always >= last[r].at

IInv ==
    /\ RulesTyped /\ CurTyped /\ CopiesAgree /\ EventsAgree
    /\ DecisionStands /\ EventIsStored /\ StateMatchesEvents /\ ThrottleCounts

-----------------------------------------------------------------------------
(* The invariant. *)

LEMMA InitIInv == Init => IInv
<1> SUFFICES ASSUME Init PROVE IInv
    OBVIOUS
<1> USE AlertAssumption, NotificationsAssumption
<1>1. RulesTyped
  BY DEF Init, RulesTyped, Times
<1>2. CurTyped /\ CopiesAgree /\ DecisionStands /\ EventIsStored
  BY DEF Init, CurTyped, CopiesAgree, DecisionStands, EventIsStored, Busy, After
<1>3. EventsAgree /\ StateMatchesEvents /\ ThrottleCounts
  BY DEF Init, EventsAgree, StateMatchesEvents, ThrottleCounts, Active
<1> QED
  BY <1>1, <1>2, <1>3 DEF IInv

\* Around the engine: the loop's variables stay, time only grows, and a row that is
\* there keeps its mode until it is deleted, which it stays.
LEMMA AroundTheEngine ==
    ASSUME IInv, UNCHANGED <<pc, todo, cur, states, last>>,
           time' \in Times, time' >= time,
           row' \in [Rules -> Rule \cup {Nothing, Deleted}],
           create' # Idle => create'.rule \in Rule,
           \A r \in Rules : row[r] # Nothing =>
               /\ row'[r] # Nothing
               /\ row'[r] # Deleted => row[r] # Deleted /\ row'[r].mode = row[r].mode
    PROVE  IInv'
<1> USE DEF IInv
<1>1. RulesTyped'
  BY DEF RulesTyped, Idle
<1>2. CurTyped'
  BY DEF CurTyped
<1>3. CopiesAgree'
  <2>1. \A r \in Rules : \A x : CopyOf(r, x) => CopyOf(r, x)'
    BY DEF CopyOf
  <2>2. /\ \A x \in todo : x.id \in Rules
        /\ pc \in Busy => cur.id \in Rules
    BY DEF RulesTyped, CurTyped
  <2> QED
    BY <2>1, <2>2 DEF CopiesAgree
<1>4. EventsAgree'
  <2> SUFFICES ASSUME NEW r \in Rules, last[r] # Nothing
               PROVE  /\ last[r].at <= time'
                      /\ row'[r] # Nothing
                      /\ row'[r] # Deleted => row'[r].mode = last[r].mode
    BY DEF EventsAgree
  <2>1. last[r].at \in Int /\ time \in Int /\ time' \in Int
    BY DEF RulesTyped, Event, Times
  <2> QED
    BY <2>1 DEF EventsAgree
<1>5. DecisionStands'
  <2> SUFFICES ASSUME pc = "insert"
               PROVE  DecisionStands'
    BY DEF DecisionStands
  <2>1. CASE cur.kind = "recovered" /\ Active(cur.id)
    BY <2>1 DEF DecisionStands, Active
  <2>2. CASE cur.kind = "fired" /\ MayFire(cur.id, cur.rule.mode)
    <3>1. cur.id \in Rules
      BY DEF CurTyped, Busy
    <3>2. states[cur.id] # Nothing /\ states[cur.id].always # Nothing =>
            states[cur.id].always \in Int
      BY <3>1 DEF RulesTyped, State, Times
    <3>3. time \in Int /\ time' \in Int /\ Throttle \in Int
      BY AlertAssumption DEF RulesTyped, Times
    <3>4. MayFire(cur.id, cur.rule.mode)'
      BY <2>2, <3>2, <3>3 DEF MayFire, Active
    <3> QED
      BY <2>2, <3>4 DEF DecisionStands
  <2> QED
    BY <2>1, <2>2 DEF DecisionStands
<1>6. EventIsStored'
  BY DEF EventIsStored
<1>7. StateMatchesEvents'
  BY DEF StateMatchesEvents, Active, Firing
<1>8. ThrottleCounts'
  BY DEF ThrottleCounts, Active, Firing
<1> QED
  BY <1>1, <1>2, <1>3, <1>4, <1>5, <1>6, <1>7, <1>8

\* Steps of evaluate_rule that only change its locals.
LEMMA LocalStep ==
    ASSUME IInv, UNCHANGED <<time, row, create, states, last, todo>>,
           pc \in Busy, pc' \in Busy \ {"insert"}, pc' \in After <=> pc \in After,
           cur' = [f \in Fields |-> cur'[f]],
           cur'.id = cur.id, cur'.rule = cur.rule, cur'.kind = cur.kind
    PROVE  IInv'
<1> USE DEF IInv
<1>1. RulesTyped'
  BY DEF RulesTyped
<1>2. CurTyped'
  BY DEF CurTyped
<1>3. CopiesAgree'
  BY DEF CopiesAgree, CopyOf
<1>4. EventsAgree'
  BY DEF EventsAgree
<1>5. DecisionStands'
  BY DEF DecisionStands
<1>6. EventIsStored'
  BY DEF EventIsStored
<1>7. \A r \in Rules : Firing(r)' <=> Firing(r)
  BY DEF Firing, After
<1>8. StateMatchesEvents'
  BY <1>7 DEF StateMatchesEvents, Active
<1>9. ThrottleCounts'
  BY <1>7 DEF ThrottleCounts, Active
<1> QED
  BY <1>1, <1>2, <1>3, <1>4, <1>5, <1>6, <1>8, <1>9

\* The loop turns to its next rule, or the engine starts anew, without a stored
\* event in between: what is left in memory agrees as before.
LEMMA BetweenRules ==
    ASSUME IInv, UNCHANGED <<time, row, create>>,
           pc' \in {"idle", "next"}, pc \notin After,
           \A x \in todo' : x.id \in Rules /\ x.rule \in Rule /\ CopyOf(x.id, x.rule)',
           states' \in [Rules -> State \cup {Nothing}],
           last' \in [Rules -> Event \cup {Nothing}],
           \A r \in Rules : \/ states'[r] = states[r] /\ last'[r] = last[r]
                            \/ states'[r] = Nothing /\ last'[r] = Nothing
    PROVE  IInv'
<1> USE DEF IInv
<1>1. RulesTyped'
  BY DEF RulesTyped
<1>2. CurTyped' /\ CopiesAgree' /\ DecisionStands' /\ EventIsStored'
  BY DEF CurTyped, CopiesAgree, DecisionStands, EventIsStored, Busy, After
<1>3. \A r \in Rules : ~Firing(r) /\ ~Firing(r)'
  BY DEF Firing, After
<1>4. EventsAgree'
  BY DEF EventsAgree
<1>5. StateMatchesEvents'
  BY <1>3 DEF StateMatchesEvents, Active
<1>6. ThrottleCounts'
  BY <1>3 DEF ThrottleCounts, Active
<1> QED
  BY <1>1, <1>2, <1>4, <1>5, <1>6

LEMMA LoadRulesStep == IInv /\ LoadRules => IInv'
<1> SUFFICES ASSUME IInv, LoadRules PROVE IInv'
    OBVIOUS
<1> DEFINE ids == {r \in Rules : Loaded(r) /\ row[r].enabled}
<1>1. /\ pc = "idle" /\ pc' = "next"
      /\ todo' = {[id |-> r, rule |-> row[r]] : r \in ids}
      /\ states' = [r \in Rules |-> IF r \in ids THEN states[r] ELSE Nothing]
      /\ last' = [r \in Rules |-> IF r \in ids THEN last[r] ELSE Nothing]
      /\ UNCHANGED <<time, row, create>>
  BY DEF LoadRules, Pruned, tables
<1>2. ASSUME NEW r \in ids
      PROVE  r \in Rules /\ row[r] \in Rule /\ row[r] # Nothing /\ row[r] # Deleted /\ last'[r] = last[r]
  BY <1>1 DEF Loaded, Exists, IInv, RulesTyped
<1>3. ASSUME NEW r \in ids
      PROVE  CopyOf(r, row[r])'
  BY <1>1, <1>2 DEF IInv, EventsAgree, CopyOf
<1>4. ASSUME NEW x \in todo'
      PROVE  x.id \in Rules /\ x.rule \in Rule /\ CopyOf(x.id, x.rule)'
  <2>1. PICK r \in ids : x = [id |-> r, rule |-> row[r]]
    BY <1>1
  <2>2. x.id = r /\ x.rule = row[r] /\ row'[r] = row[r]
    BY <1>1, <2>1
  <2>3. CopyOf(r, row[r])'
    BY <1>3
  <2> QED
    BY <1>1, <1>2, <2>2, <2>3 DEF CopyOf
<1>5. /\ states' \in [Rules -> State \cup {Nothing}]
      /\ last' \in [Rules -> Event \cup {Nothing}]
  BY <1>1 DEF IInv, RulesTyped
<1> HIDE DEF ids
<1>6. \A r \in Rules : \/ states'[r] = states[r] /\ last'[r] = last[r]
                       \/ states'[r] = Nothing /\ last'[r] = Nothing
  BY <1>1
<1> QED
  BY <1>1, <1>4, <1>5, <1>6, BetweenRules DEF After

LEMMA NextRuleStep == IInv /\ NextRule => IInv'
<1> SUFFICES ASSUME IInv, NextRule PROVE IInv'
    OBVIOUS
<1>1. pc = "next" /\ UNCHANGED <<time, row, create, states, last>>
  BY DEF NextRule, Others, tables
<1>2. CASE todo = {}
  <2>1. pc' = "idle" /\ todo' = todo /\ cur' = cur
    BY <1>2 DEF NextRule
  <2> QED
    BY <1>1, <1>2, <2>1, BetweenRules DEF IInv, RulesTyped, After
<1>3. CASE todo # {}
  <2>1. PICK x \in todo :
           /\ todo' = todo \ {x} /\ pc' = "check"
           /\ cur' = [id |-> x.id, rule |-> x.rule, i |-> 1, trusted |-> {}, hit |-> Nothing,
                      kind |-> Nothing, tasks |-> {}, told |-> {}]
    BY <1>3 DEF NextRule
  <2>2. x.id \in Rules /\ x.rule \in Rule /\ CopyOf(x.id, x.rule)
    BY DEF IInv, RulesTyped, CopiesAgree
  <2>3. cur'.id = x.id /\ cur'.rule = x.rule
    BY <2>1
  <2>4. cur' = [f \in Fields |-> cur'[f]]
    BY <2>1 DEF Fields
  <2>5. RulesTyped'
    BY <1>1, <2>1 DEF IInv, RulesTyped, Busy
  <2>6. CurTyped'
    BY <2>2, <2>3, <2>4 DEF CurTyped
  <2>7. CopiesAgree'
    BY <1>1, <2>1, <2>2, <2>3 DEF IInv, CopiesAgree, CopyOf
  <2>8. DecisionStands' /\ EventIsStored'
    BY <2>1 DEF DecisionStands, EventIsStored, After
  <2>9. \A r \in Rules : ~Firing(r) /\ ~Firing(r)'
    BY <1>1, <2>1 DEF Firing
  <2>10. EventsAgree' /\ StateMatchesEvents' /\ ThrottleCounts'
    BY <1>1, <2>9 DEF IInv, EventsAgree, StateMatchesEvents, ThrottleCounts, Active
  <2> QED
    BY <2>5, <2>6, <2>7, <2>8, <2>10 DEF IInv
<1> QED
  BY <1>2, <1>3

\* The rest of the rule is left to the next round.
LEMMA AbandonStep ==
    ASSUME IInv, Abandon, pc \notin After
    PROVE  IInv'
<1>1. /\ pc' = "next"
      /\ UNCHANGED <<time, row, create, states, last, todo>>
  BY DEF Abandon, Others, tables
<1>2. \A x \in todo : x.id \in Rules /\ x.rule \in Rule /\ CopyOf(x.id, x.rule)'
  BY <1>1 DEF IInv, RulesTyped, CopiesAgree, CopyOf
<1>3. /\ states' \in [Rules -> State \cup {Nothing}]
      /\ last' \in [Rules -> Event \cup {Nothing}]
  BY <1>1 DEF IInv, RulesTyped
<1> QED
  BY <1>1, <1>2, <1>3, BetweenRules

LEMMA CheckStep == IInv /\ (CheckCondition \/ OfflineReadFails) => IInv'
<1> SUFFICES ASSUME IInv, CheckCondition \/ OfflineReadFails PROVE IInv'
    OBVIOUS
<1>1. pc = "check" /\ pc' \in {"check", "decide"} /\ UNCHANGED <<time, row, create, states, last, todo>>
  BY DEF CheckCondition, OfflineReadFails, Others, tables
<1>2. cur = [f \in Fields |-> cur[f]]
  BY <1>1 DEF IInv, CurTyped, Busy
<1>3. \E i, t, h : cur' = [cur EXCEPT !.i = i, !.trusted = t, !.hit = h]
  <2>1. CASE OfflineReadFails
    <3>1. cur' = [cur EXCEPT !.i = cur.i, !.trusted = cur.trusted \cup {cur.rule.conds[cur.i]}, !.hit = cur.rule.conds[cur.i]]
      BY <1>2, <2>1 DEF OfflineReadFails, Fields
    <3> QED
      BY <3>1
  <2>2. CASE CheckCondition
    <3> DEFINE c == cur.rule.conds[cur.i]
               x == check_condition(c)
               more == cur.i < Len(cur.rule.conds)
    <3>1. \/ cur' = [cur EXCEPT !.i = IF x.hit \/ ~more THEN cur.i ELSE cur.i + 1,
                                !.trusted = @ \cup {c}, !.hit = IF x.hit THEN c ELSE Nothing]
          \/ cur' = [cur EXCEPT !.i = IF more THEN cur.i + 1 ELSE cur.i]
      BY <2>2 DEF CheckCondition
    <3> HIDE DEF c, x, more
    <3>2. CASE cur' = [cur EXCEPT !.i = IF more THEN cur.i + 1 ELSE cur.i]
      <4>1. cur' = [cur EXCEPT !.i = IF more THEN cur.i + 1 ELSE cur.i, !.trusted = cur.trusted, !.hit = cur.hit]
        BY <1>2, <3>2 DEF Fields
      <4> QED
        BY <4>1
    <3>3. CASE cur' = [cur EXCEPT !.i = IF x.hit \/ ~more THEN cur.i ELSE cur.i + 1,
                                  !.trusted = @ \cup {c}, !.hit = IF x.hit THEN c ELSE Nothing]
      BY <3>3, Zenon
    <3> QED
      BY <3>1, <3>2, <3>3
  <2> QED
    BY <2>1, <2>2
<1>4. /\ cur' = [f \in Fields |-> cur'[f]]
      /\ cur'.id = cur.id /\ cur'.rule = cur.rule /\ cur'.kind = cur.kind
  BY <1>2, <1>3 DEF Fields
<1> QED
  BY <1>1, <1>4, LocalStep DEF Busy, After

LEMMA DecideStep == IInv /\ Decide => IInv'
<1> SUFFICES ASSUME IInv, Decide PROVE IInv'
    OBVIOUS
<1> DEFINE r == cur.id
           kind == IF cur.hit # Nothing /\ MayFire(r, cur.rule.mode) THEN "fired"
                   ELSE IF cur.hit = Nothing /\ Active(r) THEN "recovered" ELSE Nothing
<1>1. pc = "decide" /\ UNCHANGED <<time, row, create, todo>>
  BY DEF Decide, tables
<1>2. cur = [f \in Fields |-> cur[f]] /\ cur.id \in Rules /\ cur.rule \in Rule
  BY <1>1 DEF IInv, CurTyped, Busy
<1>3. CASE cur.trusted = {}
  <2>1. /\ states' = [states EXCEPT ![cur.id] = Nothing]
        /\ last' = [last EXCEPT ![cur.id] = Nothing]
        /\ pc' = "next"
    BY <1>3 DEF Decide
  <2>2. \A q \in Rules : \/ states'[q] = states[q] /\ last'[q] = last[q]
                         \/ states'[q] = Nothing /\ last'[q] = Nothing
    BY <2>1 DEF IInv, RulesTyped
  <2>3. /\ states' \in [Rules -> State \cup {Nothing}]
        /\ last' \in [Rules -> Event \cup {Nothing}]
    BY <2>1 DEF IInv, RulesTyped
  <2>4. \A x \in todo' : x.id \in Rules /\ x.rule \in Rule /\ CopyOf(x.id, x.rule)'
    BY <1>1, <2>2 DEF IInv, RulesTyped, CopiesAgree, CopyOf
  <2> QED
    BY <1>1, <2>1, <2>2, <2>3, <2>4, BetweenRules DEF After
<1>4. CASE cur.trusted # {} /\ kind = Nothing
  <2>1. pc' = "next" /\ UNCHANGED <<states, last>>
    BY <1>4 DEF Decide
  <2>2. \A x \in todo' : x.id \in Rules /\ x.rule \in Rule /\ CopyOf(x.id, x.rule)'
    BY <1>1, <2>1 DEF IInv, RulesTyped, CopiesAgree, CopyOf
  <2> QED
    BY <1>1, <2>1, <2>2, BetweenRules DEF After, IInv, RulesTyped
<1>5. CASE cur.trusted # {} /\ kind # Nothing
  <2>1. pc' = "insert" /\ cur' = [cur EXCEPT !.kind = kind] /\ UNCHANGED <<states, last>>
    BY <1>5 DEF Decide
  <2>2. /\ cur' = [f \in Fields |-> cur'[f]]
        /\ cur'.id = cur.id /\ cur'.rule = cur.rule /\ cur'.kind = kind
    <3> HIDE DEF kind
    <3> QED
      BY <1>2, <2>1 DEF Fields
  <2>3. \/ kind = "fired" /\ MayFire(cur.id, cur.rule.mode)
        \/ kind = "recovered" /\ Active(cur.id)
    BY <1>5
  <2> HIDE DEF kind
  <2>4. DecisionStands'
    <3>1. MayFire(cur.id, cur.rule.mode) => MayFire(cur.id, cur.rule.mode)'
      BY <1>1, <2>1, <2>2 DEF MayFire, Active
    <3>2. Active(cur.id) => Active(cur.id)'
      BY <2>1, <2>2 DEF Active
    <3> QED
      BY <2>2, <2>3, <3>1, <3>2 DEF DecisionStands
  <2>5. RulesTyped' /\ CurTyped' /\ EventsAgree' /\ EventIsStored'
    BY <1>1, <1>2, <2>1, <2>2 DEF IInv, RulesTyped, CurTyped, EventsAgree, EventIsStored, Busy, After
  <2>6. CopiesAgree'
    BY <1>1, <2>1, <2>2 DEF IInv, CopiesAgree, CopyOf, Busy
  <2>7. \A q \in Rules : ~Firing(q) /\ ~Firing(q)'
    BY <1>1, <2>1 DEF Firing
  <2>8. StateMatchesEvents' /\ ThrottleCounts'
    BY <2>1, <2>7 DEF IInv, StateMatchesEvents, ThrottleCounts, Active
  <2> QED
    BY <2>4, <2>5, <2>6, <2>8 DEF IInv
<1> QED
  BY <1>3, <1>4, <1>5

LEMMA FireInsertStep == IInv /\ FireInsert => IInv'
<1> SUFFICES ASSUME IInv, FireInsert PROVE IInv'
    OBVIOUS
<1> DEFINE e == [kind |-> cur.kind, at |-> time, mode |-> cur.rule.mode]
<1>1. /\ pc = "insert" /\ pc' = "tasks" /\ Exists(cur.id)
      /\ last' = [last EXCEPT ![cur.id] = e]
      /\ cur' = [cur EXCEPT !.hit = Source]
      /\ UNCHANGED <<time, row, create, states, todo>>
  BY DEF FireInsert, tables, memory
<1>2. cur = [f \in Fields |-> cur[f]] /\ cur.id \in Rules /\ cur.rule \in Rule
  BY <1>1 DEF IInv, CurTyped, Busy
<1>3. /\ cur' = [f \in Fields |-> cur'[f]]
      /\ cur'.id = cur.id /\ cur'.rule = cur.rule /\ cur'.kind = cur.kind
  BY <1>1, <1>2 DEF Fields
<1>4. e \in Event /\ e # Nothing
  <2>1. cur.kind \in {"fired", "recovered"}
    BY <1>1 DEF IInv, DecisionStands
  <2>2. cur.rule.mode \in {"once", "always"} /\ time \in Times
    BY <1>2 DEF Rule, IInv, RulesTyped
  <2> QED
    BY <2>1, <2>2, AlertAssumption DEF Event
<1>5. /\ last' \in [Rules -> Event \cup {Nothing}]
      /\ last'[cur.id] = e
      /\ \A q \in Rules : q # cur.id => last'[q] = last[q]
  BY <1>1, <1>2, <1>4 DEF IInv, RulesTyped
<1>6. e.kind = cur.kind /\ e.mode = cur.rule.mode /\ e.at = time
  OBVIOUS
<1> HIDE DEF e
<1>7. RulesTyped' /\ CurTyped' /\ DecisionStands'
  BY <1>1, <1>2, <1>3, <1>5 DEF IInv, RulesTyped, CurTyped, DecisionStands, Busy
<1>8. EventIsStored'
  BY <1>3, <1>4, <1>5, <1>6 DEF EventIsStored
<1>9. row[cur.id] # Nothing /\ row[cur.id] # Deleted /\ row[cur.id].mode = cur.rule.mode
  BY <1>1 DEF Exists, IInv, CopiesAgree, CopyOf, Busy
<1>10. EventsAgree'
  <2> SUFFICES ASSUME NEW q \in Rules, last'[q] # Nothing
               PROVE  /\ last'[q].at <= time
                      /\ row[q] # Nothing
                      /\ row[q] # Deleted => row[q].mode = last'[q].mode
    BY <1>1 DEF EventsAgree
  <2>1. CASE q = cur.id
    BY <1>5, <1>6, <1>9, <2>1 DEF IInv, RulesTyped, Times
  <2>2. CASE q # cur.id
    BY <1>5, <2>2 DEF IInv, EventsAgree
  <2> QED
    BY <2>1, <2>2
<1>11. CopiesAgree'
  <2>1. CopyOf(cur.id, cur.rule)'
    <3>1. last'[cur'.id].mode = cur'.rule.mode
      BY <1>3, <1>5, <1>6
    <3> QED
      BY <1>1, <1>3, <1>9, <3>1 DEF CopyOf
  <2>2. ASSUME NEW x \in todo
        PROVE  CopyOf(x.id, x.rule)'
    <3>1. CopyOf(x.id, x.rule) /\ x.id \in Rules
      BY DEF IInv, CopiesAgree, RulesTyped
    <3>2. CASE x.id = cur.id
      BY <1>1, <1>5, <1>6, <1>9, <3>1, <3>2 DEF CopyOf
    <3>3. CASE x.id # cur.id
      BY <1>1, <1>5, <3>1, <3>3 DEF CopyOf
    <3> QED
      BY <3>2, <3>3
  <2> QED
    BY <1>1, <2>1, <2>2 DEF CopiesAgree
<1>12. \A q \in Rules : q # cur.id => ~Firing(q) /\ last'[q] = last[q]
  BY <1>1, <1>5 DEF Firing
<1>13. Firing(cur.id)'
  BY <1>1 DEF Firing
<1>14. StateMatchesEvents' /\ ThrottleCounts'
  BY <1>1, <1>3, <1>12, <1>13 DEF IInv, StateMatchesEvents, ThrottleCounts, Active, Firing
<1> QED
  BY <1>7, <1>8, <1>10, <1>11, <1>14 DEF IInv

LEMMA AfterStep == IInv /\ (TriggerTasks \/ TellChannels) => IInv'
<1> SUFFICES ASSUME IInv, TriggerTasks \/ TellChannels PROVE IInv'
    OBVIOUS
<1>1. /\ pc \in {"tasks", "channels"} /\ pc' \in {"channels", "store"}
      /\ UNCHANGED <<time, row, create, states, last, todo>>
  BY DEF TriggerTasks, TellChannels, Others, tables
<1>2. cur = [f \in Fields |-> cur[f]]
  BY <1>1 DEF IInv, CurTyped, Busy
<1>3. /\ cur' = [f \in Fields |-> cur'[f]]
      /\ cur'.id = cur.id /\ cur'.rule = cur.rule /\ cur'.kind = cur.kind
  <2>1. \/ cur' = cur
        \/ \E t : cur' = [cur EXCEPT !.tasks = t]
        \/ \E t : cur' = [cur EXCEPT !.told = t]
    BY Zenon DEF TriggerTasks, TellChannels
  <2> QED
    BY <1>2, <2>1 DEF Fields
<1> QED
  BY <1>1, <1>3, LocalStep DEF Busy, After

LEMMA StoreStateStep == IInv /\ StoreState => IInv'
<1> SUFFICES ASSUME IInv, StoreState PROVE IInv'
    OBVIOUS
<1> USE AlertAssumption
<1> DEFINE s == NewState(cur.kind, cur.rule.mode)
<1>1. /\ pc = "store" /\ pc' = "next"
      /\ states' = [states EXCEPT ![cur.id] = s]
      /\ UNCHANGED <<time, row, create, last, todo>>
  BY DEF StoreState, Others, tables
<1>2. cur.id \in Rules
  BY <1>1 DEF IInv, CurTyped, Busy
<1>3. s \in State /\ s # Nothing
  <2>1. time \in Times \cup {Nothing} /\ Nothing \in Times \cup {Nothing}
    BY DEF IInv, RulesTyped
  <2>2. (cur.kind = "fired") \in BOOLEAN
    OBVIOUS
  <2>3. s \in State
    BY <2>1, <2>2 DEF NewState, State
  <2> QED
    BY <2>3
<1>4. /\ states' \in [Rules -> State \cup {Nothing}]
      /\ states'[cur.id] = s
      /\ \A q \in Rules : q # cur.id => states'[q] = states[q]
  BY <1>1, <1>2, <1>3 DEF IInv, RulesTyped
<1>5. /\ last[cur.id] # Nothing /\ last[cur.id].kind = cur.kind
      /\ last[cur.id].mode = cur.rule.mode /\ last[cur.id].at <= time
  BY <1>1, <1>2 DEF IInv, EventIsStored, EventsAgree, After
<1>6. RulesTyped' /\ CurTyped' /\ DecisionStands' /\ EventIsStored' /\ EventsAgree'
  BY <1>1, <1>4 DEF IInv, RulesTyped, CurTyped, DecisionStands, EventIsStored, EventsAgree, Busy, After
<1>7. CopiesAgree'
  BY <1>1 DEF IInv, CopiesAgree, CopyOf, Busy
<1>8. /\ s.active <=> cur.kind = "fired"
      /\ cur.kind = "fired" /\ cur.rule.mode = "always" => s.always = time
  BY DEF NewState
<1>9. time \in Times /\ Nothing \notin Times
  BY DEF IInv, RulesTyped
<1> HIDE DEF s
<1>10. StateMatchesEvents'
  <2> SUFFICES ASSUME NEW q \in Rules
               PROVE  Active(q)' <=> last[q] # Nothing /\ last[q].kind = "fired"
    BY <1>1 DEF StateMatchesEvents
  <2>1. CASE q = cur.id
    BY <1>3, <1>4, <1>5, <1>8, <2>1 DEF Active
  <2>2. CASE q # cur.id
    BY <1>1, <1>4, <2>2 DEF IInv, StateMatchesEvents, Active, Firing
  <2> QED
    BY <2>1, <2>2
<1>11. ThrottleCounts'
  <2> SUFFICES ASSUME NEW q \in Rules, Active(q)', last[q].mode = "always"
               PROVE  states'[q].always # Nothing /\ states'[q].always >= last[q].at
    BY <1>1 DEF ThrottleCounts
  <2>1. CASE q = cur.id
    <3>1. s.always = time
      BY <1>4, <1>5, <1>8, <2>1 DEF Active
    <3>2. last[cur.id].at \in Int /\ time \in Int
      BY <1>2, <1>5, <1>9 DEF IInv, RulesTyped, Event, Times
    <3> QED
      BY <1>4, <1>5, <1>9, <2>1, <3>1, <3>2
  <2>2. CASE q # cur.id
    BY <1>1, <1>4, <2>2 DEF IInv, ThrottleCounts, Active, Firing
  <2> QED
    BY <2>1, <2>2
<1> QED
  BY <1>6, <1>7, <1>10, <1>11 DEF IInv

LEMMA RestartStep == IInv /\ Restart => IInv'
<1> SUFFICES ASSUME IInv, Restart PROVE IInv'
    OBVIOUS
<1>1. /\ pc' = "idle" /\ todo' = {} /\ create' = Idle
      /\ states' = [r \in Rules |-> Nothing] /\ last' = [r \in Rules |-> Nothing]
      /\ UNCHANGED <<time, row>>
  BY DEF Restart
<1>2. RulesTyped'
  BY <1>1 DEF IInv, RulesTyped
<1>3. CurTyped' /\ CopiesAgree' /\ DecisionStands' /\ EventIsStored'
  BY <1>1 DEF CurTyped, CopiesAgree, DecisionStands, EventIsStored, Busy, After
<1>4. EventsAgree' /\ StateMatchesEvents' /\ ThrottleCounts'
  BY <1>1 DEF EventsAgree, StateMatchesEvents, ThrottleCounts, Active
<1> QED
  BY <1>2, <1>3, <1>4 DEF IInv

\* Requests that write rules: a copy in the engine keeps its mode.
LEMMA RequestStep ==
    ASSUME IInv, NEW u,
           CreateChecks(u) \/ delete_alert_rule(u) \/ DeleteGroup(u) \/ CreateInserts
    PROVE  IInv'
<1> USE AlertAssumption
<1>1. UNCHANGED <<time, pc, todo, cur, states, last>>
  BY DEF CreateChecks, delete_alert_rule, DeleteGroup, CreateInserts, Aside, memory, loop
<1>2. /\ time \in Times /\ time' \in Times /\ time' >= time
      /\ row \in [Rules -> Rule \cup {Nothing, Deleted}]
      /\ create # Idle => create.rule \in Rule
  BY <1>1 DEF IInv, RulesTyped, Times
<1>3. CASE CreateChecks(u)
  <2>1. row' = row /\ create'.rule \in Rule
    BY <1>3 DEF CreateChecks
  <2> QED
    BY <1>1, <1>2, <2>1, AroundTheEngine
<1>4. CASE delete_alert_rule(u)
  <2>1. PICK r \in Rules : row' = [row EXCEPT ![r] = Deleted]
    BY <1>4 DEF delete_alert_rule, DeleteRow
  <2>2. create' = create
    BY <1>4 DEF delete_alert_rule
  <2>3. /\ row' \in [Rules -> Rule \cup {Nothing, Deleted}]
        /\ \A q \in Rules : row[q] # Nothing =>
               /\ row'[q] # Nothing
               /\ row'[q] # Deleted => row[q] # Deleted /\ row'[q].mode = row[q].mode
    BY <1>2, <2>1
  <2> QED
    BY <1>1, <1>2, <2>2, <2>3, AroundTheEngine
<1>5. CASE DeleteGroup(u)
  <2>1. PICK g \in Groups :
           row' = [r \in Rules |-> IF Exists(r) /\ row[r].group = g
                                   THEN [row[r] EXCEPT !.group = Nothing] ELSE row[r]]
    BY <1>5 DEF DeleteGroup
  <2>2. create' = create
    BY <1>5 DEF DeleteGroup
  <2>3. ASSUME NEW r \in Rules, Exists(r)
        PROVE  /\ [row[r] EXCEPT !.group = Nothing] \in Rule
               /\ [row[r] EXCEPT !.group = Nothing].mode = row[r].mode
    BY <1>2, <2>3 DEF Exists, Rule
  <2>4. ASSUME NEW r \in Rules
        PROVE  /\ row'[r] \in Rule \cup {Nothing, Deleted}
               /\ row[r] # Nothing =>
                    /\ row'[r] # Nothing
                    /\ row'[r] # Deleted => row[r] # Deleted /\ row'[r].mode = row[r].mode
    <3>1. CASE Exists(r) /\ row[r].group = g
      BY <2>1, <2>3, <3>1 DEF Exists
    <3>2. CASE ~(Exists(r) /\ row[r].group = g)
      BY <1>2, <2>1, <3>2
    <3> QED
      BY <3>1, <3>2
  <2>5. row' \in [Rules -> Rule \cup {Nothing, Deleted}]
    BY <2>1, <2>4
  <2> QED
    BY <1>1, <1>2, <2>2, <2>4, <2>5, AroundTheEngine
<1>6. CASE CreateInserts
  <2>1. create # Idle /\ create' = Idle
    BY <1>6 DEF CreateInserts
  <2>2. CASE row' = row
    BY <1>1, <1>2, <2>1, <2>2, AroundTheEngine
  <2>3. CASE row' # row
    <3>1. PICK r \in Rules : row[r] = Nothing /\ row' = [row EXCEPT ![r] = create.rule]
      BY <1>6, <2>3 DEF CreateInserts
    <3>2. /\ row' \in [Rules -> Rule \cup {Nothing, Deleted}]
          /\ \A q \in Rules : row[q] # Nothing =>
               /\ row'[q] # Nothing
               /\ row'[q] # Deleted => row[q] # Deleted /\ row'[q].mode = row[q].mode
      BY <1>2, <2>1, <3>1
    <3> QED
      BY <1>1, <1>2, <2>1, <3>2, AroundTheEngine
  <2> QED
    BY <2>2, <2>3
<1> QED
  BY <1>3, <1>4, <1>5, <1>6

\* Steps that touch neither rules nor the loop.
LEMMA OtherStep ==
    ASSUME IInv,
           \/ Heartbeat \/ HostState \/ ProbeSaved \/ OwnershipChanges \/ NotificationsChange
           \/ TimePasses \/ LoadFails \/ UNCHANGED vars
    PROVE  IInv'
<1>1. UNCHANGED <<row, create, pc, todo, cur, states, last>>
  BY DEF Heartbeat, HostState, ProbeSaved, OwnershipChanges, NotificationsChange, TimePasses,
         LoadFails, vars, tables, memory, loop, Aside, Others
<1>2. time' \in Times /\ time' >= time
  <2>1. time \in Times
    BY DEF IInv, RulesTyped
  <2>2. time' = time \/ (time < MaxTime /\ time' = time + 1)
    BY DEF Heartbeat, HostState, ProbeSaved, OwnershipChanges, NotificationsChange, TimePasses,
           LoadFails, vars, Others
  <2> QED
    BY <2>1, <2>2, NotificationsAssumption DEF Times
<1> QED
  BY <1>1, <1>2, AroundTheEngine DEF IInv, RulesTyped

LEMMA NextIInv == IInv /\ [Next]_vars => IInv'
<1> SUFFICES ASSUME IInv, [Next]_vars PROVE IInv'
    OBVIOUS
<1>1. CASE EngineStep
  <2>1. CASE FireGone
    <3>1. Abandon /\ pc \notin After
      BY <2>1 DEF FireGone, After
    <3> QED
      BY <3>1, AbandonStep
  <2> QED
    BY <1>1, <2>1, LoadRulesStep, NextRuleStep, CheckStep, DecideStep, FireInsertStep, AfterStep,
       StoreStateStep DEF EngineStep
<1>2. CASE CheckFails \/ FireFails
  <2>1. Abandon /\ pc \notin After
    BY <1>2 DEF CheckFails, FireFails, After
  <2> QED
    BY <2>1, AbandonStep
<1>3. CASE OfflineReadFails
  BY <1>3, CheckStep
<1>4. ASSUME NEW u \in Users, CreateChecks(u) \/ delete_alert_rule(u) \/ DeleteGroup(u)
      PROVE  IInv'
  BY <1>4, RequestStep
<1>5. CASE CreateInserts
  BY <1>5, RequestStep
<1>6. CASE Restart
  BY <1>6, RestartStep
<1>7. CASE \/ Heartbeat \/ HostState \/ ProbeSaved \/ OwnershipChanges \/ NotificationsChange
           \/ TimePasses \/ LoadFails \/ UNCHANGED vars
  BY <1>7, OtherStep
<1> QED
  BY <1>1, <1>2, <1>3, <1>4, <1>5, <1>6, <1>7 DEF Next

-----------------------------------------------------------------------------
(* The theorems. *)

\* The inductive invariant holds in every reachable state.
THEOREM Invariance == Spec => []IInv
<1> QED
  BY InitIInv, NextIInv, PTL DEF Spec

\* StateMatchesEvents: an alert in AlertEngine::states is active exactly while the last
\* event stored by fire since the engine forgot the rule is a fired one.
THEOREM StatesAreTrue == Spec => []StateMatchesEvents
<1>1. IInv => StateMatchesEvents
  BY DEF IInv
<1> QED
  BY <1>1, Invariance, PTL

\* What one step may do to a rule's last event.
InOrder(r) ==
    (last'[r] # last[r] /\ last'[r] # Nothing) =>
       /\ last'[r].kind = "recovered" => last[r] # Nothing /\ last[r].kind = "fired"
       /\ (last'[r].kind = "fired" /\ last[r] # Nothing /\ last[r].kind = "fired") =>
             last'[r].mode = "always" /\ last'[r].at >= last[r].at + Throttle

\* Only FireInsert stores an event.
LEMMA OnlyFireStores ==
    ASSUME IInv, [Next]_vars, NEW r \in Rules, last'[r] # last[r], last'[r] # Nothing
    PROVE  FireInsert
<1>1. CASE FireInsert
  BY <1>1
<1>2. CASE LoadRules
  <2>1. last' = [q \in Rules |-> IF q \in {p \in Rules : Loaded(p) /\ row[p].enabled}
                                 THEN last[q] ELSE Nothing]
    BY <1>2 DEF LoadRules
  <2> QED
    BY <2>1
<1>3. CASE Decide
  <2>1. last' = last \/ last' = [last EXCEPT ![cur.id] = Nothing]
    BY <1>3 DEF Decide
  <2> QED
    BY <2>1 DEF IInv, RulesTyped
<1>4. CASE Restart
  <2>1. last' = [q \in Rules |-> Nothing]
    BY <1>4 DEF Restart
  <2> QED
    BY <2>1
<1>5. CASE NextRule \/ CheckCondition \/ FireGone \/ TriggerTasks \/ TellChannels \/ StoreState
           \/ LoadFails \/ CheckFails \/ OfflineReadFails \/ FireFails
  <2>1. last' = last
    BY <1>5 DEF NextRule, CheckCondition, FireGone, TriggerTasks, TellChannels, StoreState,
                LoadFails, CheckFails, OfflineReadFails, FireFails, Abandon, Others
  <2> QED
    BY <2>1
<1>6. ASSUME NEW u \in Users, CreateChecks(u) \/ delete_alert_rule(u) \/ DeleteGroup(u)
      PROVE  FALSE
  BY <1>6 DEF CreateChecks, delete_alert_rule, DeleteGroup, Aside
<1>7. CASE CreateInserts \/ Heartbeat \/ HostState \/ ProbeSaved \/ OwnershipChanges
           \/ NotificationsChange \/ TimePasses \/ UNCHANGED vars
  <2>1. last' = last
    BY <1>7 DEF CreateInserts, Heartbeat, HostState, ProbeSaved, OwnershipChanges,
                NotificationsChange, TimePasses, Aside, vars
  <2> QED
    BY <2>1
<1> QED
  BY <1>1, <1>2, <1>3, <1>4, <1>5, <1>6, <1>7 DEF Next, EngineStep

LEMMA StepInOrder ==
    ASSUME IInv, [Next]_vars, NEW r \in Rules
    PROVE  InOrder(r)
<1> SUFFICES ASSUME last'[r] # last[r], last'[r] # Nothing
             PROVE  /\ last'[r].kind = "recovered" => last[r] # Nothing /\ last[r].kind = "fired"
                    /\ (last'[r].kind = "fired" /\ last[r] # Nothing /\ last[r].kind = "fired") =>
                          last'[r].mode = "always" /\ last'[r].at >= last[r].at + Throttle
    BY DEF InOrder
<1>1. FireInsert
  BY OnlyFireStores
<1>2. /\ pc = "insert"
      /\ last' = [last EXCEPT ![cur.id] = [kind |-> cur.kind, at |-> time, mode |-> cur.rule.mode]]
  BY <1>1 DEF FireInsert
<1>3. r = cur.id /\ cur.rule \in Rule
  BY <1>2 DEF IInv, RulesTyped, CurTyped, Busy
<1>4. last'[r].kind = cur.kind /\ last'[r].mode = cur.rule.mode /\ last'[r].at = time
  BY <1>2, <1>3 DEF IInv, RulesTyped
<1>5. ~Firing(r)
  BY <1>2 DEF Firing
<1>6. Active(r) <=> last[r] # Nothing /\ last[r].kind = "fired"
  BY <1>5 DEF IInv, StateMatchesEvents
<1>7. \/ cur.kind = "fired" /\ MayFire(r, cur.rule.mode)
      \/ cur.kind = "recovered" /\ Active(r)
  BY <1>2, <1>3 DEF IInv, DecisionStands
<1>8. ASSUME cur.kind = "fired", Active(r)
      PROVE  cur.rule.mode = "always" /\ time >= last[r].at + Throttle
  <2>1. MayFire(r, cur.rule.mode) /\ cur.rule.mode \in {"once", "always"}
    BY <1>3, <1>7, <1>8 DEF Rule
  <2>2. cur.rule.mode = "always"
    BY <1>8, <2>1 DEF MayFire
  <2>3. last[r] # Nothing /\ last[r].mode = "always"
    BY <1>2, <1>3, <1>6, <1>8, <2>2 DEF IInv, CopiesAgree, CopyOf, Busy
  <2>4. states[r] # Nothing /\ states[r].always # Nothing /\ states[r].always >= last[r].at
    BY <1>5, <1>8, <2>3 DEF IInv, ThrottleCounts, Active
  <2>5. time - states[r].always >= Throttle
    BY <2>1, <2>2, <2>4 DEF MayFire
  <2>6. time \in Int /\ states[r].always \in Int /\ last[r].at \in Int /\ Throttle \in Int
    BY <2>3, <2>4, AlertAssumption DEF IInv, RulesTyped, State, Event, Times
  <2> QED
    BY <2>2, <2>4, <2>5, <2>6
<1> QED
  BY <1>4, <1>6, <1>7, <1>8

\* EventsInOrder: evaluate_rule stores a recovery only after the event it ends, a second
\* event of a rule in mode once only after a recovery, and one in mode always at least
\* 60 s after the one before, whatever fails, is edited or restarts in between.
THEOREM EventsComeInOrder == Spec => EventsInOrder
<1>1. IInv /\ [Next]_vars =>
        [\A r \in Rules :
          (last'[r] # last[r] /\ last'[r] # Nothing) =>
             /\ last'[r].kind = "recovered" => last[r] # Nothing /\ last[r].kind = "fired"
             /\ (last'[r].kind = "fired" /\ last[r] # Nothing /\ last[r].kind = "fired") =>
                   last'[r].mode = "always" /\ last'[r].at >= last[r].at + Throttle]_vars
  BY StepInOrder DEF InOrder
<1> QED
  BY <1>1, Invariance, PTL DEF Spec, EventsInOrder
=============================================================================

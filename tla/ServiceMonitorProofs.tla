------------------------ MODULE ServiceMonitorProofs -------------------------
(***************************************************************************)
(* The service monitor tells every change of a target's status once, for   *)
(* any services, Agents, bounds and widths.                                *)
(*                                                                         *)
(* Two facts carry the argument: at most one probe of a target is under    *)
(* way, since a service is due once in a round and a round starts only     *)
(* when the one before has ended; and what was last told of a target,      *)
(* until the other status is stored, is also what is stored, what memory   *)
(* holds if it holds anything, and what a save in progress read.           *)
(***************************************************************************)
EXTENDS ServiceMonitor, TLAPS

Status == {"up", "down", Nothing}
JobFields == {"s", "t", "cfg", "ok", "prev", "at"}
Saving == {"prune", "transition"}

JobTyped(j) ==
    /\ j = [f \in JobFields |-> j[f]]
    /\ j.s \in Services /\ j.t \in Targets /\ j.cfg.row \in Row
    /\ j.ok \in Status /\ j.prev \in Status
    /\ j.at \in {"insert", "prune", "transition"} => j.ok \in {"up", "down"}

EditTyped ==
    /\ edit.at # "idle" =>
          /\ edit = [f \in {"at", "user", "input", "s", "i"} |-> edit[f]]
          /\ edit.user \in Users /\ edit.input \in Inputs
    /\ edit.at \in {"update", "clear", "assign", "cover"} => edit.s \in Services

\* The variables the argument is about.
MonitorTyped ==
    /\ service \in [Services -> Row \cup {Nothing, Deleted}]
    /\ stored \in [Services -> [Targets -> Status]]
    /\ states \in [Services -> [Targets -> Status]]
    /\ told \in [Services -> [Targets -> [kind : Status, other : BOOLEAN]]]
    /\ faults \in Nat
    /\ \A j \in jobs : JobTyped(j)
    /\ \A x \in loaded \cup due : x.s \in Services /\ x.row \in Row
    /\ EditTyped

\* A service is loaded and due once, and one probe of a target is under way at a time.
OneProbe ==
    /\ \A x, y \in loaded : x.s = y.s => x = y
    /\ \A x, y \in due : x.s = y.s => x = y
    /\ \A x \in due, j \in jobs : x.s # j.s
    /\ \A j, k \in jobs : j.s = k.s /\ j.t = k.t => j = k
    /\ pc # "round" => jobs = {} /\ due = {}

\* Of a service that is not there yet, nothing is; of one that is gone, no rows are.
AbsentIsUnknown ==
    /\ \A s \in Services : ~Exists(s) => stored[s] = Unknown /\ told[s] = Untold
    /\ \A s \in Services : service[s] = Nothing =>
          /\ states[s] = Unknown
          /\ \A x \in loaded \cup due \cup jobs : x.s # s

\* A save past its INSERT has stored its result.
SavedIsStored ==
    \A j \in jobs : j.at \in Saving /\ Exists(j.s) => stored[j.s][j.t] = j.ok

\* Told and not contradicted since.
Stands(s, t, k) == k # Nothing /\ told[s][t].kind = k /\ ~told[s][t].other

ToldStands ==
    \A s \in Services, t \in Targets, k \in Status : Stands(s, t, k) =>
        /\ stored[s][t] = k
        /\ states[s][t] \in {k, Nothing}
        /\ \A j \in jobs : j.s = s /\ j.t = t /\ j.at \in Saving => j.ok = k /\ j.prev = k

\* While nothing failed, memory agrees with the rows, and a save in progress read the
\* status that was told.
MemoryIsTrue ==
    faults = 0 =>
        \A s \in Services, t \in Targets : Exists(s) =>
            /\ (\A j \in jobs : j.s = s /\ j.t = t => j.at \notin Saving) =>
                  states[s][t] \in {stored[s][t], Nothing}
            /\ \A j \in jobs : j.s = s /\ j.t = t /\ j.at \in Saving =>
                  (j.prev = "down" <=> told[s][t].kind = "down")

IInv ==
    /\ MonitorTyped /\ OneProbe /\ AbsentIsUnknown /\ SavedIsStored
    /\ ToldStands /\ MemoryIsTrue /\ StoredIsTold

-----------------------------------------------------------------------------
(* The invariant. *)

LEMMA InitIInv == Init => IInv
<1> SUFFICES ASSUME Init PROVE IInv
    OBVIOUS
<1> USE MonitorAssumption
<1>1. Unknown \in [Targets -> Status] /\ Untold \in [Targets -> [kind : Status, other : BOOLEAN]]
  BY DEF Unknown, Untold, Status
<1>2. EditTyped
  BY DEF Init, EditTyped, Idle
<1>3. MonitorTyped
  BY <1>1, <1>2 DEF Init, MonitorTyped
<1>4. OneProbe /\ SavedIsStored
  BY DEF Init, OneProbe, SavedIsStored
<1>5. AbsentIsUnknown
  BY DEF Init, AbsentIsUnknown
<1>6. \A s \in Services, t \in Targets :
         stored[s][t] = Nothing /\ states[s][t] = Nothing /\ told[s][t].kind = Nothing
  BY DEF Init, Unknown, Untold
<1>7. ToldStands /\ MemoryIsTrue /\ StoredIsTold
  BY <1>6 DEF Init, ToldStands, MemoryIsTrue, StoredIsTold, Stands
<1> QED
  BY <1>3, <1>4, <1>5, <1>7 DEF IInv

\* Requests and changes of Agents: rows change, appear where there were none, and none
\* goes; the monitor's own variables stay.
LEMMA TablesStep ==
    ASSUME IInv, UNCHANGED <<stored, states, told, pc, loaded, due, jobs>>,
           faults' \in Nat, faults' = 0 => faults = 0,
           service' \in [Services -> Row \cup {Nothing, Deleted}], EditTyped',
           \A s \in Services : /\ service'[s] = Nothing => service[s] = Nothing
                               /\ Exists(s)' # Exists(s) => service[s] = Nothing /\ Exists(s)'
    PROVE  IInv'
<1> USE DEF IInv
<1>1. MonitorTyped'
  BY DEF MonitorTyped, JobTyped
<1>2. OneProbe'
  BY DEF OneProbe
<1>3. AbsentIsUnknown'
  BY DEF AbsentIsUnknown, Unknown, Untold
<1>4. SavedIsStored'
  BY DEF SavedIsStored, AbsentIsUnknown, MonitorTyped, JobTyped
<1>5. ToldStands'
  BY DEF ToldStands, Stands
<1>6. MemoryIsTrue'
  <2> SUFFICES ASSUME faults' = 0, NEW s \in Services, NEW t \in Targets, Exists(s)'
               PROVE  /\ (\A j \in jobs : j.s = s /\ j.t = t => j.at \notin Saving) =>
                            states[s][t] \in {stored[s][t], Nothing}
                      /\ \A j \in jobs : j.s = s /\ j.t = t /\ j.at \in Saving =>
                            (j.prev = "down" <=> told[s][t].kind = "down")
    BY DEF MemoryIsTrue
  <2>1. CASE Exists(s)
    BY <2>1 DEF MemoryIsTrue
  <2>2. CASE ~Exists(s)
    <3>1. service[s] = Nothing
      BY <2>2
    <3>2. states[s][t] = Nothing /\ \A j \in jobs : j.s # s
      BY <3>1 DEF AbsentIsUnknown, Unknown
    <3> QED
      BY <3>2
  <2> QED
    BY <2>1, <2>2
<1>7. StoredIsTold'
  BY DEF StoredIsTold
<1> QED
  BY <1>1, <1>2, <1>3, <1>4, <1>5, <1>6, <1>7

\* Steps that store nothing: memory may forget, and probes that are not past their INSERT
\* may begin, go on and end.  One past it only fails.
LEMMA NoSaveStep ==
    ASSUME IInv, UNCHANGED <<service, stored, told>>,
           faults' \in Nat, faults' = 0 => faults = 0,
           MonitorTyped', OneProbe',
           \A s \in Services : service[s] = Nothing =>
               /\ states'[s] = Unknown
               /\ \A x \in loaded' \cup due' \cup jobs' : x.s # s,
           \A s \in Services, t \in Targets : states'[s][t] \in {states[s][t], Nothing},
           \A j \in jobs' : j.at \in Saving => j \in jobs,
           faults' = 0 => \A j \in jobs : j.at \in Saving => j \in jobs'
    PROVE  IInv'
<1> USE DEF IInv
<1>1. AbsentIsUnknown'
  BY DEF AbsentIsUnknown, Exists, Unknown, Untold
<1>2. SavedIsStored'
  BY DEF SavedIsStored, Exists
<1>3. ToldStands'
  BY DEF ToldStands, Stands
<1>4. MemoryIsTrue'
  <2> SUFFICES ASSUME faults' = 0, NEW s \in Services, NEW t \in Targets, Exists(s)
               PROVE  /\ (\A j \in jobs' : j.s = s /\ j.t = t => j.at \notin Saving) =>
                            states'[s][t] \in {stored[s][t], Nothing}
                      /\ \A j \in jobs' : j.s = s /\ j.t = t /\ j.at \in Saving =>
                            (j.prev = "down" <=> told[s][t].kind = "down")
    BY DEF MemoryIsTrue, Exists
  <2>1. (\A j \in jobs' : j.s = s /\ j.t = t => j.at \notin Saving) =>
           (\A j \in jobs : j.s = s /\ j.t = t => j.at \notin Saving)
    OBVIOUS
  <2>2. states'[s][t] \in {states[s][t], Nothing}
    OBVIOUS
  <2>3. (\A j \in jobs' : j.s = s /\ j.t = t => j.at \notin Saving) => states'[s][t] \in {stored[s][t], Nothing}
    BY <2>1, <2>2 DEF MemoryIsTrue
  <2>4. \A j \in jobs' : j.s = s /\ j.t = t /\ j.at \in Saving =>
            (j.prev = "down" <=> told[s][t].kind = "down")
    BY DEF MemoryIsTrue
  <2> QED
    BY <2>3, <2>4
<1>5. StoredIsTold'
  <2> SUFFICES ASSUME faults' = 0, NEW s \in Services, NEW t \in Targets,
                      \A j \in jobs' : j.s = s /\ j.t = t => j.at \notin {"prune", "transition"}
               PROVE  stored[s][t] = "down" <=> told[s][t].kind = "down"
    BY DEF StoredIsTold
  <2>1. \A j \in jobs : j.s = s /\ j.t = t => j.at \notin {"prune", "transition"}
    BY DEF Saving
  <2> QED
    BY <2>1 DEF StoredIsTold
<1> QED
  BY <1>1, <1>2, <1>3, <1>4, <1>5

\* A probe ends, or moves on as k.
LEMMA JobEnds ==
    ASSUME OneProbe, NEW j \in jobs, jobs' = jobs \ {j}, UNCHANGED <<pc, loaded, due>>
    PROVE  OneProbe'
BY DEF OneProbe

LEMMA JobMoves ==
    ASSUME OneProbe, NEW j \in jobs, NEW k, k.s = j.s, k.t = j.t,
           jobs' = (jobs \ {j}) \cup {k}, UNCHANGED <<pc, loaded, due>>
    PROVE  OneProbe'
<1>1. \A x \in due', y \in jobs' : x.s # y.s
  BY DEF OneProbe
<1>2. \A x, y \in jobs' : x.s = y.s /\ x.t = y.t => x = y
  BY DEF OneProbe
<1> QED
  BY <1>1, <1>2 DEF OneProbe

\* Before the INSERT.
LEMMA ProbeStep ==
    ASSUME IInv, NEW j \in jobs,
           UNCHANGED <<service, stored, told, states, edit, pc, loaded, due>>,
           faults' \in Nat, faults' = 0 => faults = 0,
           \/ /\ jobs' = jobs \ {j}
              /\ faults' = 0 => j.at \notin Saving
           \/ /\ j.at \notin Saving
              /\ \E k : /\ jobs' = (jobs \ {j}) \cup {k}
                        /\ JobTyped(k) /\ k.s = j.s /\ k.t = j.t /\ k.at \notin Saving
    PROVE  IInv'
<1>1. CASE jobs' = jobs \ {j} /\ (faults' = 0 => j.at \notin Saving)
  <2>1. OneProbe'
    BY <1>1, JobEnds DEF IInv
  <2>2. MonitorTyped'
    BY <1>1 DEF IInv, MonitorTyped, JobTyped, EditTyped
  <2>3. \A s \in Services : service[s] = Nothing =>
               /\ states'[s] = Unknown
               /\ \A x \in loaded' \cup due' \cup jobs' : x.s # s
    BY <1>1 DEF IInv, AbsentIsUnknown
  <2> QED
    BY <1>1, <2>1, <2>2, <2>3, NoSaveStep
<1>2. CASE /\ j.at \notin Saving
           /\ \E k : /\ jobs' = (jobs \ {j}) \cup {k}
                     /\ JobTyped(k) /\ k.s = j.s /\ k.t = j.t /\ k.at \notin Saving
  <2>1. PICK k : /\ jobs' = (jobs \ {j}) \cup {k}
                 /\ JobTyped(k) /\ k.s = j.s /\ k.t = j.t /\ k.at \notin Saving
    BY <1>2
  <2>2. OneProbe'
    BY <2>1, JobMoves DEF IInv
  <2>3. MonitorTyped'
    BY <2>1 DEF IInv, MonitorTyped, JobTyped, EditTyped
  <2>4. \A s \in Services : service[s] = Nothing =>
               /\ states'[s] = Unknown
               /\ \A x \in loaded' \cup due' \cup jobs' : x.s # s
    BY <2>1 DEF IInv, AbsentIsUnknown
  <2> QED
    BY <1>2, <2>1, <2>2, <2>3, <2>4, NoSaveStep
<1> QED
  BY <1>1, <1>2

-----------------------------------------------------------------------------
(* Requests. *)

\* A row as a request writes it.
LEMMA WrittenIsRow ==
    ASSUME NEW u \in Users, NEW x \in Inputs, NEW old \in Row
    PROVE  Written(u, x, old) \in Row
<1>1. x \in Input
  BY MonitorAssumption
<1>2. (IF x.servers = <<>> THEN Nothing ELSE Head(x.servers)) \in Targets
  <2>1. x.servers \in Seq(Agents)
    BY <1>1 DEF Input
  <2> QED
    BY <2>1 DEF Targets
<1> DEFINE l == IF x.servers = <<>> THEN Nothing ELSE Head(x.servers)
<1>3. /\ x.enabled \in BOOLEAN /\ x.kind \in {"http", "tcp", "icmp"} /\ x.fail \in SUBSET Tasks
      /\ x.recover \in SUBSET Tasks /\ x.interval \in 0..(MaxInterval + 1)
  BY <1>1 DEF Input
<1>4. Written(u, x, old) =
        [old EXCEPT !.owner = u, !.enabled = x.enabled, !.kind = x.kind, !.interval = x.interval,
                    !.legacy = l, !.fail = x.fail, !.recover = x.recover]
  BY DEF Written
<1>5. l \in Targets
  BY <1>2
<1> HIDE DEF l
<1> QED
  BY <1>3, <1>4, <1>5 DEF Row

LEMMA FreshIsRow == Fresh \in Row
BY MonitorAssumption DEF Fresh, Row, Covers, Targets

LEMMA RequestSteps ==
    ASSUME IInv,
           \/ \E u \in Users, x \in Inputs :
                 CreateChecks(u, x) \/ \E s \in Services : UpdateChecks(u, s, x)
           \/ RequestStep \/ RequestEnds \/ AgentChanges \/ UNCHANGED vars
    PROVE  IInv'
<1> USE MonitorAssumption
<1>1. UNCHANGED <<stored, states, told, pc, loaded, due, jobs>>
  BY DEF CreateChecks, UpdateChecks, RequestStep, CreateInserts, UpdateWrites, replace_service_servers,
         update_service_cover, RequestEnds, AgentChanges, vars, loop, memory
<1>2. faults \in Nat /\ service \in [Services -> Row \cup {Nothing, Deleted}] /\ EditTyped
  BY DEF IInv, MonitorTyped
<1>3. faults' \in Nat /\ (faults' = 0 => faults = 0)
  <2>1. faults' = faults \/ faults' = faults + 1
    BY DEF CreateChecks, UpdateChecks, RequestStep, CreateInserts, UpdateWrites, replace_service_servers,
           update_service_cover, RequestEnds, AgentChanges, vars, Fails
  <2> QED
    BY <1>2, <2>1
<1> DEFINE RowsKept ==
             /\ service' \in [Services -> Row \cup {Nothing, Deleted}]
             /\ \A s \in Services : /\ service'[s] = Nothing => service[s] = Nothing
                                    /\ Exists(s)' # Exists(s) => service[s] = Nothing /\ Exists(s)'
<1>4. ASSUME service' = service PROVE RowsKept
  BY <1>2, <1>4 DEF Exists
<1>5. ASSUME NEW s \in Services, NEW y \in Row, service' = [service EXCEPT ![s] = y],
             service[s] = Nothing \/ Exists(s)
      PROVE  RowsKept
  <2>1. service' \in [Services -> Row \cup {Nothing, Deleted}]
    BY <1>2, <1>5
  <2>2. y # Nothing /\ y # Deleted
    OBVIOUS
  <2>3. service'[s] = y /\ \A r \in Services : r # s => service'[r] = service[r]
    BY <1>2, <1>5
  <2>4. ASSUME NEW r \in Services
        PROVE  /\ service'[r] = Nothing => service[r] = Nothing
               /\ Exists(r)' # Exists(r) => service[r] = Nothing /\ Exists(r)'
    <3>1. CASE r = s
      BY <1>5, <2>2, <2>3, <3>1 DEF Exists
    <3>2. CASE r # s
      BY <2>3, <3>2 DEF Exists
    <3> QED
      BY <3>1, <3>2
  <2> QED
    BY <2>1, <2>4
<1> HIDE DEF RowsKept
<1>6. ASSUME RowsKept, EditTyped' PROVE IInv'
  BY <1>1, <1>3, <1>6, TablesStep DEF RowsKept
<1>7. ASSUME NEW u \in Users, NEW x \in Inputs,
             CreateChecks(u, x) \/ \E s \in Services : UpdateChecks(u, s, x)
      PROVE  IInv'
  <2>1. service' = service
    BY <1>7 DEF CreateChecks, UpdateChecks, tables
  <2>2. \/ edit' = [at |-> "insert", user |-> u, input |-> x, s |-> Nothing, i |-> 0]
        \/ \E s \in Services : edit' = [at |-> "update", user |-> u, input |-> x, s |-> s, i |-> 0]
    BY <1>7 DEF CreateChecks, UpdateChecks
  <2>3. EditTyped'
    BY <2>2 DEF EditTyped
  <2> QED
    BY <1>4, <1>6, <2>1, <2>3
<1>8. CASE CreateInserts
  <2>1. PICK s \in Services :
           /\ service[s] = Nothing
           /\ service' = [service EXCEPT ![s] = Written(edit.user, edit.input, Fresh)]
           /\ edit' = [edit EXCEPT !.at = "clear", !.s = s]
    BY <1>8 DEF CreateInserts
  <2>2. edit.at = "insert"
    BY <1>8 DEF CreateInserts
  <2>3. Written(edit.user, edit.input, Fresh) \in Row
    BY <1>2, <2>2, WrittenIsRow, FreshIsRow DEF EditTyped
  <2>4. EditTyped'
    BY <1>2, <2>1, <2>2 DEF EditTyped
  <2> QED
    BY <1>5, <1>6, <2>1, <2>3, <2>4
<1>9. CASE UpdateWrites
  <2>1. edit.at = "update" /\ edit.s \in Services
    BY <1>2, <1>9 DEF UpdateWrites, EditTyped
  <2>2. CASE Exists(edit.s)
    <3>1. /\ service' = [service EXCEPT ![edit.s] = Written(edit.user, edit.input, service[edit.s])]
          /\ edit' = [edit EXCEPT !.at = "clear"]
      BY <1>2, <1>9, <2>1, <2>2 DEF UpdateWrites
    <3>2. service[edit.s] \in Row
      BY <1>2, <2>1, <2>2 DEF Exists
    <3>3. Written(edit.user, edit.input, service[edit.s]) \in Row
      BY <1>2, <2>1, <3>2, WrittenIsRow DEF EditTyped
    <3>4. EditTyped'
      BY <1>2, <2>1, <3>1 DEF EditTyped
    <3> QED
      BY <1>5, <1>6, <2>1, <2>2, <3>1, <3>3, <3>4
  <2>3. CASE ~Exists(edit.s)
    <3>1. service' = service /\ edit' = Idle
      BY <1>9, <2>3 DEF UpdateWrites
    <3>2. EditTyped'
      BY <3>1 DEF EditTyped, Idle
    <3> QED
      BY <1>4, <1>6, <3>1, <3>2
  <2> QED
    BY <2>2, <2>3
<1>10. CASE replace_service_servers
  <2>1. service' = service
    BY <1>10 DEF replace_service_servers
  <2>2. edit.at \in {"clear", "assign"}
    BY <1>10 DEF replace_service_servers
  <2>3. \/ edit' = Idle
        \/ \E a \in {"assign", "cover"} : \E n : edit' = [edit EXCEPT !.i = n, !.at = a]
    <3>1. CASE edit.at = "clear"
      <4>1. \E a \in {"assign", "cover"} : edit' = [edit EXCEPT !.at = a]
        BY <1>10, <3>1 DEF replace_service_servers
      <4>2. edit = [f \in {"at", "user", "input", "s", "i"} |-> edit[f]]
        BY <1>2, <3>1 DEF EditTyped
      <4>3. \A a : [edit EXCEPT !.at = a] = [edit EXCEPT !.i = edit.i, !.at = a]
        BY <4>2
      <4> QED
        BY <4>1, <4>3
    <3>2. CASE edit.at = "assign"
      BY <1>10, <3>2 DEF replace_service_servers
    <3> QED
      BY <2>2, <3>1, <3>2
  <2>4. EditTyped'
    <3>1. CASE edit' = Idle
      BY <3>1 DEF EditTyped, Idle
    <3>2. CASE \E a \in {"assign", "cover"} : \E n : edit' = [edit EXCEPT !.i = n, !.at = a]
      BY <1>2, <2>2, <3>2 DEF EditTyped
    <3> QED
      BY <2>3, <3>1, <3>2
  <2> QED
    BY <1>4, <1>6, <2>1, <2>4
<1>11. CASE update_service_cover
  <2>1. edit.at = "cover" /\ edit' = Idle /\ edit.s \in Services /\ edit.input \in Input
    BY <1>2, <1>11 DEF update_service_cover, EditTyped
  <2>2. EditTyped'
    BY <2>1 DEF EditTyped, Idle
  <2>3. CASE Exists(edit.s)
    <3> DEFINE y == [service[edit.s] EXCEPT !.cover = edit.input.cover, !.exclude = edit.input.exclude]
    <3>1. service[edit.s] \in Row
      BY <1>2, <2>1, <2>3 DEF Exists
    <3>2. service' = [service EXCEPT ![edit.s] = y]
      BY <1>2, <1>11, <2>1, <2>3 DEF update_service_cover
    <3>3. y \in Row
      BY <2>1, <3>1 DEF Row, Input
    <3> QED
      BY <1>5, <1>6, <2>1, <2>2, <2>3, <3>2, <3>3
  <2>4. CASE ~Exists(edit.s)
    BY <1>4, <1>6, <1>11, <2>2, <2>4 DEF update_service_cover
  <2> QED
    BY <2>3, <2>4
<1>12. CASE RequestEnds \/ AgentChanges \/ UNCHANGED vars
  <2>1. service' = service
    BY <1>12 DEF RequestEnds, AgentChanges, vars, tables
  <2>2. edit' = Idle \/ edit' = edit
    BY <1>12 DEF RequestEnds, AgentChanges, vars
  <2>3. EditTyped'
    BY <1>2, <2>2 DEF EditTyped, Idle
  <2> QED
    BY <1>4, <1>6, <2>1, <2>3
<1> QED
  BY <1>7, <1>8, <1>9, <1>10, <1>11, <1>12 DEF RequestStep

\* delete_service: the rows of the service and what was told of it go.
LEMMA DeleteStep ==
    ASSUME IInv, NEW u \in Users, NEW s \in Services, delete_service(u, s)
    PROVE  IInv'
<1> USE MonitorAssumption DEF IInv
<1>1. /\ Exists(s) /\ service' = [service EXCEPT ![s] = Deleted]
      /\ stored' = [stored EXCEPT ![s] = Unknown] /\ told' = [told EXCEPT ![s] = Untold]
      /\ UNCHANGED <<states, pc, loaded, due, jobs, edit, faults>>
  BY DEF delete_service, memory, loop
<1>2. Unknown \in [Targets -> Status] /\ Untold \in [Targets -> [kind : Status, other : BOOLEAN]]
  BY DEF Unknown, Untold, Status
<1>3. /\ service'[s] = Deleted /\ stored'[s] = Unknown /\ told'[s] = Untold
      /\ \A r \in Services : r # s => service'[r] = service[r] /\ stored'[r] = stored[r] /\ told'[r] = told[r]
  BY <1>1 DEF MonitorTyped
<1>4. MonitorTyped'
  BY <1>1, <1>2 DEF MonitorTyped, EditTyped, JobTyped
<1>5. OneProbe'
  BY <1>1 DEF OneProbe
<1>6. ~Exists(s)' /\ \A r \in Services : r # s => (Exists(r)' <=> Exists(r))
  BY <1>3 DEF Exists
<1>7. AbsentIsUnknown'
  <2>1. \A r \in Services : ~Exists(r)' => stored'[r] = Unknown /\ told'[r] = Untold
    BY <1>3, <1>6 DEF AbsentIsUnknown
  <2>2. \A r \in Services : service'[r] = Nothing =>
            states'[r] = Unknown /\ \A x \in loaded' \cup due' \cup jobs' : x.s # r
    BY <1>1, <1>3 DEF AbsentIsUnknown
  <2> QED
    BY <2>1, <2>2 DEF AbsentIsUnknown, Unknown, Untold
<1>8. SavedIsStored'
  BY <1>1, <1>3, <1>6 DEF SavedIsStored, MonitorTyped, JobTyped
<1>9. \A t \in Targets : stored'[s][t] = Nothing /\ told'[s][t].kind = Nothing
  BY <1>3 DEF Unknown, Untold
<1>10. ToldStands'
  BY <1>1, <1>3, <1>9 DEF ToldStands, Stands
<1>11. MemoryIsTrue'
  BY <1>1, <1>3, <1>6 DEF MemoryIsTrue
<1>12. StoredIsTold'
  BY <1>1, <1>3, <1>9 DEF StoredIsTold
<1> QED
  BY <1>4, <1>5, <1>7, <1>8, <1>10, <1>11, <1>12

-----------------------------------------------------------------------------
(* The loop. *)

LEMMA LoadServicesStep == IInv /\ LoadServices => IInv'
<1> SUFFICES ASSUME IInv, LoadServices PROVE IInv'
    OBVIOUS
<1> DEFINE ids == {x \in Services : Exists(x) /\ service[x].enabled /\ validate_loaded_service_config(service[x])}
<1>1. /\ pc = "idle" /\ pc' = "attach" /\ due' = {} /\ jobs' = jobs
      /\ loaded' = {[s |-> s, row |-> service[s]] : s \in ids}
      /\ UNCHANGED <<service, stored, told, states, edit, faults>>
  BY DEF LoadServices, tables
<1>2. jobs = {}
  BY <1>1 DEF IInv, OneProbe
<1>3. \A x \in loaded' : x.s \in ids /\ x = [s |-> x.s, row |-> service[x.s]]
  BY <1>1
<1>4. \A s \in ids : s \in Services /\ service[s] # Nothing /\ service[s] \in Row
  BY DEF Exists, IInv, MonitorTyped
<1> HIDE DEF ids
<1>5. MonitorTyped'
  BY <1>1, <1>2, <1>3, <1>4 DEF IInv, MonitorTyped, EditTyped
<1>6. \A x, y \in loaded' : x.s = y.s => x = y
  BY <1>3
<1>7. OneProbe'
  BY <1>1, <1>2, <1>6 DEF OneProbe
<1>8. \A s \in Services : service[s] = Nothing =>
        /\ states'[s] = Unknown
        /\ \A x \in loaded' \cup due' \cup jobs' : x.s # s
  BY <1>1, <1>2, <1>3, <1>4 DEF IInv, AbsentIsUnknown
<1> QED
  BY <1>1, <1>2, <1>5, <1>7, <1>8, NoSaveStep DEF IInv, MonitorTyped

LEMMA StartRoundStep == IInv /\ StartRound => IInv'
<1> SUFFICES ASSUME IInv, StartRound PROVE IInv'
    OBVIOUS
<1> DEFINE ready == {x \in {Attached(y) : y \in loaded} : ValidLists(x)}
           active == {x.s : x \in ready}
<1>1. /\ pc = "attach" /\ pc' = "round" /\ loaded' = {} /\ jobs' = jobs
      /\ due' = {x \in ready : IsDue(x.s)}
      /\ states' = [s \in Services |-> IF s \in active THEN states[s] ELSE Unknown]
      /\ UNCHANGED <<service, stored, told, edit, faults>>
  BY DEF StartRound, Kept, tables
<1>2. jobs = {}
  BY <1>1 DEF IInv, OneProbe
<1>3. \A x \in due' : \E y \in loaded : x = Attached(y) /\ x.s = y.s /\ x.row = y.row
  BY <1>1 DEF Attached
<1> HIDE DEF ready, active
<1>4. \A x \in due' : x.s \in Services /\ x.row \in Row /\ service[x.s] # Nothing
  BY <1>3 DEF IInv, MonitorTyped, AbsentIsUnknown
<1>5. \A x, y \in due' : x.s = y.s => x = y
  BY <1>3 DEF IInv, OneProbe
<1>6. Unknown \in [Targets -> Status] /\ \A t \in Targets : Unknown[t] = Nothing
  BY DEF Unknown, Status
<1>7. MonitorTyped'
  BY <1>1, <1>2, <1>4, <1>6 DEF IInv, MonitorTyped, EditTyped
<1>8. OneProbe'
  BY <1>1, <1>2, <1>5 DEF OneProbe
<1>9. \A s \in Services : service[s] = Nothing =>
        /\ states'[s] = Unknown
        /\ \A x \in loaded' \cup due' \cup jobs' : x.s # s
  BY <1>1, <1>2, <1>4 DEF IInv, AbsentIsUnknown
<1>10. \A s \in Services, t \in Targets : states'[s][t] \in {states[s][t], Nothing}
  BY <1>1, <1>6
<1> QED
  BY <1>1, <1>2, <1>7, <1>8, <1>9, <1>10, NoSaveStep DEF IInv, MonitorTyped

LEMMA ProbeServiceStep == IInv /\ ProbeService => IInv'
<1> SUFFICES ASSUME IInv, ProbeService PROVE IInv'
    OBVIOUS
<1>1. /\ pc = "round" /\ UNCHANGED <<service, stored, told, edit, pc, loaded, faults>>
  BY DEF ProbeService, tables
<1> DEFINE New(x) == {[s |-> x.s, t |-> t, cfg |-> x, ok |-> Nothing, prev |-> Nothing,
                       at |-> IF t = Nothing THEN "probe" ELSE "permit"] : t \in TargetsOf(x)}
<1>2. PICK x \in due :
         /\ due' = due \ {x}
         /\ \/ UNCHANGED <<states, jobs>>
            \/ /\ states' = [states EXCEPT ![x.s] = [t \in Targets |-> IF t \in TargetsOf(x) THEN states[x.s][t] ELSE Nothing]]
               /\ jobs' = jobs \cup New(x)
  <2>1. PICK x \in due :
         /\ due' = due \ {x}
         /\ IF Cardinality(TargetsOf(x)) > MaxTargets
             THEN UNCHANGED <<states, jobs>>
             ELSE /\ states' = [states EXCEPT ![x.s] = [t \in Targets |-> IF t \in TargetsOf(x) THEN @[t] ELSE Nothing]]
                  /\ jobs' = jobs \cup New(x)
    BY DEF ProbeService
  <2>2. x.s \in Services /\ states = [s \in Services |-> states[s]]
    BY DEF IInv, MonitorTyped
  <2> QED
    BY <2>1, <2>2
<1>3. x.s \in Services /\ x.row \in Row /\ service[x.s] # Nothing
  BY DEF IInv, MonitorTyped, AbsentIsUnknown
<1>4. TargetsOf(x) \subseteq Targets
  BY DEF TargetsOf, covered_agent_ids, specific_agent_ids, OwnedBy, Targets
<1>5. ASSUME NEW k \in New(x)
      PROVE  /\ JobTyped(k) /\ k.s = x.s /\ k.at \notin Saving
             /\ k = [s |-> x.s, t |-> k.t, cfg |-> x, ok |-> Nothing, prev |-> Nothing,
                     at |-> IF k.t = Nothing THEN "probe" ELSE "permit"]
  <2>1. PICK t \in TargetsOf(x) :
           k = [s |-> x.s, t |-> t, cfg |-> x, ok |-> Nothing, prev |-> Nothing,
                at |-> IF t = Nothing THEN "probe" ELSE "permit"]
    OBVIOUS
  <2>2. k.t = t /\ k.s = x.s /\ k.cfg = x /\ k.ok = Nothing /\ k.prev = Nothing /\ k.at \in {"probe", "permit"}
    BY <2>1
  <2>3. k = [f \in JobFields |-> k[f]]
    BY <2>1 DEF JobFields
  <2> QED
    BY <1>3, <1>4, <2>1, <2>2, <2>3 DEF JobTyped, Saving, Status
<1>6. \A j, k \in New(x) : j.s = k.s /\ j.t = k.t => j = k
  BY <1>5
<1> DEFINE m == [t \in Targets |-> IF t \in TargetsOf(x) THEN states[x.s][t] ELSE Nothing]
<1>a. m \in [Targets -> Status] /\ \A t \in Targets : m[t] \in {states[x.s][t], Nothing}
  BY <1>3 DEF IInv, MonitorTyped, Status
<1>b. states' = states \/ states' = [states EXCEPT ![x.s] = m]
  BY <1>2
<1> HIDE DEF New, m
<1>7. jobs \subseteq jobs' /\ jobs' \subseteq jobs \cup New(x)
  BY <1>2
<1>8. MonitorTyped'
  <2>1. states' \in [Services -> [Targets -> Status]]
    BY <1>a, <1>b, <1>3 DEF IInv, MonitorTyped
  <2>2. \A j \in jobs' : JobTyped(j)
    BY <1>5, <1>7 DEF IInv, MonitorTyped
  <2> QED
    BY <1>1, <1>2, <2>1, <2>2 DEF IInv, MonitorTyped, EditTyped
<1>9. OneProbe'
  <2>1. \A y \in due' : y \in due /\ y.s # x.s
    BY <1>2 DEF IInv, OneProbe
  <2>2. \A y \in due', j \in jobs' : y.s # j.s
    BY <1>5, <1>7, <2>1 DEF IInv, OneProbe
  <2>3. \A j \in jobs : j.s # x.s
    BY DEF IInv, OneProbe
  <2>4. \A j, k \in jobs' : j.s = k.s /\ j.t = k.t => j = k
    BY <1>5, <1>6, <1>7, <2>3 DEF IInv, OneProbe
  <2> QED
    BY <1>1, <2>1, <2>2, <2>4 DEF IInv, OneProbe
<1>10. \A s \in Services : s # x.s => states'[s] = states[s]
  BY <1>2, <1>3 DEF IInv, MonitorTyped
<1>11. \A s \in Services : service[s] = Nothing =>
        /\ states'[s] = Unknown
        /\ \A y \in loaded' \cup due' \cup jobs' : y.s # s
  BY <1>1, <1>2, <1>3, <1>5, <1>7, <1>10 DEF IInv, AbsentIsUnknown
<1>12. \A s \in Services, t \in Targets : states'[s][t] \in {states[s][t], Nothing}
  BY <1>a, <1>b, <1>3, <1>10 DEF IInv, MonitorTyped
<1>13. \A j \in jobs' : j.at \in Saving => j \in jobs
  BY <1>5, <1>7
<1> QED
  BY <1>1, <1>7, <1>8, <1>9, <1>11, <1>12, <1>13, NoSaveStep DEF IInv, MonitorTyped

\* A round ends or does not begin, a service is left out of it, or the process restarts.
LEMMA RoundStep ==
    ASSUME IInv, RoundEnds \/ LoadFails \/ ResolveFails \/ Restart
    PROVE  IInv'
<1>1. /\ UNCHANGED <<service, stored, told>>
      /\ faults \in Nat
      /\ (RoundEnds /\ faults' = faults) \/ faults' = faults + 1
  BY DEF RoundEnds, LoadFails, ResolveFails, Restart, Fails, tables, IInv, MonitorTyped
<1>2. faults' \in Nat /\ (faults' = 0 => faults = 0 /\ RoundEnds)
  BY <1>1
<1>3. /\ loaded' \subseteq loaded /\ due' \subseteq due
      /\ jobs' \subseteq jobs /\ (RoundEnds => jobs' = jobs)
  BY DEF RoundEnds, LoadFails, ResolveFails, Restart
<1>4. states' = states \/ states' = [s \in Services |-> Unknown]
  BY DEF RoundEnds, LoadFails, ResolveFails, Restart, memory
<1>5. edit' = edit \/ edit' = Idle
  BY DEF RoundEnds, LoadFails, ResolveFails, Restart
<1>6. Unknown \in [Targets -> Status] /\ \A t \in Targets : Unknown[t] = Nothing
  BY DEF Unknown, Status
<1>7. EditTyped'
  BY <1>5 DEF IInv, MonitorTyped, EditTyped, Idle
<1>8. MonitorTyped'
  BY <1>1, <1>2, <1>3, <1>4, <1>6, <1>7 DEF IInv, MonitorTyped
<1>9. pc' # "round" => jobs' = {} /\ due' = {}
  BY DEF IInv, OneProbe, RoundEnds, LoadFails, ResolveFails, Restart
<1>10. OneProbe'
  BY <1>3, <1>9 DEF IInv, OneProbe
<1>11. \A s \in Services : service[s] = Nothing =>
        /\ states'[s] = Unknown
        /\ \A y \in loaded' \cup due' \cup jobs' : y.s # s
  BY <1>3, <1>4 DEF IInv, AbsentIsUnknown
<1>12. \A s \in Services, t \in Targets : states'[s][t] \in {states[s][t], Nothing}
  BY <1>4, <1>6
<1>13. /\ \A j \in jobs' : j.at \in Saving => j \in jobs
       /\ faults' = 0 => \A j \in jobs : j.at \in Saving => j \in jobs'
  BY <1>2, <1>3
<1> QED
  BY <1>1, <1>2, <1>8, <1>10, <1>11, <1>12, <1>13, NoSaveStep

-----------------------------------------------------------------------------
(* A probe and its save. *)

LEMMA BeforeSave ==
    ASSUME IInv, NEW j \in jobs,
           TakePermit(j) \/ LocalProbe(j) \/ AgentProbe(j) \/ AgentAnswers(j) \/ SaveFails(j)
    PROVE  IInv'
<1>1. UNCHANGED <<service, stored, told, states, edit, pc, loaded, due>>
  BY DEF TakePermit, LocalProbe, AgentProbe, AgentAnswers, SaveFails, ProbeFrame, tables, memory
<1>2. faults \in Nat /\ JobTyped(j)
  BY DEF IInv, MonitorTyped
<1>3. CASE SaveFails(j)
  <2>1. jobs' = jobs \ {j} /\ faults' = faults + 1
    BY <1>3 DEF SaveFails, Ended, Fails
  <2> QED
    BY <1>1, <1>2, <2>1, ProbeStep
<1>4. CASE TakePermit(j) \/ LocalProbe(j) \/ AgentProbe(j) \/ AgentAnswers(j)
  <2>1. j.at \in {"permit", "probe", "wait"} /\ faults' = faults
    BY <1>4 DEF TakePermit, LocalProbe, AgentProbe, AgentAnswers
  <2>2. \/ jobs' = jobs \ {j}
        \/ \E a \in {"probe", "wait"} : jobs' = (jobs \ {j}) \cup {[j EXCEPT !.at = a]}
        \/ \E o \in {"up", "down"} : jobs' = (jobs \ {j}) \cup {[j EXCEPT !.at = "insert", !.ok = o]}
    <3>1. CASE TakePermit(j)
      BY <3>1 DEF TakePermit, Moved
    <3>2. CASE LocalProbe(j)
      <4>1. PICK c \in Conditions :
              IF probe_locally(j.cfg.row.kind, c) = "error" THEN Ended(j)
              ELSE Answered(j, probe_locally(j.cfg.row.kind, c))
        BY <3>2 DEF LocalProbe
      <4>2. probe_locally(j.cfg.row.kind, c) \in {"up", "down", "error"}
        BY <1>2 DEF JobTyped, Row, probe_locally, probe_http, probe_tcp, probe_icmp
      <4> QED
        BY <4>1, <4>2 DEF Ended, Answered
    <3>3. CASE AgentProbe(j)
      BY <3>3 DEF AgentProbe, Moved, Answered, Ended
    <3>4. CASE AgentAnswers(j)
      BY <3>4 DEF AgentAnswers, Answered, service_probe_from_task_result
    <3> QED
      BY <1>4, <3>1, <3>2, <3>3, <3>4
  <2>3. \A a \in {"probe", "wait"} :
          LET k == [j EXCEPT !.at = a] IN JobTyped(k) /\ k.s = j.s /\ k.t = j.t /\ k.at \notin Saving
    BY <1>2 DEF JobTyped, JobFields, Saving
  <2>4. \A o \in {"up", "down"} :
          LET k == [j EXCEPT !.at = "insert", !.ok = o]
          IN  JobTyped(k) /\ k.s = j.s /\ k.t = j.t /\ k.at \notin Saving
    BY <1>2 DEF JobTyped, JobFields, Saving, Status
  <2>5. j.at \notin Saving
    BY <2>1 DEF Saving
  <2>6. \/ jobs' = jobs \ {j}
        \/ \E k : /\ jobs' = (jobs \ {j}) \cup {k}
                  /\ JobTyped(k) /\ k.s = j.s /\ k.t = j.t /\ k.at \notin Saving
    BY <2>2, <2>3, <2>4
  <2> QED
    BY <1>1, <1>2, <2>1, <2>5, <2>6, ProbeStep
<1> QED
  BY <1>3, <1>4

\* One cell of a table of services and targets is written.
LEMMA CellWritten ==
    ASSUME NEW T, NEW f \in [Services -> [Targets -> T]], NEW s \in Services, NEW t \in Targets, NEW v \in T
    PROVE  LET g == [f EXCEPT ![s][t] = v] IN
           /\ g \in [Services -> [Targets -> T]]
           /\ g[s][t] = v
           /\ \A r \in Services, q \in Targets : (r # s \/ q # t) => g[r][q] = f[r][q]
           /\ \A r \in Services : r # s => g[r] = f[r]
OBVIOUS

LEMMA SaveInsertsStep ==
    ASSUME IInv, NEW j \in jobs, SaveInserts(j)
    PROVE  IInv'
<1> USE MonitorAssumption
<1>1. j.at = "insert" /\ UNCHANGED <<service, states, edit, pc, loaded, due, faults>>
  BY DEF SaveInserts, tables, memory
<1>2. JobTyped(j) /\ j.s \in Services /\ j.t \in Targets /\ j.ok \in {"up", "down"} /\ faults \in Nat
  BY <1>1 DEF IInv, MonitorTyped, JobTyped
<1>3. CASE ~Exists(j.s)
  <2>1. jobs' = jobs \ {j} /\ UNCHANGED <<stored, told>>
    BY <1>3 DEF SaveInserts, Ended
  <2> QED
    BY <1>1, <1>2, <2>1, ProbeStep DEF Saving
<1>4. CASE Exists(j.s)
  <2> DEFINE p == previous_service_success(j.s, j.t)
             k == [j EXCEPT !.at = "prune", !.prev = p]
             w == [kind |-> told[j.s][j.t].kind,
                   other |-> told[j.s][j.t].other \/ told[j.s][j.t].kind \notin {Nothing, j.ok}]
  <2>1. p \in Status
    BY <1>2 DEF previous_service_success, IInv, MonitorTyped
  <2>2. /\ JobTyped(k) /\ k.s = j.s /\ k.t = j.t /\ k.at = "prune" /\ k.ok = j.ok /\ k.prev = p
    <3> HIDE DEF p
    <3> QED
      BY <1>2, <2>1 DEF JobTyped, JobFields, Status
  <2>3. told[j.s][j.t] \in [kind : Status, other : BOOLEAN]
    BY <1>2 DEF IInv, MonitorTyped
  <2>4. w \in [kind : Status, other : BOOLEAN]
    BY <2>3
  <2>5. /\ stored' = [stored EXCEPT ![j.s][j.t] = j.ok]
        /\ told' = [told EXCEPT ![j.s][j.t].other = @ \/ told[j.s][j.t].kind \notin {Nothing, j.ok}]
        /\ jobs' = (jobs \ {j}) \cup {k}
    BY <1>4 DEF SaveInserts
  <2>6. told' = [told EXCEPT ![j.s][j.t] = w]
    <3>1. [told[j.s][j.t] EXCEPT !.other = @ \/ told[j.s][j.t].kind \notin {Nothing, j.ok}] = w
      BY <2>3
    <3>2. told \in [Services -> [Targets -> [kind : Status, other : BOOLEAN]]]
      BY DEF IInv, MonitorTyped
    <3>3. told' = [told EXCEPT ![j.s][j.t] =
                     [told[j.s][j.t] EXCEPT !.other = @ \/ told[j.s][j.t].kind \notin {Nothing, j.ok}]]
      BY <1>2, <2>5, <3>2
    <3> QED
      BY <3>1, <3>3
  <2>7. /\ w.kind = told[j.s][j.t].kind
        /\ w.other <=> told[j.s][j.t].other \/ told[j.s][j.t].kind \notin {Nothing, j.ok}
    OBVIOUS
  <2>8. /\ stored' \in [Services -> [Targets -> Status]] /\ stored'[j.s][j.t] = j.ok
        /\ \A r \in Services, q \in Targets : (r # j.s \/ q # j.t) => stored'[r][q] = stored[r][q]
        /\ \A r \in Services : r # j.s => stored'[r] = stored[r]
    BY <1>2, <2>5, CellWritten DEF IInv, MonitorTyped, Status
  <2>9. /\ told' \in [Services -> [Targets -> [kind : Status, other : BOOLEAN]]] /\ told'[j.s][j.t] = w
        /\ \A r \in Services, q \in Targets : (r # j.s \/ q # j.t) => told'[r][q] = told[r][q]
        /\ \A r \in Services : r # j.s => told'[r] = told[r]
    <3> HIDE DEF w
    <3> QED
      BY <1>2, <2>4, <2>6, CellWritten DEF IInv, MonitorTyped
  <2> HIDE DEF k, w
  <2>10. \A r \in Services : Exists(r)' <=> Exists(r)
    BY <1>1 DEF Exists
  <2>11. \A i \in jobs : i.s = j.s /\ i.t = j.t => i = j
    BY DEF IInv, OneProbe
  <2>12. MonitorTyped'
    <3>1. \A i \in jobs' : JobTyped(i)
      BY <2>2, <2>5 DEF IInv, MonitorTyped
    <3>2. EditTyped'
      BY <1>1 DEF IInv, MonitorTyped, EditTyped
    <3>3. \A x \in loaded' \cup due' : x.s \in Services /\ x.row \in Row
      BY <1>1 DEF IInv, MonitorTyped
    <3>4. service' \in [Services -> Row \cup {Nothing, Deleted}] /\ states' \in [Services -> [Targets -> Status]]
      BY <1>1 DEF IInv, MonitorTyped
    <3> QED
      BY <1>1, <1>2, <2>8, <2>9, <3>1, <3>2, <3>3, <3>4 DEF MonitorTyped, JobTyped
  <2>13. OneProbe'
    BY <1>1, <2>2, <2>5, JobMoves DEF IInv
  <2>14. AbsentIsUnknown'
    <3>1. \A r \in Services : ~Exists(r)' => stored'[r] = Unknown /\ told'[r] = Untold
      BY <1>4, <2>8, <2>9, <2>10 DEF IInv, AbsentIsUnknown
    <3>2. \A r \in Services : service'[r] = Nothing =>
             states'[r] = Unknown /\ \A x \in loaded' \cup due' \cup jobs' : x.s # r
      BY <1>1, <2>2, <2>5 DEF IInv, AbsentIsUnknown
    <3> QED
      BY <3>1, <3>2 DEF AbsentIsUnknown, Unknown, Untold
  <2>15. \A i \in jobs' : i = k \/ (i \in jobs /\ (i.s # j.s \/ i.t # j.t))
    BY <2>5, <2>11
  <2>16. \A i \in jobs' : i.s \in Services /\ i.t \in Targets
    BY <1>2, <2>2, <2>15 DEF IInv, MonitorTyped, JobTyped
  <2>17. SavedIsStored'
    BY <2>2, <2>8, <2>10, <2>15, <2>16 DEF IInv, SavedIsStored
  <2>18. ToldStands'
    <3> SUFFICES ASSUME NEW s \in Services, NEW t \in Targets, NEW v \in Status, Stands(s, t, v)'
                 PROVE  /\ stored'[s][t] = v
                        /\ states[s][t] \in {v, Nothing}
                        /\ \A i \in jobs' : i.s = s /\ i.t = t /\ i.at \in Saving => i.ok = v /\ i.prev = v
      BY <1>1 DEF ToldStands
    <3>1. CASE s # j.s \/ t # j.t
      <4>1. Stands(s, t, v)
        BY <2>9, <3>1 DEF Stands
      <4> QED
        BY <2>2, <2>8, <2>15, <3>1, <4>1 DEF IInv, ToldStands
    <3>2. CASE s = j.s /\ t = j.t
      <4>1. v # Nothing /\ w.kind = v /\ ~w.other
        BY <2>9, <3>2 DEF Stands
      <4>2. Stands(s, t, v) /\ j.ok = v
        BY <2>7, <3>2, <4>1 DEF Stands
      <4>3. stored[s][t] = v /\ states[s][t] \in {v, Nothing}
        BY <4>2 DEF IInv, ToldStands
      <4>4. p = v
        BY <3>2, <4>3 DEF previous_service_success
      <4> HIDE DEF p
      <4> QED
        BY <2>2, <2>8, <2>15, <3>2, <4>2, <4>3, <4>4
    <3> QED
      BY <3>1, <3>2
  <2>19. MemoryIsTrue'
    <3> SUFFICES ASSUME faults = 0, NEW s \in Services, NEW t \in Targets, Exists(s)
                 PROVE  /\ (\A i \in jobs' : i.s = s /\ i.t = t => i.at \notin Saving) =>
                              states[s][t] \in {stored'[s][t], Nothing}
                        /\ \A i \in jobs' : i.s = s /\ i.t = t /\ i.at \in Saving =>
                              (i.prev = "down" <=> told'[s][t].kind = "down")
      BY <1>1, <2>10 DEF MemoryIsTrue
    <3>1. CASE s # j.s \/ t # j.t
      <4>1. \A i \in jobs : i.s = s /\ i.t = t => i \in jobs'
        BY <2>5, <3>1
      <4>2. \A i \in jobs' : i.s = s /\ i.t = t => i \in jobs
        BY <2>2, <2>15, <3>1
      <4>3. stored'[s][t] = stored[s][t] /\ told'[s][t] = told[s][t]
        BY <2>8, <2>9, <3>1
      <4>4. /\ (\A i \in jobs : i.s = s /\ i.t = t => i.at \notin Saving) =>
                  states[s][t] \in {stored[s][t], Nothing}
            /\ \A i \in jobs : i.s = s /\ i.t = t /\ i.at \in Saving =>
                  (i.prev = "down" <=> told[s][t].kind = "down")
        BY DEF IInv, MemoryIsTrue
      <4> QED
        BY <4>1, <4>2, <4>3, <4>4
    <3>2. CASE s = j.s /\ t = j.t
      <4>1. k \in jobs' /\ k.at \in Saving
        BY <2>2, <2>5 DEF Saving
      <4>2. \A i \in jobs : i.s = s /\ i.t = t => i.at \notin {"prune", "transition"}
        BY <1>1, <2>11, <3>2
      <4>3. states[s][t] \in {stored[s][t], Nothing}
        BY <4>2 DEF IInv, MemoryIsTrue, Saving
      <4>4. stored[s][t] = "down" <=> told[s][t].kind = "down"
        BY <4>2 DEF IInv, StoredIsTold
      <4>5. p = stored[s][t]
        BY <3>2, <4>3 DEF previous_service_success
      <4> HIDE DEF p
      <4>6. told'[s][t].kind = told[s][t].kind
        BY <2>7, <2>9, <3>2
      <4>7. \A i \in jobs' : i.s = s /\ i.t = t => i = k
        BY <2>15, <3>2
      <4>8. k.prev = "down" <=> told'[s][t].kind = "down"
        BY <2>2, <4>4, <4>5, <4>6
      <4> QED
        BY <2>2, <3>2, <4>1, <4>7, <4>8
    <3> QED
      BY <3>1, <3>2
  <2>20. StoredIsTold'
    <3> SUFFICES ASSUME faults = 0, NEW s \in Services, NEW t \in Targets,
                        \A i \in jobs' : i.s = s /\ i.t = t => i.at \notin {"prune", "transition"}
                 PROVE  stored'[s][t] = "down" <=> told'[s][t].kind = "down"
      BY <1>1 DEF StoredIsTold
    <3>1. s # j.s \/ t # j.t
      BY <2>2, <2>5
    <3>2. \A i \in jobs : i.s = s /\ i.t = t => i.at \notin {"prune", "transition"}
      BY <2>5, <3>1
    <3> QED
      <4>1. stored'[s][t] = stored[s][t] /\ told'[s][t] = told[s][t]
        BY <2>8, <2>9, <3>1
      <4>2. stored[s][t] = "down" <=> told[s][t].kind = "down"
        BY <3>2 DEF IInv, StoredIsTold
      <4> QED
        BY <4>1, <4>2
  <2> QED
    BY <2>12, <2>13, <2>14, <2>17, <2>18, <2>19, <2>20 DEF IInv
<1> QED
  BY <1>3, <1>4

LEMMA SavePrunesStep ==
    ASSUME IInv, NEW j \in jobs, SavePrunes(j)
    PROVE  IInv'
<1> USE MonitorAssumption
<1> DEFINE k == [j EXCEPT !.at = "transition"]
<1>1. /\ j.at = "prune" /\ jobs' = (jobs \ {j}) \cup {k}
      /\ UNCHANGED <<service, states, edit, pc, loaded, due, faults>>
  BY DEF SavePrunes, Moved, tables, memory
<1>2. JobTyped(j) /\ j.s \in Services /\ j.t \in Targets /\ j.ok \in {"up", "down"}
  BY <1>1 DEF IInv, MonitorTyped, JobTyped
<1>3. /\ JobTyped(k) /\ k.s = j.s /\ k.t = j.t /\ k.at = "transition" /\ k.ok = j.ok /\ k.prev = j.prev
  BY <1>2 DEF JobTyped, JobFields
<1> HIDE DEF k
<1>4. \E s \in Services, t \in Targets :
        /\ \/ UNCHANGED <<stored, told>>
           \/ /\ states[s][t] = Nothing /\ \A i \in jobs : i.s # s \/ i.t # t
              /\ stored' = [stored EXCEPT ![s][t] = Nothing]
              /\ told' = [told EXCEPT ![s][t] = [kind |-> Nothing, other |-> FALSE]]
  BY <1>2 DEF SavePrunes
<1>5. PICK s \in Services, t \in Targets :
        /\ \/ UNCHANGED <<stored, told>>
           \/ /\ states[s][t] = Nothing /\ \A i \in jobs : i.s # s \/ i.t # t
              /\ stored' = [stored EXCEPT ![s][t] = Nothing]
              /\ told' = [told EXCEPT ![s][t] = [kind |-> Nothing, other |-> FALSE]]
  BY <1>4
<1>6. [kind |-> Nothing, other |-> FALSE] \in [kind : Status, other : BOOLEAN] /\ Nothing \in Status
  BY DEF Status
<1>7. /\ stored' \in [Services -> [Targets -> Status]]
      /\ told' \in [Services -> [Targets -> [kind : Status, other : BOOLEAN]]]
      /\ \A r \in Services, q \in Targets :
            \/ stored'[r][q] = stored[r][q] /\ told'[r][q] = told[r][q]
            \/ /\ stored'[r][q] = Nothing /\ told'[r][q] = [kind |-> Nothing, other |-> FALSE]
               /\ states[r][q] = Nothing /\ \A i \in jobs : i.s # r \/ i.t # q
  <2>1. stored \in [Services -> [Targets -> Status]] /\ told \in [Services -> [Targets -> [kind : Status, other : BOOLEAN]]]
    BY DEF IInv, MonitorTyped
  <2>2. CASE UNCHANGED <<stored, told>>
    BY <2>1, <2>2
  <2>3. CASE ~UNCHANGED <<stored, told>>
    <3>1. /\ states[s][t] = Nothing /\ \A i \in jobs : i.s # s \/ i.t # t
          /\ stored' = [stored EXCEPT ![s][t] = Nothing]
          /\ told' = [told EXCEPT ![s][t] = [kind |-> Nothing, other |-> FALSE]]
      BY <1>5, <2>3
    <3>2. /\ stored' \in [Services -> [Targets -> Status]] /\ stored'[s][t] = Nothing
          /\ \A r \in Services, q \in Targets : (r # s \/ q # t) => stored'[r][q] = stored[r][q]
      BY <1>6, <2>1, <3>1, CellWritten
    <3>3. /\ told' \in [Services -> [Targets -> [kind : Status, other : BOOLEAN]]]
          /\ told'[s][t] = [kind |-> Nothing, other |-> FALSE]
          /\ \A r \in Services, q \in Targets : (r # s \/ q # t) => told'[r][q] = told[r][q]
      BY <1>6, <2>1, <3>1, CellWritten
    <3> QED
      BY <3>1, <3>2, <3>3
  <2> QED
    BY <2>2, <2>3
<1>8. \A r \in Services : Exists(r)' <=> Exists(r)
  BY <1>1 DEF Exists
<1>9. MonitorTyped'
  BY <1>1, <1>3, <1>7 DEF IInv, MonitorTyped, EditTyped, JobTyped
<1>10. OneProbe'
  BY <1>1, <1>3, JobMoves DEF IInv
<1>11. AbsentIsUnknown'
  <2>1. ASSUME NEW r \in Services, ~Exists(r)
        PROVE  stored'[r] = Unknown /\ told'[r] = Untold
    <3>1. stored[r] = Unknown /\ told[r] = Untold
      BY <2>1 DEF IInv, AbsentIsUnknown
    <3>2. \A q \in Targets : stored'[r][q] = Nothing /\ told'[r][q] = [kind |-> Nothing, other |-> FALSE]
      <4>1. \A q \in Targets : stored[r][q] = Nothing /\ told[r][q] = [kind |-> Nothing, other |-> FALSE]
        BY <3>1 DEF Unknown, Untold
      <4> QED
        BY <1>7, <4>1, Zenon
    <3>3. stored'[r] = [q \in Targets |-> stored'[r][q]] /\ told'[r] = [q \in Targets |-> told'[r][q]]
      BY <1>7
    <3> QED
      BY <3>2, <3>3 DEF Unknown, Untold
  <2>2. \A r \in Services : service'[r] = Nothing =>
           states'[r] = Unknown /\ \A x \in loaded' \cup due' \cup jobs' : x.s # r
    BY <1>1, <1>3 DEF IInv, AbsentIsUnknown
  <2> QED
    BY <1>8, <2>1, <2>2 DEF AbsentIsUnknown, Unknown, Untold
<1>12. \A i \in jobs' : \E l \in jobs : /\ i.s = l.s /\ i.t = l.t /\ i.ok = l.ok /\ i.prev = l.prev
                                        /\ i.at \in Saving <=> l.at \in Saving
  BY <1>1, <1>3 DEF Saving
<1>13. \A l \in jobs : \E i \in jobs' : /\ i.s = l.s /\ i.t = l.t /\ i.ok = l.ok /\ i.prev = l.prev
                                        /\ i.at \in Saving <=> l.at \in Saving
  BY <1>1, <1>3 DEF Saving
<1>14. \A l \in jobs : l.s \in Services /\ l.t \in Targets
  BY DEF IInv, MonitorTyped, JobTyped
<1>15. \A l \in jobs : stored'[l.s][l.t] = stored[l.s][l.t] /\ told'[l.s][l.t] = told[l.s][l.t]
  BY <1>7, <1>14
<1>16. SavedIsStored'
  BY <1>8, <1>12, <1>14, <1>15 DEF IInv, SavedIsStored
<1>17. ToldStands'
  <2> SUFFICES ASSUME NEW r \in Services, NEW q \in Targets, NEW v \in Status, Stands(r, q, v)'
               PROVE  /\ stored'[r][q] = v
                      /\ states[r][q] \in {v, Nothing}
                      /\ \A i \in jobs' : i.s = r /\ i.t = q /\ i.at \in Saving => i.ok = v /\ i.prev = v
    BY <1>1 DEF ToldStands
  <2>1. stored'[r][q] = stored[r][q] /\ told'[r][q] = told[r][q]
    BY <1>7 DEF Stands
  <2>2. Stands(r, q, v)
    BY <2>1 DEF Stands
  <2> QED
    BY <1>12, <2>1, <2>2 DEF IInv, ToldStands
<1>18. MemoryIsTrue'
  <2> SUFFICES ASSUME faults = 0, NEW r \in Services, NEW q \in Targets, Exists(r)
               PROVE  /\ (\A i \in jobs' : i.s = r /\ i.t = q => i.at \notin Saving) =>
                            states[r][q] \in {stored'[r][q], Nothing}
                      /\ \A i \in jobs' : i.s = r /\ i.t = q /\ i.at \in Saving =>
                            (i.prev = "down" <=> told'[r][q].kind = "down")
    BY <1>1, <1>8 DEF MemoryIsTrue
  <2>1. (\A i \in jobs' : i.s = r /\ i.t = q => i.at \notin Saving) =>
           (\A i \in jobs : i.s = r /\ i.t = q => i.at \notin Saving)
    BY <1>13
  <2>2. (\A i \in jobs' : i.s = r /\ i.t = q => i.at \notin Saving) =>
            states[r][q] \in {stored'[r][q], Nothing}
    BY <1>7, <2>1 DEF IInv, MemoryIsTrue
  <2>3. ASSUME NEW i \in jobs', i.s = r, i.t = q, i.at \in Saving
        PROVE  i.prev = "down" <=> told'[r][q].kind = "down"
    <3>1. PICK l \in jobs : i.s = l.s /\ i.t = l.t /\ i.prev = l.prev /\ l.at \in Saving
      BY <1>12, <2>3
    <3>2. told'[r][q] = told[r][q]
      BY <1>15, <2>3, <3>1
    <3> QED
      BY <2>3, <3>1, <3>2 DEF IInv, MemoryIsTrue
  <2> QED
    BY <2>2, <2>3
<1>19. StoredIsTold'
  <2> SUFFICES ASSUME faults = 0, NEW r \in Services, NEW q \in Targets,
                      \A i \in jobs' : i.s = r /\ i.t = q => i.at \notin {"prune", "transition"}
               PROVE  stored'[r][q] = "down" <=> told'[r][q].kind = "down"
    BY <1>1 DEF StoredIsTold
  <2>1. \A i \in jobs : i.s = r /\ i.t = q => i.at \notin {"prune", "transition"}
    BY <1>13 DEF Saving
  <2>2. stored[r][q] = "down" <=> told[r][q].kind = "down"
    BY <2>1 DEF IInv, StoredIsTold
  <2> QED
    BY <1>7, <2>2
<1> QED
  BY <1>9, <1>10, <1>11, <1>16, <1>17, <1>18, <1>19 DEF IInv

LEMMA TransitionStep ==
    ASSUME IInv, NEW j \in jobs, Transition(j)
    PROVE  IInv'
<1> USE MonitorAssumption
<1> DEFINE w == [kind |-> j.ok, other |-> FALSE]
<1>1. /\ j.at = "transition" /\ jobs' = jobs \ {j}
      /\ states' = [states EXCEPT ![j.s][j.t] = j.ok]
      /\ told' = IF Changed(j.prev, j.ok) /\ Exists(j.s) THEN [told EXCEPT ![j.s][j.t] = w] ELSE told
      /\ UNCHANGED <<service, stored, edit, pc, loaded, due, faults>>
  BY DEF Transition, Ended, tables
<1>2. JobTyped(j) /\ j.s \in Services /\ j.t \in Targets /\ j.ok \in {"up", "down"} /\ j.prev \in Status
  BY <1>1 DEF IInv, MonitorTyped, JobTyped
<1>3. w \in [kind : Status, other : BOOLEAN] /\ w.kind = j.ok /\ ~w.other
  BY <1>2 DEF Status
<1> HIDE DEF w
<1>4. /\ states' \in [Services -> [Targets -> Status]] /\ states'[j.s][j.t] = j.ok
      /\ \A r \in Services, q \in Targets : (r # j.s \/ q # j.t) => states'[r][q] = states[r][q]
      /\ \A r \in Services : r # j.s => states'[r] = states[r]
  BY <1>1, <1>2, CellWritten DEF IInv, MonitorTyped, Status
<1>6. /\ told' \in [Services -> [Targets -> [kind : Status, other : BOOLEAN]]]
      /\ \A r \in Services, q \in Targets : (r # j.s \/ q # j.t) => told'[r][q] = told[r][q]
      /\ \A r \in Services : r # j.s => told'[r] = told[r]
      /\ IF Changed(j.prev, j.ok) /\ Exists(j.s) THEN told'[j.s][j.t] = w ELSE told' = told
  <2>1. told \in [Services -> [Targets -> [kind : Status, other : BOOLEAN]]]
    BY DEF IInv, MonitorTyped
  <2>2. CASE Changed(j.prev, j.ok) /\ Exists(j.s)
    BY <1>1, <1>2, <1>3, <2>1, <2>2, CellWritten
  <2>3. CASE ~(Changed(j.prev, j.ok) /\ Exists(j.s))
    BY <1>1, <2>1, <2>3
  <2> QED
    BY <2>2, <2>3
<1>7. \A r \in Services : Exists(r)' <=> Exists(r)
  BY <1>1 DEF Exists
<1>8. MonitorTyped'
  BY <1>1, <1>4, <1>6 DEF IInv, MonitorTyped, EditTyped, JobTyped
<1>9. OneProbe'
  BY <1>1, JobEnds DEF IInv
<1>10. service[j.s] # Nothing
  BY <1>2 DEF IInv, AbsentIsUnknown
<1>11. AbsentIsUnknown'
  <2>1. \A r \in Services : ~Exists(r)' => stored'[r] = Unknown /\ told'[r] = Untold
    BY <1>1, <1>6, <1>7 DEF IInv, AbsentIsUnknown
  <2>2. \A r \in Services : service'[r] = Nothing =>
           states'[r] = Unknown /\ \A x \in loaded' \cup due' \cup jobs' : x.s # r
    BY <1>1, <1>4, <1>10 DEF IInv, AbsentIsUnknown
  <2> QED
    BY <2>1, <2>2 DEF AbsentIsUnknown, Unknown, Untold
<1>12. \A i \in jobs' : i \in jobs /\ (i.s # j.s \/ i.t # j.t)
  BY <1>1 DEF IInv, OneProbe
<1>13. SavedIsStored'
  BY <1>1, <1>7, <1>12 DEF IInv, SavedIsStored, MonitorTyped, JobTyped
<1>14. Exists(j.s) => stored[j.s][j.t] = j.ok
  BY <1>1 DEF IInv, SavedIsStored, Saving
<1>15. ToldStands'
  <2> SUFFICES ASSUME NEW s \in Services, NEW t \in Targets, NEW v \in Status, Stands(s, t, v)'
               PROVE  /\ stored[s][t] = v
                      /\ states'[s][t] \in {v, Nothing}
                      /\ \A i \in jobs' : i.s = s /\ i.t = t /\ i.at \in Saving => i.ok = v /\ i.prev = v
    BY <1>1 DEF ToldStands
  <2>1. CASE s # j.s \/ t # j.t
    <3>1. Stands(s, t, v)
      BY <1>6, <2>1 DEF Stands
    <3> QED
      BY <1>4, <1>12, <2>1, <3>1 DEF IInv, ToldStands
  <2>2. CASE s = j.s /\ t = j.t /\ Changed(j.prev, j.ok) /\ Exists(j.s)
    <3>1. v = j.ok
      BY <1>3, <1>6, <2>2 DEF Stands
    <3> QED
      BY <1>4, <1>12, <1>14, <2>2, <3>1
  <2>3. CASE s = j.s /\ t = j.t /\ ~(Changed(j.prev, j.ok) /\ Exists(j.s))
    <3>1. Stands(s, t, v)
      BY <1>6, <2>3 DEF Stands
    <3>2. stored[s][t] = v /\ j.ok = v
      BY <1>1, <2>3, <3>1 DEF IInv, ToldStands, Saving
    <3> QED
      BY <1>4, <1>12, <2>3, <3>2
  <2> QED
    BY <2>1, <2>2, <2>3
<1>16. \A i \in jobs : i.s = j.s /\ i.t = j.t => i = j
  BY DEF IInv, OneProbe
<1>17. MemoryIsTrue'
  <2> SUFFICES ASSUME faults = 0, NEW s \in Services, NEW t \in Targets, Exists(s)
               PROVE  /\ (\A i \in jobs' : i.s = s /\ i.t = t => i.at \notin Saving) =>
                            states'[s][t] \in {stored[s][t], Nothing}
                      /\ \A i \in jobs' : i.s = s /\ i.t = t /\ i.at \in Saving =>
                            (i.prev = "down" <=> told'[s][t].kind = "down")
    BY <1>1, <1>7 DEF MemoryIsTrue
  <2>1. CASE s # j.s \/ t # j.t
    <3>1. \A i \in jobs : i.s = s /\ i.t = t => i \in jobs'
      BY <1>1, <2>1
    <3> QED
      <4>1. /\ states'[s][t] = states[s][t] /\ told'[s][t] = told[s][t]
            /\ jobs' \subseteq jobs
        BY <1>1, <1>4, <1>6, <2>1
      <4>2. /\ (\A i \in jobs : i.s = s /\ i.t = t => i.at \notin Saving) =>
                  states[s][t] \in {stored[s][t], Nothing}
            /\ \A i \in jobs : i.s = s /\ i.t = t /\ i.at \in Saving =>
                  (i.prev = "down" <=> told[s][t].kind = "down")
        BY DEF IInv, MemoryIsTrue
      <4> QED
        BY <3>1, <4>1, <4>2
  <2>2. CASE s = j.s /\ t = j.t
    BY <1>4, <1>12, <1>14, <2>2
  <2> QED
    BY <2>1, <2>2
<1>18. StoredIsTold'
  <2> SUFFICES ASSUME faults = 0, NEW s \in Services, NEW t \in Targets,
                      \A i \in jobs' : i.s = s /\ i.t = t => i.at \notin {"prune", "transition"}
               PROVE  stored[s][t] = "down" <=> told'[s][t].kind = "down"
    BY <1>1 DEF StoredIsTold
  <2>1. CASE s # j.s \/ t # j.t
    <3>1. \A i \in jobs : i.s = s /\ i.t = t => i.at \notin {"prune", "transition"}
      BY <1>1, <2>1
    <3> QED
      BY <1>6, <2>1, <3>1 DEF IInv, StoredIsTold
  <2>2. CASE s = j.s /\ t = j.t /\ Exists(j.s)
    <3>1. j.prev = "down" <=> told[s][t].kind = "down"
      BY <1>1, <2>2 DEF IInv, MemoryIsTrue, Saving
    <3>2. CASE Changed(j.prev, j.ok)
      BY <1>3, <1>6, <1>14, <2>2, <3>2
    <3>3. CASE ~Changed(j.prev, j.ok)
      <4>1. told' = told
        BY <1>6, <3>3
      <4>2. j.prev = "down" <=> j.ok = "down"
        BY <1>2, <3>3 DEF Changed
      <4> QED
        BY <1>14, <2>2, <3>1, <4>1, <4>2
    <3> QED
      BY <3>2, <3>3
  <2>3. CASE s = j.s /\ ~Exists(j.s)
    <3>1. stored[s] = Unknown /\ told'[s] = Untold
      BY <1>6, <2>3 DEF IInv, AbsentIsUnknown
    <3> QED
      BY <3>1 DEF Unknown, Untold
  <2> QED
    BY <2>1, <2>2, <2>3
<1> QED
  BY <1>8, <1>9, <1>11, <1>13, <1>15, <1>17, <1>18 DEF IInv

LEMMA NextIInv == IInv /\ [Next]_vars => IInv'
<1> SUFFICES ASSUME IInv, [Next]_vars PROVE IInv'
    OBVIOUS
<1>1. CASE LoadServices \/ StartRound \/ ProbeService
  BY <1>1, LoadServicesStep, StartRoundStep, ProbeServiceStep
<1>2. CASE RoundEnds \/ LoadFails \/ ResolveFails \/ Restart
  BY <1>2, RoundStep
<1>3. CASE JobStep
  BY <1>3, BeforeSave, SaveInsertsStep, SavePrunesStep, TransitionStep DEF JobStep
<1>4. ASSUME NEW j \in jobs, SaveFails(j) PROVE IInv'
  BY <1>4, BeforeSave
<1>5. CASE \/ \E u \in Users, x \in Inputs :
                 CreateChecks(u, x) \/ \E s \in Services : UpdateChecks(u, s, x)
           \/ RequestStep \/ RequestEnds \/ AgentChanges \/ UNCHANGED vars
  BY <1>5, RequestSteps
<1>6. ASSUME NEW u \in Users, NEW s \in Services, delete_service(u, s) PROVE IInv'
  BY <1>6, DeleteStep
<1> QED
  BY <1>1, <1>2, <1>3, <1>4, <1>5, <1>6 DEF Next, LoopStep

-----------------------------------------------------------------------------
(* The theorems. *)

\* The inductive invariant holds in every reachable state.
THEOREM Invariance == Spec => []IInv
<1> QED
  BY InitIInv, NextIInv, PTL DEF Spec

\* StoredIsTold: while no access failed, the newest result that ServiceMonitor::save stored
\* of a target is down exactly if the last transition it told was to down.
THEOREM NothingIsUntold == Spec => []StoredIsTold
<1>1. IInv => StoredIsTold
  BY DEF IInv
<1> QED
  BY <1>1, Invariance, PTL

\* NoRepeatedTransition: handle_service_transition tells a status again only after the
\* other one was stored, whatever fails or restarts and however services change.
THEOREM TransitionsAreToldOnce == Spec => NoRepeatedTransition
<1>1. IInv /\ [Next]_vars =>
        [\A s \in Services, t \in Targets :
          (Exists(s) /\ \E j \in jobs : j.s = s /\ j.t = t /\ Transition(j) /\ Changed(j.prev, j.ok)) =>
             (told[s][t].kind # told'[s][t].kind \/ told[s][t].other)]_vars
  <2> SUFFICES ASSUME IInv, NEW s \in Services, NEW t \in Targets, Exists(s),
                      NEW j \in jobs, j.s = s, j.t = t, Transition(j), Changed(j.prev, j.ok),
                      told[s][t].kind = told'[s][t].kind, ~told[s][t].other
               PROVE  FALSE
    OBVIOUS
  <2>1. /\ j.at = "transition"
        /\ told' = [told EXCEPT ![j.s][j.t] = [kind |-> j.ok, other |-> FALSE]]
    BY DEF Transition
  <2>2. j.ok \in {"up", "down"} /\ j.ok \in Status
    BY <2>1 DEF IInv, MonitorTyped, JobTyped
  <2>3. told'[s][t].kind = j.ok
    BY <2>1 DEF IInv, MonitorTyped
  <2>4. Stands(s, t, j.ok)
    BY <2>2, <2>3, MonitorAssumption DEF Stands
  <2>5. j.prev = j.ok
    BY <2>1, <2>2, <2>4 DEF IInv, ToldStands, Saving
  <2> QED
    BY <2>5 DEF Changed
<1> QED
  BY <1>1, Invariance, PTL DEF Spec, NoRepeatedTransition
=============================================================================

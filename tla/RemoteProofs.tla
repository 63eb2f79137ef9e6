---------------------------- MODULE RemoteProofs -----------------------------
(***************************************************************************)
(* Proofs about remote access: what is written, shown or opened was        *)
(* entitled to be, the limits on tunnels, connections and terminals hold,  *)
(* and neither listeners nor the Agent's sessions are left behind, for     *)
(* every set of requests and every value of the limits.                    *)
(***************************************************************************)
EXTENDS Remote, FiniteSetTheorems, SequenceTheorems, WellFoundedInduction, TLAPS

-----------------------------------------------------------------------------
(* What is left of a program: each step with the one that follows it. *)

Reload == {<<"load", "retain">>, <<"retain", "start">>, <<"start", "end">>, <<"list", "start">>}
OnMappings ==
    {<<"nat_create", "auth", "totp">>, <<"nat_create", "totp", "nat_active">>, <<"nat_create", "nat_active", "port">>,
     <<"nat_create", "port", "insert">>, <<"nat_create", "insert", "load">>,
     <<"nat_update", "auth", "totp">>, <<"nat_update", "totp", "get">>, <<"nat_update", "get", "nat_agent">>,
     <<"nat_update", "nat_agent", "port">>, <<"nat_update", "port", "nat_active">>, <<"nat_update", "nat_active", "update">>,
     <<"nat_update", "update", "load">>,
     <<"nat_delete", "auth", "totp">>, <<"nat_delete", "totp", "get">>, <<"nat_delete", "get", "nat_agent">>,
     <<"nat_delete", "nat_agent", "remove">>, <<"nat_delete", "remove", "load">>,
     <<"revoke_agent", "ban", "leave">>, <<"revoke_agent", "leave", "load">>}
OnOthers ==
    {<<"nat_get", "auth", "get">>, <<"nat_get", "get", "nat_agent">>, <<"nat_get", "nat_agent", "mapping">>, <<"nat_get", "mapping", "end">>,
     <<"nat_list", "auth", "nat_agent">>, <<"nat_list", "nat_agent", "mappings">>, <<"nat_list", "mappings", "end">>,
     <<"nat_all", "auth", "runtime">>, <<"nat_all", "runtime", "end">>,
     <<"terminal", "auth", "totp">>, <<"terminal", "totp", "allowed">>, <<"terminal", "allowed", "reach">>,
     <<"terminal", "reach", "pend">>, <<"terminal", "pend", "end">>,
     <<"socket", "auth", "take">>, <<"socket", "take", "allowed">>, <<"socket", "allowed", "subscribe">>,
     <<"socket", "subscribe", "open">>, <<"socket", "open", "bridge">>, <<"socket", "bridge", "unsubscribe">>,
     <<"socket", "unsubscribe", "end">>,
     <<"connect", "accept", "policy">>, <<"connect", "policy", "room">>, <<"connect", "room", "track">>, <<"connect", "track", "record">>,
     <<"connect", "record", "reach">>, <<"connect", "reach", "reserve">>, <<"connect", "reserve", "subscribe">>,
     <<"connect", "subscribe", "open">>, <<"connect", "open", "bridge">>, <<"connect", "bridge", "unsubscribe">>,
     <<"connect", "unsubscribe", "release">>, <<"connect", "release", "bytes">>, <<"connect", "bytes", "end">>,
     <<"flip", "flip", "end">>, <<"tick", "tick", "end">>,
     <<"role", "change", "end">>, <<"leave", "change", "end">>, <<"owner", "change", "end">>}
Order == OnMappings \cup OnOthers \cup {<<op, x[1], x[2]>> : op \in Mapping, x \in Reload}
\* A request may also skip the bridge, or list the listener it has started.
Moves == Order \cup {<<"socket", "open", "unsubscribe">>, <<"connect", "open", "unsubscribe">>}
               \cup {<<op, "start", s>> : op \in Mapping, s \in {"start", "list"}}
First(op) ==
    IF op = "connect" THEN "accept" ELSE IF op = "revoke_agent" THEN "ban" ELSE IF op \in {"flip", "tick"} THEN op
    ELSE IF op \in {"role", "leave", "owner"} THEN "change" ELSE "auth"

StepNames ==
    {"auth", "totp", "nat_active", "port", "insert", "load", "get", "nat_agent", "update", "remove", "ban",
     "leave", "mapping", "mappings", "runtime", "allowed", "reach", "pend", "take", "subscribe", "open",
     "bridge", "unsubscribe", "accept", "policy", "room", "track", "record", "reserve", "release", "bytes",
     "flip", "tick", "change", "retain", "start", "list"}
StepRows == StepNames \X (Ports \cup {Nothing})
Linked(d, op) ==
    \A i \in DOMAIN d : /\ <<op, d[i][1], IF i < Len(d) THEN d[i + 1][1] ELSE "end">> \in Order
                        /\ d[i][1] = "list" => d[i][2] \in Ports

Fields == {"q", "todo", "begun", "admin", "out", "tool", "got", "among", "svcs", "show", "ever"}
Shaped(r) == DOMAIN r = Fields
Stage(r) == IF r.todo = <<>> THEN "end" ELSE r.todo[1][1]

Reading == [id : Rows, row : MappingRows, win : Windows]
OnRow == {"nat_get", "nat_update", "nat_delete"}
Holds(r) ==
    IF r.q.op \in OnRow /\ Stage(r) \notin {"auth", "totp", "get"} THEN r.got \in MappingRows
    ELSE IF r.q.op = "connect" /\ Stage(r) \notin {"accept", "policy"} THEN r.got \in Reading /\ r.got.row.on
    ELSE r.got = Nothing

Sound(r) ==
    /\ Shaped(r) /\ IsRequest(r.q) /\ r.begun \in BOOLEAN /\ r.admin \in BOOLEAN
    /\ r.todo \in Seq(StepRows) /\ Linked(r.todo, r.q.op)
    /\ ~r.begun => Stage(r) = First(r.q.op) /\ r.show = {}
    /\ r.among \subseteq Rows \X Ports
    /\ Holds(r)

-----------------------------------------------------------------------------
(* What a request has met by the time it is where it is. *)

Authed == {"nat_create", "nat_get", "nat_list", "nat_all", "nat_update", "nat_delete", "terminal", "socket"}
Privileged == {"nat_create", "nat_update", "nat_delete", "nat_all", "terminal", "socket"}
Allowed(c, a) == creds[c].servers # Nothing => a \in creds[c].servers

MetAsker(r) ==
    r.q.op \in Authed /\ Stage(r) # "auth" =>
        /\ <<"credential", r.q.by>> \in r.ever
        /\ r.admin => /\ <<"admin", creds[r.q.by].user>> \in r.ever
                      /\ \A a \in Agents : Allowed(r.q.by, a) => <<"sees", r.q.by, a>> \in r.ever
        /\ r.q.op \in Privileged => r.admin /\ creds[r.q.by].kind = "session"
MetRow(r) ==
    r.q.op \in OnRow /\ Stage(r) \notin {"auth", "totp", "get", "nat_agent"} => <<"sees", r.q.by, r.got.server>> \in r.ever
MetActive(r) ==
    r.q.op = "nat_update" /\ Stage(r) \notin {"auth", "totp", "get", "nat_agent", "port", "nat_active"} /\ Updated(r).on
        => <<"active", r.got.server>> \in r.ever
MetList(r) == r.q.op = "nat_list" /\ Stage(r) \notin {"auth", "nat_agent"} => <<"sees", r.q.by, r.q.agent>> \in r.ever
MetAgent(r) ==
    \/ r.q.op = "nat_create" /\ Stage(r) \notin {"auth", "totp", "nat_active"}
    \/ r.q.op = "socket" /\ Stage(r) \notin {"auth", "take", "allowed"}
    => <<"sees", r.q.by, r.q.agent>> \in r.ever /\ <<"active", r.q.agent>> \in r.ever
MetMapping(r) ==
    r.q.op = "connect" /\ Stage(r) \notin {"accept", "policy"}
        => <<"row", r.got.id, r.got.row>> \in r.ever /\ <<"active", r.got.row.server>> \in r.ever
Met(r) == r.show \subseteq r.ever /\ MetAsker(r) /\ MetRow(r) /\ MetActive(r) /\ MetList(r) /\ MetAgent(r) /\ MetMapping(r)

Apart(L) ==
    \A r, s \in L :
        r.q.id = s.q.id \/ (r.q.op = s.q.op /\ r.q.op \in {"connect", "terminal"} /\ r.q.stream = s.q.stream) => r = s
Typed ==
    /\ users \in [Users -> {"admin", "member", Nothing}] /\ creds \in [Creds -> CredRows] /\ agents \in [Agents -> AgentRows]
    /\ rows \in [Rows -> MappingRows \cup {Nothing}] /\ win \in Windows
Requests == Apart(live) /\ \A r \in live : Sound(r) /\ Met(r) /\ Facts \subseteq r.ever
EntitledInv == Typed /\ Requests /\ RemoteIsEntitled

-----------------------------------------------------------------------------
(* The limits. *)

Holding(r) == IsTunnel(r) /\ Stage(r) \in {"subscribe", "open", "bridge", "unsubscribe", "release"}
TunnelsInv ==
    /\ IsFiniteSet(tunnels) /\ Cardinality(tunnels) <= MaxTunnels
    /\ \A m \in Rows : active_tunnel_count_for_mapping(m) <= MapLimit
    /\ \A t \in tunnels : \E r \in live : Holding(r) /\ stream(r) = t[1]

Keys == Rows \X Ips \X Windows
WindowsInv ==
    /\ win \in Windows /\ spent \in [Streams -> Nat]
    /\ used \in [Keys -> [n : Nat, b : Nat]] /\ admitted \in [Keys -> Nat]
    /\ \A k \in Keys : admitted[k] <= used[k].n /\ admitted[k] <= WindowLimit[k[1]]

\* A terminal session: to be created, pending, taken by a socket, opened.
Unmade(r) == r.q.op = "terminal" /\ Stage(r) # "end"
Took(r) == r.q.op = "socket" /\ Stage(r) \notin {"auth", "take"}
Ready(r) == Took(r) /\ Stage(r) \in {"allowed", "subscribe", "open"}
TakenBy(s) == {r \in live : Took(r) /\ stream(r) = s}
OpenedAs(s) == {x \in opened : x[1] = s}
PendingInv ==
    /\ pending \in [Shells -> Creds \cup {Nothing}]
    /\ \A r \in live : Unmade(r) => pending[stream(r)] = Nothing /\ TakenBy(stream(r)) = {} /\ OpenedAs(stream(r)) = {}
    /\ \A s \in Shells : pending[s] # Nothing => TakenBy(s) = {} /\ OpenedAs(s) = {}
    /\ \A r \in live : Ready(r) => OpenedAs(stream(r)) = {}
    /\ \A r, y \in live : Took(r) /\ Took(y) /\ stream(r) = stream(y) => r = y
    /\ TerminalOpensOnce
BoundedInv == TunnelsInv /\ WindowsInv /\ PendingInv

-----------------------------------------------------------------------------
(* Listeners. *)

Wanted == {rows[m].port : m \in Enabled}
PortsOf(r) == {x[2] : x \in r.among}
Renews(r) == Stage(r) \in {"retain", "start", "list"}
\* Mappings have changed, and are still to be loaded.
Dirty == \E r \in live : Stage(r) \in {"load", "leave"} /\ r.begun
SocketsInv ==
    /\ sock \in [Ports -> {"free", "starting", "on", "told"}] /\ listed \subseteq Ports
    /\ \A p \in Ports : p \in listed <=> sock[p] = "on"
    /\ \A r \in live : Stage(r) = "list" => sock[On(r)] = "starting"
    /\ \A r, s \in live : Stage(r) = "list" /\ Stage(s) = "list" /\ On(r) = On(s) => r = s
ReloadInv ==
    ~clash =>
        /\ \A r, s \in live : Renews(r) /\ Renews(s) => r = s
        /\ \/ Dirty
           \/ /\ \A r \in live :
                    /\ Stage(r) = "retain" => PortsOf(r) = Wanted
                    /\ Stage(r) = "start" => listed \cup PortsOf(r) = Wanted
                    /\ Stage(r) = "list" => listed \cup PortsOf(r) \cup {On(r)} = Wanted
              /\ (\A r \in live : ~Renews(r)) => listed = Wanted
ListenersInv == SocketsInv /\ ReloadInv

-----------------------------------------------------------------------------
(* Sessions on the Agent.  The module keeps the sessions of one host: when *)
(* its process or its stream ends (CleanUp), all of them do.               *)

Has(fs, f) == \E i \in DOMAIN fs : fs[i] = f
AtBridge(r) == r.q.op \in {"connect", "socket"} /\ Stage(r) = "bridge"
\* The Agent has not been asked to open it yet.
Unopened(r) ==
    \/ r.q.op = "connect" /\ Stage(r) \notin {"bridge", "unsubscribe", "release", "bytes", "end"}
    \/ Ready(r) \/ Unmade(r)
Unused(s) == (\E r \in live : Unopened(r) /\ stream(r) = s) \/ (s \in Shells /\ pending[s] # Nothing)
\* The end of the server is in the bridge; it is, and the Agent is not connected.
Bridged(s) == \E r \in live : AtBridge(r) /\ stream(r) = s
Cut(s) == \E r \in live : AtBridge(r) /\ ~Online(r) /\ stream(r) = s
Working == {"nat", "mute", "shell", "opening"}
\* A stream that is as st says, with frames d and u on their way and e kept for it.
Standing(s) ==
    {x \in {"unused", "bridged", "cut", "quiet"} :
        \/ (x = "unused" /\ Unused(s)) \/ (x = "bridged" /\ Bridged(s)) \/ (x = "cut" /\ Cut(s)) \/ (x = "quiet" /\ s \in silent)}
Fine(st, d, u, e) ==
    /\ "unused" \in st => d = <<>> /\ u = <<>> /\ e = "none"
    /\ \A i \in DOMAIN d : d[i] = "open" => i = 1 /\ e = "none"
    /\ "quiet" \notin st /\ (e \in Working \/ Has(d, "open")) => Has(d, "close") \/ "bridged" \in st
    /\ Has(u, "close") => e \notin Working /\ ~Has(d, "open")
    /\ "cut" \in st => e = "none" /\ d = <<>>
Downs == Seq({"open", "data", "close"})
Ups == Seq({"ready", "data", "close", "error"})
Keeping == Kept \cup Opening \cup {"none"}
SessionsInv ==
    /\ down \in [Streams -> Downs] /\ up \in [Streams -> Ups] /\ sess \in [Streams -> Keeping]
    /\ \A s \in Streams : Fine(Standing(s), down[s], up[s], sess[s])

-----------------------------------------------------------------------------
(* Sequences of steps. *)

LEMMA TailOf ==
    ASSUME NEW S, NEW d \in Seq(S), d # <<>>
    PROVE  /\ Len(d) \in Nat /\ Len(d) >= 1 /\ Tail(d) \in Seq(S) /\ Len(Tail(d)) = Len(d) - 1
           /\ DOMAIN d = 1..Len(d) /\ DOMAIN Tail(d) = 1..(Len(d) - 1)
           /\ \A i \in 1..(Len(d) - 1) : Tail(d)[i] = d[i + 1]
           /\ \A i \in 2..Len(d) : i - 1 \in DOMAIN Tail(d) /\ d[i] = Tail(d)[i - 1]
  OBVIOUS

LEMMA CatOf ==
    ASSUME NEW S, NEW d \in Seq(S), NEW e \in Seq(S)
    PROVE  /\ d \o e \in Seq(S) /\ Len(d) \in Nat /\ Len(e) \in Nat /\ Len(d \o e) = Len(d) + Len(e)
           /\ DOMAIN d = 1..Len(d) /\ DOMAIN e = 1..Len(e) /\ DOMAIN (d \o e) = 1..(Len(d) + Len(e))
           /\ \A i \in 1..Len(d) : (d \o e)[i] = d[i]
           /\ \A i \in 1..Len(e) : (d \o e)[i + Len(d)] = e[i]
           /\ \A i \in (Len(d) + 1)..(Len(d) + Len(e)) : (d \o e)[i] = e[i - Len(d)]
  OBVIOUS

\* From step x to step z, which is not in it.
Path(d, op, x, z) ==
    /\ d \in Seq(StepRows) /\ d # <<>> /\ d[1][1] = x
    /\ \A i \in DOMAIN d : /\ <<op, d[i][1], IF i < Len(d) THEN d[i + 1][1] ELSE z>> \in Order
                           /\ d[i][1] # "list"

LEMMA PathCat ==
    ASSUME NEW op, NEW x, NEW y, NEW z, NEW s, NEW d, Path(s, op, x, y), Path(d, op, y, z)
    PROVE  Path(s \o d, op, x, z)
  <1> DEFINE e == s \o d
  <1>1. s \in Seq(StepRows) /\ d \in Seq(StepRows) /\ s # <<>> /\ d # <<>>
    BY DEF Path
  <1>2. /\ e \in Seq(StepRows) /\ Len(s) \in Nat /\ Len(d) \in Nat /\ Len(e) = Len(s) + Len(d)
        /\ DOMAIN s = 1..Len(s) /\ DOMAIN d = 1..Len(d) /\ DOMAIN e = 1..(Len(s) + Len(d))
        /\ \A i \in 1..Len(s) : e[i] = s[i]
        /\ \A i \in 1..Len(d) : e[i + Len(s)] = d[i]
        /\ \A i \in (Len(s) + 1)..(Len(s) + Len(d)) : e[i] = d[i - Len(s)]
    BY <1>1, CatOf
  <1> HIDE DEF e
  <1>3. Len(s) >= 1 /\ Len(d) >= 1
    BY <1>1, TailOf
  <1>4. e # <<>> /\ e[1][1] = x
    <2>1. e[1] = s[1]
      BY <1>2, <1>3
    <2>2. Len(e) > 0
      BY <1>2, <1>3
    <2>. QED BY <2>1, <2>2 DEF Path
  <1>5. ASSUME NEW i \in DOMAIN e
        PROVE  <<op, e[i][1], IF i < Len(e) THEN e[i + 1][1] ELSE z>> \in Order /\ e[i][1] # "list"
    <2>1. CASE i < Len(s)
      <3>1. i \in 1..Len(s) /\ i + 1 \in 1..Len(s) /\ i < Len(e)
        BY <1>2, <1>3, <2>1
      <3>2. e[i] = s[i] /\ e[i + 1] = s[i + 1]
        BY <1>2, <3>1
      <3>3. <<op, s[i][1], s[i + 1][1]>> \in Order /\ s[i][1] # "list"
        BY <1>2, <2>1, <3>1 DEF Path
      <3>. QED BY <3>1, <3>2, <3>3
    <2>2. CASE i = Len(s)
      <3>1. i \in 1..Len(s) /\ i + 1 \in (Len(s) + 1)..(Len(s) + Len(d)) /\ i < Len(e) /\ i + 1 - Len(s) = 1
        BY <1>2, <1>3, <2>2
      <3>2. e[i] = s[i] /\ e[i + 1] = d[1]
        BY <1>2, <3>1
      <3>3. <<op, s[i][1], y>> \in Order /\ s[i][1] # "list" /\ d[1][1] = y
        <4>1. i \in DOMAIN s /\ ~(i < Len(s))
          BY <1>2, <2>2, <3>1
        <4>. QED BY <4>1 DEF Path
      <3>. QED BY <3>1, <3>2, <3>3
    <2>3. CASE i > Len(s)
      <3> DEFINE k == i - Len(s)
      <3>1. k \in 1..Len(d) /\ i \in (Len(s) + 1)..(Len(s) + Len(d)) /\ (i < Len(e) <=> k < Len(d))
            /\ (k < Len(d) => i + 1 \in (Len(s) + 1)..(Len(s) + Len(d)) /\ i + 1 - Len(s) = k + 1)
        BY <1>2, <2>3
      <3>2. e[i] = d[k] /\ (k < Len(d) => e[i + 1] = d[k + 1])
        BY <1>2, <3>1
      <3>3. <<op, d[k][1], IF k < Len(d) THEN d[k + 1][1] ELSE z>> \in Order /\ d[k][1] # "list"
        BY <1>2, <3>1 DEF Path
      <3>. QED BY <3>1, <3>2, <3>3
    <2>. QED BY <1>2, <2>1, <2>2, <2>3
  <1>. QED BY <1>2, <1>4, <1>5 DEF Path, e

LEMMA StepIsRow == ASSUME NEW s \in StepNames PROVE Step(s, Nothing) \in StepRows /\ Step(s, Nothing)[1] = s
  BY DEF Step, StepRows

LEMMA PathOne ==
    ASSUME NEW op, NEW x \in StepNames, NEW z, x # "list", <<op, x, z>> \in Order
    PROVE  Path(<<Step(x, Nothing)>>, op, x, z)
  <1> DEFINE d == <<Step(x, Nothing)>>
  <1>1. d \in Seq(StepRows) /\ d # <<>> /\ Len(d) = 1 /\ DOMAIN d = 1..1 /\ d[1] = Step(x, Nothing)
    BY StepIsRow
  <1> HIDE DEF d
  <1>. QED BY <1>1, StepIsRow DEF Path, d

LEMMA PathTwo ==
    ASSUME NEW op, NEW x \in StepNames, NEW y \in StepNames, NEW z, "list" \notin {x, y},
           <<op, x, y>> \in Order, <<op, y, z>> \in Order
    PROVE  Path(<<Step(x, Nothing), Step(y, Nothing)>>, op, x, z)
  <1> DEFINE d == <<Step(x, Nothing), Step(y, Nothing)>>
  <1>1. d \in Seq(StepRows) /\ d # <<>> /\ Len(d) = 2 /\ DOMAIN d = 1..2 /\ d[1] = Step(x, Nothing) /\ d[2] = Step(y, Nothing)
    BY StepIsRow
  <1> HIDE DEF d
  <1>. QED BY <1>1, StepIsRow DEF Path, d

LEMMA PathThree ==
    ASSUME NEW op, NEW a \in StepNames, NEW b \in StepNames, NEW c \in StepNames, NEW z,
           "list" \notin {a, b, c},
           <<op, a, b>> \in Order, <<op, b, c>> \in Order, <<op, c, z>> \in Order
    PROVE  Path(<<Step(a, Nothing), Step(b, Nothing), Step(c, Nothing)>>, op, a, z)
  <1> DEFINE ss == <<Step(a, Nothing), Step(b, Nothing), Step(c, Nothing)>>
  <1>1. /\ ss \in Seq(StepRows) /\ ss # <<>> /\ Len(ss) = 3 /\ DOMAIN ss = 1..3
        /\ ss[1] = Step(a, Nothing) /\ ss[2] = Step(b, Nothing) /\ ss[3] = Step(c, Nothing)
    BY StepIsRow
  <1> HIDE DEF ss
  <1>. QED BY <1>1, StepIsRow DEF Path, ss

LEMMA PathFour ==
    ASSUME NEW op, NEW a \in StepNames, NEW b \in StepNames, NEW c \in StepNames, NEW d \in StepNames, NEW z,
           "list" \notin {a, b, c, d},
           <<op, a, b>> \in Order, <<op, b, c>> \in Order, <<op, c, d>> \in Order, <<op, d, z>> \in Order
    PROVE  Path(<<Step(a, Nothing), Step(b, Nothing), Step(c, Nothing), Step(d, Nothing)>>, op, a, z)
  <1> DEFINE ss == <<Step(a, Nothing), Step(b, Nothing), Step(c, Nothing), Step(d, Nothing)>>
  <1>1. /\ ss \in Seq(StepRows) /\ ss # <<>> /\ Len(ss) = 4 /\ DOMAIN ss = 1..4
        /\ ss[1] = Step(a, Nothing) /\ ss[2] = Step(b, Nothing) /\ ss[3] = Step(c, Nothing) /\ ss[4] = Step(d, Nothing)
    BY StepIsRow
  <1> HIDE DEF ss
  <1>. QED BY <1>1, StepIsRow DEF Path, ss

LEMMA PathFive ==
    ASSUME NEW op, NEW a \in StepNames, NEW b \in StepNames, NEW c \in StepNames, NEW d \in StepNames, NEW e \in StepNames, NEW z,
           "list" \notin {a, b, c, d, e},
           <<op, a, b>> \in Order, <<op, b, c>> \in Order, <<op, c, d>> \in Order, <<op, d, e>> \in Order, <<op, e, z>> \in Order
    PROVE  Path(<<Step(a, Nothing), Step(b, Nothing), Step(c, Nothing), Step(d, Nothing), Step(e, Nothing)>>, op, a, z)
  <1> DEFINE ss == <<Step(a, Nothing), Step(b, Nothing), Step(c, Nothing), Step(d, Nothing), Step(e, Nothing)>>
  <1>1. /\ ss \in Seq(StepRows) /\ ss # <<>> /\ Len(ss) = 5 /\ DOMAIN ss = 1..5
        /\ ss[1] = Step(a, Nothing) /\ ss[2] = Step(b, Nothing) /\ ss[3] = Step(c, Nothing) /\ ss[4] = Step(d, Nothing) /\ ss[5] = Step(e, Nothing)
    BY StepIsRow
  <1> HIDE DEF ss
  <1>. QED BY <1>1, StepIsRow DEF Path, ss

LEMMA PathEight ==
    ASSUME NEW op, NEW a \in StepNames, NEW b \in StepNames, NEW c \in StepNames, NEW d \in StepNames, NEW e \in StepNames, NEW f \in StepNames, NEW g \in StepNames, NEW h \in StepNames, NEW z,
           "list" \notin {a, b, c, d, e, f, g, h},
           <<op, a, b>> \in Order, <<op, b, c>> \in Order, <<op, c, d>> \in Order, <<op, d, e>> \in Order, <<op, e, f>> \in Order, <<op, f, g>> \in Order, <<op, g, h>> \in Order, <<op, h, z>> \in Order
    PROVE  Path(<<Step(a, Nothing), Step(b, Nothing), Step(c, Nothing), Step(d, Nothing), Step(e, Nothing), Step(f, Nothing), Step(g, Nothing), Step(h, Nothing)>>, op, a, z)
  <1> DEFINE ss == <<Step(a, Nothing), Step(b, Nothing), Step(c, Nothing), Step(d, Nothing), Step(e, Nothing), Step(f, Nothing), Step(g, Nothing), Step(h, Nothing)>>
  <1>1. /\ ss \in Seq(StepRows) /\ ss # <<>> /\ Len(ss) = 8 /\ DOMAIN ss = 1..8
        /\ ss[1] = Step(a, Nothing) /\ ss[2] = Step(b, Nothing) /\ ss[3] = Step(c, Nothing) /\ ss[4] = Step(d, Nothing) /\ ss[5] = Step(e, Nothing) /\ ss[6] = Step(f, Nothing) /\ ss[7] = Step(g, Nothing) /\ ss[8] = Step(h, Nothing)
    BY StepIsRow
  <1> HIDE DEF ss
  <1>. QED BY <1>1, StepIsRow DEF Path, ss

-----------------------------------------------------------------------------
(* Each program is the order of its steps. *)

LEMMA ReloadPath == ASSUME NEW op \in Mapping PROVE Path(reload, op, "load", "end")
  <1>1. <<op, "load", "retain">> \in Order /\ <<op, "retain", "start">> \in Order /\ <<op, "start", "end">> \in Order
    <2>1. \A x \in Reload : <<op, x[1], x[2]>> \in Order
      BY DEF Order
    <2>2. <<"load", "retain">> \in Reload /\ <<"retain", "start">> \in Reload /\ <<"start", "end">> \in Reload
      BY DEF Reload
    <2>3. /\ <<op, <<"load", "retain">>[1], <<"load", "retain">>[2]>> \in Order
          /\ <<op, <<"retain", "start">>[1], <<"retain", "start">>[2]>> \in Order
          /\ <<op, <<"start", "end">>[1], <<"start", "end">>[2]>> \in Order
      BY <2>1, <2>2
    <2>. QED BY <2>3
  <1>2. "load" \in StepNames /\ "retain" \in StepNames /\ "start" \in StepNames
    BY DEF StepNames
  <1>3. "list" \notin {"load", "retain", "start"}
    OBVIOUS
  <1>. QED BY <1>1, <1>2, <1>3, PathThree DEF reload

LEMMA MappingPaths ==
    /\ Path(create_nat_mapping, "nat_create", "auth", "end")
    /\ Path(update_nat_mapping, "nat_update", "auth", "end")
    /\ Path(delete_nat_mapping, "nat_delete", "auth", "end")
    /\ Path(revoke_agent, "revoke_agent", "ban", "end")
  <1>0. {"nat_create", "nat_update", "nat_delete", "revoke_agent"} \subseteq Mapping /\ OnMappings \subseteq Order
    BY DEF Mapping, Order
  <1>1. Path(create_nat_mapping, "nat_create", "auth", "end")
    <2>1. Path(require_nat_sensitive_scope_or_403, "nat_create", "auth", "nat_active")
      <3>1. /\ <<"nat_create", "auth", "totp">> \in Order /\ <<"nat_create", "totp", "nat_active">> \in Order
        BY <1>0 DEF OnMappings
      <3>2. "auth" \in StepNames /\ "totp" \in StepNames
        BY DEF StepNames
      <3>3. "list" \notin {"auth", "totp"}
        OBVIOUS
      <3>. QED BY <3>1, <3>2, <3>3, PathTwo DEF require_nat_sensitive_scope_or_403
    <2>2. Path(<<Step("nat_active", Nothing), Step("port", Nothing), Step("insert", Nothing)>>, "nat_create", "nat_active", "load")
      <3>1. /\ <<"nat_create", "nat_active", "port">> \in Order /\ <<"nat_create", "port", "insert">> \in Order /\ <<"nat_create", "insert", "load">> \in Order
        BY <1>0 DEF OnMappings
      <3>2. "nat_active" \in StepNames /\ "port" \in StepNames /\ "insert" \in StepNames
        BY DEF StepNames
      <3>3. "list" \notin {"nat_active", "port", "insert"}
        OBVIOUS
      <3>. QED BY <3>1, <3>2, <3>3, PathThree
    <2>3. Path(reload, "nat_create", "load", "end")
      BY <1>0, ReloadPath
    <2>. QED BY <2>1, <2>2, <2>3, PathCat DEF create_nat_mapping
  <1>2. Path(update_nat_mapping, "nat_update", "auth", "end")
    <2>1. Path(require_nat_sensitive_scope_or_403, "nat_update", "auth", "get")
      <3>1. /\ <<"nat_update", "auth", "totp">> \in Order /\ <<"nat_update", "totp", "get">> \in Order
        BY <1>0 DEF OnMappings
      <3>2. "auth" \in StepNames /\ "totp" \in StepNames
        BY DEF StepNames
      <3>3. "list" \notin {"auth", "totp"}
        OBVIOUS
      <3>. QED BY <3>1, <3>2, <3>3, PathTwo DEF require_nat_sensitive_scope_or_403
    <2>2. Path(<<Step("get", Nothing), Step("nat_agent", Nothing), Step("port", Nothing), Step("nat_active", Nothing), Step("update", Nothing)>>,
               "nat_update", "get", "load")
      <3>1. /\ <<"nat_update", "get", "nat_agent">> \in Order /\ <<"nat_update", "nat_agent", "port">> \in Order /\ <<"nat_update", "port", "nat_active">> \in Order
            /\ <<"nat_update", "nat_active", "update">> \in Order /\ <<"nat_update", "update", "load">> \in Order
        BY <1>0 DEF OnMappings
      <3>2. "get" \in StepNames /\ "nat_agent" \in StepNames /\ "port" \in StepNames /\ "nat_active" \in StepNames /\ "update" \in StepNames
        BY DEF StepNames
      <3>3. "list" \notin {"get", "nat_agent", "port", "nat_active", "update"}
        OBVIOUS
      <3>. QED BY <3>1, <3>2, <3>3, PathFive
    <2>3. Path(reload, "nat_update", "load", "end")
      BY <1>0, ReloadPath
    <2>. QED BY <2>1, <2>2, <2>3, PathCat DEF update_nat_mapping
  <1>3. Path(delete_nat_mapping, "nat_delete", "auth", "end")
    <2>1. Path(require_nat_sensitive_scope_or_403, "nat_delete", "auth", "get")
      <3>1. /\ <<"nat_delete", "auth", "totp">> \in Order /\ <<"nat_delete", "totp", "get">> \in Order
        BY <1>0 DEF OnMappings
      <3>2. "auth" \in StepNames /\ "totp" \in StepNames
        BY DEF StepNames
      <3>3. "list" \notin {"auth", "totp"}
        OBVIOUS
      <3>. QED BY <3>1, <3>2, <3>3, PathTwo DEF require_nat_sensitive_scope_or_403
    <2>2. Path(<<Step("get", Nothing), Step("nat_agent", Nothing), Step("remove", Nothing)>>, "nat_delete", "get", "load")
      <3>1. /\ <<"nat_delete", "get", "nat_agent">> \in Order /\ <<"nat_delete", "nat_agent", "remove">> \in Order /\ <<"nat_delete", "remove", "load">> \in Order
        BY <1>0 DEF OnMappings
      <3>2. "get" \in StepNames /\ "nat_agent" \in StepNames /\ "remove" \in StepNames
        BY DEF StepNames
      <3>3. "list" \notin {"get", "nat_agent", "remove"}
        OBVIOUS
      <3>. QED BY <3>1, <3>2, <3>3, PathThree
    <2>3. Path(reload, "nat_delete", "load", "end")
      BY <1>0, ReloadPath
    <2>. QED BY <2>1, <2>2, <2>3, PathCat DEF delete_nat_mapping
  <1>4. Path(revoke_agent, "revoke_agent", "ban", "end")
    <2>1. Path(<<Step("ban", Nothing), Step("leave", Nothing)>>, "revoke_agent", "ban", "load")
      <3>1. /\ <<"revoke_agent", "ban", "leave">> \in Order /\ <<"revoke_agent", "leave", "load">> \in Order
        BY <1>0 DEF OnMappings
      <3>2. "ban" \in StepNames /\ "leave" \in StepNames
        BY DEF StepNames
      <3>3. "list" \notin {"ban", "leave"}
        OBVIOUS
      <3>. QED BY <3>1, <3>2, <3>3, PathTwo
    <2>2. Path(reload, "revoke_agent", "load", "end")
      BY <1>0, ReloadPath
    <2>. QED BY <2>1, <2>2, PathCat DEF revoke_agent
  <1>. QED BY <1>1, <1>2, <1>3, <1>4

LEMMA OtherPaths ==
    /\ Path(get_nat_mapping, "nat_get", "auth", "end")
    /\ Path(list_nat_mappings, "nat_list", "auth", "end")
    /\ Path(list_all_nat_mappings, "nat_all", "auth", "end")
    /\ Path(accept_loop \o handle_connection, "connect", "accept", "end")
    /\ Path(create_terminal_session, "terminal", "auth", "end")
    /\ Path(ws_terminal, "socket", "auth", "end")
    /\ \A op \in {"flip", "tick"} : Path(<<Step(op, Nothing)>>, op, op, "end")
    /\ \A op \in {"role", "leave", "owner"} : Path(<<Step("change", Nothing)>>, op, "change", "end")
  <1>0. OnOthers \subseteq Order
    BY DEF Order
  <1>1. Path(get_nat_mapping, "nat_get", "auth", "end")
    <2>1. /\ <<"nat_get", "auth", "get">> \in Order /\ <<"nat_get", "get", "nat_agent">> \in Order /\ <<"nat_get", "nat_agent", "mapping">> \in Order
          /\ <<"nat_get", "mapping", "end">> \in Order
      BY <1>0 DEF OnOthers
    <2>2. "auth" \in StepNames /\ "get" \in StepNames /\ "nat_agent" \in StepNames /\ "mapping" \in StepNames
      BY DEF StepNames
    <2>3. "list" \notin {"auth", "get", "nat_agent", "mapping"}
      OBVIOUS
    <2>. QED BY <2>1, <2>2, <2>3, PathFour DEF get_nat_mapping
  <1>2. Path(list_nat_mappings, "nat_list", "auth", "end")
    <2>1. /\ <<"nat_list", "auth", "nat_agent">> \in Order /\ <<"nat_list", "nat_agent", "mappings">> \in Order /\ <<"nat_list", "mappings", "end">> \in Order
      BY <1>0 DEF OnOthers
    <2>2. "auth" \in StepNames /\ "nat_agent" \in StepNames /\ "mappings" \in StepNames
      BY DEF StepNames
    <2>3. "list" \notin {"auth", "nat_agent", "mappings"}
      OBVIOUS
    <2>. QED BY <2>1, <2>2, <2>3, PathThree DEF list_nat_mappings
  <1>3. Path(list_all_nat_mappings, "nat_all", "auth", "end")
    <2>1. /\ <<"nat_all", "auth", "runtime">> \in Order /\ <<"nat_all", "runtime", "end">> \in Order
      BY <1>0 DEF OnOthers
    <2>2. "auth" \in StepNames /\ "runtime" \in StepNames
      BY DEF StepNames
    <2>3. "list" \notin {"auth", "runtime"}
      OBVIOUS
    <2>. QED BY <2>1, <2>2, <2>3, PathTwo DEF list_all_nat_mappings
  <1>4. Path(accept_loop \o handle_connection, "connect", "accept", "end")
    <2>1. Path(accept_loop, "connect", "accept", "reach")
      <3>1. /\ <<"connect", "accept", "policy">> \in Order /\ <<"connect", "policy", "room">> \in Order /\ <<"connect", "room", "track">> \in Order
            /\ <<"connect", "track", "record">> \in Order /\ <<"connect", "record", "reach">> \in Order
        BY <1>0 DEF OnOthers
      <3>2. "accept" \in StepNames /\ "policy" \in StepNames /\ "room" \in StepNames /\ "track" \in StepNames /\ "record" \in StepNames
        BY DEF StepNames
      <3>3. "list" \notin {"accept", "policy", "room", "track", "record"}
        OBVIOUS
      <3>. QED BY <3>1, <3>2, <3>3, PathFive DEF accept_loop
    <2>2. Path(handle_connection, "connect", "reach", "end")
      <3>1. /\ <<"connect", "reach", "reserve">> \in Order /\ <<"connect", "reserve", "subscribe">> \in Order /\ <<"connect", "subscribe", "open">> \in Order
            /\ <<"connect", "open", "bridge">> \in Order /\ <<"connect", "bridge", "unsubscribe">> \in Order /\ <<"connect", "unsubscribe", "release">> \in Order
            /\ <<"connect", "release", "bytes">> \in Order /\ <<"connect", "bytes", "end">> \in Order
        BY <1>0 DEF OnOthers
      <3>2. "reach" \in StepNames /\ "reserve" \in StepNames /\ "subscribe" \in StepNames /\ "open" \in StepNames /\ "bridge" \in StepNames /\ "unsubscribe" \in StepNames /\ "release" \in StepNames /\ "bytes" \in StepNames
        BY DEF StepNames
      <3>3. "list" \notin {"reach", "reserve", "subscribe", "open", "bridge", "unsubscribe", "release", "bytes"}
        OBVIOUS
      <3>. QED BY <3>1, <3>2, <3>3, PathEight DEF handle_connection
    <2>. QED BY <2>1, <2>2, PathCat
  <1>5. Path(create_terminal_session, "terminal", "auth", "end")
    <2>1. Path(require_terminal_session_scope, "terminal", "auth", "allowed")
      <3>1. /\ <<"terminal", "auth", "totp">> \in Order /\ <<"terminal", "totp", "allowed">> \in Order
        BY <1>0 DEF OnOthers
      <3>2. "auth" \in StepNames /\ "totp" \in StepNames
        BY DEF StepNames
      <3>3. "list" \notin {"auth", "totp"}
        OBVIOUS
      <3>. QED BY <3>1, <3>2, <3>3, PathTwo DEF require_terminal_session_scope
    <2>2. Path(<<Step("allowed", Nothing), Step("reach", Nothing), Step("pend", Nothing)>>, "terminal", "allowed", "end")
      <3>1. /\ <<"terminal", "allowed", "reach">> \in Order /\ <<"terminal", "reach", "pend">> \in Order /\ <<"terminal", "pend", "end">> \in Order
        BY <1>0 DEF OnOthers
      <3>2. "allowed" \in StepNames /\ "reach" \in StepNames /\ "pend" \in StepNames
        BY DEF StepNames
      <3>3. "list" \notin {"allowed", "reach", "pend"}
        OBVIOUS
      <3>. QED BY <3>1, <3>2, <3>3, PathThree
    <2>. QED BY <2>1, <2>2, PathCat DEF create_terminal_session
  <1>6. Path(ws_terminal, "socket", "auth", "end")
    <2>1. Path(<<Step("auth", Nothing), Step("take", Nothing), Step("allowed", Nothing)>>, "socket", "auth", "subscribe")
      <3>1. /\ <<"socket", "auth", "take">> \in Order /\ <<"socket", "take", "allowed">> \in Order /\ <<"socket", "allowed", "subscribe">> \in Order
        BY <1>0 DEF OnOthers
      <3>2. "auth" \in StepNames /\ "take" \in StepNames /\ "allowed" \in StepNames
        BY DEF StepNames
      <3>3. "list" \notin {"auth", "take", "allowed"}
        OBVIOUS
      <3>. QED BY <3>1, <3>2, <3>3, PathThree
    <2>2. Path(handle_terminal_socket, "socket", "subscribe", "end")
      <3>1. /\ <<"socket", "subscribe", "open">> \in Order /\ <<"socket", "open", "bridge">> \in Order /\ <<"socket", "bridge", "unsubscribe">> \in Order
            /\ <<"socket", "unsubscribe", "end">> \in Order
        BY <1>0 DEF OnOthers
      <3>2. "subscribe" \in StepNames /\ "open" \in StepNames /\ "bridge" \in StepNames /\ "unsubscribe" \in StepNames
        BY DEF StepNames
      <3>3. "list" \notin {"subscribe", "open", "bridge", "unsubscribe"}
        OBVIOUS
      <3>. QED BY <3>1, <3>2, <3>3, PathFour DEF handle_terminal_socket
    <2>. QED BY <2>1, <2>2, PathCat DEF ws_terminal
  <1>7. \A op \in {"flip", "tick"} : Path(<<Step(op, Nothing)>>, op, op, "end")
    <2>1. \A op \in {"flip", "tick"} : <<op, op, "end">> \in Order
      BY <1>0 DEF OnOthers
    <2>. QED BY <2>1, PathOne DEF StepNames
  <1>8. \A op \in {"role", "leave", "owner"} : Path(<<Step("change", Nothing)>>, op, "change", "end")
    <2>1. \A op \in {"role", "leave", "owner"} : <<op, "change", "end">> \in Order
      BY <1>0 DEF OnOthers
    <2>. QED BY <2>1, PathOne DEF StepNames
  <1>. QED BY <1>1, <1>2, <1>3, <1>4, <1>5, <1>6, <1>7, <1>8

LEMMA ProgramsAreLinked ==
    ASSUME NEW q, IsRequest(q)
    PROVE  /\ Program(q) \in Seq(StepRows) /\ Linked(Program(q), q.op)
           /\ Program(q) # <<>> /\ Program(q)[1][1] = First(q.op)
  <1>1. Path(Program(q), q.op, First(q.op), "end")
    <2>1. q.op \in Asked
      BY DEF IsRequest
    <2>2. CASE q.op \in Mapping
      BY <2>2, MappingPaths DEF Mapping, Program, First
    <2>3. CASE q.op \in {"nat_get", "nat_list", "nat_all", "connect", "terminal", "socket"}
      BY <2>3, OtherPaths DEF Program, First
    <2>4. CASE q.op \in {"flip", "tick"}
      <3>1. Program(q) = <<Step(q.op, Nothing)>> /\ First(q.op) = q.op
        BY <2>4 DEF Program, First
      <3>. QED BY <2>4, <3>1, OtherPaths
    <2>5. CASE q.op \in {"role", "leave", "owner"}
      <3>1. Program(q) = <<Step("change", Nothing)>> /\ First(q.op) = "change"
        BY <2>5 DEF Program, First
      <3>. QED BY <2>5, <3>1, OtherPaths
    <2>. QED BY <2>1, <2>2, <2>3, <2>4, <2>5 DEF Asked
  <1>. QED BY <1>1 DEF Path, Linked

-----------------------------------------------------------------------------
(* Where a request goes. *)

LEMMA NextStage ==
    ASSUME NEW op, NEW d \in Seq(StepRows), d # <<>>, Linked(d, op)
    PROVE  /\ Tail(d) \in Seq(StepRows) /\ Linked(Tail(d), op)
           /\ <<op, d[1][1], IF Tail(d) = <<>> THEN "end" ELSE Tail(d)[1][1]>> \in Order
  <1> DEFINE e == Tail(d)
  <1>1. /\ Len(d) \in Nat /\ Len(d) >= 1 /\ e \in Seq(StepRows) /\ Len(e) = Len(d) - 1
        /\ DOMAIN d = 1..Len(d) /\ DOMAIN e = 1..(Len(d) - 1)
        /\ \A i \in 1..(Len(d) - 1) : e[i] = d[i + 1]
    BY TailOf
  <1> HIDE DEF e
  <1>2. ASSUME NEW i \in DOMAIN e
        PROVE  <<op, e[i][1], IF i < Len(e) THEN e[i + 1][1] ELSE "end">> \in Order /\ (e[i][1] = "list" => e[i][2] \in Ports)
    <2>1. i + 1 \in DOMAIN d /\ e[i] = d[i + 1] /\ (i < Len(e) <=> i + 1 < Len(d)) /\ (i < Len(e) => e[i + 1] = d[i + 1 + 1])
      BY <1>1, <1>2
    <2>2. /\ <<op, d[i + 1][1], IF i + 1 < Len(d) THEN d[i + 1 + 1][1] ELSE "end">> \in Order
          /\ d[i + 1][1] = "list" => d[i + 1][2] \in Ports
      BY <2>1 DEF Linked
    <2>. QED BY <2>1, <2>2
  <1>3. <<op, d[1][1], IF e = <<>> THEN "end" ELSE e[1][1]>> \in Order
    <2>1. 1 \in DOMAIN d /\ (1 < Len(d) <=> e # <<>>) /\ (e # <<>> => e[1] = d[1 + 1])
      BY <1>1
    <2>2. <<op, d[1][1], IF 1 < Len(d) THEN d[1 + 1][1] ELSE "end">> \in Order
      BY <2>1 DEF Linked
    <2>. QED BY <2>1, <2>2
  <1>. QED BY <1>1, <1>2, <1>3 DEF Linked, e

\* Which request a step is of, and what follows it.
AfterIs(op, s, t) ==
    /\ s = "auth" => (op \in {"nat_create", "nat_update", "nat_delete", "terminal"} /\ t = "totp") \/ (op = "nat_get" /\ t = "get") \/ (op = "nat_list" /\ t = "nat_agent") \/ (op = "nat_all" /\ t = "runtime") \/ (op = "socket" /\ t = "take")
    /\ s = "totp" => (op = "nat_create" /\ t = "nat_active") \/ (op \in {"nat_update", "nat_delete"} /\ t = "get") \/ (op = "terminal" /\ t = "allowed")
    /\ s = "nat_active" => (op = "nat_create" /\ t = "port") \/ (op = "nat_update" /\ t = "update")
    /\ s = "port" => (op = "nat_create" /\ t = "insert") \/ (op = "nat_update" /\ t = "nat_active")
    /\ s = "insert" => op = "nat_create" /\ t = "load"
    /\ s = "get" => op \in {"nat_update", "nat_delete", "nat_get"} /\ t = "nat_agent"
    /\ s = "nat_agent" => (op = "nat_update" /\ t = "port") \/ (op = "nat_delete" /\ t = "remove") \/ (op = "nat_get" /\ t = "mapping") \/ (op = "nat_list" /\ t = "mappings")
    /\ s = "update" => op = "nat_update" /\ t = "load"
    /\ s = "remove" => op = "nat_delete" /\ t = "load"
    /\ s = "ban" => op = "revoke_agent" /\ t = "leave"
    /\ s = "leave" => op = "revoke_agent" /\ t = "load"
    /\ s = "mapping" => op = "nat_get" /\ t = "end"
    /\ s = "mappings" => op = "nat_list" /\ t = "end"
    /\ s = "runtime" => op = "nat_all" /\ t = "end"
    /\ s = "allowed" => (op = "terminal" /\ t = "reach") \/ (op = "socket" /\ t = "subscribe")
    /\ s = "reach" => (op = "terminal" /\ t = "pend") \/ (op = "connect" /\ t = "reserve")
    /\ s = "pend" => op = "terminal" /\ t = "end"
    /\ s = "take" => op = "socket" /\ t = "allowed"
    /\ s = "subscribe" => op \in {"socket", "connect"} /\ t = "open"
    /\ s = "open" => op \in {"socket", "connect"} /\ t = "bridge"
    /\ s = "bridge" => op \in {"socket", "connect"} /\ t = "unsubscribe"
    /\ s = "unsubscribe" => (op = "socket" /\ t = "end") \/ (op = "connect" /\ t = "release")
    /\ s = "accept" => op = "connect" /\ t = "policy"
    /\ s = "policy" => op = "connect" /\ t = "room"
    /\ s = "room" => op = "connect" /\ t = "track"
    /\ s = "track" => op = "connect" /\ t = "record"
    /\ s = "record" => op = "connect" /\ t = "reach"
    /\ s = "reserve" => op = "connect" /\ t = "subscribe"
    /\ s = "release" => op = "connect" /\ t = "bytes"
    /\ s = "bytes" => op = "connect" /\ t = "end"
    /\ s = "flip" => op = "flip" /\ t = "end"
    /\ s = "tick" => op = "tick" /\ t = "end"
    /\ s = "change" => op \in {"role", "leave", "owner"} /\ t = "end"
    /\ s = "load" => op \in Mapping /\ t = "retain"
    /\ s = "retain" => op \in Mapping /\ t = "start"
    /\ s = "start" => op \in Mapping /\ t = "end"
    /\ s = "list" => op \in Mapping /\ t = "start"
    /\ s # "end" /\ t # "list"
LEMMA OrderIs == ASSUME NEW op, NEW s, NEW t, <<op, s, t>> \in Order PROVE AfterIs(op, s, t)
  <1>1. CASE <<op, s, t>> \in OnMappings
    BY <1>1 DEF OnMappings, AfterIs
  <1>2. CASE <<op, s, t>> \in OnOthers
    BY <1>2 DEF OnOthers, AfterIs
  <1>3. CASE op \in Mapping /\ <<s, t>> \in Reload
    BY <1>3 DEF Reload, AfterIs
  <1>4. \/ <<op, s, t>> \in OnMappings \/ <<op, s, t>> \in OnOthers
        \/ op \in Mapping /\ <<s, t>> \in Reload
    <2>1. CASE <<op, s, t>> \in {<<o, x[1], x[2]>> : o \in Mapping, x \in Reload}
      <3>1. PICK o \in Mapping, x \in Reload : <<op, s, t>> = <<o, x[1], x[2]>>
        BY <2>1
      <3>2. op = o /\ s = x[1] /\ t = x[2] /\ x = <<x[1], x[2]>>
        BY <3>1 DEF Reload
      <3>. QED BY <3>2
    <2>. QED BY <2>1 DEF Order
  <1>. QED BY <1>1, <1>2, <1>3, <1>4

-----------------------------------------------------------------------------
(* What a request remembers. *)

Same(r, s) ==
    /\ Shaped(s) /\ s.q = r.q /\ s.todo = r.todo /\ s.begun = r.begun /\ s.admin = r.admin /\ s.out = r.out
    /\ s.got = r.got /\ s.among = r.among /\ s.show = r.show
SameCreds ==
    \A c \in Creds : creds'[c].user = creds[c].user /\ creds'[c].kind = creds[c].kind /\ creds'[c].servers = creds[c].servers

LEMMA SameSound ==
    ASSUME NEW r, NEW s, Same(r, s)
    PROVE  Stage(s) = Stage(r) /\ (Sound(r) => Sound(s)) /\ (r.todo # <<>> => On(s) = On(r)) /\ PortsOf(s) = PortsOf(r) /\ stream(s) = stream(r)
  <1>1. Stage(s) = Stage(r) /\ (r.todo # <<>> => On(s) = On(r)) /\ PortsOf(s) = PortsOf(r) /\ stream(s) = stream(r)
    BY DEF Same, Stage, On, PortsOf, stream
  <1>2. Sound(r) => Sound(s)
    BY <1>1 DEF Same, Sound, Holds
  <1>. QED BY <1>1, <1>2

LEMMA FreshIsMet == ASSUME NEW s, Sound(s), ~s.begun PROVE Met(s)'
  <1>1. s.show = {} /\ s.q.op \in Asked /\ Stage(s) = First(s.q.op)
    BY DEF Sound, IsRequest
  <1>2. s.q.op \in Authed => Stage(s) = "auth"
    BY <1>1 DEF First, Authed
  <1>3. s.q.op = "connect" => Stage(s) = "accept"
    BY <1>1 DEF First
  <1>4. s.q.op \in OnRow \cup {"nat_list", "nat_create", "socket"} => s.q.op \in Authed
    BY DEF OnRow, Authed
  <1>. QED BY <1>1, <1>2, <1>3, <1>4 DEF Met, MetAsker, MetRow, MetActive, MetList, MetAgent, MetMapping, OnRow

LEMMA MetMore ==
    ASSUME NEW r, NEW s, Sound(r), Met(r), Same(r, s), r.ever \subseteq s.ever, SameCreds
    PROVE  Met(s)'
  <1>1. Stage(s) = Stage(r) /\ s.q = r.q /\ s.got = r.got /\ s.admin = r.admin /\ s.show = r.show /\ r.q.by \in Creds
    BY SameSound DEF Same, Sound, IsRequest
  <1>2. /\ creds'[r.q.by].user = creds[r.q.by].user /\ creds'[r.q.by].kind = creds[r.q.by].kind
        /\ creds'[r.q.by].servers = creds[r.q.by].servers
    BY <1>1 DEF SameCreds
  <1>3. MetAsker(s)'
    BY <1>1, <1>2 DEF Met, MetAsker, Allowed
  <1>4. MetRow(s)' /\ MetList(s)' /\ MetAgent(s)' /\ MetMapping(s)'
    BY <1>1 DEF Met, MetRow, MetList, MetAgent, MetMapping
  <1>5. MetActive(s)'
    BY <1>1 DEF Met, MetActive, Updated
  <1>6. s.show \subseteq s.ever
    BY <1>1 DEF Met
  <1>. QED BY <1>3, <1>4, <1>5, <1>6 DEF Met

LEMMA Noting ==
    ASSUME NEW L, \A r \in L : Shaped(r), live' = Noted(L)
    PROVE  /\ \A s \in live' : \E r \in L : Same(r, s) /\ Facts' \subseteq s.ever /\ (r.begun => r.ever \subseteq s.ever)
           /\ \A r \in L : \E s \in live' : Same(r, s)
           /\ Apart(L) => Apart(live')
  <1> DEFINE N(r) == [r EXCEPT !.ever = IF r.begun THEN r.ever \cup Facts' ELSE Facts']
  <1>1. live' = {N(r) : r \in L}
    BY DEF Noted
  <1>2. ASSUME NEW r \in L PROVE Same(r, N(r)) /\ Facts' \subseteq N(r).ever /\ (r.begun => r.ever \subseteq N(r).ever)
    <2>1. Same(r, N(r))
      BY DEF Same, Shaped, Fields
    <2>2. N(r).ever = IF r.begun THEN r.ever \cup Facts' ELSE Facts'
      BY DEF Shaped, Fields
    <2> HIDE DEF N
    <2>. QED BY <2>1, <2>2
  <1> HIDE DEF N
  <1>3. Apart(L) => Apart(live')
    <2>1. ASSUME Apart(L), NEW s \in live', NEW z \in live',
                 s.q.id = z.q.id \/ (s.q.op = z.q.op /\ s.q.op \in {"connect", "terminal"} /\ s.q.stream = z.q.stream)
          PROVE  s = z
      <3>1. PICK r \in L : s = N(r)
        BY <1>1
      <3>2. PICK y \in L : z = N(y)
        BY <1>1
      <3>3. s.q = r.q /\ z.q = y.q
        BY <1>2, <3>1, <3>2 DEF Same
      <3>4. r = y
        BY <2>1, <3>3 DEF Apart
      <3>. QED BY <3>1, <3>2, <3>4
    <2>. QED BY <2>1 DEF Apart
  <1>. QED BY <1>1, <1>2, <1>3

LEMMA LivesOn ==
    ASSUME NEW L, Apart(L), \A r \in L : Sound(r) /\ Met(r), live' = Noted(L), SameCreds
    PROVE  Requests'
  <1>1. \A r \in L : Shaped(r)
    BY DEF Sound
  <1>2. /\ \A s \in live' : \E r \in L : Same(r, s) /\ Facts' \subseteq s.ever /\ (r.begun => r.ever \subseteq s.ever)
        /\ Apart(live')
    BY <1>1, Noting
  <1>3. ASSUME NEW s \in live' PROVE Sound(s) /\ Met(s)' /\ Facts' \subseteq s.ever
    <2>1. PICK r \in L : Same(r, s) /\ Facts' \subseteq s.ever /\ (r.begun => r.ever \subseteq s.ever)
      BY <1>2
    <2>2. Sound(s)
      BY <2>1, SameSound
    <2>3. CASE r.begun
      BY <2>1, <2>2, <2>3, MetMore
    <2>4. CASE ~r.begun
      <3>1. ~s.begun
        BY <2>1, <2>4 DEF Same
      <3>. QED BY <2>1, <2>2, <3>1, FreshIsMet
    <2>. QED BY <2>3, <2>4
  <1>. QED BY <1>2, <1>3 DEF Requests

-----------------------------------------------------------------------------
(* One request goes on or ends; the others stay as they are. *)

Follows(r, x) == Sound(x) /\ Met(x) /\ x.q = r.q /\ x.begun /\ <<r.q.op, Stage(r), Stage(x)>> \in Moves
Goes(r, x) == live' = Noted((live \ {r}) \cup {x}) /\ Follows(r, x)
Quits(r) == live' = Noted(live \ {r})

LEMMA ApartStill ==
    ASSUME Apart(live), NEW r \in live, NEW x, x.q = r.q
    PROVE  Apart(live \ {r}) /\ Apart((live \ {r}) \cup {x})
  <1>1. Apart(live \ {r})
    BY DEF Apart
  <1>2. ASSUME NEW y \in (live \ {r}) \cup {x}, NEW z \in (live \ {r}) \cup {x},
               y.q.id = z.q.id \/ (y.q.op = z.q.op /\ y.q.op \in {"connect", "terminal"} /\ y.q.stream = z.q.stream)
        PROVE  y = z
    <2>1. CASE y = x /\ z # x
      <3>1. r = z
        BY <1>2, <2>1 DEF Apart
      <3>. QED BY <2>1, <3>1
    <2>2. CASE z = x /\ y # x
      <3>1. r = y
        BY <1>2, <2>2 DEF Apart
      <3>. QED BY <2>2, <3>1
    <2>3. CASE z # x /\ y # x
      BY <1>2, <2>3 DEF Apart
    <2>. QED BY <2>1, <2>2, <2>3
  <1>3. Apart((live \ {r}) \cup {x})
    BY <1>2 DEF Apart
  <1>. QED BY <1>1, <1>3

LEMMA GoesOn == ASSUME Requests, NEW r \in live, NEW x, Goes(r, x), SameCreds PROVE Requests'
  <1>1. Apart((live \ {r}) \cup {x})
    BY ApartStill DEF Requests, Goes, Follows
  <1>2. \A y \in (live \ {r}) \cup {x} : Sound(y) /\ Met(y)
    BY DEF Requests, Goes, Follows
  <1>. QED BY <1>1, <1>2, LivesOn DEF Goes

LEMMA QuitsOn == ASSUME Requests, NEW r \in live, Quits(r), SameCreds PROVE Requests'
  <1>1. Apart(live \ {r})
    BY ApartStill DEF Requests
  <1>2. \A y \in live \ {r} : Sound(y) /\ Met(y)
    BY DEF Requests
  <1>. QED BY <1>1, <1>2, LivesOn DEF Quits

\* The same requests under other notes.
Renamed(L) == (\A s \in live' : \E y \in L : Same(y, s)) /\ (\A y \in L : \E s \in live' : Same(y, s))

LEMMA Renaming ==
    ASSUME Requests, NEW r \in live, NEW x
    PROVE  /\ Goes(r, x) => Renamed((live \ {r}) \cup {x})
           /\ Quits(r) => Renamed(live \ {r})
           /\ live' = live => Renamed(live)
  <1>1. Goes(r, x) => Renamed((live \ {r}) \cup {x})
    <2>1. SUFFICES ASSUME Goes(r, x) PROVE Renamed((live \ {r}) \cup {x})
      OBVIOUS
    <2>2. \A y \in (live \ {r}) \cup {x} : Shaped(y)
      BY <2>1 DEF Requests, Goes, Follows, Sound
    <2>. QED BY <2>1, <2>2, Noting DEF Renamed, Goes
  <1>2. Quits(r) => Renamed(live \ {r})
    <2>1. SUFFICES ASSUME Quits(r) PROVE Renamed(live \ {r})
      OBVIOUS
    <2>2. \A y \in live \ {r} : Shaped(y)
      BY DEF Requests, Sound
    <2>. QED BY <2>1, <2>2, Noting DEF Renamed, Quits
  <1>3. live' = live => Renamed(live)
    BY DEF Renamed, Same, Requests, Sound
  <1>. QED BY <1>1, <1>2, <1>3

\* What is true now and has been noted.
LEMMA Now ==
    /\ \A c \in Creds : creds[c].valid /\ users[creds[c].user] # Nothing => <<"credential", c>> \in Facts
    /\ \A c \in Creds, a \in Agents : CanSee(c, IsAdmin(creds[c].user), a) => <<"sees", c, a>> \in Facts
    /\ \A a \in Agents : ~agents[a].revoked => <<"active", a>> \in Facts
    /\ \A u \in Users : IsAdmin(u) => <<"admin", u>> \in Facts
    /\ \A m \in Rows : <<"row", m, rows[m]>> \in Facts
  <1>1. ASSUME NEW c \in Creds, creds[c].valid /\ users[creds[c].user] # Nothing PROVE <<"credential", c>> \in Facts
    BY <1>1 DEF Facts
  <1>2. ASSUME NEW c \in Creds, NEW a \in Agents, CanSee(c, IsAdmin(creds[c].user), a) PROVE <<"sees", c, a>> \in Facts
    <2> DEFINE y == <<c, a>>
    <2>1. y \in Creds \X Agents /\ y[1] = c /\ y[2] = a
      OBVIOUS
    <2>2. <<"sees", c, a>> \in {<<"sees", x[1], x[2]>> : x \in {z \in Creds \X Agents : CanSee(z[1], IsAdmin(creds[z[1]].user), z[2])}}
      BY <1>2, <2>1
    <2>. QED BY <2>2 DEF Facts
  <1>3. ASSUME NEW a \in Agents, ~agents[a].revoked PROVE <<"active", a>> \in Facts
    BY <1>3 DEF Facts
  <1>4. ASSUME NEW u \in Users, IsAdmin(u) PROVE <<"admin", u>> \in Facts
    BY <1>4 DEF Facts
  <1>5. ASSUME NEW m \in Rows PROVE <<"row", m, rows[m]>> \in Facts
    BY DEF Facts
  <1>. QED BY <1>1, <1>2, <1>3, <1>4, <1>5

LEMMA MovesIs ==
    ASSUME NEW op, NEW s, NEW t, <<op, s, t>> \in Moves
    PROVE  \/ AfterIs(op, s, t)
           \/ op \in {"socket", "connect"} /\ s = "open" /\ t = "unsubscribe"
           \/ op \in Mapping /\ s = "start" /\ t \in {"start", "list"}
  <1>1. CASE <<op, s, t>> \in Order
    BY <1>1, OrderIs
  <1>2. CASE <<op, s, t>> \in {<<"socket", "open", "unsubscribe">>, <<"connect", "open", "unsubscribe">>}
    BY <1>2
  <1>3. CASE <<op, s, t>> \in {<<o, "start", z>> : o \in Mapping, z \in {"start", "list"}}
    BY <1>3
  <1>. QED BY <1>1, <1>2, <1>3 DEF Moves

LEMMA AtIs == ASSUME NEW r, NEW s, At(r, s) PROVE r.todo # <<>> /\ Stage(r) = s
  BY DEF At, Stage
LEMMA OrderMoves == Order \subseteq Moves
  BY DEF Moves

\* Steps after which a request has met more than before.
Crossing == {"auth", "get", "nat_agent", "nat_active", "policy", "allowed"}
\* x takes what r holds with it; of a connection the window may be another.
Carries(r, x) ==
    /\ Shaped(x) /\ x.q = r.q /\ x.begun = TRUE /\ x.admin = r.admin /\ x.ever = r.ever /\ x.show \subseteq r.ever
    /\ x.todo \in Seq(StepRows) /\ Linked(x.todo, r.q.op) /\ x.among \subseteq Rows \X Ports
    /\ \/ x.got = r.got
       \/ Stage(r) = "track" /\ x.got \in Reading /\ x.got.id = r.got.id /\ x.got.row = r.got.row

LEMMA Keeps ==
    ASSUME NEW r, NEW x, Sound(r), Met(r), Carries(r, x), <<r.q.op, Stage(r), Stage(x)>> \in Moves, Stage(r) \notin Crossing
    PROVE  Follows(r, x)
  <1> DEFINE op == r.q.op
             s == Stage(r)
             t == Stage(x)
  <1>1. \/ AfterIs(op, s, t)
        \/ op \in {"socket", "connect"} /\ s = "open" /\ t = "unsubscribe"
        \/ op \in Mapping /\ s = "start" /\ t \in {"start", "list"}
    BY MovesIs
  <1>2. x.q = r.q /\ x.admin = r.admin /\ x.ever = r.ever /\ IsRequest(r.q) /\ op \in Asked
    BY DEF Carries, Sound, IsRequest
  <1>3. s \notin Crossing /\ s # "end"
    <2>1. s # "end"
      BY <1>1 DEF AfterIs
    <2>. QED BY <2>1
  <1>4. s \in StepNames
    <2>1. r.todo # <<>> /\ r.todo \in Seq(StepRows)
      BY <1>3 DEF Stage, Sound
    <2>2. r.todo[1] \in StepRows
      BY <2>1, TailOf
    <2>3. r.todo[1][1] \in StepNames
      BY <2>2 DEF StepRows
    <2>. QED BY <2>1, <2>3 DEF Stage
  <1>5. s # "auth"
    BY <1>3 DEF Crossing
  <1>6. op \in OnRow /\ t \notin {"auth", "totp", "get"} => s \notin {"auth", "totp", "get"}
    BY <1>1, <1>3 DEF AfterIs, OnRow, Crossing
  <1>7. op \in OnRow /\ t \notin {"auth", "totp", "get", "nat_agent"} => s \notin {"auth", "totp", "get", "nat_agent"}
    BY <1>1, <1>3 DEF AfterIs, OnRow, Crossing
  <1>8. op = "nat_update" /\ t \notin {"auth", "totp", "get", "nat_agent", "port", "nat_active"}
        => s \notin {"auth", "totp", "get", "nat_agent", "port", "nat_active"}
    BY <1>1, <1>3 DEF AfterIs, Crossing
  <1>9. op = "connect" /\ t \notin {"accept", "policy"} => s \notin {"accept", "policy"}
    BY <1>1, <1>3 DEF AfterIs, Crossing
  <1>10. op = "nat_list" /\ t \notin {"auth", "nat_agent"} => s \notin {"auth", "nat_agent"}
    BY <1>1, <1>3 DEF AfterIs, Crossing
  <1>11. op = "nat_create" /\ t \notin {"auth", "totp", "nat_active"} => s \notin {"auth", "totp", "nat_active"}
    BY <1>1, <1>3 DEF AfterIs, Crossing
  <1>12. op = "socket" /\ t \notin {"auth", "take", "allowed"} => s \notin {"auth", "take", "allowed"}
    BY <1>1, <1>3 DEF AfterIs, Crossing
  <1> HIDE DEF op, s, t
  <1>13. op \in OnRow /\ t \in {"auth", "totp", "get"} => s \in {"auth", "totp", "get"}
    BY <1>1, <1>3, <1>4 DEF AfterIs, OnRow, Crossing, StepNames
  <1>14. op = "connect" /\ t \in {"accept", "policy"} => s = "accept"
    BY <1>1, <1>3, <1>4 DEF AfterIs, Crossing, StepNames
  <1>22. s = "track" => op = "connect"
    BY <1>1 DEF AfterIs
  <1>15. Holds(x)
    <2>1. CASE op \in OnRow
      <3>1. x.got = r.got /\ op # "connect"
        BY <1>22, <2>1 DEF Carries, op, s, OnRow
      <3>. QED BY <1>2, <1>6, <1>13, <2>1, <3>1 DEF Sound, Holds, op, s, t
    <2>2. CASE op = "connect"
      <3>0. op \notin OnRow
        BY <2>2 DEF OnRow
      <3>1. CASE t \notin {"accept", "policy"}
        <4>1. r.got \in Reading /\ r.got.row.on
          BY <1>9, <2>2, <3>0, <3>1 DEF Sound, Holds, op, s
        <4>2. x.got \in Reading /\ x.got.row.on
          BY <4>1 DEF Carries
        <4>. QED BY <1>2, <2>2, <3>0, <3>1, <4>2 DEF Holds, op, t
      <3>2. CASE t \in {"accept", "policy"}
        <4>1. s = "accept"
          BY <1>14, <2>2, <3>2
        <4>2. r.got = Nothing
          BY <2>2, <3>0, <4>1 DEF Sound, Holds, op, s
        <4>3. x.got = Nothing
          BY <4>1, <4>2 DEF Carries, s
        <4>. QED BY <1>2, <2>2, <3>0, <3>2, <4>3 DEF Holds, op, t
      <3>. QED BY <3>1, <3>2
    <2>3. CASE op \notin OnRow /\ op # "connect"
      BY <1>2, <1>22, <2>3 DEF Carries, Sound, Holds, op, s
    <2>. QED BY <2>1, <2>2, <2>3
  <1>16. Sound(x)
    BY <1>2, <1>15 DEF Carries, Sound
  <1>17. MetAsker(x)
    BY <1>2, <1>5 DEF Met, MetAsker, op, s, t
  <1>18. MetRow(x) /\ MetActive(x)
    <2>1. op \in OnRow => x.got = r.got
      BY <1>22 DEF Carries, op, s, OnRow
    <2>2. MetRow(x)
      BY <1>2, <1>7, <2>1 DEF Met, MetRow, op, s, t
    <2>3. MetActive(x)
      <3>1. op = "nat_update" => x.got = r.got
        BY <2>1 DEF OnRow
      <3>. QED BY <1>2, <1>8, <3>1 DEF Met, MetActive, Updated, op, s, t
    <2>. QED BY <2>2, <2>3
  <1>19. MetList(x) /\ MetAgent(x)
    BY <1>2, <1>10, <1>11, <1>12 DEF Met, MetList, MetAgent, op, s, t
  <1>20. MetMapping(x)
    <2>1. op = "connect" => (x.got = r.got \/ (x.got.id = r.got.id /\ x.got.row = r.got.row))
      BY DEF Carries
    <2>. QED BY <1>2, <1>9, <2>1 DEF Met, MetMapping, op, s, t
  <1>21. Met(x)
    BY <1>2, <1>17, <1>18, <1>19, <1>20 DEF Carries, Met
  <1>. QED BY <1>2, <1>16, <1>21 DEF Follows, Carries

-----------------------------------------------------------------------------
(* A request takes its next step. *)

Advances(r) == \E x : Goes(r, x) /\ x.among = r.among /\ <<r.q.op, Stage(r), Stage(x)>> \in Order

LEMMA NextIs ==
    ASSUME NEW r, Sound(r), r.todo # <<>>, NEW x, x.q = r.q, x.todo = Tail(r.todo)
    PROVE  /\ x.todo \in Seq(StepRows) /\ Linked(x.todo, r.q.op)
           /\ <<r.q.op, Stage(r), Stage(x)>> \in Order /\ <<r.q.op, Stage(r), Stage(x)>> \in Moves
           /\ AfterIs(r.q.op, Stage(r), Stage(x))
  <1>1. /\ x.todo \in Seq(StepRows) /\ Linked(x.todo, r.q.op)
        /\ <<r.q.op, r.todo[1][1], IF x.todo = <<>> THEN "end" ELSE x.todo[1][1]>> \in Order
    BY NextStage DEF Sound
  <1>2. <<r.q.op, Stage(r), Stage(x)>> \in Order
    BY <1>1 DEF Stage
  <1>. QED BY <1>1, <1>2, OrderMoves, OrderIs

LEMMA CarryGo ==
    ASSUME Requests, NEW r \in live, r.todo # <<>>, Stage(r) \notin Crossing, NEW x,
           Shaped(x), x.q = r.q, x.todo = Tail(r.todo), x.begun = TRUE, x.admin = r.admin, x.ever = r.ever,
           x.show \subseteq r.ever, x.among \subseteq Rows \X Ports,
           x.got = r.got \/ (Stage(r) = "track" /\ x.got \in Reading /\ x.got.id = r.got.id /\ x.got.row = r.got.row),
           Goto(r, x)
    PROVE  Goes(r, x) /\ <<r.q.op, Stage(r), Stage(x)>> \in Order
  <1>1. Sound(r) /\ Met(r)
    BY DEF Requests
  <1>2. /\ x.todo \in Seq(StepRows) /\ Linked(x.todo, r.q.op)
        /\ <<r.q.op, Stage(r), Stage(x)>> \in Order /\ <<r.q.op, Stage(r), Stage(x)>> \in Moves
    BY <1>1, NextIs
  <1>3. Carries(r, x)
    BY <1>2 DEF Carries
  <1>4. Follows(r, x)
    BY <1>1, <1>2, <1>3, Keeps
  <1>. QED BY <1>2, <1>4 DEF Goes, Goto

LEMMA PlainGo ==
    ASSUME Requests, NEW r \in live, NEW s, At(r, s), s \notin Crossing, Proceeds(r)
    PROVE  Advances(r)
  <1> DEFINE x == Next_(r)
  <1>1. Sound(r) /\ Met(r) /\ r.todo # <<>> /\ Stage(r) = s
    BY AtIs DEF Requests
  <1>2. /\ Shaped(x) /\ x.q = r.q /\ x.todo = Tail(r.todo) /\ x.begun = TRUE /\ x.admin = r.admin
        /\ x.got = r.got /\ x.among = r.among /\ x.show = r.show /\ x.ever = r.ever
    BY <1>1 DEF Next_, Shaped, Fields, Sound
  <1>3. Goto(r, x)
    BY DEF Proceeds
  <1> HIDE DEF x
  <1>4. x.show \subseteq r.ever /\ x.among \subseteq Rows \X Ports
    BY <1>1, <1>2 DEF Sound, Met
  <1>5. Goes(r, x) /\ <<r.q.op, Stage(r), Stage(x)>> \in Order
    BY <1>1, <1>2, <1>3, <1>4, CarryGo
  <1>. QED BY <1>2, <1>5 DEF Advances

LEMMA OutGo ==
    ASSUME Requests, NEW r \in live, NEW s, At(r, s), s \notin Crossing, NEW out, Leaves(r, out)
    PROVE  Advances(r)
  <1> DEFINE x == [Next_(r) EXCEPT !.out = out]
  <1>1. Sound(r) /\ Met(r) /\ r.todo # <<>> /\ Stage(r) = s
    BY AtIs DEF Requests
  <1>2. /\ Shaped(x) /\ x.q = r.q /\ x.todo = Tail(r.todo) /\ x.begun = TRUE /\ x.admin = r.admin
        /\ x.got = r.got /\ x.among = r.among /\ x.show = r.show /\ x.ever = r.ever
    BY <1>1 DEF Next_, Shaped, Fields, Sound
  <1>3. Goto(r, x)
    BY DEF Leaves
  <1> HIDE DEF x
  <1>4. x.show \subseteq r.ever /\ x.among \subseteq Rows \X Ports
    BY <1>1, <1>2 DEF Sound, Met
  <1>5. Goes(r, x) /\ <<r.q.op, Stage(r), Stage(x)>> \in Order
    BY <1>1, <1>2, <1>3, <1>4, CarryGo
  <1>. QED BY <1>2, <1>5 DEF Advances

LEMMA ShowGo ==
    ASSUME Requests, NEW r \in live, NEW s, At(r, s), s \notin Crossing, NEW items, items \subseteq r.ever, Shows(r, items)
    PROVE  Advances(r)
  <1> DEFINE x == [Next_(r) EXCEPT !.show = @ \cup items]
  <1>1. Sound(r) /\ Met(r) /\ r.todo # <<>> /\ Stage(r) = s
    BY AtIs DEF Requests
  <1>2. /\ Shaped(x) /\ x.q = r.q /\ x.todo = Tail(r.todo) /\ x.begun = TRUE /\ x.admin = r.admin
        /\ x.got = r.got /\ x.among = r.among /\ x.show = r.show \cup items /\ x.ever = r.ever
    BY <1>1 DEF Next_, Shaped, Fields, Sound
  <1>3. Goto(r, x)
    BY DEF Shows
  <1> HIDE DEF x
  <1>4. x.show \subseteq r.ever /\ x.among \subseteq Rows \X Ports
    BY <1>1, <1>2 DEF Sound, Met
  <1>5. Goes(r, x) /\ <<r.q.op, Stage(r), Stage(x)>> \in Order
    BY <1>1, <1>2, <1>3, <1>4, CarryGo
  <1>. QED BY <1>2, <1>5 DEF Advances

LEMMA AmongGo ==
    ASSUME Requests, NEW r \in live, NEW s, At(r, s), s \notin Crossing, NEW among, among \subseteq Rows \X Ports,
           Goto(r, [Next_(r) EXCEPT !.among = among])
    PROVE  \E x : Goes(r, x) /\ x.among = among /\ <<r.q.op, Stage(r), Stage(x)>> \in Order
  <1> DEFINE x == [Next_(r) EXCEPT !.among = among]
  <1>1. Sound(r) /\ Met(r) /\ r.todo # <<>> /\ Stage(r) = s
    BY AtIs DEF Requests
  <1>2. /\ Shaped(x) /\ x.q = r.q /\ x.todo = Tail(r.todo) /\ x.begun = TRUE /\ x.admin = r.admin
        /\ x.got = r.got /\ x.among = among /\ x.show = r.show /\ x.ever = r.ever
    BY <1>1 DEF Next_, Shaped, Fields, Sound
  <1>3. Goto(r, x)
    OBVIOUS
  <1> HIDE DEF x
  <1>4. x.show \subseteq r.ever
    BY <1>1, <1>2 DEF Met
  <1>5. Goes(r, x) /\ <<r.q.op, Stage(r), Stage(x)>> \in Order
    BY <1>1, <1>2, <1>3, <1>4, CarryGo
  <1>. QED BY <1>2, <1>5

LEMMA WindowGo ==
    ASSUME Requests, NEW r \in live, At(r, "track"), win \in Windows, Goto(r, [Next_(r) EXCEPT !.got.win = win])
    PROVE  Advances(r)
  <1> DEFINE x == [Next_(r) EXCEPT !.got.win = win]
  <1>1. Sound(r) /\ Met(r) /\ r.todo # <<>> /\ Stage(r) = "track"
    BY AtIs DEF Requests
  <1>2. /\ Shaped(x) /\ x.q = r.q /\ x.todo = Tail(r.todo) /\ x.begun = TRUE /\ x.admin = r.admin
        /\ x.got = [r.got EXCEPT !.win = win] /\ x.among = r.among /\ x.show = r.show /\ x.ever = r.ever
    BY <1>1 DEF Next_, Shaped, Fields, Sound
  <1>3. Goto(r, x)
    OBVIOUS
  <1> HIDE DEF x
  <1>4. x.show \subseteq r.ever /\ x.among \subseteq Rows \X Ports
    BY <1>1, <1>2 DEF Sound, Met
  <1>5. r.q.op = "connect"
    BY <1>1, <1>2, NextIs DEF AfterIs
  <1>6. r.got \in Reading
    BY <1>1, <1>5 DEF Sound, Holds, OnRow
  <1>7. x.got \in Reading /\ x.got.id = r.got.id /\ x.got.row = r.got.row
    BY <1>2, <1>6 DEF Reading
  <1>8. Goes(r, x) /\ <<r.q.op, Stage(r), Stage(x)>> \in Order
    <2>1. Stage(r) \notin Crossing
      BY <1>1 DEF Crossing
    <2>. QED BY <1>1, <1>2, <1>3, <1>4, <1>7, <2>1, CarryGo
  <1>. QED BY <1>2, <1>8 DEF Advances

LEMMA CrossGo ==
    ASSUME Requests, NEW r \in live, r.todo # <<>>, NEW x,
           Shaped(x), x.q = r.q, x.todo = Tail(r.todo), x.begun = TRUE, x.admin \in BOOLEAN, x.ever = r.ever,
           x.show = r.show, x.among = r.among, Goto(r, x), Holds(x),
           MetAsker(x), MetRow(x), MetActive(x), MetList(x), MetAgent(x), MetMapping(x)
    PROVE  Advances(r)
  <1>1. Sound(r) /\ Met(r)
    BY DEF Requests
  <1>2. /\ x.todo \in Seq(StepRows) /\ Linked(x.todo, r.q.op)
        /\ <<r.q.op, Stage(r), Stage(x)>> \in Order /\ <<r.q.op, Stage(r), Stage(x)>> \in Moves
    BY <1>1, NextIs
  <1>3. Sound(x)
    BY <1>1, <1>2 DEF Sound
  <1>4. Met(x)
    BY <1>1 DEF Met
  <1>5. Goes(r, x)
    BY <1>2, <1>3, <1>4 DEF Goes, Follows, Goto
  <1>. QED BY <1>2, <1>5 DEF Advances

LEMMA AuthGo ==
    ASSUME Typed, Requests, NEW r \in live, Authenticated(r, Scopes(r.q.op))
    PROVE  Advances(r) \/ Quits(r)
  <1> DEFINE u == creds[r.q.by].user
             x == [Next_(r) EXCEPT !.admin = IsAdmin(u)]
             op == r.q.op
  <1>1. Sound(r) /\ Met(r) /\ r.todo # <<>> /\ Stage(r) = "auth" /\ Facts \subseteq r.ever /\ Shaped(r)
    BY AtIs DEF Requests, Authenticated, Sound
  <1>2. SUFFICES ASSUME ~Ends(r) PROVE Advances(r)
    BY DEF Quits, Ends
  <1>3. creds[r.q.by].valid /\ users[u] # Nothing /\ MayAsk(r, IsAdmin(u), Scopes(op)) /\ Goto(r, x)
    BY <1>2 DEF Authenticated
  <1>4. /\ Shaped(x) /\ x.q = r.q /\ x.todo = Tail(r.todo) /\ x.begun = TRUE /\ x.admin = IsAdmin(u)
        /\ x.got = r.got /\ x.among = r.among /\ x.show = r.show /\ x.ever = r.ever
    BY <1>1 DEF Next_, Shaped, Fields
  <1> HIDE DEF x
  <1>5. r.q.by \in Creds /\ u \in Users
    BY <1>1 DEF Sound, IsRequest, Typed, CredRows
  <1>6. AfterIs(op, "auth", Stage(x))
    BY <1>1, <1>4, NextIs
  <1>7. op \in Authed /\ op # "connect" /\ Stage(x) # "auth"
    BY <1>6 DEF AfterIs, Authed
  <1>8. op \in OnRow => Stage(x) \in {"totp", "get"}
    BY <1>6 DEF AfterIs, OnRow
  <1>9. Holds(x)
    <2>1. r.got = Nothing
      BY <1>1, <1>7 DEF Sound, Holds
    <2>. QED BY <1>4, <1>7, <1>8, <2>1 DEF Holds
  <1>10. MetAsker(x)
    <2>1. <<"credential", r.q.by>> \in x.ever
      BY <1>1, <1>3, <1>4, <1>5, Now
    <2>2. IsAdmin(u) => <<"admin", u>> \in x.ever
      BY <1>1, <1>4, <1>5, Now
    <2>3. ASSUME IsAdmin(u), NEW a \in Agents, Allowed(r.q.by, a) PROVE <<"sees", r.q.by, a>> \in x.ever
      <3>1. CanSee(r.q.by, IsAdmin(u), a)
        BY <2>3 DEF CanSee, Allowed
      <3>. QED BY <1>1, <1>4, <1>5, <3>1, Now
    <2>4. op \in Privileged => IsAdmin(u) /\ creds[r.q.by].kind = "session"
      <3>1. SUFFICES ASSUME op \in Privileged PROVE IsAdmin(u) /\ creds[r.q.by].kind = "session"
        OBVIOUS
      <3>2. creds[r.q.by].kind = "session"
        BY <1>3, <3>1 DEF MayAsk, CookieOnly, Privileged
      <3>3. CASE op = "nat_all"
        BY <1>3, <3>2, <3>3 DEF MayAsk
      <3>4. CASE op # "nat_all"
        <4>1. \E s \in Scopes(op) : IsAdmin(u) \/ member_cookie_scope_allowed(s)
          BY <1>3, <3>2 DEF MayAsk, has_scope
        <4>2. Scopes(op) \subseteq {"nat:write", "nat:delete", "server:exec"}
          BY <3>1, <3>4 DEF Scopes, Privileged
        <4>. QED BY <3>2, <4>1, <4>2 DEF member_cookie_scope_allowed
      <3>. QED BY <3>3, <3>4
    <2>. QED BY <1>4, <2>1, <2>2, <2>3, <2>4 DEF MetAsker
  <1>11. MetRow(x) /\ MetActive(x) /\ MetList(x) /\ MetAgent(x) /\ MetMapping(x)
    BY <1>4, <1>6, <1>7, <1>8 DEF MetRow, MetActive, MetList, MetAgent, MetMapping, AfterIs, OnRow
  <1>12. x.admin \in BOOLEAN
    BY <1>4 DEF IsAdmin
  <1>. QED BY <1>1, <1>3, <1>4, <1>9, <1>10, <1>11, <1>12, CrossGo

LEMMA GetGo ==
    ASSUME Typed, Requests, NEW r \in live, FindMapping(r)
    PROVE  Advances(r) \/ Quits(r)
  <1> DEFINE x == [Next_(r) EXCEPT !.got = rows[r.q.row]]
             op == r.q.op
  <1>1. Sound(r) /\ Met(r) /\ r.todo # <<>> /\ Stage(r) = "get" /\ Shaped(r)
    BY AtIs DEF Requests, FindMapping, Sound
  <1>2. SUFFICES ASSUME ~Ends(r) PROVE Advances(r)
    BY DEF Quits, Ends
  <1>3. rows[r.q.row] # Nothing /\ Goto(r, x)
    BY <1>2 DEF FindMapping
  <1>4. /\ Shaped(x) /\ x.q = r.q /\ x.todo = Tail(r.todo) /\ x.begun = TRUE /\ x.admin = r.admin
        /\ x.got = rows[r.q.row] /\ x.among = r.among /\ x.show = r.show /\ x.ever = r.ever
    BY <1>1 DEF Next_, Shaped, Fields
  <1> HIDE DEF x
  <1>5. AfterIs(op, "get", Stage(x))
    BY <1>1, <1>4, NextIs
  <1>6. op \in OnRow /\ Stage(x) = "nat_agent"
    BY <1>5 DEF AfterIs, OnRow
  <1>7. x.got \in MappingRows
    BY <1>1, <1>3, <1>4 DEF Typed, Sound, IsRequest
  <1>8. Holds(x)
    BY <1>4, <1>6, <1>7 DEF Holds
  <1>9. MetAsker(x)
    BY <1>1, <1>4 DEF Met, MetAsker
  <1>10. MetRow(x) /\ MetActive(x) /\ MetList(x) /\ MetAgent(x) /\ MetMapping(x)
    BY <1>4, <1>6 DEF MetRow, MetActive, MetList, MetAgent, MetMapping, OnRow
  <1>11. x.admin \in BOOLEAN
    BY <1>1, <1>4 DEF Sound
  <1>. QED BY <1>1, <1>3, <1>4, <1>8, <1>9, <1>10, <1>11, CrossGo

\* An Agent that a mapping may be on has been seen.
LEMMA SeesAgent ==
    ASSUME Typed, Requests, NEW r \in live, NEW a \in Agents, r.q.op \in Authed, Stage(r) # "auth"
    PROVE  /\ load_authorized_nat_agent_or_403(r, a) => <<"sees", r.q.by, a>> \in r.ever
           /\ CanSee(r.q.by, r.admin, a) => <<"sees", r.q.by, a>> \in r.ever
  <1>1. Sound(r) /\ Met(r) /\ Facts \subseteq r.ever /\ r.q.by \in Creds
    BY DEF Requests, Sound, IsRequest
  <1>2. ASSUME Allowed(r.q.by, a), r.admin PROVE <<"sees", r.q.by, a>> \in r.ever
    BY <1>1, <1>2 DEF Met, MetAsker
  <1>3. ASSUME Allowed(r.q.by, a), agents[a].owner = creds[r.q.by].user PROVE <<"sees", r.q.by, a>> \in r.ever
    <2>1. CanSee(r.q.by, IsAdmin(creds[r.q.by].user), a)
      BY <1>3 DEF CanSee, Allowed
    <2>. QED BY <1>1, <2>1, Now
  <1>. QED BY <1>2, <1>3 DEF load_authorized_nat_agent_or_403, CanSee, Allowed

LEMMA AgentOf ==
    ASSUME Requests, NEW r \in live, Stage(r) \in {"nat_agent", "nat_active"}
    PROVE  /\ TheAgent(r) \in Agents
           /\ r.q.op \in OnRow => TheAgent(r) = r.got.server /\ r.got \in MappingRows
           /\ r.q.op \in {"nat_list", "nat_create"} => TheAgent(r) = r.q.agent
  <1>1. Sound(r)
    BY DEF Requests
  <1>2. AfterIs(r.q.op, Stage(r), Stage(Next_(r)))
    <2>1. r.todo # <<>>
      BY DEF Stage
    <2>2. Next_(r).q = r.q /\ Next_(r).todo = Tail(r.todo)
      BY <1>1 DEF Next_, Sound, Shaped, Fields
    <2>. QED BY <1>1, <2>1, <2>2, NextIs
  <1>3. r.q.op \in OnRow \cup {"nat_list", "nat_create"}
    BY <1>2 DEF AfterIs, OnRow
  <1>4. CASE r.q.op \in OnRow
    <2>1. r.got \in MappingRows /\ r.got # Nothing
      BY <1>1, <1>4, RemoteAssumption DEF Sound, Holds
    <2>. QED BY <1>4, <2>1 DEF TheAgent, MappingRows, OnRow
  <1>5. CASE r.q.op \in {"nat_list", "nat_create"}
    <2>1. r.got = Nothing /\ r.q.agent \in Agents
      BY <1>1, <1>5 DEF Sound, Holds, OnRow, IsRequest
    <2>. QED BY <1>5, <2>1 DEF TheAgent, OnRow
  <1>. QED BY <1>3, <1>4, <1>5

LEMMA AgentGo ==
    ASSUME Typed, Requests, NEW r \in live, FindNatAgent(r)
    PROVE  Advances(r) \/ Quits(r)
  <1> DEFINE x == Next_(r)
             op == r.q.op
  <1>1. Sound(r) /\ Met(r) /\ r.todo # <<>> /\ Stage(r) = "nat_agent" /\ Shaped(r)
    BY AtIs DEF Requests, FindNatAgent, Sound
  <1>2. SUFFICES ASSUME ~Ends(r) PROVE Advances(r)
    BY DEF Quits, Ends
  <1>3. load_authorized_nat_agent_or_403(r, TheAgent(r)) /\ Goto(r, x)
    BY <1>2 DEF FindNatAgent, Proceeds
  <1>4. /\ Shaped(x) /\ x.q = r.q /\ x.todo = Tail(r.todo) /\ x.begun = TRUE /\ x.admin = r.admin
        /\ x.got = r.got /\ x.among = r.among /\ x.show = r.show /\ x.ever = r.ever
    BY <1>1 DEF Next_, Shaped, Fields
  <1> HIDE DEF x
  <1>5. AfterIs(op, "nat_agent", Stage(x))
    BY <1>1, <1>4, NextIs
  <1>6. op \in OnRow \cup {"nat_list"} /\ op \in Authed /\ Stage(x) \in {"port", "remove", "mapping", "mappings"}
        /\ (op = "nat_update" => Stage(x) = "port")
    BY <1>5 DEF AfterIs, OnRow, Authed
  <1>7. /\ TheAgent(r) \in Agents
        /\ op \in OnRow => TheAgent(r) = r.got.server /\ r.got \in MappingRows
        /\ op \in {"nat_list", "nat_create"} => TheAgent(r) = r.q.agent
    BY <1>1, AgentOf
  <1>8. <<"sees", r.q.by, TheAgent(r)>> \in r.ever
    BY <1>1, <1>3, <1>6, <1>7, SeesAgent
  <1>9. Holds(x)
    BY <1>1, <1>4, <1>6, <1>7 DEF Holds, Sound, OnRow
  <1>10. MetAsker(x)
    BY <1>1, <1>4 DEF Met, MetAsker
  <1>11. MetRow(x) /\ MetList(x)
    BY <1>4, <1>7, <1>8 DEF MetRow, MetList
  <1>12. MetActive(x) /\ MetAgent(x) /\ MetMapping(x)
    BY <1>4, <1>6 DEF MetActive, MetAgent, MetMapping, OnRow
  <1>13. x.admin \in BOOLEAN
    BY <1>1, <1>4 DEF Sound
  <1>. QED BY <1>1, <1>3, <1>4, <1>9, <1>10, <1>11, <1>12, <1>13, CrossGo

LEMMA ActiveGo ==
    ASSUME Typed, Requests, NEW r \in live, FindActiveNatAgent(r)
    PROVE  Advances(r) \/ Quits(r)
  <1> DEFINE x == Next_(r)
             op == r.q.op
  <1>1. Sound(r) /\ Met(r) /\ r.todo # <<>> /\ Stage(r) = "nat_active" /\ Shaped(r) /\ Facts \subseteq r.ever
    BY AtIs DEF Requests, FindActiveNatAgent, Sound
  <1>2. SUFFICES ASSUME ~Ends(r) PROVE Advances(r)
    BY DEF Quits, Ends
  <1>3. /\ Goto(r, x)
        /\ \/ op = "nat_update" /\ ~Updated(r).on
           \/ load_authorized_nat_agent_or_403(r, TheAgent(r)) /\ ~agents[TheAgent(r)].revoked
    BY <1>2 DEF FindActiveNatAgent, Proceeds
  <1>4. /\ Shaped(x) /\ x.q = r.q /\ x.todo = Tail(r.todo) /\ x.begun = TRUE /\ x.admin = r.admin
        /\ x.got = r.got /\ x.among = r.among /\ x.show = r.show /\ x.ever = r.ever
    BY <1>1 DEF Next_, Shaped, Fields
  <1> HIDE DEF x
  <1>5. AfterIs(op, "nat_active", Stage(x))
    BY <1>1, <1>4, NextIs
  <1>6. (op = "nat_create" /\ Stage(x) = "port") \/ (op = "nat_update" /\ Stage(x) = "update")
    BY <1>5 DEF AfterIs
  <1>7. /\ TheAgent(r) \in Agents
        /\ op \in OnRow => TheAgent(r) = r.got.server /\ r.got \in MappingRows
        /\ op \in {"nat_list", "nat_create"} => TheAgent(r) = r.q.agent
    BY <1>1, AgentOf
  <1>8. \/ op = "nat_update" /\ ~Updated(r).on
        \/ <<"sees", r.q.by, TheAgent(r)>> \in r.ever /\ <<"active", TheAgent(r)>> \in r.ever
    <2>1. op \in Authed
      BY <1>6 DEF Authed
    <2>. QED BY <1>1, <1>3, <1>7, <2>1, SeesAgent, Now
  <1>9. Holds(x)
    BY <1>1, <1>4, <1>6, <1>7 DEF Holds, Sound, OnRow
  <1>10. MetAsker(x)
    BY <1>1, <1>4 DEF Met, MetAsker
  <1>11. MetRow(x)
    BY <1>1, <1>4, <1>6 DEF Met, MetRow, OnRow
  <1>12. MetActive(x)
    BY <1>4, <1>6, <1>7, <1>8 DEF MetActive, Updated, OnRow
  <1>13. MetAgent(x)
    BY <1>4, <1>6, <1>7, <1>8 DEF MetAgent
  <1>14. MetList(x) /\ MetMapping(x)
    BY <1>4, <1>6 DEF MetList, MetMapping
  <1>15. x.admin \in BOOLEAN
    BY <1>1, <1>4 DEF Sound
  <1>. QED BY <1>1, <1>3, <1>4, <1>9, <1>10, <1>11, <1>12, <1>13, <1>14, <1>15, CrossGo

\* The mapping of a port that a loop finds.
LEMMA PolicyGo ==
    ASSUME Typed, Requests, win \in Windows, NEW r \in live, ReadPolicy(r)
    PROVE  Advances(r) \/ Quits(r)
  <1> DEFINE m == CHOOSE z \in current_mapping_for_port(r.q.port) : TRUE
             x == [Next_(r) EXCEPT !.got = [id |-> m, row |-> rows[m], win |-> win]]
             op == r.q.op
  <1>1. Sound(r) /\ Met(r) /\ r.todo # <<>> /\ Stage(r) = "policy" /\ Shaped(r) /\ Facts \subseteq r.ever
    BY AtIs DEF Requests, ReadPolicy, Sound
  <1>2. SUFFICES ASSUME ~Ends(r) PROVE Advances(r)
    BY DEF Quits, Ends
  <1>3. current_mapping_for_port(r.q.port) # {} /\ Goto(r, x)
    BY <1>2 DEF ReadPolicy, Rejects
  <1>4. /\ Shaped(x) /\ x.q = r.q /\ x.todo = Tail(r.todo) /\ x.begun = TRUE /\ x.admin = r.admin
        /\ x.got = [id |-> m, row |-> rows[m], win |-> win] /\ x.among = r.among /\ x.show = r.show /\ x.ever = r.ever
    BY <1>1 DEF Next_, Shaped, Fields
  <1>5. m \in current_mapping_for_port(r.q.port)
    BY <1>3
  <1> HIDE DEF x, m
  <1>6. m \in Rows /\ rows[m] # Nothing /\ rows[m].on /\ ~agents[rows[m].server].revoked
    BY <1>5 DEF current_mapping_for_port, Enabled
  <1>7. rows[m] \in MappingRows /\ rows[m].server \in Agents
    BY <1>6 DEF Typed, MappingRows
  <1>8. AfterIs(op, "policy", Stage(x))
    BY <1>1, <1>4, NextIs
  <1>9. op = "connect" /\ Stage(x) = "room"
    BY <1>8 DEF AfterIs
  <1>10. Holds(x)
    <2>1. x.got \in Reading /\ x.got.row.on
      BY <1>4, <1>6, <1>7 DEF Reading
    <2>. QED BY <1>4, <1>9, <2>1 DEF Holds, OnRow
  <1>11. MetAsker(x) /\ MetRow(x) /\ MetActive(x) /\ MetList(x) /\ MetAgent(x)
    BY <1>4, <1>9 DEF MetAsker, MetRow, MetActive, MetList, MetAgent, Authed, OnRow
  <1>12. MetMapping(x)
    <2>1. <<"row", m, rows[m]>> \in Facts /\ <<"active", rows[m].server>> \in Facts
      BY <1>6, <1>7, Now
    <2>. QED BY <1>1, <1>4, <2>1 DEF MetMapping
  <1>13. x.admin \in BOOLEAN
    BY <1>1, <1>4 DEF Sound
  <1>. QED BY <1>1, <1>3, <1>4, <1>10, <1>11, <1>12, <1>13, CrossGo

LEMMA AllowedGo ==
    ASSUME Typed, Requests, NEW r \in live, ensure_terminal_agent_active(r)
    PROVE  Advances(r) \/ Quits(r)
  <1> DEFINE x == Next_(r)
             op == r.q.op
  <1>1. Sound(r) /\ Met(r) /\ r.todo # <<>> /\ Stage(r) = "allowed" /\ Shaped(r) /\ Facts \subseteq r.ever
    BY AtIs DEF Requests, ensure_terminal_agent_active, Sound
  <1>2. SUFFICES ASSUME ~Ends(r) PROVE Advances(r)
    BY DEF Quits, Ends
  <1>3. Goto(r, x) /\ CanSee(r.q.by, r.admin, r.q.agent) /\ ~agents[r.q.agent].revoked
    BY <1>2 DEF ensure_terminal_agent_active, Proceeds
  <1>4. /\ Shaped(x) /\ x.q = r.q /\ x.todo = Tail(r.todo) /\ x.begun = TRUE /\ x.admin = r.admin
        /\ x.got = r.got /\ x.among = r.among /\ x.show = r.show /\ x.ever = r.ever
    BY <1>1 DEF Next_, Shaped, Fields
  <1> HIDE DEF x
  <1>5. AfterIs(op, "allowed", Stage(x))
    BY <1>1, <1>4, NextIs
  <1>6. (op = "terminal" /\ Stage(x) = "reach") \/ (op = "socket" /\ Stage(x) = "subscribe")
    BY <1>5 DEF AfterIs
  <1>7. op \in Authed /\ r.q.agent \in Agents
    BY <1>1, <1>6 DEF Authed, Sound, IsRequest
  <1>8. <<"sees", r.q.by, r.q.agent>> \in r.ever /\ <<"active", r.q.agent>> \in r.ever
    BY <1>1, <1>3, <1>7, SeesAgent, Now
  <1>9. Holds(x)
    BY <1>1, <1>4, <1>6 DEF Holds, Sound, OnRow
  <1>10. MetAsker(x)
    BY <1>1, <1>4 DEF Met, MetAsker
  <1>11. MetAgent(x)
    BY <1>4, <1>8 DEF MetAgent
  <1>12. MetRow(x) /\ MetActive(x) /\ MetList(x) /\ MetMapping(x)
    BY <1>4, <1>6 DEF MetRow, MetActive, MetList, MetMapping, OnRow
  <1>13. x.admin \in BOOLEAN
    BY <1>1, <1>4 DEF Sound
  <1>. QED BY <1>1, <1>3, <1>4, <1>9, <1>10, <1>11, <1>12, <1>13, CrossGo

\* An Agent that is not there: the bridge is skipped.
LEMMA SkipGo ==
    ASSUME Requests, NEW r \in live, At(r, "open"), Goto(r, [Next_(r) EXCEPT !.todo = Tail(@), !.out = "failed"])
    PROVE  \E x : Goes(r, x) /\ x.among = r.among /\ Stage(x) = "unsubscribe"
  <1> DEFINE x == [Next_(r) EXCEPT !.todo = Tail(@), !.out = "failed"]
             y == Next_(r)
  <1>1. Sound(r) /\ Met(r) /\ r.todo # <<>> /\ Stage(r) = "open" /\ Shaped(r)
    BY AtIs DEF Requests, Sound
  <1>2. /\ Shaped(x) /\ x.q = r.q /\ x.todo = Tail(Tail(r.todo)) /\ x.begun = TRUE /\ x.admin = r.admin
        /\ x.got = r.got /\ x.among = r.among /\ x.show = r.show /\ x.ever = r.ever
    BY <1>1 DEF Next_, Shaped, Fields
  <1>3. y.q = r.q /\ y.todo = Tail(r.todo)
    BY <1>1 DEF Next_, Shaped, Fields
  <1>4. Goto(r, x)
    OBVIOUS
  <1> HIDE DEF x, y
  <1>5. y.todo \in Seq(StepRows) /\ Linked(y.todo, r.q.op) /\ AfterIs(r.q.op, "open", Stage(y))
    BY <1>1, <1>3, NextIs
  <1>6. r.q.op \in {"socket", "connect"} /\ Stage(y) = "bridge" /\ y.todo # <<>>
    BY <1>5 DEF AfterIs, Stage
  <1>7. /\ Tail(y.todo) \in Seq(StepRows) /\ Linked(Tail(y.todo), r.q.op)
        /\ <<r.q.op, y.todo[1][1], IF Tail(y.todo) = <<>> THEN "end" ELSE Tail(y.todo)[1][1]>> \in Order
    BY <1>5, <1>6, NextStage
  <1>8. <<r.q.op, "bridge", Stage(x)>> \in Order
    BY <1>2, <1>3, <1>6, <1>7 DEF Stage
  <1>9. Stage(x) = "unsubscribe"
    BY <1>8, OrderIs DEF AfterIs
  <1>10. <<r.q.op, Stage(r), Stage(x)>> \in Moves
    BY <1>1, <1>6, <1>9 DEF Moves
  <1>11. Carries(r, x)
    BY <1>1, <1>2, <1>3, <1>7 DEF Carries, Sound, Met
  <1>12. Follows(r, x)
    BY <1>1, <1>10, <1>11, Keeps DEF Crossing
  <1>. QED BY <1>2, <1>4, <1>9, <1>12 DEF Goes, Goto

LEMMA BegunIs == ASSUME NEW r, Sound(r), Stage(r) \notin {"auth", "accept", "ban", "flip", "tick", "change"} PROVE r.begun = TRUE
  BY DEF Sound, First

LEMMA StartGo ==
    ASSUME Requests, NEW r \in live, At(r, "start"), NEW y \in r.among
    PROVE  /\ Goto(r, [r EXCEPT !.among = @ \ {y}])
                => \E x : Goes(r, x) /\ x.among = r.among \ {y} /\ Stage(x) = "start"
           /\ Goto(r, [[r EXCEPT !.among = @ \ {y}] EXCEPT !.todo = <<Step("list", y[2])>> \o @])
                => \E x : Goes(r, x) /\ x.among = r.among \ {y} /\ Stage(x) = "list" /\ On(x) = y[2]
  <1>1. Sound(r) /\ Met(r) /\ r.todo # <<>> /\ Stage(r) = "start" /\ Shaped(r) /\ r.todo \in Seq(StepRows) /\ Linked(r.todo, r.q.op)
    BY AtIs DEF Requests, Sound
  <1>2. r.begun = TRUE /\ r.among \subseteq Rows \X Ports /\ y[2] \in Ports
    BY <1>1, BegunIs DEF Sound
  <1>3. r.q.op \in Mapping
    <2>1. Next_(r).q = r.q /\ Next_(r).todo = Tail(r.todo)
      BY <1>1 DEF Next_, Shaped, Fields
    <2>2. AfterIs(r.q.op, "start", Stage(Next_(r)))
      BY <1>1, <2>1, NextIs
    <2>. QED BY <2>2 DEF AfterIs
  <1>4. ASSUME Goto(r, [r EXCEPT !.among = @ \ {y}])
        PROVE  \E x : Goes(r, x) /\ x.among = r.among \ {y} /\ Stage(x) = "start"
    <2> DEFINE x == [r EXCEPT !.among = @ \ {y}]
    <2>1. /\ Shaped(x) /\ x.q = r.q /\ x.todo = r.todo /\ x.begun = TRUE /\ x.admin = r.admin
          /\ x.got = r.got /\ x.among = r.among \ {y} /\ x.show = r.show /\ x.ever = r.ever
      BY <1>1, <1>2 DEF Shaped, Fields
    <2>2. Goto(r, x)
      BY <1>4
    <2> HIDE DEF x
    <2>3. Stage(x) = "start"
      BY <1>1, <2>1 DEF Stage
    <2>4. <<r.q.op, Stage(r), Stage(x)>> \in Moves
      BY <1>1, <1>3, <2>3 DEF Moves
    <2>5. Carries(r, x)
      BY <1>1, <1>2, <2>1 DEF Carries, Met
    <2>6. Follows(r, x)
      BY <1>1, <2>4, <2>5, Keeps DEF Crossing
    <2>. QED BY <2>1, <2>2, <2>3, <2>6 DEF Goes, Goto
  <1>5. ASSUME Goto(r, [[r EXCEPT !.among = @ \ {y}] EXCEPT !.todo = <<Step("list", y[2])>> \o @])
        PROVE  \E x : Goes(r, x) /\ x.among = r.among \ {y} /\ Stage(x) = "list" /\ On(x) = y[2]
    <2> DEFINE x == [[r EXCEPT !.among = @ \ {y}] EXCEPT !.todo = <<Step("list", y[2])>> \o @]
               d == <<Step("list", y[2])>>
    <2>1. /\ Shaped(x) /\ x.q = r.q /\ x.todo = d \o r.todo /\ x.begun = TRUE /\ x.admin = r.admin
          /\ x.got = r.got /\ x.among = r.among \ {y} /\ x.show = r.show /\ x.ever = r.ever
      BY <1>1, <1>2 DEF Shaped, Fields
    <2>2. Goto(r, x)
      BY <1>5
    <2>3. d \in Seq(StepRows) /\ Len(d) = 1 /\ d[1] = <<"list", y[2]>>
      <3>1. Step("list", y[2]) \in StepRows
        BY <1>2 DEF Step, StepRows, StepNames
      <3>. QED BY <3>1 DEF Step
    <2> DEFINE e == d \o r.todo
    <2> HIDE DEF x, d
    <2>4. /\ e \in Seq(StepRows) /\ Len(e) = 1 + Len(r.todo) /\ Len(r.todo) \in Nat /\ DOMAIN e = 1..(1 + Len(r.todo))
          /\ DOMAIN r.todo = 1..Len(r.todo)
          /\ e[1] = d[1] /\ \A i \in 2..(1 + Len(r.todo)) : e[i] = r.todo[i - 1]
      BY <1>1, <2>3, CatOf
    <2>5. Len(r.todo) >= 1
      BY <1>1, TailOf
    <2> HIDE DEF e
    <2>6. x.todo # <<>> /\ Stage(x) = "list" /\ On(x) = y[2]
      BY <2>1, <2>3, <2>4, <2>5 DEF Stage, On, e
    <2>7. Linked(e, r.q.op)
      <3>1. ASSUME NEW i \in DOMAIN e
            PROVE  <<r.q.op, e[i][1], IF i < Len(e) THEN e[i + 1][1] ELSE "end">> \in Order /\ (e[i][1] = "list" => e[i][2] \in Ports)
        <4>1. CASE i = 1
          <5>1. <<r.q.op, "list", "start">> \in Order
            <6>1. \A z \in Reload : <<r.q.op, z[1], z[2]>> \in Order
              BY <1>3 DEF Order
            <6>2. <<"list", "start">> \in Reload
              BY DEF Reload
            <6>. QED BY <6>1, <6>2
          <5>2. 2 \in 2..(1 + Len(r.todo)) /\ 1 < Len(e) /\ e[1 + 1] = r.todo[1] /\ r.todo[1][1] = "start"
            BY <1>1, <2>4, <2>5 DEF Stage
          <5>. QED BY <1>2, <2>3, <2>4, <4>1, <5>1, <5>2
        <4>2. CASE i # 1
          <5>1. i \in 2..(1 + Len(r.todo)) /\ i - 1 \in DOMAIN r.todo /\ (i < Len(e) <=> i - 1 < Len(r.todo))
                /\ (i < Len(e) => i + 1 \in 2..(1 + Len(r.todo)) /\ i + 1 - 1 = i - 1 + 1)
            BY <2>4, <2>5, <4>2
          <5>2. e[i] = r.todo[i - 1] /\ (i < Len(e) => e[i + 1] = r.todo[i - 1 + 1])
            BY <2>4, <5>1
          <5>3. /\ <<r.q.op, r.todo[i - 1][1], IF i - 1 < Len(r.todo) THEN r.todo[i - 1 + 1][1] ELSE "end">> \in Order
                /\ r.todo[i - 1][1] = "list" => r.todo[i - 1][2] \in Ports
            BY <1>1, <5>1 DEF Linked
          <5>. QED BY <5>1, <5>2, <5>3
        <4>. QED BY <4>1, <4>2
      <3>. QED BY <3>1 DEF Linked
    <2>8. <<r.q.op, Stage(r), Stage(x)>> \in Moves
      BY <1>1, <1>3, <2>6 DEF Moves
    <2>9. Carries(r, x)
      BY <1>1, <1>2, <2>1, <2>4, <2>7 DEF Carries, Met, e
    <2>10. Follows(r, x)
      BY <1>1, <2>8, <2>9, Keeps DEF Crossing
    <2>. QED BY <2>1, <2>2, <2>6, <2>10 DEF Goes, Goto
  <1>. QED BY <1>4, <1>5

-----------------------------------------------------------------------------
(* What each step does to its request. *)

Moved(r) == (\E x : Goes(r, x)) \/ Quits(r) \/ live' = live
LEMMA EndsQuits == ASSUME NEW r, Ends(r) PROVE Quits(r)
  BY DEF Ends, Quits

LEMMA ReadingSteps ==
    ASSUME Typed, Requests, NEW r \in live,
           FindMapping(r) \/ FindNatAgent(r) \/ FindActiveNatAgent(r) \/ FindPort(r) \/ ensure_terminal_agent_active(r)
    PROVE  Advances(r) \/ Quits(r)
  <1>1. CASE FindPort(r)
    <2>1. At(r, "port") /\ (Proceeds(r) \/ Ends(r)) /\ "port" \notin Crossing
      BY <1>1 DEF FindPort, Crossing
    <2>. QED BY <2>1, PlainGo, EndsQuits
  <1>. QED BY <1>1, GetGo, AgentGo, ActiveGo, AllowedGo

LEMMA WritingSteps ==
    ASSUME Typed, Requests, NEW r \in live, CreateMapping(r) \/ UpdateMapping(r) \/ DeleteMapping(r)
    PROVE  Advances(r) \/ Quits(r)
  <1>1. (At(r, "insert") \/ At(r, "update") \/ At(r, "remove")) /\ (Proceeds(r) \/ Ends(r))
    BY DEF CreateMapping, UpdateMapping, DeleteMapping
  <1>2. {"insert", "update", "remove"} \cap Crossing = {}
    BY DEF Crossing
  <1>. QED BY <1>1, <1>2, PlainGo, EndsQuits

\* Where a request is, which one it is.
LEMMA OpAt ==
    ASSUME NEW r, Sound(r), r.todo # <<>>
    PROVE  \E t : AfterIs(r.q.op, Stage(r), t)
  <1>1. Next_(r).q = r.q /\ Next_(r).todo = Tail(r.todo)
    BY DEF Next_, Sound, Shaped, Fields
  <1>. QED BY <1>1, NextIs

LEMMA ShowingSteps ==
    ASSUME Typed, Requests, NEW r \in live, ShowsMapping(r) \/ ListsMappings(r) \/ list_runtime_nat_mappings(r)
    PROVE  Advances(r)
  <1>1. Sound(r) /\ Met(r)
    BY DEF Requests
  <1>2. CASE ShowsMapping(r)
    <2>1. At(r, "mapping") /\ Stage(r) = "mapping" /\ r.todo # <<>> /\ Shows(r, {<<"sees", r.q.by, r.got.server>>})
      BY <1>2, AtIs DEF ShowsMapping
    <2>2. r.q.op = "nat_get"
      BY <1>1, <2>1, OpAt DEF AfterIs
    <2>3. {<<"sees", r.q.by, r.got.server>>} \subseteq r.ever
      BY <1>1, <2>1, <2>2 DEF Met, MetRow, OnRow
    <2>. QED BY <2>1, <2>3, ShowGo DEF Crossing
  <1>3. CASE ListsMappings(r)
    <2>1. At(r, "mappings") /\ Stage(r) = "mappings" /\ r.todo # <<>> /\ Shows(r, {<<"sees", r.q.by, r.q.agent>>})
      BY <1>3, AtIs DEF ListsMappings
    <2>2. r.q.op = "nat_list"
      BY <1>1, <2>1, OpAt DEF AfterIs
    <2>3. {<<"sees", r.q.by, r.q.agent>>} \subseteq r.ever
      BY <1>1, <2>1, <2>2 DEF Met, MetList
    <2>. QED BY <2>1, <2>3, ShowGo DEF Crossing
  <1>4. CASE list_runtime_nat_mappings(r)
    <2>1. At(r, "runtime") /\ Stage(r) = "runtime" /\ r.todo # <<>> /\ Shows(r, {<<"admin", creds[r.q.by].user>>})
      BY <1>4, AtIs DEF list_runtime_nat_mappings
    <2>2. r.q.op = "nat_all"
      BY <1>1, <2>1, OpAt DEF AfterIs
    <2>3. {<<"admin", creds[r.q.by].user>>} \subseteq r.ever
      BY <1>1, <2>1, <2>2 DEF Met, MetAsker, Authed, Privileged
    <2>. QED BY <2>1, <2>3, ShowGo DEF Crossing
  <1>. QED BY <1>2, <1>3, <1>4

LEMMA LoadsGo ==
    ASSUME Typed, Requests, NEW r \in live, LoadMappings(r)
    PROVE  \E x : Goes(r, x) /\ x.among = {<<m, rows[m].port>> : m \in Enabled} /\ <<r.q.op, Stage(r), Stage(x)>> \in Order
  <1>1. {<<m, rows[m].port>> : m \in Enabled} \subseteq Rows \X Ports
    BY DEF Enabled, Typed, MappingRows
  <1>2. At(r, "load") /\ "load" \notin Crossing /\ Goto(r, [Next_(r) EXCEPT !.among = {<<m, rows[m].port>> : m \in Enabled}])
    BY DEF LoadMappings, Crossing
  <1>. QED BY <1>1, <1>2, AmongGo

LEMMA ListingSteps ==
    ASSUME Typed, Requests, NEW r \in live, RetainListeners(r) \/ ListListener(r)
    PROVE  Advances(r)
  <1>1. (At(r, "retain") \/ At(r, "list")) /\ Proceeds(r) /\ {"retain", "list"} \cap Crossing = {}
    BY DEF RetainListeners, ListListener, Crossing
  <1>. QED BY <1>1, PlainGo

\* The next port that is looked at.
LEMMA NextPort ==
    ASSUME NEW r, Sound(r), r.among # {}, NEW y, y = (CHOOSE z \in r.among : \A w \in r.among : z[2] <= w[2])
    PROVE  y \in r.among /\ y[2] \in Ports
  <1>1. r.among \subseteq Rows \X Ports /\ Ports \subseteq Nat
    BY RemoteAssumption DEF Sound
  <1> DEFINE S == {z[2] : z \in r.among}
  <1>2. S \subseteq Nat /\ S # {}
    BY <1>1
  <1>3. PICK i \in S : \A j \in S : i <= j
    <2> HIDE DEF S
    <2> DEFINE Below == {ss \in Nat \X Nat : ss[1] < ss[2]}
    <2>1. IsWellFoundedOn(Below, Nat)
      BY NatLessThanWellFounded DEF OpToRel
    <2>2. PICK z \in S : \A w \in S : <<w, z>> \notin Below
      <3> HIDE DEF Below
      <3>. QED BY <1>2, <2>1, WFMin
    <2>3. ASSUME NEW w \in S PROVE z <= w
      <3>1. <<w, z>> \notin Below
        BY <2>2
      <3>2. ~(w < z)
        BY <1>2, <3>1
      <3>. QED BY <1>2, <3>2
    <2>. QED BY <2>3
  <1>4. \E z \in r.among : \A w \in r.among : z[2] <= w[2]
    BY <1>3
  <1>5. y \in r.among
    BY <1>4
  <1>. QED BY <1>1, <1>5

Looked(r, y) ==
    /\ y \in r.among /\ y[2] \in Ports
    /\ \/ /\ UNCHANGED sock /\ ((y[2] \in listed /\ UNCHANGED clash) \/ (y[2] \notin listed /\ sock[y[2]] # "free" /\ clash' = TRUE))
          /\ \E x : Goes(r, x) /\ x.among = r.among \ {y} /\ Stage(x) = "start"
       \/ /\ y[2] \notin listed /\ sock[y[2]] = "free" /\ sock' = [sock EXCEPT ![y[2]] = "starting"] /\ UNCHANGED clash
          /\ \E x : Goes(r, x) /\ x.among = r.among \ {y} /\ Stage(x) = "list" /\ On(x) = y[2]
LEMMA StartsGo ==
    ASSUME Typed, Requests, NEW r \in live, start_listener(r)
    PROVE  \/ r.among = {} /\ UNCHANGED remoteVars /\ Advances(r)
           \/ r.among # {} /\ UNCHANGED <<listed, busy, rates, frames, streams>> /\ \E y : Looked(r, y)
  <1>1. Sound(r) /\ At(r, "start")
    BY DEF Requests, start_listener
  <1>2. CASE r.among = {}
    <2>1. Proceeds(r) /\ UNCHANGED remoteVars
      BY <1>2 DEF start_listener
    <2>. QED BY <1>1, <1>2, <2>1, PlainGo DEF Crossing
  <1>3. CASE r.among # {}
    <2> DEFINE y == CHOOSE z \in r.among : \A w \in r.among : z[2] <= w[2]
               rest == [r EXCEPT !.among = @ \ {y}]
    <2>1. /\ UNCHANGED <<listed, busy, rates, frames, streams>>
          /\ IF y[2] \in listed THEN UNCHANGED <<sock, clash>> /\ Goto(r, rest)
             ELSE IF sock[y[2]] # "free" THEN UNCHANGED sock /\ clash' = TRUE /\ Goto(r, rest)
             ELSE /\ sock' = [sock EXCEPT ![y[2]] = "starting"] /\ UNCHANGED clash
                  /\ Goto(r, [rest EXCEPT !.todo = <<Step("list", y[2])>> \o @])
      BY <1>3 DEF start_listener
    <2>2. y \in r.among /\ y[2] \in Ports
      BY <1>1, <1>3, NextPort
    <2> HIDE DEF y
    <2>3. /\ Goto(r, rest) => \E x : Goes(r, x) /\ x.among = r.among \ {y} /\ Stage(x) = "start"
          /\ Goto(r, [rest EXCEPT !.todo = <<Step("list", y[2])>> \o @])
                => \E x : Goes(r, x) /\ x.among = r.among \ {y} /\ Stage(x) = "list" /\ On(x) = y[2]
      BY <1>1, <2>2, StartGo
    <2> HIDE DEF rest
    <2>4. CASE y[2] \in listed
      BY <2>1, <2>2, <2>3, <2>4 DEF Looked
    <2>5. CASE y[2] \notin listed /\ sock[y[2]] # "free"
      BY <2>1, <2>2, <2>3, <2>5 DEF Looked
    <2>6. CASE y[2] \notin listed /\ sock[y[2]] = "free"
      BY <2>1, <2>2, <2>3, <2>6 DEF Looked
    <2>. QED BY <1>3, <2>1, <2>4, <2>5, <2>6
  <1>. QED BY <1>2, <1>3

LEMMA AcceptingSteps ==
    ASSUME Typed, Requests, NEW r \in live,
           Accept(r) \/ ReadPolicy(r) \/ CountTunnels(r) \/ record_source_connection_in_map(r) \/ record_nat_connection(r)
    PROVE  Advances(r) \/ Quits(r)
  <1>1. CASE Accept(r)
    <2>1. At(r, "accept") /\ Proceeds(r) /\ "accept" \notin Crossing
      BY <1>1 DEF Accept, Crossing
    <2>. QED BY <2>1, PlainGo
  <1>2. CASE ReadPolicy(r)
    BY <1>2, PolicyGo DEF Typed
  <1>3. CASE CountTunnels(r)
    <2>1. At(r, "room") /\ (Proceeds(r) \/ Ends(r)) /\ "room" \notin Crossing
      BY <1>3 DEF CountTunnels, Rejects, Crossing
    <2>. QED BY <2>1, PlainGo, EndsQuits
  <1>4. CASE record_source_connection_in_map(r)
    <2>1. At(r, "track") /\ (Ends(r) \/ Goto(r, [Next_(r) EXCEPT !.got.win = win]))
      BY <1>4 DEF record_source_connection_in_map, Rejects
    <2>. QED BY <2>1, WindowGo, EndsQuits DEF Typed
  <1>5. CASE record_nat_connection(r)
    <2>1. At(r, "record") /\ (Proceeds(r) \/ Ends(r)) /\ "record" \notin Crossing
      BY <1>5 DEF record_nat_connection, Crossing
    <2>. QED BY <2>1, PlainGo, EndsQuits
  <1>. QED BY <1>1, <1>2, <1>3, <1>4, <1>5

LEMMA StreamSteps ==
    ASSUME Typed, Requests, NEW r \in live,
           \/ ReachesAgentIo(r) \/ ReserveTunnel(r) \/ SubscribeStream(r) \/ UnsubscribeStream(r) \/ ReleaseTunnel(r)
           \/ record_nat_window_bytes(r) \/ CreatePending(r) \/ take_for_auth(r)
    PROVE  Advances(r) \/ Quits(r)
  <1>1. /\ \/ At(r, "reach") \/ At(r, "reserve") \/ At(r, "subscribe") \/ At(r, "unsubscribe") \/ At(r, "release")
           \/ At(r, "bytes") \/ At(r, "pend") \/ At(r, "take")
        /\ Proceeds(r) \/ Ends(r)
    BY DEF ReachesAgentIo, ReserveTunnel, SubscribeStream, UnsubscribeStream, ReleaseTunnel, record_nat_window_bytes,
           CreatePending, take_for_auth
  <1>2. {"reach", "reserve", "subscribe", "unsubscribe", "release", "bytes", "pend", "take"} \cap Crossing = {}
    BY DEF Crossing
  <1>. QED BY <1>1, <1>2, PlainGo, EndsQuits

LEMMA OpenGo ==
    ASSUME Typed, Requests, NEW r \in live, SendOpen(r)
    PROVE  \/ Online(r) /\ Advances(r)
           \/ ~Online(r) /\ \E x : Goes(r, x) /\ x.among = r.among /\ Stage(x) = "unsubscribe"
  <1>1. CASE Online(r)
    <2>1. At(r, "open") /\ Proceeds(r) /\ "open" \notin Crossing
      BY <1>1 DEF SendOpen, Crossing
    <2>. QED BY <1>1, <2>1, PlainGo
  <1>2. CASE ~Online(r)
    <2>1. At(r, "open") /\ Goto(r, [Next_(r) EXCEPT !.todo = Tail(@), !.out = "failed"])
      BY <1>2 DEF SendOpen
    <2>. QED BY <1>2, <2>1, SkipGo
  <1>. QED BY <1>1, <1>2

LEMMA LeaveGo ==
    ASSUME Requests, NEW r \in live, At(r, "bridge"), NEW out, Leaves(r, out)
    PROVE  Advances(r)
  <1>1. "bridge" \notin Crossing
    BY DEF Crossing
  <1>. QED BY <1>1, OutGo

\* What a step of the bridge does: nothing to the request, or it leaves.
Bridging(r) == ClientSends(r) \/ ClientCloses(r) \/ ClientFails(r) \/ TunnelTimesOut(r) \/ AgentFrameArrives(r)
LEMMA BridgeSteps ==
    ASSUME Typed, Requests, NEW r \in live, Bridging(r)
    PROVE  At(r, "bridge") /\ (Advances(r) \/ live' = live)
  <1>1. At(r, "bridge")
    BY DEF Bridging, ClientSends, ClientCloses, ClientFails, TunnelTimesOut, AgentFrameArrives, InBridge
  <1>2. (\E out \in {"success", "failed"} : Leaves(r, out)) \/ live' = live
    <2>1. CASE ClientSends(r)
      BY <2>1 DEF ClientSends
    <2>2. CASE ClientCloses(r) \/ ClientFails(r) \/ TunnelTimesOut(r)
      BY <2>2 DEF ClientCloses, ClientFails, TunnelTimesOut, CloseAnd, Silently
    <2>3. CASE AgentFrameArrives(r)
      BY <2>3 DEF AgentFrameArrives, CloseAnd, Silently
    <2>. QED BY <2>1, <2>2, <2>3 DEF Bridging
  <1>. QED BY <1>1, <1>2, LeaveGo

LEMMA OtherSteps ==
    ASSUME Typed, Requests, NEW r \in live
    PROVE  /\ FlipAgent(r) \/ BanAgent(r) => Advances(r)
           /\ NextWindow(r) \/ DropRequest(r) \/ Responds(r) \/ Change(r) => Quits(r)
           /\ AsksForCode(r) => Advances(r) \/ Quits(r)
  <1>1. {"flip", "leave", "ban", "totp"} \cap Crossing = {}
    BY DEF Crossing
  <1>2. FlipAgent(r) \/ BanAgent(r) => Advances(r)
    <2>1. FlipAgent(r) \/ BanAgent(r) => (At(r, "flip") \/ At(r, "leave") \/ At(r, "ban")) /\ Proceeds(r)
      BY DEF FlipAgent, BanAgent
    <2>. QED BY <1>1, <2>1, PlainGo
  <1>3. NextWindow(r) \/ DropRequest(r) \/ Responds(r) \/ Change(r) => Quits(r)
    BY EndsQuits DEF NextWindow, DropRequest, Responds, Change
  <1>4. AsksForCode(r) => Advances(r) \/ Quits(r)
    <2>1. AsksForCode(r) => At(r, "totp") /\ (Proceeds(r) \/ Ends(r))
      BY DEF AsksForCode
    <2>. QED BY <1>1, <2>1, PlainGo, EndsQuits
  <1>. QED BY <1>2, <1>3, <1>4

LEMMA AdvancesMoved == ASSUME NEW r, Advances(r) PROVE Moved(r)
  BY DEF Advances, Moved

-----------------------------------------------------------------------------
(* Whatever is done was entitled to be. *)

LEMMA SameFacts == ASSUME UNCHANGED <<tables, tokens>> PROVE Facts' = Facts /\ SameCreds
  <1>1. SameCreds
    BY DEF tables, SameCreds
  <1>2. Facts' = Facts
    BY DEF tables, Facts, CanSee, IsAdmin, Usable
  <1>. QED BY <1>1, <1>2

LEMMA MovedRequests ==
    ASSUME Requests, NEW r \in live, (\E x : Goes(r, x)) \/ Quits(r), SameCreds
    PROVE  Requests'
  BY GoesOn, QuitsOn

LEMMA Quietly ==
    ASSUME EntitledInv, NEW r \in live, Moved(r), UNCHANGED <<tables, tokens, acted, win>>
    PROVE  EntitledInv'
  <1>1. Facts' = Facts /\ SameCreds
    BY SameFacts
  <1>2. Requests'
    <2>1. CASE live' = live
      <3>1. \A s \in live : Met(s)'
        <4>1. ASSUME NEW s \in live PROVE Met(s)'
          <5>1. Sound(s) /\ Met(s) /\ Same(s, s) /\ s.ever \subseteq s.ever
            BY DEF EntitledInv, Requests, Sound, Same
          <5>. QED BY <1>1, <5>1, MetMore
        <4>. QED BY <4>1
      <3>. QED BY <1>1, <2>1, <3>1 DEF EntitledInv, Requests
    <2>. QED BY <1>1, <2>1, MovedRequests DEF EntitledInv, Moved
  <1>3. Typed'
    BY DEF EntitledInv, Typed, tables
  <1>4. RemoteIsEntitled'
    BY DEF EntitledInv, RemoteIsEntitled
  <1>. QED BY <1>2, <1>3, <1>4 DEF EntitledInv

LEMMA EntitledRead ==
    ASSUME EntitledInv, NEW r \in live,
           \/ FindMapping(r) \/ FindNatAgent(r) \/ FindActiveNatAgent(r) \/ FindPort(r) \/ ensure_terminal_agent_active(r)
           \/ ShowsMapping(r) \/ ListsMappings(r) \/ list_runtime_nat_mappings(r)
    PROVE  EntitledInv'
  <1>1. Moved(r)
    BY ReadingSteps, ShowingSteps, AdvancesMoved DEF EntitledInv, Moved
  <1>2. UNCHANGED <<tables, tokens, acted, win>>
    BY DEF FindMapping, FindNatAgent, FindActiveNatAgent, FindPort, ensure_terminal_agent_active, ShowsMapping, ListsMappings,
           list_runtime_nat_mappings, AndReads, Reads, Quiet, remoteVars, rates
  <1>. QED BY <1>1, <1>2, Quietly

LEMMA EntitledReload ==
    ASSUME EntitledInv, NEW r \in live, LoadMappings(r) \/ RetainListeners(r) \/ start_listener(r) \/ ListListener(r) \/ DropRequest(r)
    PROVE  EntitledInv'
  <1>0. Typed /\ Requests
    BY DEF EntitledInv
  <1>1. Moved(r)
    <2>1. CASE LoadMappings(r)
      BY <1>0, <2>1, LoadsGo DEF Moved
    <2>2. CASE RetainListeners(r) \/ ListListener(r)
      BY <1>0, <2>2, ListingSteps, AdvancesMoved
    <2>3. CASE start_listener(r)
      BY <1>0, <2>3, StartsGo, AdvancesMoved DEF Looked, Moved
    <2>4. CASE DropRequest(r)
      BY <1>0, <2>4, OtherSteps DEF Moved
    <2>. QED BY <2>1, <2>2, <2>3, <2>4
  <1>2. UNCHANGED <<tables, tokens, acted>>
    BY DEF LoadMappings, RetainListeners, start_listener, ListListener, DropRequest, Reads, Quiet
  <1>3. UNCHANGED win
    BY DEF LoadMappings, RetainListeners, start_listener, ListListener, DropRequest, remoteVars, rates
  <1>. QED BY <1>1, <1>2, <1>3, Quietly

LEMMA EntitledConnect ==
    ASSUME EntitledInv, NEW r \in live,
           \/ Accept(r) \/ ReadPolicy(r) \/ CountTunnels(r) \/ record_source_connection_in_map(r) \/ record_nat_connection(r)
    PROVE  EntitledInv'
  <1>1. Moved(r)
    BY AcceptingSteps, AdvancesMoved DEF EntitledInv, Moved
  <1>2. UNCHANGED <<tables, tokens, acted>>
    BY DEF Accept, ReadPolicy, CountTunnels, record_source_connection_in_map, record_nat_connection, Reads, Quiet
  <1>3. UNCHANGED win
    BY DEF Accept, ReadPolicy, CountTunnels, record_source_connection_in_map, record_nat_connection, rates
  <1>. QED BY <1>1, <1>2, <1>3, Quietly

LEMMA EntitledStream ==
    ASSUME EntitledInv, NEW r \in live,
           \/ ReachesAgentIo(r) \/ ReserveTunnel(r) \/ SubscribeStream(r) \/ UnsubscribeStream(r) \/ ReleaseTunnel(r)
           \/ record_nat_window_bytes(r) \/ CreatePending(r) \/ take_for_auth(r)
    PROVE  EntitledInv'
  <1>1. Moved(r)
    BY StreamSteps, AdvancesMoved DEF EntitledInv, Moved
  <1>2. UNCHANGED <<tables, tokens, acted>>
    BY DEF ReachesAgentIo, ReserveTunnel, SubscribeStream, UnsubscribeStream, ReleaseTunnel, record_nat_window_bytes,
           CreatePending, take_for_auth, AndReads, Reads, Quiet
  <1>3. UNCHANGED win
    BY DEF ReachesAgentIo, ReserveTunnel, SubscribeStream, UnsubscribeStream, ReleaseTunnel, record_nat_window_bytes,
           CreatePending, take_for_auth, AndReads, remoteVars, rates
  <1>. QED BY <1>1, <1>2, <1>3, Quietly

LEMMA EntitledBridge == ASSUME EntitledInv, NEW r \in live, Bridging(r) PROVE EntitledInv'
  <1>1. Moved(r)
    BY BridgeSteps, AdvancesMoved DEF EntitledInv, Moved
  <1>2. UNCHANGED <<tables, tokens, acted, win>>
    BY DEF Bridging, ClientSends, ClientCloses, ClientFails, TunnelTimesOut, AgentFrameArrives, InBridge, Reads, Quiet, rates
  <1>. QED BY <1>1, <1>2, Quietly

LEMMA EntitledAuth ==
    ASSUME EntitledInv, NEW r \in live, UNCHANGED remoteVars, Authenticated(r, Scopes(r.q.op)) \/ AsksForCode(r)
    PROVE  EntitledInv'
  <1>1. Moved(r)
    BY AuthGo, OtherSteps, AdvancesMoved DEF EntitledInv, Moved
  <1>2. UNCHANGED <<tables, tokens, acted, win>>
    BY DEF Authenticated, AsksForCode, Reads, Quiet, remoteVars, rates
  <1>. QED BY <1>1, <1>2, Quietly

LEMMA Loudly ==
    ASSUME EntitledInv, NEW r \in live, (\E x : Goes(r, x)) \/ Quits(r), SameCreds, Typed', RemoteIsEntitled'
    PROVE  EntitledInv'
  BY MovedRequests DEF EntitledInv

LEMMA ActsEntitled ==
    ASSUME EntitledInv, NEW r \in live, r.q.op \in {"nat_create", "nat_update", "nat_delete"}, Stage(r) # "auth", NEW a, NEW on,
           <<"sees", r.q.by, a>> \in r.ever, on => <<"active", a>> \in r.ever, ActsOnMapping(r, a, on)
    PROVE  RemoteIsEntitled'
  <1>1. Met(r) /\ r.q.op \in Authed /\ r.q.op \in Privileged
    BY DEF EntitledInv, Requests, Authed, Privileged
  <1>2. <<"credential", r.q.by>> \in r.ever /\ <<"admin", creds[r.q.by].user>> \in r.ever
    BY <1>1 DEF Met, MetAsker
  <1> DEFINE needs == {<<"credential", r.q.by>>, <<"sees", r.q.by, a>>, <<"admin", creds[r.q.by].user>>}
                      \cup (IF on THEN {<<"active", a>>} ELSE {})
  <1>3. needs \subseteq r.ever
    BY <1>2
  <1>4. acted' = [needs |-> needs, ever |-> r.ever]
    BY DEF ActsOnMapping
  <1> HIDE DEF needs
  <1>5. acted'.needs = needs /\ acted'.ever = r.ever
    BY <1>4
  <1>. QED BY <1>3, <1>5 DEF RemoteIsEntitled

LEMMA UpdatedIs ==
    ASSUME NEW r, Sound(r), r.q.op = "nat_update", r.got \in MappingRows
    PROVE  Updated(r) \in MappingRows /\ Updated(r).server = r.got.server
  <1>1. r.q.port \in Ports \cup {Nothing} /\ r.q.on \in BOOLEAN \cup {Nothing}
    BY DEF Sound, IsRequest
  <1>. QED BY <1>1 DEF Updated, MappingRows

LEMMA EntitledWrite ==
    ASSUME EntitledInv, NEW r \in live, CreateMapping(r) \/ UpdateMapping(r) \/ DeleteMapping(r)
    PROVE  EntitledInv'
  <1>0. Typed /\ Requests /\ Sound(r) /\ Met(r) /\ r.q.row \in Rows /\ r.q.agent \in Agents
    BY DEF EntitledInv, Requests, Sound, IsRequest
  <1>1. (\E x : Goes(r, x)) \/ Quits(r)
    BY <1>0, WritingSteps DEF Advances
  <1>2. CASE AndReads(r)
    <2>1. UNCHANGED <<tables, tokens, acted, win>>
      BY <1>2 DEF AndReads, Reads, Quiet, remoteVars, rates
    <2>. QED BY <1>1, <2>1, Quietly DEF Moved
  <1>3. ASSUME NEW row \in MappingRows \cup {Nothing}, Writes(r, row), RemoteIsEntitled' PROVE EntitledInv'
    <2>1. Typed' /\ SameCreds
      BY <1>0, <1>3 DEF Writes, Typed, SameCreds, remoteVars, rates
    <2>. QED BY <1>1, <1>3, <2>1, Loudly
  <1>4. CASE CreateMapping(r) /\ ~AndReads(r)
    <2> DEFINE row == [kind |-> "nat", server |-> r.q.agent, port |-> r.q.port, on |-> TRUE]
    <2>1. Stage(r) = "insert" /\ r.todo # <<>> /\ Writes(r, row) /\ ActsOnMapping(r, r.q.agent, TRUE)
      BY <1>4, AtIs DEF CreateMapping
    <2>2. r.q.op = "nat_create"
      BY <1>0, <2>1, OpAt DEF AfterIs
    <2>3. row \in MappingRows
      BY <1>0, <2>2 DEF Sound, IsRequest, MappingRows
    <2>4. <<"sees", r.q.by, r.q.agent>> \in r.ever /\ <<"active", r.q.agent>> \in r.ever
      BY <1>0, <2>1, <2>2 DEF Met, MetAgent
    <2> HIDE DEF row
    <2>5. RemoteIsEntitled'
      BY <2>1, <2>2, <2>4, ActsEntitled
    <2>. QED BY <1>3, <2>1, <2>3, <2>5
  <1>5. CASE UpdateMapping(r) /\ ~AndReads(r)
    <2>1. Stage(r) = "update" /\ r.todo # <<>> /\ Writes(r, Updated(r)) /\ ActsOnMapping(r, r.got.server, Updated(r).on)
      BY <1>5, AtIs DEF UpdateMapping
    <2>2. r.q.op = "nat_update"
      BY <1>0, <2>1, OpAt DEF AfterIs
    <2>3. r.got \in MappingRows
      BY <1>0, <2>1, <2>2 DEF Sound, Holds, OnRow
    <2>4. Updated(r) \in MappingRows
      BY <1>0, <2>2, <2>3, UpdatedIs
    <2>5. <<"sees", r.q.by, r.got.server>> \in r.ever /\ (Updated(r).on => <<"active", r.got.server>> \in r.ever)
      BY <1>0, <2>1, <2>2 DEF Met, MetRow, MetActive, OnRow
    <2>6. RemoteIsEntitled'
      BY <2>1, <2>2, <2>5, ActsEntitled
    <2>. QED BY <1>3, <2>1, <2>4, <2>6
  <1>6. CASE DeleteMapping(r)
    <2>1. Stage(r) = "remove" /\ r.todo # <<>> /\ Writes(r, Nothing) /\ ActsOnMapping(r, r.got.server, FALSE)
      BY <1>6, AtIs DEF DeleteMapping
    <2>2. r.q.op = "nat_delete"
      BY <1>0, <2>1, OpAt DEF AfterIs
    <2>3. <<"sees", r.q.by, r.got.server>> \in r.ever
      BY <1>0, <2>1, <2>2 DEF Met, MetRow, OnRow
    <2>4. RemoteIsEntitled'
      BY <2>1, <2>2, <2>3, ActsEntitled
    <2>. QED BY <1>3, <2>1, <2>4
  <1>. QED BY <1>2, <1>4, <1>5, <1>6

LEMMA EntitledOpen == ASSUME EntitledInv, NEW r \in live, SendOpen(r) PROVE EntitledInv'
  <1>0. Typed /\ Requests /\ Sound(r) /\ Met(r) /\ Stage(r) = "open" /\ r.todo # <<>>
    BY AtIs DEF EntitledInv, Requests, SendOpen
  <1>1. (\E x : Goes(r, x)) \/ Quits(r)
    BY <1>0, OpenGo DEF Advances
  <1>2. UNCHANGED <<tables, tokens, win>>
    BY DEF SendOpen, still, rates
  <1>3. CASE ~Online(r)
    <2>1. UNCHANGED acted
      BY <1>3 DEF SendOpen
    <2>. QED BY <1>1, <1>2, <2>1, Quietly DEF Moved
  <1>4. CASE Online(r)
    <2>1. r.q.op \in {"socket", "connect"}
      BY <1>0, OpAt DEF AfterIs
    <2>2. acted'.ever = r.ever
      BY <1>4 DEF SendOpen
    <2>3. acted'.needs \subseteq r.ever
      <3>1. CASE IsTunnel(r)
        <4>1. acted'.needs = {<<"row", r.got.id, [r.got.row EXCEPT !.on = TRUE]>>, <<"active", r.got.row.server>>}
          BY <1>4, <3>1 DEF SendOpen
        <4>2. r.got \in Reading /\ r.got.row.on
          BY <1>0, <3>1 DEF Sound, Holds, IsTunnel, OnRow
        <4>3. [r.got.row EXCEPT !.on = TRUE] = r.got.row
          <5>1. r.got.row \in MappingRows /\ r.got.row.on = TRUE
            BY <4>2 DEF Reading, MappingRows
          <5>. QED BY <5>1 DEF MappingRows
        <4>4. <<"row", r.got.id, r.got.row>> \in r.ever /\ <<"active", r.got.row.server>> \in r.ever
          BY <1>0, <3>1 DEF Met, MetMapping, IsTunnel
        <4>. QED BY <4>1, <4>3, <4>4
      <3>2. CASE ~IsTunnel(r)
        <4>1. acted'.needs = Needs(r.q.by, "server:exec", r.q.agent) /\ r.q.op = "socket"
          BY <1>4, <2>1, <3>2 DEF SendOpen, IsTunnel
        <4>2. /\ <<"credential", r.q.by>> \in r.ever /\ <<"admin", creds[r.q.by].user>> \in r.ever /\ creds[r.q.by].kind = "session"
              /\ <<"sees", r.q.by, r.q.agent>> \in r.ever /\ <<"active", r.q.agent>> \in r.ever
          BY <1>0, <4>1 DEF Met, MetAsker, MetAgent, Authed, Privileged
        <4>. QED BY <4>1, <4>2 DEF Needs
      <3>. QED BY <3>1, <3>2
    <2>4. RemoteIsEntitled'
      BY <2>2, <2>3 DEF RemoteIsEntitled
    <2>5. Typed' /\ SameCreds
      BY <1>0, <1>2 DEF Typed, SameCreds, tables
    <2>. QED BY <1>1, <2>4, <2>5, Loudly
  <1>. QED BY <1>3, <1>4

LEMMA EntitledOther ==
    ASSUME EntitledInv, NEW r \in live,
           FlipAgent(r) \/ BanAgent(r) \/ NextWindow(r) \/ (UNCHANGED remoteVars /\ (Responds(r) \/ Change(r)))
    PROVE  EntitledInv'
  <1>0. Typed /\ Requests /\ Sound(r) /\ Met(r) /\ r.q.agent \in Agents /\ r.q.user \in Users /\ r.q.by \in Creds
    BY DEF EntitledInv, Requests, Sound, IsRequest
  <1>1. (\E x : Goes(r, x)) \/ Quits(r)
    BY <1>0, OtherSteps DEF Advances
  <1>2. CASE FlipAgent(r)
    <2>1. Typed'
      <3> DEFINE on == At(r, "flip") /\ ~agents[r.q.agent].online /\ ~agents[r.q.agent].revoked
      <3>1. agents' = [agents EXCEPT ![r.q.agent].online = on] /\ UNCHANGED <<users, creds, rows, win>>
        BY <1>2 DEF FlipAgent, rates
      <3>2. on \in BOOLEAN
        OBVIOUS
      <3> HIDE DEF on
      <3>. QED BY <1>0, <3>1, <3>2 DEF Typed, AgentRows
    <2>2. SameCreds /\ RemoteIsEntitled'
      BY <1>2 DEF FlipAgent, Quiet, SameCreds, EntitledInv, RemoteIsEntitled
    <2>. QED BY <1>1, <2>1, <2>2, Loudly
  <1>3. CASE BanAgent(r)
    <2>1. Typed'
      BY <1>0, <1>3 DEF BanAgent, Typed, AgentRows, remoteVars, rates
    <2>2. SameCreds /\ RemoteIsEntitled'
      BY <1>3 DEF BanAgent, Quiet, SameCreds, EntitledInv, RemoteIsEntitled
    <2>. QED BY <1>1, <2>1, <2>2, Loudly
  <1>4. CASE NextWindow(r)
    <2>1. Typed' /\ SameCreds /\ RemoteIsEntitled'
      BY <1>0, <1>4 DEF NextWindow, Reads, Quiet, tables, Typed, SameCreds, EntitledInv, RemoteIsEntitled
    <2>. QED BY <1>1, <2>1, Loudly
  <1>5. CASE UNCHANGED remoteVars /\ Responds(r)
    <2>1. Typed' /\ SameCreds
      BY <1>0, <1>5 DEF Responds, tables, Typed, SameCreds, remoteVars, rates
    <2>2. RemoteIsEntitled'
      BY <1>0, <1>5 DEF Responds, Met, EntitledInv, RemoteIsEntitled
    <2>. QED BY <1>1, <2>1, <2>2, Loudly
  <1>6. CASE UNCHANGED remoteVars /\ Change(r)
    <2>0. r.q.op \in {"role", "leave", "owner"}
      <3>1. Stage(r) = "change" /\ r.todo # <<>>
        BY <1>6, AtIs DEF Change
      <3>. QED BY <1>0, <3>1, OpAt DEF AfterIs
    <2>1. UNCHANGED win /\ RemoteIsEntitled'
      BY <1>6 DEF Change, Quiet, EntitledInv, RemoteIsEntitled, remoteVars, rates
    <2>2. CASE r.q.op = "role"
      <3>1. users' = [users EXCEPT ![r.q.user] = IF @ = "admin" THEN "member" ELSE @] /\ UNCHANGED <<creds, agents, rows>>
        BY <1>6, <2>2 DEF Change
      <3>2. Typed' /\ SameCreds
        BY <1>0, <2>1, <3>1 DEF Typed, SameCreds
      <3>. QED BY <1>1, <2>1, <3>2, Loudly
    <2>3. CASE r.q.op = "leave"
      <3>1. creds' = [creds EXCEPT ![r.q.by].valid = FALSE] /\ UNCHANGED <<users, agents, rows>>
        BY <1>6, <2>3 DEF Change
      <3>2. creds[r.q.by] \in CredRows
        BY <1>0 DEF Typed
      <3>3. [creds[r.q.by] EXCEPT !.valid = FALSE] \in CredRows
        BY <3>2 DEF CredRows
      <3>4. Typed'
        BY <1>0, <2>1, <3>1, <3>3 DEF Typed
      <3>5. SameCreds
        BY <1>0, <3>1, <3>2 DEF Typed, SameCreds, CredRows
      <3>. QED BY <1>1, <2>1, <3>4, <3>5, Loudly
    <2>4. CASE r.q.op = "owner"
      <3>1. agents' = [agents EXCEPT ![r.q.agent].owner = r.q.user] /\ UNCHANGED <<users, creds, rows>>
        BY <1>6, <2>4 DEF Change
      <3>2. Typed' /\ SameCreds
        BY <1>0, <2>1, <3>1 DEF Typed, SameCreds, AgentRows
      <3>. QED BY <1>1, <2>1, <3>2, Loudly
    <2>. QED BY <2>0, <2>2, <2>3, <2>4
  <1>. QED BY <1>2, <1>3, <1>4, <1>5, <1>6

Begin(q) == [q |-> q, todo |-> Program(q), begun |-> FALSE, admin |-> FALSE, out |-> "none",
             tool |-> "none", got |-> Nothing, among |-> {}, svcs |-> {}, show |-> {}, ever |-> Facts]

LEMMA Beginnings ==
    ASSUME Init
    PROVE  /\ \E w \in Workloads : live = {Begin(q) : q \in w} /\ \A q \in w : IsRequest(q)
           /\ Apart(live) /\ \A r \in live : Sound(r) /\ Met(r) /\ Facts \subseteq r.ever /\ r.begun = FALSE
  <1>1. PICK w \in Workloads : live = {Begin(q) : q \in w}
    BY DEF Init, TransfersInit, Begin
  <1>2. \A q \in w : IsRequest(q)
    BY RequestsAssumption
  <1>3. ASSUME NEW q \in w PROVE Sound(Begin(q)) /\ Begin(q).begun = FALSE /\ Begin(q).q = q /\ Begin(q).ever = Facts
    <2>1. /\ Program(q) \in Seq(StepRows) /\ Linked(Program(q), q.op)
          /\ Program(q) # <<>> /\ Program(q)[1][1] = First(q.op)
      BY <1>2, ProgramsAreLinked
    <2> DEFINE r == Begin(q)
    <2>2. /\ Shaped(r) /\ r.q = q /\ r.todo = Program(q) /\ r.begun = FALSE /\ r.admin = FALSE /\ r.got = Nothing
          /\ r.among = {} /\ r.show = {} /\ r.ever = Facts
      BY DEF Begin, Shaped, Fields
    <2> HIDE DEF r
    <2>3. Stage(r) = First(q.op)
      BY <2>1, <2>2 DEF Stage
    <2>4. Holds(r)
      BY <1>2, <2>2, <2>3 DEF Holds, First, OnRow, IsRequest, Asked
    <2>5. Sound(r)
      BY <1>2, <2>1, <2>2, <2>3, <2>4 DEF Sound
    <2>. QED BY <2>2, <2>5 DEF r
  <1>4. ASSUME NEW r \in live PROVE Sound(r) /\ Met(r) /\ Facts \subseteq r.ever /\ r.begun = FALSE
    <2>1. PICK q \in w : r = Begin(q)
      BY <1>1
    <2>2. Sound(r) /\ r.begun = FALSE /\ r.ever = Facts
      BY <1>3, <2>1
    <2>3. Met(r)
      <3>1. r.show = {} /\ r.q.op \in Asked /\ Stage(r) = First(r.q.op)
        BY <2>2 DEF Sound, IsRequest
      <3>2. r.q.op \in Authed => Stage(r) = "auth"
        BY <3>1 DEF First, Authed
      <3>3. r.q.op = "connect" => Stage(r) = "accept"
        BY <3>1 DEF First
      <3>4. r.q.op \in OnRow \cup {"nat_list", "nat_create", "socket"} => r.q.op \in Authed
        BY DEF OnRow, Authed
      <3>. QED BY <3>1, <3>2, <3>3, <3>4 DEF Met, MetAsker, MetRow, MetActive, MetList, MetAgent, MetMapping, OnRow
    <2>. QED BY <2>2, <2>3
  <1>5. ASSUME NEW r \in live, NEW s \in live,
               r.q.id = s.q.id \/ (r.q.op = s.q.op /\ r.q.op \in {"connect", "terminal"} /\ r.q.stream = s.q.stream)
        PROVE  r = s
    <2>1. PICK p \in w : r = Begin(p)
      BY <1>1
    <2>2. PICK q \in w : s = Begin(q)
      BY <1>1
    <2>3. r.q = p /\ s.q = q
      BY <1>3, <2>1, <2>2
    <2>4. p = q
      BY <1>5, <2>3, RequestsAssumption
    <2>. QED BY <2>1, <2>2, <2>4
  <1>6. Apart(live)
    BY <1>5 DEF Apart
  <1>. QED BY <1>1, <1>2, <1>4, <1>6

LEMMA EntitledInit == Init => EntitledInv
  <1>1. SUFFICES ASSUME Init PROVE EntitledInv
    OBVIOUS
  <1>2. Requests
    BY <1>1, Beginnings DEF Requests
  <1>3. Typed
    <2>1. PICK x \in Stored : users = x.users /\ creds = x.creds /\ agents = x.agents /\ tokens = x.tokens /\ rows = x.rows
      BY <1>1 DEF Init, TransfersInit
    <2>2. TablesOK(users, creds, agents, tokens) /\ rows \in [Rows -> MappingRows \cup {Nothing}]
      BY <2>1, MappingsAssumption
    <2>3. win \in Windows
      BY <1>1, RemoteAssumption DEF Init
    <2>. QED BY <2>2, <2>3 DEF TablesOK, Typed
  <1>4. RemoteIsEntitled
    BY <1>1 DEF Init, TransfersInit, RemoteIsEntitled
  <1>. QED BY <1>2, <1>3, <1>4 DEF EntitledInv

LEMMA SameRequests == ASSUME EntitledInv, UNCHANGED <<transferVars, win>> PROVE EntitledInv'
  <1>1. UNCHANGED <<tables, tokens, live, acted, win>>
    BY DEF transferVars
  <1>2. Facts' = Facts /\ SameCreds
    BY <1>1, SameFacts
  <1>3. ASSUME NEW s \in live PROVE Met(s)'
    <2>1. Sound(s) /\ Met(s) /\ Same(s, s) /\ s.ever \subseteq s.ever
      BY DEF EntitledInv, Requests, Sound, Same
    <2>. QED BY <1>2, <2>1, MetMore
  <1>4. Requests'
    BY <1>1, <1>2, <1>3 DEF EntitledInv, Requests
  <1>5. Typed' /\ RemoteIsEntitled'
    BY <1>1 DEF EntitledInv, Typed, RemoteIsEntitled, tables
  <1>. QED BY <1>4, <1>5 DEF EntitledInv

\* What is not a request's leaves requests alone.
LEMMA Elsewhere ==
    ASSUME (\E p \in Ports : StopListener(p)) \/ (\E s \in Streams : AgentStep(s)) \/ UNCHANGED <<transferVars, remoteVars>>
    PROVE  UNCHANGED <<transferVars, win>>
  <1>1. ASSUME NEW p \in Ports, StopListener(p) PROVE UNCHANGED <<transferVars, win>>
    BY <1>1 DEF StopListener, rates
  <1>2. ASSUME NEW s \in Streams, AgentStep(s) PROVE UNCHANGED <<transferVars, win>>
    <2>1. OnAgent
      BY <1>2 DEF AgentStep, handle_nat_control_message, KeepNatSession, TargetSpeaks, handle_nat_data, handle_io_close,
                  handle_new_terminal_session, handle_terminal_message, terminal_output_loop, Takes
    <2>. QED BY <2>1 DEF OnAgent, rates
  <1>3. UNCHANGED <<transferVars, remoteVars>> => UNCHANGED <<transferVars, win>>
    BY DEF remoteVars, rates
  <1>. QED BY <1>1, <1>2, <1>3

LEMMA EntitledNext == EntitledInv /\ [Next]_<<transferVars, remoteVars, hostVars>> => EntitledInv'
  <1>1. SUFFICES ASSUME EntitledInv, [Next]_<<transferVars, remoteVars, hostVars>> PROVE EntitledInv'
    OBVIOUS
  <1>2. ASSUME NEW r \in live, RequestStep(r) PROVE EntitledInv'
    BY <1>1, <1>2, EntitledRead, EntitledReload, EntitledConnect, EntitledStream, EntitledBridge, EntitledWrite, EntitledOpen,
       EntitledOther DEF RequestStep, Bridging
  <1>3. ASSUME NEW r \in live, UNCHANGED remoteVars, Authenticated(r, Scopes(r.q.op)) \/ AsksForCode(r) PROVE EntitledInv'
    BY <1>1, <1>3, EntitledAuth
  <1>4. ASSUME NEW r \in live, UNCHANGED remoteVars, Responds(r) \/ Change(r) PROVE EntitledInv'
    BY <1>1, <1>4, EntitledOther
  <1>5. ASSUME (\E p \in Ports : StopListener(p)) \/ (\E s \in Streams : AgentStep(s)) \/ UNCHANGED <<transferVars, remoteVars>>
        PROVE  EntitledInv'
    BY <1>1, <1>5, Elsewhere, SameRequests
  <1>. QED BY <1>1, <1>2, <1>3, <1>4, <1>5 DEF Next

(***************************************************************************)
(* Whatever is written to a mapping, shown of one, or opened on an Agent   *)
(* through a tunnel or a terminal had its session valid, its Agent visible *)
(* and not revoked, and its mapping enabled, each at some moment since it  *)
(* was asked for (api/v1/nat.rs, accept_loop, ws_terminal).                *)
(***************************************************************************)
THEOREM Entitlement == Spec => []RemoteIsEntitled
  <1>1. Spec => []EntitledInv
    BY EntitledInit, EntitledNext, PTL DEF Spec
  <1>2. EntitledInv => RemoteIsEntitled
    BY DEF EntitledInv
  <1>. QED BY <1>1, <1>2, PTL

-----------------------------------------------------------------------------
(* The limits: what becomes of requests that hold tunnels and terminals. *)

CalmTunnels == \A y \in live : Holding(y) => \E s \in live' : s.q = y.q /\ Holding(s)
CalmShells ==
    \A s \in live' : \E y \in live : s.q = y.q /\ (Unmade(s) => Unmade(y)) /\ (Took(s) => Took(y)) /\ (Ready(s) => Ready(y))

LEMMA SameHolds ==
    ASSUME NEW y, NEW s, Same(y, s)
    PROVE  /\ s.q = y.q /\ Stage(s) = Stage(y) /\ s.begun = y.begun /\ s.among = y.among
           /\ Unmade(s) = Unmade(y) /\ Took(s) = Took(y) /\ Ready(s) = Ready(y) /\ Holding(s) = Holding(y)
  BY SameSound DEF Same, Unmade, Took, Ready, Holding, IsTunnel

LEMMA CalmStays == ASSUME Requests, live' = live PROVE CalmTunnels /\ CalmShells
  BY DEF CalmTunnels, CalmShells

LEMMA CalmQuits == ASSUME Requests, NEW r \in live, Quits(r) PROVE CalmShells /\ (~Holding(r) => CalmTunnels)
  <1>1. Renamed(live \ {r})
    BY Renaming
  <1>2. CalmShells
    BY <1>1, SameHolds DEF Renamed, CalmShells
  <1>3. ~Holding(r) => CalmTunnels
    BY <1>1, SameHolds DEF Renamed, CalmTunnels
  <1>. QED BY <1>2, <1>3

LEMMA CalmGoes ==
    ASSUME Requests, NEW r \in live, NEW x, Goes(r, x)
    PROVE  (Stage(r) # "take" => CalmShells) /\ (Stage(r) # "release" => CalmTunnels)
  <1>1. Renamed((live \ {r}) \cup {x})
    BY Renaming
  <1>2. /\ x.q = r.q
        /\ \/ AfterIs(r.q.op, Stage(r), Stage(x))
           \/ r.q.op \in {"socket", "connect"} /\ Stage(r) = "open" /\ Stage(x) = "unsubscribe"
           \/ r.q.op \in Mapping /\ Stage(r) = "start" /\ Stage(x) \in {"start", "list"}
    BY MovesIs DEF Goes, Follows
  <1>3. Sound(r) /\ r.q.op \in Asked
    BY DEF Requests, Sound, IsRequest
  <1>4. Stage(r) # "release" /\ Holding(r) => Holding(x)
    BY <1>2 DEF Holding, IsTunnel, AfterIs
  <1>5. Stage(r) # "release" => CalmTunnels
    <2>1. SUFFICES ASSUME Stage(r) # "release", NEW y \in live, Holding(y) PROVE \E s \in live' : s.q = y.q /\ Holding(s)
      BY DEF CalmTunnels
    <2>2. CASE y = r
      <3>1. PICK s \in live' : Same(x, s)
        BY <1>1 DEF Renamed
      <3>. QED BY <1>2, <1>4, <2>1, <2>2, <3>1, SameHolds
    <2>3. CASE y # r
      <3>1. PICK s \in live' : Same(y, s)
        BY <1>1, <2>3 DEF Renamed
      <3>. QED BY <2>1, <3>1, SameHolds
    <2>. QED BY <2>2, <2>3
  <1>6. Stage(r) # "take" => CalmShells
    <2>1. SUFFICES ASSUME Stage(r) # "take" PROVE CalmShells
      OBVIOUS
    <2>2. Unmade(x) => Unmade(r)
      <3>1. Stage(r) # "end"
        BY <1>2 DEF AfterIs
      <3>. QED BY <1>2, <3>1 DEF Unmade
    <2>3. (Took(x) => Took(r)) /\ (Ready(x) => Ready(r))
      <3>1. CASE r.q.op = "socket"
        <4>1. r.todo # <<>> /\ r.todo \in Seq(StepRows)
          <5>1. Stage(r) # "end"
            BY <1>2 DEF AfterIs
          <5>. QED BY <1>3, <5>1 DEF Stage, Sound
        <4>2. Stage(r) \in StepNames
          <5>1. r.todo[1] \in StepRows
            BY <4>1, TailOf
          <5>. QED BY <4>1, <5>1 DEF Stage, StepRows
        <4>. QED BY <1>2, <2>1, <3>1, <4>2 DEF Took, Ready, AfterIs, StepNames, Mapping
      <3>2. CASE r.q.op # "socket"
        BY <1>2, <3>2 DEF Took, Ready
      <3>. QED BY <3>1, <3>2
    <2>4. ASSUME NEW s \in live'
          PROVE  \E y \in live : s.q = y.q /\ (Unmade(s) => Unmade(y)) /\ (Took(s) => Took(y)) /\ (Ready(s) => Ready(y))
      <3>1. PICK y \in (live \ {r}) \cup {x} : Same(y, s)
        BY <1>1 DEF Renamed
      <3>2. s.q = y.q /\ Unmade(s) = Unmade(y) /\ Took(s) = Took(y) /\ Ready(s) = Ready(y)
        BY <3>1, SameHolds
      <3>3. CASE y = x
        <4>1. s.q = r.q /\ (Unmade(s) => Unmade(r)) /\ (Took(s) => Took(r)) /\ (Ready(s) => Ready(r))
          BY <1>2, <2>2, <2>3, <3>2, <3>3
        <4>. QED BY <4>1
      <3>4. CASE y \in live
        BY <3>2, <3>4
      <3>. QED BY <3>3, <3>4
    <2>. QED BY <2>4 DEF CalmShells
  <1>. QED BY <1>5, <1>6

LEMMA TunnelsCalm == ASSUME TunnelsInv, CalmTunnels, UNCHANGED tunnels PROVE TunnelsInv'
  <1>1. ASSUME NEW t \in tunnels PROVE \E s \in live' : Holding(s) /\ stream(s) = t[1]
    <2>1. PICK y \in live : Holding(y) /\ stream(y) = t[1]
      BY DEF TunnelsInv
    <2>2. PICK s \in live' : s.q = y.q /\ Holding(s)
      BY <2>1 DEF CalmTunnels
    <2>. QED BY <2>1, <2>2 DEF stream
  <1>. QED BY <1>1 DEF TunnelsInv, active_tunnel_count_for_mapping

LEMMA ShellsCalm ==
    ASSUME PendingInv, Apart(live'), CalmShells, UNCHANGED opened, pending' \in [Shells -> Creds \cup {Nothing}],
           \A s \in Shells : pending'[s] \in {pending[s], Nothing}, \A r \in live : Unmade(r) => stream(r) \in Shells
    PROVE  PendingInv'
  <1>1. \A s : OpenedAs(s)' = OpenedAs(s)
    BY DEF OpenedAs
  <1>2. ASSUME NEW s, TakenBy(s) = {} PROVE TakenBy(s)' = {}
    BY <1>2 DEF TakenBy, CalmShells, stream
  <1>3. ASSUME NEW r \in live', Unmade(r)
        PROVE  pending'[stream(r)] = Nothing /\ TakenBy(stream(r))' = {} /\ OpenedAs(stream(r))' = {}
    <2>1. PICK y \in live : r.q = y.q /\ Unmade(y)
      BY <1>3 DEF CalmShells
    <2>2. stream(r) = stream(y) /\ stream(y) \in Shells
      BY <2>1 DEF stream
    <2>. QED BY <1>1, <1>2, <2>1, <2>2 DEF PendingInv
  <1>4. ASSUME NEW s \in Shells, pending'[s] # Nothing PROVE TakenBy(s)' = {} /\ OpenedAs(s)' = {}
    <2>1. pending[s] # Nothing
      BY <1>4
    <2>. QED BY <1>1, <1>2, <2>1 DEF PendingInv
  <1>5. ASSUME NEW r \in live', Ready(r) PROVE OpenedAs(stream(r))' = {}
    <2>1. PICK y \in live : r.q = y.q /\ Ready(y)
      BY <1>5 DEF CalmShells
    <2>. QED BY <1>1, <2>1 DEF PendingInv, stream
  <1>6. ASSUME NEW r \in live', NEW s \in live', Took(r), Took(s), stream(r) = stream(s) PROVE r = s
    <2>1. PICK y \in live : r.q = y.q /\ Took(y)
      BY <1>6 DEF CalmShells
    <2>2. PICK z \in live : s.q = z.q /\ Took(z)
      BY <1>6 DEF CalmShells
    <2>3. y = z
      BY <1>6, <2>1, <2>2 DEF PendingInv, stream
    <2>. QED BY <2>1, <2>2, <2>3 DEF Apart
  <1>7. TerminalOpensOnce'
    BY DEF PendingInv, TerminalOpensOnce
  <1>. QED BY <1>3, <1>4, <1>5, <1>6, <1>7 DEF PendingInv

LEMMA UnmadeShells == ASSUME Requests PROVE \A r \in live : Unmade(r) \/ Took(r) => stream(r) \in Shells
  BY DEF Requests, Sound, IsRequest, Unmade, Took, stream

LEMMA WindowsKept ==
    ASSUME WindowsInv, win' \in Windows, UNCHANGED <<used, admitted>>, spent' \in [Streams -> Nat] PROVE WindowsInv'
  BY DEF WindowsInv

\* Neither a tunnel nor a terminal is affected.
LEMMA BoundedPlain ==
    ASSUME EntitledInv, EntitledInv', BoundedInv, NEW r \in live, Moved(r), Quits(r) => ~Holding(r), Stage(r) \notin {"take", "release"},
           UNCHANGED <<tunnels, pending, opened, used, admitted>>, spent' \in [Streams -> Nat]
    PROVE  BoundedInv'
  <1>0. Requests /\ TunnelsInv /\ WindowsInv /\ PendingInv /\ Apart(live') /\ win' \in Windows
    BY DEF EntitledInv, Requests, Typed, BoundedInv
  <1>1. CalmTunnels /\ CalmShells
    BY <1>0, CalmStays, CalmQuits, CalmGoes DEF Moved
  <1>2. TunnelsInv'
    BY <1>0, <1>1, TunnelsCalm
  <1>3. WindowsInv'
    BY <1>0, WindowsKept
  <1>4. PendingInv'
    <2>1. pending' \in [Shells -> Creds \cup {Nothing}] /\ \A s \in Shells : pending'[s] \in {pending[s], Nothing}
      BY <1>0 DEF PendingInv
    <2>. QED BY <1>0, <1>1, <2>1, ShellsCalm, UnmadeShells
  <1>. QED BY <1>2, <1>3, <1>4 DEF BoundedInv

LEMMA SpentKept == ASSUME BoundedInv, UNCHANGED spent PROVE spent' \in [Streams -> Nat]
  BY DEF BoundedInv, WindowsInv

LEMMA BoundedRead ==
    ASSUME EntitledInv, EntitledInv', BoundedInv, NEW r \in live,
           \/ FindMapping(r) \/ FindNatAgent(r) \/ FindActiveNatAgent(r) \/ FindPort(r) \/ ensure_terminal_agent_active(r)
           \/ ShowsMapping(r) \/ ListsMappings(r) \/ list_runtime_nat_mappings(r) \/ ReachesAgentIo(r)
           \/ CreateMapping(r) \/ UpdateMapping(r) \/ DeleteMapping(r)
           \/ (UNCHANGED remoteVars /\ (Authenticated(r, Scopes(r.q.op)) \/ AsksForCode(r) \/ Responds(r) \/ Change(r)))
    PROVE  BoundedInv'
  <1>0. Typed /\ Requests
    BY DEF EntitledInv
  <1>1. Moved(r)
    BY <1>0, ReadingSteps, ShowingSteps, StreamSteps, WritingSteps, AuthGo, OtherSteps, AdvancesMoved DEF Moved
  <1>2. UNCHANGED remoteVars
    BY DEF FindMapping, FindNatAgent, FindActiveNatAgent, FindPort, ensure_terminal_agent_active, ShowsMapping, ListsMappings,
           list_runtime_nat_mappings, ReachesAgentIo, CreateMapping, UpdateMapping, DeleteMapping, AndReads, Writes
  <1>3. UNCHANGED <<tunnels, pending, opened, used, admitted, spent>>
    BY <1>2 DEF remoteVars, streams, rates, frames
  <1>4. \/ At(r, "get") \/ At(r, "nat_agent") \/ At(r, "nat_active") \/ At(r, "port") \/ At(r, "allowed") \/ At(r, "mapping")
        \/ At(r, "mappings") \/ At(r, "runtime") \/ At(r, "reach") \/ At(r, "insert") \/ At(r, "update") \/ At(r, "remove")
        \/ At(r, "auth") \/ At(r, "totp") \/ r.todo = <<>> \/ At(r, "change")
    BY DEF FindMapping, FindNatAgent, FindActiveNatAgent, FindPort, ensure_terminal_agent_active, ShowsMapping, ListsMappings,
           list_runtime_nat_mappings, ReachesAgentIo, CreateMapping, UpdateMapping, DeleteMapping, Authenticated, AsksForCode,
           Responds, Change
  <1>5. Stage(r) \in {"get", "nat_agent", "nat_active", "port", "allowed", "mapping", "mappings", "runtime", "reach", "insert",
                      "update", "remove", "auth", "totp", "end", "change"}
    BY <1>4, AtIs DEF Stage
  <1>6. ~Holding(r) /\ Stage(r) \notin {"take", "release"}
    BY <1>5 DEF Holding
  <1>. QED BY <1>1, <1>3, <1>6, BoundedPlain, SpentKept

LEMMA BoundedReload ==
    ASSUME EntitledInv, EntitledInv', BoundedInv, NEW r \in live,
           \/ LoadMappings(r) \/ RetainListeners(r) \/ start_listener(r) \/ ListListener(r)
           \/ Accept(r) \/ ReadPolicy(r) \/ CountTunnels(r) \/ record_source_connection_in_map(r)
           \/ FlipAgent(r) \/ BanAgent(r)
    PROVE  BoundedInv'
  <1>0. Typed /\ Requests
    BY DEF EntitledInv
  <1>1. Moved(r)
    BY <1>0, LoadsGo, ListingSteps, StartsGo, AcceptingSteps, OtherSteps, AdvancesMoved DEF Moved, Looked
  <1>2. UNCHANGED <<tunnels, pending, opened, used, admitted, spent>>
    <2>1. CASE LoadMappings(r) \/ RetainListeners(r) \/ ListListener(r) \/ Accept(r)
      BY <2>1 DEF LoadMappings, RetainListeners, ListListener, Accept, streams, rates, frames
    <2>2. CASE start_listener(r)
      BY <2>2 DEF start_listener, remoteVars, streams, rates, frames
    <2>3. CASE ReadPolicy(r) \/ CountTunnels(r)
      BY <2>3 DEF ReadPolicy, CountTunnels, streams, rates, frames
    <2>4. CASE record_source_connection_in_map(r)
      BY <2>4 DEF record_source_connection_in_map, streams, frames
    <2>5. CASE FlipAgent(r) \/ BanAgent(r)
      BY <2>5 DEF FlipAgent, BanAgent, remoteVars, streams, rates, frames
    <2>. QED BY <2>1, <2>2, <2>3, <2>4, <2>5
  <1>3. \/ At(r, "load") \/ At(r, "retain") \/ At(r, "start") \/ At(r, "list") \/ At(r, "accept") \/ At(r, "policy")
        \/ At(r, "room") \/ At(r, "track") \/ At(r, "flip") \/ At(r, "leave") \/ At(r, "ban")
    BY DEF LoadMappings, RetainListeners, start_listener, ListListener, Accept, ReadPolicy, CountTunnels,
           record_source_connection_in_map, FlipAgent, BanAgent
  <1>4. Stage(r) \in {"load", "retain", "start", "list", "accept", "policy", "room", "track", "flip", "leave", "ban"}
    BY <1>3, AtIs
  <1>5. ~Holding(r) /\ Stage(r) \notin {"take", "release"}
    BY <1>4 DEF Holding
  <1>. QED BY <1>1, <1>2, <1>5, BoundedPlain, SpentKept

LEMMA BoundedDrop == ASSUME EntitledInv, EntitledInv', BoundedInv, NEW r \in live, DropRequest(r) PROVE BoundedInv'
  <1>0. Requests /\ TunnelsInv /\ WindowsInv /\ PendingInv /\ Apart(live') /\ win' \in Windows /\ Quits(r)
    BY OtherSteps DEF EntitledInv, Requests, Typed, BoundedInv
  <1>1. UNCHANGED <<tunnels, pending, opened, used, admitted, spent>> /\ ~Holding(r)
    BY DEF DropRequest, streams, rates, frames, Holding, IsTunnel
  <1>2. CalmTunnels /\ CalmShells
    BY <1>0, <1>1, CalmQuits
  <1>3. pending' \in [Shells -> Creds \cup {Nothing}] /\ \A s \in Shells : pending'[s] \in {pending[s], Nothing}
    BY <1>0, <1>1 DEF PendingInv
  <1>. QED BY <1>0, <1>1, <1>2, <1>3, TunnelsCalm, WindowsKept, ShellsCalm, UnmadeShells, SpentKept DEF BoundedInv

\* Streams are among those that are counted.
LEMMA StreamIs ==
    ASSUME Requests, NEW r \in live, r.q.op \in {"connect", "socket", "terminal"}
    PROVE  stream(r) \in Streams /\ (r.q.op # "connect" => stream(r) \in Shells) /\ (r.q.op = "connect" => stream(r) \notin Shells)
  BY RemoteAssumption DEF Requests, Sound, IsRequest, stream

LEMMA BoundedStream ==
    ASSUME EntitledInv, EntitledInv', BoundedInv, NEW r \in live, SubscribeStream(r) \/ UnsubscribeStream(r) \/ Bridging(r)
    PROVE  BoundedInv'
  <1>0. Typed /\ Requests /\ Sound(r) /\ spent \in [Streams -> Nat]
    BY DEF EntitledInv, Requests, BoundedInv, WindowsInv
  <1>1. Advances(r) \/ live' = live
    <2>1. CASE SubscribeStream(r) \/ UnsubscribeStream(r)
      <3>1. (At(r, "subscribe") \/ At(r, "unsubscribe")) /\ Proceeds(r) /\ {"subscribe", "unsubscribe"} \cap Crossing = {}
        BY <2>1 DEF SubscribeStream, UnsubscribeStream, Crossing
      <3>. QED BY <1>0, <3>1, PlainGo
    <2>. QED BY <1>0, <2>1, BridgeSteps
  <1>2. UNCHANGED <<tunnels, pending, opened, used, admitted>>
    BY DEF SubscribeStream, UnsubscribeStream, Bridging, ClientSends, ClientCloses, ClientFails, TunnelTimesOut, AgentFrameArrives,
           InBridge, rates, streams
  <1>3. Stage(r) \in {"subscribe", "unsubscribe", "bridge"} /\ r.todo # <<>>
    <2>1. At(r, "subscribe") \/ At(r, "unsubscribe") \/ At(r, "bridge")
      BY DEF SubscribeStream, UnsubscribeStream, Bridging, ClientSends, ClientCloses, ClientFails, TunnelTimesOut, AgentFrameArrives,
             InBridge
    <2>. QED BY <2>1, AtIs
  <1>4. r.q.op \in {"socket", "connect"} /\ stream(r) \in Streams
    <2>1. r.q.op \in {"socket", "connect"}
      BY <1>0, <1>3, OpAt DEF AfterIs
    <2>. QED BY <1>0, <2>1, StreamIs
  <1>5. spent' \in [Streams -> Nat]
    <2>1. UNCHANGED spent \/ spent' = [spent EXCEPT ![stream(r)] = @ + 1]
      <3>1. CASE SubscribeStream(r) \/ UnsubscribeStream(r)
        BY <3>1 DEF SubscribeStream, UnsubscribeStream, frames
      <3>2. CASE ClientSends(r) \/ ClientCloses(r) \/ ClientFails(r) \/ TunnelTimesOut(r)
        BY <3>2 DEF ClientSends, ClientCloses, ClientFails, TunnelTimesOut
      <3>3. CASE AgentFrameArrives(r)
        BY <3>3 DEF AgentFrameArrives
      <3>. QED BY <3>1, <3>2, <3>3 DEF Bridging
    <2>. QED BY <1>0, <1>4, <2>1
  <1>6. TunnelsInv /\ WindowsInv /\ PendingInv /\ Apart(live') /\ win' \in Windows
    BY DEF EntitledInv, Requests, Typed, BoundedInv
  <1>7. CalmTunnels /\ CalmShells
    <2>1. Stage(r) # "take" /\ Stage(r) # "release"
      BY <1>3
    <2>. QED BY <1>0, <1>1, <2>1, CalmStays, CalmGoes DEF Advances
  <1>8. pending' \in [Shells -> Creds \cup {Nothing}] /\ \A s \in Shells : pending'[s] \in {pending[s], Nothing}
    BY <1>2, <1>6 DEF PendingInv
  <1>. QED BY <1>0, <1>2, <1>5, <1>6, <1>7, <1>8, TunnelsCalm, WindowsKept, ShellsCalm, UnmadeShells DEF BoundedInv

LEMMA ReserveCount ==
    ASSUME TunnelsInv, NEW t, NEW n \in Rows, t[2] = n, reserve_active_tunnel(n), tunnels' = tunnels \cup {t}
    PROVE  /\ IsFiniteSet(tunnels') /\ Cardinality(tunnels') <= MaxTunnels
           /\ \A m \in Rows : active_tunnel_count_for_mapping(m)' <= MapLimit
  <1>0. MaxTunnels \in Nat /\ MapLimit \in Nat /\ IsFiniteSet(tunnels)
    BY RemoteAssumption DEF TunnelsInv
  <1>1. IsFiniteSet(tunnels') /\ Cardinality(tunnels') <= MaxTunnels
    <2>1. Cardinality(tunnels) \in Nat /\ Cardinality(tunnels) < MaxTunnels
      BY <1>0, FS_CardinalityType DEF reserve_active_tunnel
    <2>2. IsFiniteSet(tunnels') /\ (Cardinality(tunnels') = Cardinality(tunnels) \/ Cardinality(tunnels') = Cardinality(tunnels) + 1)
      BY <1>0, FS_AddElement
    <2>. QED BY <1>0, <2>1, <2>2
  <1>2. ASSUME NEW m \in Rows PROVE active_tunnel_count_for_mapping(m)' <= MapLimit
    <2> DEFINE S == {u \in tunnels : u[2] = m}
               T == {u \in tunnels' : u[2] = m}
    <2>1. IsFiniteSet(S) /\ Cardinality(S) \in Nat /\ Cardinality(S) <= MapLimit /\ (m = n => Cardinality(S) < MapLimit)
      <3>1. IsFiniteSet(S)
        BY <1>0, FS_Subset
      <3>. QED BY <3>1, FS_CardinalityType DEF TunnelsInv, active_tunnel_count_for_mapping, reserve_active_tunnel
    <2>2. CASE m = n
      <3>1. T = S \cup {t}
        BY <2>2
      <3> HIDE DEF S, T
      <3>2. Cardinality(T) = Cardinality(S) \/ Cardinality(T) = Cardinality(S) + 1
        BY <2>1, <3>1, FS_AddElement
      <3>3. Cardinality(T) <= MapLimit
        BY <1>0, <2>1, <2>2, <3>2
      <3>. QED BY <3>3 DEF T, active_tunnel_count_for_mapping
    <2>3. CASE m # n
      <3>1. T = S
        BY <2>3
      <3>. QED BY <2>1, <3>1 DEF active_tunnel_count_for_mapping
    <2>. QED BY <2>2, <2>3
  <1>. QED BY <1>1, <1>2

LEMMA GotIs ==
    ASSUME Requests, NEW r \in live, r.q.op = "connect", Stage(r) \notin {"accept", "policy"}
    PROVE  r.got \in Reading /\ r.got.id \in Rows /\ r.got.win \in Windows /\ r.got.row.server \in Agents /\ r.q.ip \in Ips
  <1>1. r.got \in Reading /\ r.q.ip \in Ips
    BY DEF Requests, Sound, Holds, OnRow, IsRequest
  <1>. QED BY <1>1 DEF Reading, MappingRows

LEMMA BoundedReserve == ASSUME EntitledInv, EntitledInv', BoundedInv, NEW r \in live, ReserveTunnel(r) PROVE BoundedInv'
  <1>0. Typed /\ Requests /\ Sound(r) /\ TunnelsInv /\ WindowsInv /\ PendingInv /\ Apart(live') /\ win' \in Windows
    BY DEF EntitledInv, Requests, Typed, BoundedInv
  <1>1. At(r, "reserve") /\ Stage(r) = "reserve" /\ r.todo # <<>> /\ UNCHANGED <<pending, opened, used, admitted, spent>>
    BY AtIs DEF ReserveTunnel, rates, frames
  <1>2. r.q.op = "connect"
    BY <1>0, <1>1, OpAt DEF AfterIs
  <1>3. ~Holding(r)
    BY <1>1 DEF Holding
  <1>4. CASE UNCHANGED tunnels
    <2>1. Moved(r)
      BY <1>0, StreamSteps, AdvancesMoved DEF Moved
    <2>. QED BY <1>1, <1>3, <1>4, <2>1, BoundedPlain, SpentKept
  <1>5. CASE reserve_active_tunnel(r.got.id) /\ tunnels' = tunnels \cup {<<stream(r), r.got.id>>} /\ Proceeds(r)
    <2>1. Advances(r)
      BY <1>0, <1>1, <1>5, PlainGo DEF Crossing
    <2>2. PICK x : Goes(r, x) /\ <<r.q.op, Stage(r), Stage(x)>> \in Order
      BY <2>1 DEF Advances
    <2>3. CalmTunnels /\ CalmShells
      BY <1>0, <1>1, <2>2, CalmGoes
    <2>4. \E s \in live' : Holding(s) /\ stream(s) = stream(r)
      <3>1. x.q = r.q /\ Stage(x) = "subscribe"
        BY <1>1, <2>2, OrderIs DEF Goes, Follows, AfterIs
      <3>2. Holding(x)
        BY <1>2, <3>1 DEF Holding, IsTunnel
      <3>3. PICK s \in live' : Same(x, s)
        BY <1>0, <2>2, Renaming DEF Renamed
      <3>. QED BY <3>1, <3>2, <3>3, SameHolds, SameSound DEF stream
    <2>5. ASSUME NEW t \in tunnels' PROVE \E s \in live' : Holding(s) /\ stream(s) = t[1]
      <3>1. CASE t \in tunnels
        <4>1. PICK y \in live : Holding(y) /\ stream(y) = t[1]
          BY <1>0, <3>1 DEF TunnelsInv
        <4>2. PICK s \in live' : s.q = y.q /\ Holding(s)
          BY <2>3, <4>1 DEF CalmTunnels
        <4>. QED BY <4>1, <4>2 DEF stream
      <3>2. CASE t = <<stream(r), r.got.id>>
        BY <2>4, <3>2
      <3>. QED BY <1>5, <3>1, <3>2
    <2>6. r.got.id \in Rows
      BY <1>0, <1>1, <1>2, GotIs
    <2>7. /\ IsFiniteSet(tunnels') /\ Cardinality(tunnels') <= MaxTunnels
          /\ \A m \in Rows : active_tunnel_count_for_mapping(m)' <= MapLimit
      <3> DEFINE t == <<stream(r), r.got.id>>
      <3>1. t[2] = r.got.id /\ tunnels' = tunnels \cup {t}
        BY <1>5
      <3> HIDE DEF t
      <3>. QED BY <1>0, <1>5, <2>6, <3>1, ReserveCount
    <2>8. TunnelsInv'
      BY <2>5, <2>7 DEF TunnelsInv
    <2>9. pending' \in [Shells -> Creds \cup {Nothing}] /\ \A s \in Shells : pending'[s] \in {pending[s], Nothing}
      BY <1>0, <1>1 DEF PendingInv
    <2>. QED BY <1>0, <1>1, <2>3, <2>8, <2>9, WindowsKept, ShellsCalm, UnmadeShells, SpentKept DEF BoundedInv
  <1>. QED BY <1>4, <1>5 DEF ReserveTunnel

LEMMA BoundedRelease == ASSUME EntitledInv, EntitledInv', BoundedInv, NEW r \in live, ReleaseTunnel(r) PROVE BoundedInv'
  <1>0. Typed /\ Requests /\ TunnelsInv /\ WindowsInv /\ PendingInv /\ Apart(live') /\ win' \in Windows
    BY DEF EntitledInv, Requests, Typed, BoundedInv
  <1>1. At(r, "release") /\ Stage(r) = "release" /\ UNCHANGED <<pending, opened, used, admitted, spent>> /\ Proceeds(r)
        /\ tunnels' = {t \in tunnels : t[1] # stream(r)}
    BY AtIs DEF ReleaseTunnel, rates, frames
  <1>2. PICK x : Goes(r, x)
    BY <1>0, <1>1, PlainGo DEF Crossing, Advances
  <1>3. CalmShells
    BY <1>0, <1>1, <1>2, CalmGoes
  <1>4. Renamed((live \ {r}) \cup {x})
    BY <1>0, <1>2, Renaming
  <1>5. ASSUME NEW t \in tunnels' PROVE \E s \in live' : Holding(s) /\ stream(s) = t[1]
    <2>1. PICK y \in live : Holding(y) /\ stream(y) = t[1]
      BY <1>0, <1>1 DEF TunnelsInv
    <2>2. y # r
      BY <1>1, <2>1
    <2>3. PICK s \in live' : Same(y, s)
      BY <1>4, <2>2 DEF Renamed
    <2>. QED BY <2>1, <2>3, SameHolds DEF stream
  <1>6. /\ IsFiniteSet(tunnels') /\ Cardinality(tunnels') <= MaxTunnels
        /\ \A m \in Rows : active_tunnel_count_for_mapping(m)' <= MapLimit
    <2>0. MaxTunnels \in Nat /\ MapLimit \in Nat /\ IsFiniteSet(tunnels) /\ tunnels' \subseteq tunnels
      BY <1>0, <1>1, RemoteAssumption DEF TunnelsInv
    <2>1. IsFiniteSet(tunnels') /\ Cardinality(tunnels') <= MaxTunnels
      BY <1>0, <2>0, FS_Subset, FS_CardinalityType DEF TunnelsInv
    <2>2. ASSUME NEW m \in Rows PROVE active_tunnel_count_for_mapping(m)' <= MapLimit
      <3> DEFINE S == {u \in tunnels : u[2] = m}
                 T == {u \in tunnels' : u[2] = m}
      <3>1. IsFiniteSet(S) /\ T \subseteq S /\ Cardinality(S) <= MapLimit
        BY <1>0, <2>0, FS_Subset DEF TunnelsInv, active_tunnel_count_for_mapping
      <3>2. Cardinality(T) <= MapLimit
        <4> HIDE DEF S, T
        <4>. QED BY <2>0, <3>1, FS_Subset, FS_CardinalityType
      <3>. QED BY <3>2 DEF active_tunnel_count_for_mapping
    <2>. QED BY <2>1, <2>2
  <1>7. TunnelsInv'
    BY <1>5, <1>6 DEF TunnelsInv
  <1>8. pending' \in [Shells -> Creds \cup {Nothing}] /\ \A s \in Shells : pending'[s] \in {pending[s], Nothing}
    BY <1>0, <1>1 DEF PendingInv
  <1>. QED BY <1>0, <1>1, <1>3, <1>7, <1>8, WindowsKept, ShellsCalm, UnmadeShells, SpentKept DEF BoundedInv

\* Windows and tunnels apart.
LEMMA BoundedParts ==
    ASSUME EntitledInv, EntitledInv', BoundedInv, NEW r \in live, Moved(r), ~Holding(r), Stage(r) \notin {"take", "release"},
           UNCHANGED <<tunnels, opened>>, pending' \in [Shells -> Creds \cup {Nothing}],
           \A s \in Shells : pending'[s] \in {pending[s], Nothing}
    PROVE  TunnelsInv' /\ PendingInv'
  <1>0. Requests /\ TunnelsInv /\ PendingInv /\ Apart(live')
    BY DEF EntitledInv, Requests, BoundedInv
  <1>1. CalmTunnels /\ CalmShells
    BY <1>0, CalmStays, CalmQuits, CalmGoes DEF Moved
  <1>. QED BY <1>0, <1>1, TunnelsCalm, ShellsCalm, UnmadeShells

LEMMA BoundedRecord == ASSUME EntitledInv, EntitledInv', BoundedInv, NEW r \in live, record_nat_connection(r) PROVE BoundedInv'
  <1>0. Typed /\ Requests /\ Sound(r) /\ WindowsInv /\ PendingInv /\ win' \in Windows
    BY DEF EntitledInv, Requests, Typed, BoundedInv
  <1> DEFINE k == <<r.got.id, r.q.ip, r.got.win>>
  <1>1. /\ At(r, "record") /\ Stage(r) = "record" /\ r.todo # <<>> /\ UNCHANGED <<tunnels, pending, opened, spent>>
        /\ used' = [used EXCEPT ![k].n = @ + 1]
        /\ UNCHANGED admitted \/ (WithinWindow(k[1], used'[k]) /\ admitted' = [admitted EXCEPT ![k] = @ + 1])
    BY AtIs DEF record_nat_connection, frames, streams, record_connection_window
  <1>2. r.q.op = "connect"
    BY <1>0, <1>1, OpAt DEF AfterIs
  <1>3. k \in Keys
    BY <1>0, <1>1, <1>2, GotIs DEF Keys
  <1>4. Moved(r)
    BY <1>0, AcceptingSteps, AdvancesMoved DEF Moved
  <1>5. TunnelsInv' /\ PendingInv'
    <2>1. ~Holding(r) /\ pending' \in [Shells -> Creds \cup {Nothing}] /\ \A s \in Shells : pending'[s] \in {pending[s], Nothing}
      BY <1>0, <1>1 DEF PendingInv, Holding
    <2>. QED BY <1>1, <1>4, <2>1, BoundedParts
  <1>6. WindowsInv'
    <2> HIDE DEF k
    <2>1. /\ used \in [Keys -> [n : Nat, b : Nat]] /\ admitted \in [Keys -> Nat] /\ WindowLimit \in [Rows -> Nat]
          /\ \A j \in Keys : admitted[j] <= used[j].n /\ admitted[j] <= WindowLimit[j[1]]
      BY <1>0, RemoteAssumption DEF WindowsInv
    <2>2. used' \in [Keys -> [n : Nat, b : Nat]] /\ used'[k].n = used[k].n + 1 /\ \A j \in Keys : j # k => used'[j] = used[j]
      <3>1. used[k] \in [n : Nat, b : Nat]
        BY <1>3, <2>1
      <3>2. [used[k] EXCEPT !.n = used[k].n + 1] \in [n : Nat, b : Nat] /\ [used[k] EXCEPT !.n = used[k].n + 1].n = used[k].n + 1
        BY <3>1
      <3>3. used' = [used EXCEPT ![k] = [used[k] EXCEPT !.n = used[k].n + 1]]
        BY <1>1
      <3>. QED BY <1>3, <2>1, <3>2, <3>3
    <2>3. admitted' \in [Keys -> Nat] /\ \A j \in Keys : j # k => admitted'[j] = admitted[j]
      BY <1>1, <1>3, <2>1
    <2>4. admitted'[k] <= used'[k].n /\ admitted'[k] <= WindowLimit[k[1]]
      <3>1. k[1] \in Rows /\ used[k].n \in Nat /\ admitted[k] \in Nat /\ WindowLimit[k[1]] \in Nat
        BY <1>3, <2>1 DEF Keys
      <3>2. CASE UNCHANGED admitted
        BY <1>3, <2>1, <2>2, <3>1, <3>2
      <3>3. CASE WithinWindow(k[1], used'[k]) /\ admitted' = [admitted EXCEPT ![k] = @ + 1]
        <4>1. admitted'[k] = admitted[k] + 1 /\ used'[k].n <= WindowLimit[k[1]]
          BY <1>3, <2>1, <3>3 DEF WithinWindow
        <4>2. admitted[k] <= used[k].n
          BY <1>3, <2>1
        <4>. QED BY <2>2, <3>1, <4>1, <4>2
      <3>. QED BY <1>1, <3>2, <3>3
    <2>5. \A j \in Keys : admitted'[j] <= used'[j].n /\ admitted'[j] <= WindowLimit[j[1]]
      BY <2>1, <2>2, <2>3, <2>4
    <2>6. spent' \in [Streams -> Nat]
      BY <1>0, <1>1 DEF WindowsInv
    <2>. QED BY <1>0, <2>2, <2>3, <2>5, <2>6 DEF WindowsInv
  <1>. QED BY <1>5, <1>6 DEF BoundedInv

LEMMA BoundedBytes == ASSUME EntitledInv, EntitledInv', BoundedInv, NEW r \in live, record_nat_window_bytes(r) PROVE BoundedInv'
  <1>0. Typed /\ Requests /\ Sound(r) /\ WindowsInv /\ PendingInv /\ win' \in Windows
    BY DEF EntitledInv, Requests, Typed, BoundedInv
  <1> DEFINE k == <<r.got.id, r.q.ip, r.got.win>>
             n == spent[stream(r)]
  <1>1. /\ At(r, "bytes") /\ Stage(r) = "bytes" /\ r.todo # <<>> /\ UNCHANGED <<tunnels, pending, opened, spent, admitted>>
        /\ UNCHANGED used \/ used' = [used EXCEPT ![k].b = @ + n]
    BY AtIs DEF record_nat_window_bytes, frames, streams, record_window_bytes
  <1>2. r.q.op = "connect"
    BY <1>0, <1>1, OpAt DEF AfterIs
  <1>3. k \in Keys /\ n \in Nat
    <2>1. stream(r) \in Streams
      BY <1>0, <1>2, StreamIs
    <2>. QED BY <1>0, <1>1, <1>2, <2>1, GotIs DEF Keys, WindowsInv
  <1>4. Moved(r)
    BY <1>0, StreamSteps, AdvancesMoved DEF Moved
  <1>5. TunnelsInv' /\ PendingInv'
    <2>1. ~Holding(r) /\ pending' \in [Shells -> Creds \cup {Nothing}] /\ \A s \in Shells : pending'[s] \in {pending[s], Nothing}
      BY <1>0, <1>1 DEF PendingInv, Holding
    <2>. QED BY <1>1, <1>4, <2>1, BoundedParts
  <1>6. WindowsInv'
    <2> HIDE DEF k, n
    <2>1. /\ used \in [Keys -> [n : Nat, b : Nat]] /\ admitted' = admitted /\ admitted \in [Keys -> Nat] /\ spent' \in [Streams -> Nat]
          /\ \A j \in Keys : admitted[j] <= used[j].n /\ admitted[j] <= WindowLimit[j[1]]
      BY <1>0, <1>1 DEF WindowsInv
    <2>2. used' \in [Keys -> [n : Nat, b : Nat]] /\ \A j \in Keys : used'[j].n = used[j].n
      <3>1. used[k] \in [n : Nat, b : Nat]
        BY <1>3, <2>1
      <3>2. [used[k] EXCEPT !.b = used[k].b + n] \in [n : Nat, b : Nat] /\ [used[k] EXCEPT !.b = used[k].b + n].n = used[k].n
        BY <1>3, <3>1
      <3>3. used' = used \/ used' = [used EXCEPT ![k] = [used[k] EXCEPT !.b = used[k].b + n]]
        BY <1>1
      <3>. QED BY <1>3, <2>1, <3>2, <3>3
    <2>. QED BY <1>0, <2>1, <2>2 DEF WindowsInv
  <1>. QED BY <1>5, <1>6 DEF BoundedInv

LEMMA BoundedTick == ASSUME EntitledInv, EntitledInv', BoundedInv, NEW r \in live, NextWindow(r) PROVE BoundedInv'
  <1>0. Typed /\ Requests /\ WindowsInv /\ PendingInv /\ win' \in Windows /\ Moved(r)
    BY OtherSteps DEF EntitledInv, Requests, Typed, BoundedInv, Moved
  <1>1. /\ At(r, "tick") /\ Stage(r) = "tick" /\ UNCHANGED <<tunnels, opened, spent, used, admitted>>
        /\ pending' = [s \in Shells |-> Nothing]
    BY AtIs DEF NextWindow, frames
  <1>2. ~Holding(r) /\ pending' \in [Shells -> Creds \cup {Nothing}] /\ \A s \in Shells : pending'[s] \in {pending[s], Nothing}
    BY <1>1 DEF Holding
  <1>. QED BY <1>0, <1>1, <1>2, BoundedParts, WindowsKept, SpentKept DEF BoundedInv

LEMMA BoundedPend == ASSUME EntitledInv, EntitledInv', BoundedInv, NEW r \in live, CreatePending(r) PROVE BoundedInv'
  <1>0. Typed /\ Requests /\ Sound(r) /\ TunnelsInv /\ WindowsInv /\ PendingInv /\ Apart(live') /\ win' \in Windows
    BY DEF EntitledInv, Requests, Typed, BoundedInv
  <1>1. At(r, "pend") /\ Stage(r) = "pend" /\ r.todo # <<>> /\ UNCHANGED <<tunnels, opened, spent, used, admitted>>
    BY AtIs DEF CreatePending, frames, rates
  <1>2. r.q.op = "terminal"
    BY <1>0, <1>1, OpAt DEF AfterIs
  <1>3. ~Holding(r) /\ Stage(r) \notin {"take", "release"} /\ Unmade(r)
    BY <1>1, <1>2 DEF Holding, Unmade
  <1>4. CASE UNCHANGED pending
    <2>1. Moved(r)
      BY <1>0, StreamSteps, AdvancesMoved DEF Moved
    <2>. QED BY <1>1, <1>3, <1>4, <2>1, BoundedPlain, SpentKept
  <1>5. CASE pending' = [pending EXCEPT ![stream(r)] = r.q.by] /\ Proceeds(r)
    <2>1. PICK x : Goes(r, x) /\ <<r.q.op, Stage(r), Stage(x)>> \in Order
      BY <1>0, <1>1, <1>5, PlainGo DEF Crossing, Advances
    <2>2. Stage(x) = "end" /\ x.q = r.q
      BY <1>1, <2>1, OrderIs DEF Goes, Follows, AfterIs
    <2>3. CalmTunnels /\ CalmShells
      BY <1>0, <1>1, <2>1, CalmGoes
    <2>4. Renamed((live \ {r}) \cup {x})
      BY <1>0, <2>1, Renaming
    <2>5. /\ stream(r) \in Shells /\ r.q.by \in Creds /\ pending \in [Shells -> Creds \cup {Nothing}]
          /\ TakenBy(stream(r)) = {} /\ OpenedAs(stream(r)) = {}
      BY <1>0, <1>2, <1>3, StreamIs DEF PendingInv, Sound, IsRequest
    <2>6. pending' \in [Shells -> Creds \cup {Nothing}] /\ \A s \in Shells : s # stream(r) => pending'[s] = pending[s]
      BY <1>5, <2>5
    <2>7. \A s : OpenedAs(s)' = OpenedAs(s)
      BY <1>1 DEF OpenedAs
    <2>8. ASSUME NEW s, TakenBy(s) = {} PROVE TakenBy(s)' = {}
      BY <2>3, <2>8 DEF TakenBy, CalmShells, stream
    <2>9. ASSUME NEW z \in live', Unmade(z)
          PROVE  pending'[stream(z)] = Nothing /\ TakenBy(stream(z))' = {} /\ OpenedAs(stream(z))' = {}
      <3>1. PICK y \in (live \ {r}) \cup {x} : Same(y, z)
        BY <2>4 DEF Renamed
      <3>2. z.q = y.q /\ Unmade(y)
        BY <2>9, <3>1, SameHolds
      <3>3. y # x
        BY <2>2, <3>2 DEF Unmade
      <3>4. y \in live /\ y # r
        BY <3>1, <3>3
      <3>5. stream(y) # stream(r) /\ stream(y) \in Shells /\ stream(z) = stream(y)
        BY <1>0, <1>2, <3>2, <3>4, UnmadeShells DEF Requests, Apart, Unmade, stream
      <3>. QED BY <1>0, <2>6, <2>7, <2>8, <3>2, <3>4, <3>5 DEF PendingInv
    <2>10. ASSUME NEW s \in Shells, pending'[s] # Nothing PROVE TakenBy(s)' = {} /\ OpenedAs(s)' = {}
      <3>1. TakenBy(s) = {} /\ OpenedAs(s) = {}
        BY <1>0, <2>5, <2>6, <2>10 DEF PendingInv
      <3>. QED BY <2>7, <2>8, <3>1
    <2>11. ASSUME NEW z \in live', Ready(z) PROVE OpenedAs(stream(z))' = {}
      <3>1. PICK y \in live : z.q = y.q /\ Ready(y)
        BY <2>3, <2>11 DEF CalmShells
      <3>. QED BY <1>0, <2>7, <3>1 DEF PendingInv, stream
    <2>12. ASSUME NEW z \in live', NEW s \in live', Took(z), Took(s), stream(z) = stream(s) PROVE z = s
      <3>1. PICK y \in live : z.q = y.q /\ Took(y)
        BY <2>3, <2>12 DEF CalmShells
      <3>2. PICK u \in live : s.q = u.q /\ Took(u)
        BY <2>3, <2>12 DEF CalmShells
      <3>3. y = u
        BY <1>0, <2>12, <3>1, <3>2 DEF PendingInv, stream
      <3>. QED BY <1>0, <3>1, <3>2, <3>3 DEF Apart
    <2>13. TerminalOpensOnce'
      BY <1>0, <1>1 DEF PendingInv, TerminalOpensOnce
    <2>14. PendingInv'
      BY <2>6, <2>9, <2>10, <2>11, <2>12, <2>13 DEF PendingInv
    <2>. QED BY <1>0, <1>1, <2>3, <2>14, TunnelsCalm, WindowsKept, SpentKept DEF BoundedInv
  <1>. QED BY <1>4, <1>5 DEF CreatePending

LEMMA BoundedTake == ASSUME EntitledInv, EntitledInv', BoundedInv, NEW r \in live, take_for_auth(r) PROVE BoundedInv'
  <1>0. Typed /\ Requests /\ Sound(r) /\ TunnelsInv /\ WindowsInv /\ PendingInv /\ Apart(live') /\ win' \in Windows
    BY DEF EntitledInv, Requests, Typed, BoundedInv
  <1>1. At(r, "take") /\ Stage(r) = "take" /\ r.todo # <<>> /\ UNCHANGED <<tunnels, opened, spent, used, admitted>>
    BY AtIs DEF take_for_auth, frames, rates
  <1>2. r.q.op = "socket"
    BY <1>0, <1>1, OpAt DEF AfterIs
  <1>3. ~Holding(r)
    BY <1>1 DEF Holding
  <1>4. CASE UNCHANGED pending /\ Ends(r)
    <2>1. CalmTunnels /\ CalmShells
      BY <1>0, <1>3, <1>4, CalmQuits, EndsQuits
    <2>2. pending' \in [Shells -> Creds \cup {Nothing}] /\ \A s \in Shells : pending'[s] \in {pending[s], Nothing}
      BY <1>0, <1>4 DEF PendingInv
    <2>. QED BY <1>0, <1>1, <2>1, <2>2, TunnelsCalm, ShellsCalm, UnmadeShells, WindowsKept, SpentKept DEF BoundedInv
  <1>5. CASE pending[stream(r)] = r.q.by /\ pending' = [pending EXCEPT ![stream(r)] = Nothing] /\ Proceeds(r)
    <2>1. PICK x : Goes(r, x) /\ <<r.q.op, Stage(r), Stage(x)>> \in Order
      BY <1>0, <1>1, <1>5, PlainGo DEF Crossing, Advances
    <2>2. Stage(x) = "allowed" /\ x.q = r.q
      BY <1>1, <2>1, OrderIs DEF Goes, Follows, AfterIs
    <2>3. CalmTunnels
      BY <1>0, <1>1, <2>1, CalmGoes
    <2>4. Renamed((live \ {r}) \cup {x})
      BY <1>0, <2>1, Renaming
    <2>5. stream(r) \in Shells /\ r.q.by \in Creds /\ pending \in [Shells -> Creds \cup {Nothing}] /\ Nothing \notin Creds
      BY <1>0, <1>2, StreamIs, TransfersAssumption DEF PendingInv, Sound, IsRequest
    <2>6. TakenBy(stream(r)) = {} /\ OpenedAs(stream(r)) = {}
      BY <1>0, <1>5, <2>5 DEF PendingInv
    <2>7. pending' \in [Shells -> Creds \cup {Nothing}] /\ pending'[stream(r)] = Nothing
          /\ \A s \in Shells : s # stream(r) => pending'[s] = pending[s]
      BY <1>5, <2>5
    <2>8. \A s : OpenedAs(s)' = OpenedAs(s)
      BY <1>1 DEF OpenedAs
    <2>9. ASSUME NEW s, s # stream(r), TakenBy(s) = {} PROVE TakenBy(s)' = {}
      <3>1. ASSUME NEW z \in live', Took(z), stream(z) = s PROVE FALSE
        <4>1. PICK y \in (live \ {r}) \cup {x} : Same(y, z)
          BY <2>4 DEF Renamed
        <4>2. z.q = y.q /\ Took(y)
          BY <3>1, <4>1, SameHolds
        <4>3. stream(y) = s /\ y # x
          BY <2>2, <2>9, <3>1, <4>2 DEF stream
        <4>. QED BY <2>9, <4>1, <4>2, <4>3 DEF TakenBy
      <3>. QED BY <3>1 DEF TakenBy
    <2>10. ASSUME NEW z \in live', Unmade(z)
           PROVE  pending'[stream(z)] = Nothing /\ TakenBy(stream(z))' = {} /\ OpenedAs(stream(z))' = {}
      <3>1. PICK y \in (live \ {r}) \cup {x} : Same(y, z)
        BY <2>4 DEF Renamed
      <3>2. z.q = y.q /\ Unmade(y)
        BY <2>10, <3>1, SameHolds
      <3>3. y \in live
        BY <1>2, <2>2, <3>1, <3>2 DEF Unmade
      <3>4. pending[stream(y)] = Nothing /\ stream(y) \in Shells /\ stream(z) = stream(y)
        BY <1>0, <3>2, <3>3, UnmadeShells DEF PendingInv, stream
      <3>5. stream(y) # stream(r)
        BY <1>5, <2>5, <3>4
      <3>. QED BY <1>0, <2>7, <2>8, <2>9, <3>2, <3>3, <3>4, <3>5 DEF PendingInv
    <2>11. ASSUME NEW s \in Shells, pending'[s] # Nothing PROVE TakenBy(s)' = {} /\ OpenedAs(s)' = {}
      <3>1. s # stream(r) /\ pending[s] # Nothing
        BY <2>7, <2>11
      <3>. QED BY <1>0, <2>8, <2>9, <3>1 DEF PendingInv
    <2>12. ASSUME NEW z \in live', Ready(z) PROVE OpenedAs(stream(z))' = {}
      <3>1. PICK y \in (live \ {r}) \cup {x} : Same(y, z)
        BY <2>4 DEF Renamed
      <3>2. z.q = y.q /\ Ready(y) /\ stream(z) = stream(y)
        BY <2>12, <3>1, SameHolds DEF stream
      <3>3. CASE y = x
        BY <2>2, <2>6, <2>8, <3>2, <3>3 DEF stream
      <3>4. CASE y \in live
        BY <1>0, <2>8, <3>2, <3>4 DEF PendingInv
      <3>. QED BY <3>3, <3>4
    <2>13. ASSUME NEW z \in live', NEW s \in live', Took(z), Took(s), stream(z) = stream(s) PROVE z = s
      <3>1. PICK y \in (live \ {r}) \cup {x} : Same(y, z)
        BY <2>4 DEF Renamed
      <3>2. PICK u \in (live \ {r}) \cup {x} : Same(u, s)
        BY <2>4 DEF Renamed
      <3>3. z.q = y.q /\ Took(y) /\ s.q = u.q /\ Took(u) /\ stream(y) = stream(u)
        BY <2>13, <3>1, <3>2, SameHolds DEF stream
      <3>4. y = u
        <4>1. ASSUME NEW v \in live, Took(v) PROVE stream(v) # stream(r)
          BY <2>6, <4>1 DEF TakenBy
        <4>2. stream(x) = stream(r)
          BY <2>2 DEF stream
        <4>3. CASE y = x \/ u = x
          BY <3>1, <3>2, <3>3, <4>1, <4>2, <4>3
        <4>4. CASE y \in live /\ u \in live
          BY <1>0, <3>3, <4>4 DEF PendingInv
        <4>. QED BY <3>1, <3>2, <4>3, <4>4
      <3>. QED BY <1>0, <3>3, <3>4 DEF Apart
    <2>14. TerminalOpensOnce'
      BY <1>0, <1>1 DEF PendingInv, TerminalOpensOnce
    <2>15. PendingInv'
      BY <2>7, <2>10, <2>11, <2>12, <2>13, <2>14 DEF PendingInv
    <2>. QED BY <1>0, <1>1, <2>3, <2>15, TunnelsCalm, WindowsKept, SpentKept DEF BoundedInv
  <1>. QED BY <1>4, <1>5 DEF take_for_auth

LEMMA BoundedOpen == ASSUME EntitledInv, EntitledInv', BoundedInv, NEW r \in live, SendOpen(r) PROVE BoundedInv'
  <1>0. Typed /\ Requests /\ Sound(r) /\ TunnelsInv /\ WindowsInv /\ PendingInv /\ Apart(live') /\ win' \in Windows
    BY DEF EntitledInv, Requests, Typed, BoundedInv
  <1>1. At(r, "open") /\ Stage(r) = "open" /\ r.todo # <<>> /\ UNCHANGED <<tunnels, pending, spent, used, admitted>>
    BY AtIs DEF SendOpen, rates
  <1>2. PICK x : Goes(r, x)
    BY <1>0, OpenGo DEF Advances
  <1>3. x.q = r.q /\ Stage(x) \in {"bridge", "unsubscribe"} /\ r.q.op \in {"socket", "connect"}
    <2>1. r.q.op \in {"socket", "connect"}
      BY <1>0, <1>1, OpAt DEF AfterIs
    <2>2. <<r.q.op, Stage(r), Stage(x)>> \in Moves /\ x.q = r.q
      BY <1>2 DEF Goes, Follows
    <2>. QED BY <1>1, <2>1, <2>2, MovesIs DEF AfterIs
  <1>4. CalmTunnels /\ CalmShells
    BY <1>0, <1>1, <1>2, CalmGoes
  <1>5. CASE UNCHANGED opened
    <2>1. pending' \in [Shells -> Creds \cup {Nothing}] /\ \A s \in Shells : pending'[s] \in {pending[s], Nothing}
      BY <1>0, <1>1 DEF PendingInv
    <2>. QED BY <1>0, <1>1, <1>4, <1>5, <2>1, TunnelsCalm, ShellsCalm, UnmadeShells, WindowsKept, SpentKept DEF BoundedInv
  <1>6. CASE ~IsTunnel(r) /\ opened' = opened \cup {<<stream(r), r.q.id, r.q.by>>}
    <2> DEFINE o == <<stream(r), r.q.id, r.q.by>>
    <2>1. r.q.op = "socket" /\ Took(r) /\ Ready(r) /\ stream(r) \in Shells
      BY <1>0, <1>1, <1>3, <1>6, StreamIs DEF IsTunnel, Took, Ready
    <2>2. OpenedAs(stream(r)) = {} /\ r \in TakenBy(stream(r))
      BY <1>0, <2>1 DEF PendingInv, TakenBy
    <2>3. opened' = opened \cup {o} /\ o[1] = stream(r)
      BY <1>6
    <2> HIDE DEF o
    <2>4. \A s : s # stream(r) => OpenedAs(s)' = OpenedAs(s)
      BY <2>3 DEF OpenedAs
    <2>5. ASSUME NEW s, TakenBy(s) = {} PROVE TakenBy(s)' = {}
      BY <1>4, <2>5 DEF TakenBy, CalmShells, stream
    <2>6. ASSUME NEW z \in live', Unmade(z)
          PROVE  pending'[stream(z)] = Nothing /\ TakenBy(stream(z))' = {} /\ OpenedAs(stream(z))' = {}
      <3>1. PICK y \in live : z.q = y.q /\ Unmade(y)
        BY <1>4, <2>6 DEF CalmShells
      <3>2. stream(z) = stream(y) /\ pending[stream(y)] = Nothing /\ TakenBy(stream(y)) = {} /\ OpenedAs(stream(y)) = {}
        BY <1>0, <3>1 DEF PendingInv, stream
      <3>3. stream(y) # stream(r)
        BY <2>2, <3>2
      <3>. QED BY <1>1, <2>4, <2>5, <3>2, <3>3
    <2>7. ASSUME NEW s \in Shells, pending'[s] # Nothing PROVE TakenBy(s)' = {} /\ OpenedAs(s)' = {}
      <3>1. TakenBy(s) = {} /\ OpenedAs(s) = {}
        BY <1>0, <1>1, <2>7 DEF PendingInv
      <3>2. s # stream(r)
        BY <2>2, <3>1
      <3>. QED BY <2>4, <2>5, <3>1, <3>2
    <2>8. ASSUME NEW z \in live', Ready(z) PROVE OpenedAs(stream(z))' = {}
      <3>1. PICK y \in (live \ {r}) \cup {x} : Same(y, z)
        BY <1>0, <1>2, Renaming DEF Renamed
      <3>2. z.q = y.q /\ Ready(y) /\ stream(z) = stream(y)
        BY <2>8, <3>1, SameHolds DEF stream
      <3>3. y # x
        BY <1>3, <3>2 DEF Ready
      <3>4. y \in live /\ y # r
        BY <3>1, <3>3
      <3>5. stream(y) # stream(r)
        BY <1>0, <2>1, <3>2, <3>4 DEF PendingInv, Ready
      <3>. QED BY <1>0, <2>4, <3>2, <3>4, <3>5 DEF PendingInv
    <2>9. ASSUME NEW z \in live', NEW s \in live', Took(z), Took(s), stream(z) = stream(s) PROVE z = s
      <3>1. PICK y \in live : z.q = y.q /\ Took(y)
        BY <1>4, <2>9 DEF CalmShells
      <3>2. PICK u \in live : s.q = u.q /\ Took(u)
        BY <1>4, <2>9 DEF CalmShells
      <3>3. y = u
        BY <1>0, <2>9, <3>1, <3>2 DEF PendingInv, stream
      <3>. QED BY <1>0, <3>1, <3>2, <3>3 DEF Apart
    <2>10. TerminalOpensOnce'
      <3>1. \A u \in opened : u[1] # o[1]
        BY <2>2, <2>3 DEF OpenedAs
      <3>. QED BY <1>0, <2>3, <3>1 DEF PendingInv, TerminalOpensOnce
    <2>11. PendingInv'
      <3>1. pending' \in [Shells -> Creds \cup {Nothing}]
        BY <1>0, <1>1 DEF PendingInv
      <3>. QED BY <2>6, <2>7, <2>8, <2>9, <2>10, <3>1 DEF PendingInv
    <2>. QED BY <1>0, <1>1, <1>4, <2>11, TunnelsCalm, WindowsKept, SpentKept DEF BoundedInv
  <1>. QED BY <1>5, <1>6 DEF SendOpen

LEMMA BoundedInit == Init => BoundedInv
  <1>1. SUFFICES ASSUME Init PROVE BoundedInv
    OBVIOUS
  <1>2. /\ tunnels = {} /\ opened = {} /\ win = 0 /\ pending = [s \in Shells |-> Nothing] /\ spent = [s \in Streams |-> 0]
        /\ used = [k \in Rows \X Ips \X Windows |-> [n |-> 0, b |-> 0]] /\ admitted = [k \in Rows \X Ips \X Windows |-> 0]
    BY <1>1 DEF Init
  <1>3. TunnelsInv
    <2>1. IsFiniteSet({}) /\ Cardinality({}) = 0
      BY FS_EmptySet
    <2>2. \A m \in Rows : {t \in tunnels : t[2] = m} = {}
      BY <1>2
    <2>. QED BY <1>2, <2>1, <2>2, RemoteAssumption DEF TunnelsInv, active_tunnel_count_for_mapping
  <1>4. WindowsInv
    <2>1. \A k \in Keys : k[1] \in Rows
      BY DEF Keys
    <2>2. WindowLimit \in [Rows -> Nat] /\ win \in Windows
      BY <1>2, RemoteAssumption
    <2>3. used \in [Keys -> [n : Nat, b : Nat]] /\ admitted \in [Keys -> Nat] /\ spent \in [Streams -> Nat]
      BY <1>2 DEF Keys
    <2>4. \A k \in Keys : admitted[k] = 0 /\ used[k].n = 0 /\ WindowLimit[k[1]] \in Nat
      BY <1>2, <2>1, <2>2 DEF Keys
    <2>. QED BY <2>2, <2>3, <2>4 DEF WindowsInv
  <1>5. PendingInv
    <2>1. \A r \in live : ~Took(r)
      <3>1. \A r \in live : Sound(r) /\ r.begun = FALSE
        BY <1>1, Beginnings
      <3>2. ASSUME NEW r \in live PROVE ~Took(r)
        BY <3>1 DEF Sound, First, Took
      <3>. QED BY <3>2
    <2>2. \A s : TakenBy(s) = {} /\ OpenedAs(s) = {}
      BY <1>2, <2>1 DEF TakenBy, OpenedAs
    <2>3. \A r \in live : Unmade(r) => stream(r) \in Shells
      BY <1>1, EntitledInit, UnmadeShells DEF EntitledInv
    <2>. QED BY <1>2, <2>1, <2>2, <2>3 DEF PendingInv, TerminalOpensOnce, Ready
  <1>. QED BY <1>3, <1>4, <1>5 DEF BoundedInv

LEMMA BoundedElsewhere ==
    ASSUME EntitledInv, BoundedInv,
           (\E p \in Ports : StopListener(p)) \/ (\E s \in Streams : AgentStep(s)) \/ UNCHANGED <<transferVars, remoteVars>>
    PROVE  BoundedInv'
  <1>1. UNCHANGED <<transferVars, tunnels, pending, opened, spent, used, admitted, win>>
    <2>1. ASSUME NEW p \in Ports, StopListener(p) PROVE UNCHANGED <<transferVars, tunnels, pending, opened, spent, used, admitted, win>>
      BY <2>1 DEF StopListener, rates, frames, streams
    <2>2. ASSUME NEW s \in Streams, AgentStep(s) PROVE UNCHANGED <<transferVars, tunnels, pending, opened, spent, used, admitted, win>>
      <3>1. OnAgent
        BY <2>2 DEF AgentStep, handle_nat_control_message, KeepNatSession, TargetSpeaks, handle_nat_data, handle_io_close,
                    handle_new_terminal_session, handle_terminal_message, terminal_output_loop, Takes
      <3>. QED BY <3>1 DEF OnAgent, rates, streams
    <2>3. UNCHANGED <<transferVars, remoteVars>> => UNCHANGED <<transferVars, tunnels, pending, opened, spent, used, admitted, win>>
      BY DEF remoteVars, rates, frames, streams
    <2>. QED BY <2>1, <2>2, <2>3
  <1>2. live' = live
    BY <1>1 DEF transferVars
  <1>3. EntitledInv'
    BY <1>1, SameRequests
  <1>4. TunnelsInv /\ WindowsInv /\ PendingInv /\ Requests /\ Apart(live') /\ win' \in Windows
    BY <1>3 DEF BoundedInv, EntitledInv, Requests, Typed
  <1>5. CalmTunnels /\ CalmShells
    BY <1>2, <1>4, CalmStays
  <1>6. pending' \in [Shells -> Creds \cup {Nothing}] /\ \A s \in Shells : pending'[s] \in {pending[s], Nothing}
    BY <1>1, <1>4 DEF PendingInv
  <1>. QED BY <1>1, <1>4, <1>5, <1>6, TunnelsCalm, ShellsCalm, UnmadeShells, WindowsKept, SpentKept DEF BoundedInv

LEMMA BoundedNext == EntitledInv /\ BoundedInv /\ [Next]_<<transferVars, remoteVars, hostVars>> => BoundedInv'
  <1>1. SUFFICES ASSUME EntitledInv, BoundedInv, [Next]_<<transferVars, remoteVars, hostVars>> PROVE BoundedInv'
    OBVIOUS
  <1>2. EntitledInv'
    BY <1>1, EntitledNext
  <1>3. ASSUME NEW r \in live, RequestStep(r) PROVE BoundedInv'
    <2>1. CASE \/ FindMapping(r) \/ FindNatAgent(r) \/ FindActiveNatAgent(r) \/ FindPort(r) \/ ensure_terminal_agent_active(r)
               \/ ShowsMapping(r) \/ ListsMappings(r) \/ list_runtime_nat_mappings(r) \/ ReachesAgentIo(r)
               \/ CreateMapping(r) \/ UpdateMapping(r) \/ DeleteMapping(r)
      BY <1>1, <1>2, <2>1, BoundedRead
    <2>2. CASE \/ LoadMappings(r) \/ RetainListeners(r) \/ start_listener(r) \/ ListListener(r)
               \/ Accept(r) \/ ReadPolicy(r) \/ CountTunnels(r) \/ record_source_connection_in_map(r)
               \/ FlipAgent(r) \/ BanAgent(r)
      BY <1>1, <1>2, <2>2, BoundedReload
    <2>3. CASE SubscribeStream(r) \/ UnsubscribeStream(r) \/ Bridging(r)
      BY <1>1, <1>2, <2>3, BoundedStream
    <2>4. CASE DropRequest(r) \/ ReserveTunnel(r) \/ ReleaseTunnel(r) \/ record_nat_connection(r) \/ record_nat_window_bytes(r)
               \/ NextWindow(r) \/ CreatePending(r) \/ take_for_auth(r) \/ SendOpen(r)
      BY <1>1, <1>2, <2>4, BoundedDrop, BoundedReserve, BoundedRelease, BoundedRecord, BoundedBytes, BoundedTick, BoundedPend,
         BoundedTake, BoundedOpen
    <2>. QED BY <1>3, <2>1, <2>2, <2>3, <2>4 DEF RequestStep, Bridging
  <1>4. ASSUME NEW r \in live, UNCHANGED remoteVars, Authenticated(r, Scopes(r.q.op)) \/ AsksForCode(r) \/ Responds(r) \/ Change(r)
        PROVE  BoundedInv'
    BY <1>1, <1>2, <1>4, BoundedRead
  <1>5. ASSUME (\E p \in Ports : StopListener(p)) \/ (\E s \in Streams : AgentStep(s)) \/ UNCHANGED <<transferVars, remoteVars>>
        PROVE  BoundedInv'
    BY <1>1, <1>5, BoundedElsewhere
  <1>. QED BY <1>1, <1>3, <1>4, <1>5 DEF Next

(***************************************************************************)
(* The limits on tunnels, connections of a window and terminals hold       *)
(* however many connections and sockets are under way, and each tunnel     *)
(* belongs to a connection that will remove it (accept_loop,               *)
(* reserve_active_tunnel, record_nat_connection, take_for_auth).           *)
(***************************************************************************)
THEOREM Limits == Spec => []RemoteIsBounded
  <1>1. EntitledInv /\ BoundedInv => RemoteIsBounded
    <2>1. SUFFICES ASSUME EntitledInv, BoundedInv PROVE RemoteIsBounded
      OBVIOUS
    <2>2. ASSUME NEW t \in tunnels PROVE \E r \in live : r.begun /\ IsTunnel(r) /\ stream(r) = t[1] /\ r.todo # <<>>
      <3>1. PICK r \in live : Holding(r) /\ stream(r) = t[1]
        BY <2>1 DEF BoundedInv, TunnelsInv
      <3>2. Sound(r) /\ IsTunnel(r) /\ Stage(r) \in {"subscribe", "open", "bridge", "unsubscribe", "release"}
        BY <2>1, <3>1 DEF EntitledInv, Requests, Holding
      <3>3. r.begun = TRUE /\ r.todo # <<>>
        BY <3>2, BegunIs DEF Stage
      <3>. QED BY <3>1, <3>2, <3>3
    <2>3. TunnelsAreBounded
      BY <2>1, <2>2 DEF BoundedInv, TunnelsInv, TunnelsAreBounded
    <2>. QED BY <2>1, <2>3 DEF BoundedInv, WindowsInv, PendingInv, RemoteIsBounded, WindowIsBounded, Keys
  <1>2. Spec => [](EntitledInv /\ BoundedInv)
    BY EntitledInit, EntitledNext, BoundedInit, BoundedNext, PTL DEF Spec
  <1>. QED BY <1>1, <1>2, PTL

-----------------------------------------------------------------------------
(* Listeners: requests that do not reload leave them alone. *)

Reform == {"load", "leave", "retain", "start", "list"}
LEMMA SameReload ==
    ASSUME NEW y, NEW s, Same(y, s)
    PROVE  /\ Stage(s) = Stage(y) /\ s.begun = y.begun /\ PortsOf(s) = PortsOf(y) /\ On(s) = On(y) /\ Renews(s) = Renews(y)
           /\ s.q = y.q
  BY DEF Same, Stage, PortsOf, On, Renews

LEMMA SocketsStay ==
    ASSUME SocketsInv, Apart(live'), UNCHANGED <<sock, listed>>,
           \A s \in live' : Stage(s) = "list" => \E y \in live : Same(y, s)
    PROVE  SocketsInv'
  <1>1. ASSUME NEW s \in live', Stage(s) = "list" PROVE sock[On(s)] = "starting"
    <2>1. PICK y \in live : Same(y, s)
      BY <1>1
    <2>. QED BY <1>1, <2>1, SameReload DEF SocketsInv
  <1>2. ASSUME NEW s \in live', NEW t \in live', Stage(s) = "list", Stage(t) = "list", On(s) = On(t) PROVE s = t
    <2>1. PICK y \in live : Same(y, s)
      BY <1>2
    <2>2. PICK z \in live : Same(z, t)
      BY <1>2
    <2>3. y = z
      BY <1>2, <2>1, <2>2, SameReload DEF SocketsInv
    <2>. QED BY <2>1, <2>2, <2>3, SameReload DEF Apart
  <1>. QED BY <1>1, <1>2 DEF SocketsInv

LEMMA ListenersPlain ==
    ASSUME Requests, Apart(live'), ListenersInv, NEW r \in live, Stage(r) \notin Reform,
           Quits(r) \/ live' = live \/ \E x : Goes(r, x) /\ Stage(x) \notin Reform,
           UNCHANGED <<sock, listed>>, clash => clash', Wanted' = Wanted
    PROVE  ListenersInv'
  <1>1. ASSUME NEW s \in live', Stage(s) \in Reform PROVE \E y \in live : Same(y, s)
    <2>1. CASE Quits(r)
      BY <2>1, Renaming DEF Renamed
    <2>2. CASE live' = live
      BY <2>2, Renaming DEF Renamed
    <2>3. ASSUME NEW x, Goes(r, x), Stage(x) \notin Reform PROVE \E y \in live : Same(y, s)
      <3>1. PICK y \in (live \ {r}) \cup {x} : Same(y, s)
        BY <2>3, Renaming DEF Renamed
      <3>2. y # x
        BY <1>1, <2>3, <3>1, SameReload
      <3>. QED BY <3>1, <3>2
    <2>. QED BY <2>1, <2>2, <2>3
  <1>2. ASSUME NEW y \in live, Stage(y) \in Reform PROVE \E s \in live' : Same(y, s)
    <2>1. CASE Quits(r)
      BY <1>2, <2>1, Renaming DEF Renamed
    <2>2. CASE live' = live
      BY <2>2, Renaming DEF Renamed
    <2>3. ASSUME NEW x, Goes(r, x) PROVE \E s \in live' : Same(y, s)
      BY <1>2, <2>3, Renaming DEF Renamed
    <2>. QED BY <2>1, <2>2, <2>3
  <1>3. SocketsInv'
    BY <1>1, SocketsStay DEF ListenersInv, Reform
  <1>4. ReloadInv'
    <2>1. SUFFICES ASSUME ~clash PROVE ReloadInv'
      BY DEF ReloadInv
    <2>2. \A u, v \in live : Renews(u) /\ Renews(v) => u = v
      BY <2>1 DEF ListenersInv, ReloadInv
    <2>3. ASSUME NEW s \in live', NEW t \in live', Renews(s), Renews(t) PROVE s = t
      <3>1. PICK y \in live : Same(y, s)
        BY <1>1, <2>3 DEF Renews, Reform
      <3>2. PICK z \in live : Same(z, t)
        BY <1>1, <2>3 DEF Renews, Reform
      <3>3. y = z
        BY <2>2, <2>3, <3>1, <3>2, SameReload
      <3>. QED BY <3>1, <3>2, <3>3, SameReload DEF Apart
    <2>4. CASE Dirty
      <3>1. PICK y \in live : Stage(y) \in {"load", "leave"} /\ y.begun
        BY <2>4 DEF Dirty
      <3>2. PICK s \in live' : Same(y, s)
        BY <1>2, <3>1 DEF Reform
      <3>3. Dirty'
        BY <3>1, <3>2, SameReload DEF Dirty
      <3>. QED BY <2>3, <3>3 DEF ReloadInv
    <2>5. CASE ~Dirty
      <3>1. /\ \A u \in live : /\ Stage(u) = "retain" => PortsOf(u) = Wanted
                               /\ Stage(u) = "start" => listed \cup PortsOf(u) = Wanted
                               /\ Stage(u) = "list" => listed \cup PortsOf(u) \cup {On(u)} = Wanted
            /\ (\A u \in live : ~Renews(u)) => listed = Wanted
        BY <2>1, <2>5 DEF ListenersInv, ReloadInv
      <3>2. ASSUME NEW s \in live'
            PROVE  /\ Stage(s) = "retain" => PortsOf(s) = Wanted
                   /\ Stage(s) = "start" => listed \cup PortsOf(s) = Wanted
                   /\ Stage(s) = "list" => listed \cup PortsOf(s) \cup {On(s)} = Wanted
        <4>1. CASE Stage(s) \in Reform
          <5>1. PICK y \in live : Same(y, s)
            BY <1>1, <4>1
          <5>. QED BY <3>1, <5>1, SameReload
        <4>2. CASE Stage(s) \notin Reform
          BY <4>2 DEF Reform
        <4>. QED BY <4>1, <4>2
      <3>3. ASSUME \A s \in live' : ~Renews(s) PROVE listed = Wanted
        <4>1. ASSUME NEW y \in live, Renews(y) PROVE FALSE
          <5>1. PICK s \in live' : Same(y, s)
            BY <1>2, <4>1 DEF Renews, Reform
          <5>. QED BY <3>3, <4>1, <5>1, SameReload
        <4>. QED BY <3>1, <4>1
      <3>. QED BY <2>3, <3>2, <3>3 DEF ReloadInv
    <2>. QED BY <2>4, <2>5
  <1>. QED BY <1>3, <1>4 DEF ListenersInv

\* Mappings, or who is revoked, may have changed: r is about to load them.
LEMMA ListenersDirty ==
    ASSUME Requests, Apart(live'), ListenersInv, NEW r \in live, ~Renews(r), NEW x, Goes(r, x), Stage(x) \in {"load", "leave"},
           UNCHANGED <<sock, listed, clash>>
    PROVE  ListenersInv'
  <1>1. ASSUME NEW s \in live', Renews(s) PROVE \E y \in live : Same(y, s)
    <2>1. PICK y \in (live \ {r}) \cup {x} : Same(y, s)
      BY Renaming DEF Renamed
    <2>2. y # x
      BY <1>1, <2>1, SameReload DEF Renews
    <2>. QED BY <2>1, <2>2
  <1>2. SocketsInv'
    BY <1>1, SocketsStay DEF ListenersInv, Renews
  <1>3. Dirty'
    <2>1. PICK s \in live' : Same(x, s)
      BY Renaming DEF Renamed
    <2>2. x.begun
      BY DEF Goes, Follows
    <2>. QED BY <2>1, <2>2, SameReload DEF Dirty
  <1>4. ASSUME ~clash, NEW s \in live', NEW t \in live', Renews(s), Renews(t) PROVE s = t
    <2>1. PICK y \in live : Same(y, s)
      BY <1>1, <1>4
    <2>2. PICK z \in live : Same(z, t)
      BY <1>1, <1>4
    <2>3. y = z
      BY <1>4, <2>1, <2>2, SameReload DEF ListenersInv, ReloadInv
    <2>. QED BY <2>1, <2>2, <2>3, SameReload DEF Apart
  <1>5. ReloadInv'
    BY <1>3, <1>4 DEF ReloadInv
  <1>. QED BY <1>2, <1>5 DEF ListenersInv

LEMMA StaysOut ==
    ASSUME Requests, NEW r \in live, NEW x, Goes(r, x), Stage(r) \notin Reform \cup {"insert", "update", "remove", "ban"}
    PROVE  Stage(x) \notin Reform
  <1>1. \/ AfterIs(r.q.op, Stage(r), Stage(x))
        \/ r.q.op \in {"socket", "connect"} /\ Stage(r) = "open" /\ Stage(x) = "unsubscribe"
        \/ r.q.op \in Mapping /\ Stage(r) = "start" /\ Stage(x) \in {"start", "list"}
    BY MovesIs DEF Goes, Follows
  <1>2. Sound(r) /\ r.todo # <<>>
    <2>1. Stage(r) # "end"
      BY <1>1 DEF AfterIs
    <2>. QED BY <2>1 DEF Requests, Stage
  <1>3. Stage(r) \in StepNames
    <2>1. r.todo \in Seq(StepRows)
      BY <1>2 DEF Sound
    <2>2. r.todo[1] \in StepRows
      BY <1>2, <2>1, TailOf
    <2>. QED BY <1>2, <2>2 DEF Stage, StepRows
  <1>. QED BY <1>1, <1>3 DEF AfterIs, StepNames, Reform

LEMMA WantedKept ==
    ASSUME Typed, UNCHANGED rows, \A a \in Agents : agents'[a].revoked = agents[a].revoked
    PROVE  Wanted' = Wanted
  <1>1. \A m \in Rows : rows[m] # Nothing => rows[m].server \in Agents
    BY DEF Typed, MappingRows
  <1>2. Enabled' = Enabled
    BY <1>1 DEF Enabled
  <1>. QED BY <1>2 DEF Wanted

LEMMA ListenersOut ==
    ASSUME EntitledInv, EntitledInv', ListenersInv, NEW r \in live, Moved(r), UNCHANGED <<sock, listed>>, clash => clash',
           Stage(r) \notin Reform, (Quits(r) \/ live' = live) \/ Stage(r) \notin {"insert", "update", "remove", "ban"},
           UNCHANGED rows, \A a \in Agents : agents'[a].revoked = agents[a].revoked
    PROVE  ListenersInv'
  <1>1. Requests /\ Apart(live') /\ Wanted' = Wanted
    BY WantedKept DEF EntitledInv, Requests
  <1>2. Quits(r) \/ live' = live \/ \E x : Goes(r, x) /\ Stage(x) \notin Reform
    BY <1>1, StaysOut DEF Moved
  <1>. QED BY <1>1, <1>2, ListenersPlain

\* Steps that read, or that are about streams.
LEMMA ListenersRead ==
    ASSUME EntitledInv, EntitledInv', ListenersInv, NEW r \in live,
           \/ FindMapping(r) \/ FindNatAgent(r) \/ FindActiveNatAgent(r) \/ FindPort(r) \/ ensure_terminal_agent_active(r)
           \/ ShowsMapping(r) \/ ListsMappings(r) \/ list_runtime_nat_mappings(r) \/ ReachesAgentIo(r)
           \/ (UNCHANGED remoteVars /\ (Authenticated(r, Scopes(r.q.op)) \/ AsksForCode(r) \/ Responds(r)))
    PROVE  ListenersInv'
  <1>0. Typed /\ Requests
    BY DEF EntitledInv
  <1>1. Moved(r)
    BY <1>0, ReadingSteps, ShowingSteps, StreamSteps, AuthGo, OtherSteps, AdvancesMoved DEF Moved
  <1>2. UNCHANGED <<remoteVars, tables>>
    BY DEF FindMapping, FindNatAgent, FindActiveNatAgent, FindPort, ensure_terminal_agent_active, ShowsMapping, ListsMappings,
           list_runtime_nat_mappings, ReachesAgentIo, AndReads, Reads, Authenticated, AsksForCode, Responds
  <1>3. UNCHANGED <<sock, listed, clash, rows, agents>>
    BY <1>2 DEF remoteVars, listening, tables
  <1>4. \/ At(r, "get") \/ At(r, "nat_agent") \/ At(r, "nat_active") \/ At(r, "port") \/ At(r, "allowed") \/ At(r, "mapping")
        \/ At(r, "mappings") \/ At(r, "runtime") \/ At(r, "reach") \/ At(r, "auth") \/ At(r, "totp") \/ r.todo = <<>>
    BY DEF FindMapping, FindNatAgent, FindActiveNatAgent, FindPort, ensure_terminal_agent_active, ShowsMapping, ListsMappings,
           list_runtime_nat_mappings, ReachesAgentIo, Authenticated, AsksForCode, Responds
  <1>5. Stage(r) \in {"get", "nat_agent", "nat_active", "port", "allowed", "mapping", "mappings", "runtime", "reach", "auth",
                      "totp", "end"}
    BY <1>4, AtIs DEF Stage
  <1>. QED BY <1>1, <1>3, <1>5, ListenersOut DEF Reform

LEMMA ListenersStream ==
    ASSUME EntitledInv, EntitledInv', ListenersInv, NEW r \in live,
           \/ Accept(r) \/ ReadPolicy(r) \/ CountTunnels(r) \/ record_source_connection_in_map(r) \/ record_nat_connection(r)
           \/ ReserveTunnel(r) \/ SubscribeStream(r) \/ SendOpen(r) \/ UnsubscribeStream(r) \/ ReleaseTunnel(r)
           \/ record_nat_window_bytes(r) \/ CreatePending(r) \/ take_for_auth(r) \/ NextWindow(r) \/ Bridging(r)
    PROVE  ListenersInv'
  <1>0. Typed /\ Requests
    BY DEF EntitledInv
  <1>1. Moved(r)
    BY <1>0, AcceptingSteps, StreamSteps, OpenGo, OtherSteps, BridgeSteps, AdvancesMoved DEF Moved
  <1>2. UNCHANGED <<sock, listed, clash, tables>>
    <2>1. CASE Accept(r) \/ ReadPolicy(r) \/ CountTunnels(r)
      BY <2>1 DEF Accept, ReadPolicy, CountTunnels, Rejects, listening, Reads
    <2>2. CASE record_source_connection_in_map(r) \/ record_nat_connection(r)
      BY <2>2 DEF record_source_connection_in_map, record_nat_connection, Rejects, listening, Reads
    <2>3. CASE ReserveTunnel(r) \/ SubscribeStream(r) \/ SendOpen(r) \/ UnsubscribeStream(r) \/ ReleaseTunnel(r)
      BY <2>3 DEF ReserveTunnel, SubscribeStream, SendOpen, UnsubscribeStream, ReleaseTunnel, listening, Reads, still
    <2>4. CASE record_nat_window_bytes(r) \/ CreatePending(r) \/ take_for_auth(r) \/ NextWindow(r)
      BY <2>4 DEF record_nat_window_bytes, CreatePending, take_for_auth, NextWindow, listening, Reads
    <2>5. CASE Bridging(r)
      BY <2>5 DEF Bridging, ClientSends, ClientCloses, ClientFails, TunnelTimesOut, AgentFrameArrives, InBridge, listening, Reads
    <2>. QED BY <2>1, <2>2, <2>3, <2>4, <2>5
  <1>3. UNCHANGED <<rows, agents>>
    BY <1>2 DEF tables
  <1>4. \/ At(r, "accept") \/ At(r, "policy") \/ At(r, "room") \/ At(r, "track") \/ At(r, "record") \/ At(r, "reserve")
        \/ At(r, "subscribe") \/ At(r, "open") \/ At(r, "unsubscribe") \/ At(r, "release") \/ At(r, "bytes") \/ At(r, "pend")
        \/ At(r, "take") \/ At(r, "tick") \/ At(r, "bridge")
    BY DEF Accept, ReadPolicy, CountTunnels, record_source_connection_in_map, record_nat_connection, ReserveTunnel, SubscribeStream,
           SendOpen, UnsubscribeStream, ReleaseTunnel, record_nat_window_bytes, CreatePending, take_for_auth, NextWindow,
           Bridging, ClientSends, ClientCloses, ClientFails, TunnelTimesOut, AgentFrameArrives, InBridge
  <1>5. Stage(r) \in {"accept", "policy", "room", "track", "record", "reserve", "subscribe", "open", "unsubscribe", "release",
                      "bytes", "pend", "take", "tick", "bridge"}
    BY <1>4, AtIs
  <1>. QED BY <1>1, <1>2, <1>3, <1>5, ListenersOut DEF Reform

LEMMA ListenersChange ==
    ASSUME EntitledInv, EntitledInv', ListenersInv, NEW r \in live,
           \/ CreateMapping(r) \/ UpdateMapping(r) \/ DeleteMapping(r) \/ FlipAgent(r) \/ BanAgent(r)
           \/ (UNCHANGED remoteVars /\ Change(r))
    PROVE  ListenersInv'
  <1>0. Typed /\ Requests /\ Sound(r) /\ Apart(live')
    BY DEF EntitledInv, Requests
  <1>1. UNCHANGED <<sock, listed, clash>>
    BY DEF CreateMapping, UpdateMapping, DeleteMapping, FlipAgent, BanAgent, AndReads, Writes, remoteVars, listening
  <1>2. ASSUME NEW s, s \in {"insert", "update", "remove", "ban", "leave"}, At(r, s), Proceeds(r) PROVE ListenersInv'
    <2>1. PICK x : Goes(r, x) /\ <<r.q.op, Stage(r), Stage(x)>> \in Order
      BY <1>0, <1>2, PlainGo DEF Crossing, Advances
    <2>2. Stage(r) = s /\ AfterIs(r.q.op, Stage(r), Stage(x))
      BY <1>2, <2>1, AtIs, OrderIs
    <2>3. Stage(x) \in {"load", "leave"} /\ ~Renews(r)
      BY <1>2, <2>2 DEF AfterIs, Renews
    <2>. QED BY <1>0, <1>1, <2>1, <2>3, ListenersDirty
  <1>3. CASE CreateMapping(r) \/ UpdateMapping(r) \/ DeleteMapping(r)
    <2>1. CASE Proceeds(r)
      BY <1>2, <1>3, <2>1 DEF CreateMapping, UpdateMapping, DeleteMapping
    <2>2. CASE Ends(r) /\ UNCHANGED tables
      <3>1. Quits(r) /\ UNCHANGED <<rows, agents>>
        BY <2>2, EndsQuits DEF tables
      <3>2. Stage(r) \in {"insert", "update", "remove"}
        BY <1>3, AtIs DEF CreateMapping, UpdateMapping, DeleteMapping
      <3>. QED BY <1>1, <3>1, <3>2, ListenersOut DEF Moved, Reform
    <2>. QED BY <1>3, <2>1, <2>2 DEF CreateMapping, UpdateMapping, DeleteMapping, AndReads, Reads
  <1>4. CASE BanAgent(r)
    BY <1>2, <1>4 DEF BanAgent
  <1>5. CASE FlipAgent(r) /\ At(r, "leave")
    BY <1>2, <1>5 DEF FlipAgent
  <1>6. CASE (FlipAgent(r) /\ At(r, "flip")) \/ (UNCHANGED remoteVars /\ Change(r))
    <2>1. Moved(r)
      BY <1>0, <1>6, OtherSteps, AdvancesMoved DEF Moved
    <2>2. Stage(r) \in {"flip", "change"} /\ r.todo # <<>>
      BY <1>6, AtIs DEF Change
    <2>3. Change(r) => r.q.op \in {"role", "leave", "owner"}
      <3>1. Change(r) => At(r, "change")
        BY DEF Change
      <3>. QED BY <1>0, <2>2, <3>1, OpAt, AtIs DEF AfterIs
    <2>4. UNCHANGED rows /\ \A a \in Agents : agents'[a].revoked = agents[a].revoked
      <3>1. agents \in [Agents -> AgentRows] /\ r.q.agent \in Agents
        BY <1>0 DEF Typed, Sound, IsRequest
      <3>2. CASE FlipAgent(r)
        BY <3>1, <3>2 DEF FlipAgent, AgentRows
      <3>3. CASE Change(r)
        BY <2>3, <3>1, <3>3 DEF Change, AgentRows, tables
      <3>. QED BY <1>6, <3>2, <3>3
    <2>. QED BY <1>1, <2>1, <2>2, <2>4, ListenersOut DEF Reform
  <1>. QED BY <1>3, <1>4, <1>5, <1>6 DEF FlipAgent

-----------------------------------------------------------------------------
(* Reloads. *)

LEMMA ListPort == ASSUME Requests, NEW r \in live, Stage(r) = "list" PROVE On(r) \in Ports /\ r.todo # <<>>
  <1>1. r.todo # <<>> /\ r.todo[1][1] = "list" /\ r.todo \in Seq(StepRows) /\ Linked(r.todo, r.q.op)
    BY DEF Stage, Requests, Sound
  <1>2. 1 \in DOMAIN r.todo
    BY <1>1
  <1>. QED BY <1>1, <1>2 DEF Linked, On

Fits(x, L) ==
    /\ Stage(x) = "retain" => PortsOf(x) = Wanted
    /\ Stage(x) = "start" => L \cup PortsOf(x) = Wanted
    /\ Stage(x) = "list" => L \cup PortsOf(x) \cup {On(x)} = Wanted
    /\ ~Renews(x) => L = Wanted

LEMMA ReloadOn ==
    ASSUME Requests, Apart(live'), NEW r \in live, NEW x, Goes(r, x), \A y \in live : Renews(y) => y = r, Wanted' = Wanted,
           (Dirty /\ Stage(r) \notin {"load", "leave"}) \/ Fits(x, listed')
    PROVE  ReloadInv'
  <1>1. Renamed((live \ {r}) \cup {x})
    BY Renaming
  <1>2. ASSUME NEW s \in live', Renews(s) PROVE Same(x, s)
    <2>1. PICK y \in (live \ {r}) \cup {x} : Same(y, s)
      BY <1>1 DEF Renamed
    <2>. QED BY <1>2, <2>1, SameReload
  <1>3. ASSUME NEW s \in live', NEW t \in live', Renews(s), Renews(t) PROVE s = t
    BY <1>2, <1>3, SameReload DEF Apart
  <1>4. CASE Dirty /\ Stage(r) \notin {"load", "leave"}
    <2>1. PICK y \in live : Stage(y) \in {"load", "leave"} /\ y.begun
      BY <1>4 DEF Dirty
    <2>2. PICK s \in live' : Same(y, s)
      BY <1>1, <1>4, <2>1 DEF Renamed
    <2>3. Dirty'
      BY <2>1, <2>2, SameReload DEF Dirty
    <2>. QED BY <1>3, <2>3 DEF ReloadInv
  <1>5. CASE Fits(x, listed')
    <2>1. ASSUME NEW s \in live'
          PROVE  /\ Stage(s) = "retain" => PortsOf(s) = Wanted
                 /\ Stage(s) = "start" => listed' \cup PortsOf(s) = Wanted
                 /\ Stage(s) = "list" => listed' \cup PortsOf(s) \cup {On(s)} = Wanted
      <3>1. CASE Renews(s)
        <4>1. Same(x, s)
          BY <1>2, <3>1
        <4>. QED BY <1>5, <4>1, SameReload DEF Fits
      <3>2. CASE ~Renews(s)
        BY <3>2 DEF Renews
      <3>. QED BY <3>1, <3>2
    <2>2. ASSUME \A s \in live' : ~Renews(s) PROVE listed' = Wanted
      <3>1. PICK s \in live' : Same(x, s)
        BY <1>1 DEF Renamed
      <3>. QED BY <1>5, <2>2, <3>1, SameReload DEF Fits
    <2>. QED BY <1>3, <2>1, <2>2 DEF ReloadInv
  <1>. QED BY <1>4, <1>5

LEMMA SocketsOn ==
    ASSUME Requests, Apart(live'), SocketsInv, NEW r \in live, NEW x, Goes(r, x),
           sock' \in [Ports -> {"free", "starting", "on", "told"}], listed' \subseteq Ports,
           \A p \in Ports : p \in listed' <=> sock'[p] = "on",
           \A y \in live : y # r /\ Stage(y) = "list" => sock'[On(y)] = "starting",
           Stage(x) = "list" => sock'[On(x)] = "starting" /\ \A y \in live : y # r /\ Stage(y) = "list" => On(y) # On(x)
    PROVE  SocketsInv'
  <1>1. Renamed((live \ {r}) \cup {x})
    BY Renaming
  <1>2. ASSUME NEW s \in live', Stage(s) = "list" PROVE sock'[On(s)] = "starting"
    <2>1. PICK y \in (live \ {r}) \cup {x} : Same(y, s)
      BY <1>1 DEF Renamed
    <2>. QED BY <1>2, <2>1, SameReload
  <1>3. ASSUME NEW s \in live', NEW t \in live', Stage(s) = "list", Stage(t) = "list", On(s) = On(t) PROVE s = t
    <2>1. PICK y \in (live \ {r}) \cup {x} : Same(y, s)
      BY <1>1 DEF Renamed
    <2>2. PICK z \in (live \ {r}) \cup {x} : Same(z, t)
      BY <1>1 DEF Renamed
    <2>3. Stage(y) = "list" /\ Stage(z) = "list" /\ On(y) = On(z)
      BY <1>3, <2>1, <2>2, SameReload
    <2>4. y = z
      <3>1. CASE y = x \/ z = x
        BY <2>1, <2>2, <2>3, <3>1
      <3>2. CASE y \in live /\ z \in live
        BY <2>3, <3>2 DEF SocketsInv
      <3>. QED BY <2>1, <2>2, <3>1, <3>2
    <2>. QED BY <2>1, <2>2, <2>4, SameReload DEF Apart
  <1>. QED BY <1>2, <1>3 DEF SocketsInv

LEMMA ListenersLoad == ASSUME EntitledInv, EntitledInv', ListenersInv, NEW r \in live, LoadMappings(r) PROVE ListenersInv'
  <1>0. Typed /\ Requests /\ Apart(live') /\ SocketsInv
    BY DEF EntitledInv, Requests, ListenersInv
  <1>1. /\ At(r, "load") /\ Stage(r) = "load" /\ UNCHANGED <<sock, listed, rows, agents>>
        /\ clash' = (clash \/ \E x \in live \ {r} : Reloading(x))
    BY AtIs DEF LoadMappings, Reads, tables
  <1>2. PICK x : Goes(r, x) /\ x.among = {<<m, rows[m].port>> : m \in Enabled} /\ <<r.q.op, Stage(r), Stage(x)>> \in Order
    BY <1>0, LoadsGo
  <1>3. Stage(x) = "retain"
    BY <1>1, <1>2, OrderIs DEF AfterIs
  <1>4. PortsOf(x) = Wanted /\ Wanted' = Wanted
    <2>1. ASSUME NEW m \in Enabled PROVE rows[m].port \in PortsOf(x)
      <3>1. <<m, rows[m].port>> \in x.among
        BY <1>2
      <3>. QED BY <3>1 DEF PortsOf
    <2>2. ASSUME NEW y \in x.among PROVE y[2] \in Wanted
      <3>1. PICK m \in Enabled : y = <<m, rows[m].port>>
        BY <1>2
      <3>. QED BY <3>1 DEF Wanted
    <2>3. PortsOf(x) = Wanted
      BY <2>1, <2>2 DEF PortsOf, Wanted
    <2>. QED BY <1>0, <1>1, <2>3, WantedKept
  <1>5. SocketsInv'
    BY <1>0, <1>1, <1>2, <1>3, SocketsOn DEF SocketsInv
  <1>6. ReloadInv'
    <2>1. CASE \A y \in live : Renews(y) => y = r
      <3>1. Fits(x, listed')
        BY <1>3, <1>4 DEF Fits, Renews
      <3>. QED BY <1>0, <1>2, <1>4, <2>1, <3>1, ReloadOn
    <2>2. ASSUME NEW y \in live, Renews(y), y # r PROVE ReloadInv'
      <3>1. Reloading(y)
        BY <2>2 DEF Reloading, Renews, Stage
      <3>2. clash'
        BY <1>1, <2>2, <3>1
      <3>. QED BY <3>2 DEF ReloadInv
    <2>. QED BY <2>1, <2>2
  <1>. QED BY <1>5, <1>6 DEF ListenersInv

LEMMA ListenersRetain == ASSUME EntitledInv, EntitledInv', ListenersInv, NEW r \in live, RetainListeners(r) PROVE ListenersInv'
  <1>0. Typed /\ Requests /\ Apart(live') /\ SocketsInv
    BY DEF EntitledInv, Requests, ListenersInv
  <1>1. /\ At(r, "retain") /\ Stage(r) = "retain" /\ UNCHANGED <<rows, agents, clash>> /\ listed' = listed \ Stale(r)
        /\ sock' = [p \in Ports |-> IF p \in Stale(r) THEN "told" ELSE sock[p]]
    BY AtIs DEF RetainListeners, Reads, tables
  <1>2. PICK x : Goes(r, x) /\ x.among = r.among /\ <<r.q.op, Stage(r), Stage(x)>> \in Order
    BY <1>0, ListingSteps DEF Advances
  <1>3. Stage(x) = "start" /\ PortsOf(x) = PortsOf(r) /\ Renews(r) /\ Wanted' = Wanted
    <2>1. Stage(x) = "start"
      BY <1>1, <1>2, OrderIs DEF AfterIs
    <2>. QED BY <1>0, <1>1, <1>2, <2>1, WantedKept DEF PortsOf, Renews
  <1>4. listed' = listed \cap PortsOf(r) /\ Stale(r) \subseteq listed
    BY <1>1 DEF Stale, PortsOf
  <1>5. SocketsInv'
    <2>1. \A p \in Ports : p \in listed' <=> sock'[p] = "on"
      BY <1>0, <1>1, <1>4 DEF SocketsInv
    <2>2. ASSUME NEW y \in live, Stage(y) = "list" PROVE sock'[On(y)] = "starting"
      <3>1. On(y) \in Ports /\ sock[On(y)] = "starting"
        BY <1>0, <2>2, ListPort DEF SocketsInv
      <3>2. On(y) \notin Stale(r)
        BY <1>0, <1>4, <3>1 DEF SocketsInv
      <3>. QED BY <1>1, <3>1, <3>2
    <2>3. sock' \in [Ports -> {"free", "starting", "on", "told"}] /\ listed' \subseteq Ports
      BY <1>0, <1>1 DEF SocketsInv
    <2>. QED BY <1>0, <1>2, <1>3, <2>1, <2>2, <2>3, SocketsOn
  <1>6. ReloadInv'
    <2>1. SUFFICES ASSUME ~clash PROVE ReloadInv'
      BY <1>1 DEF ReloadInv
    <2>2. \A y \in live : Renews(y) => y = r
      BY <1>3, <2>1 DEF ListenersInv, ReloadInv
    <2>3. Dirty \/ PortsOf(r) = Wanted
      BY <1>1, <2>1 DEF ListenersInv, ReloadInv
    <2>4. Dirty \/ Fits(x, listed')
      BY <1>3, <1>4, <2>3 DEF Fits, Renews
    <2>. QED BY <1>0, <1>1, <1>2, <1>3, <2>2, <2>4, ReloadOn
  <1>. QED BY <1>5, <1>6 DEF ListenersInv

LEMMA ListenersList == ASSUME EntitledInv, EntitledInv', ListenersInv, NEW r \in live, ListListener(r) PROVE ListenersInv'
  <1>0. Typed /\ Requests /\ Apart(live') /\ SocketsInv
    BY DEF EntitledInv, Requests, ListenersInv
  <1>1. /\ At(r, "list") /\ Stage(r) = "list" /\ UNCHANGED <<rows, agents, clash>> /\ listed' = listed \cup {On(r)}
        /\ sock' = [sock EXCEPT ![On(r)] = "on"]
    BY AtIs DEF ListListener, Reads, tables
  <1>2. PICK x : Goes(r, x) /\ x.among = r.among /\ <<r.q.op, Stage(r), Stage(x)>> \in Order
    BY <1>0, ListingSteps DEF Advances
  <1>3. Stage(x) = "start" /\ PortsOf(x) = PortsOf(r) /\ Renews(r) /\ Wanted' = Wanted
    <2>1. Stage(x) = "start"
      BY <1>1, <1>2, OrderIs DEF AfterIs
    <2>. QED BY <1>0, <1>1, <1>2, <2>1, WantedKept DEF PortsOf, Renews
  <1>4. On(r) \in Ports
    BY <1>0, <1>1, ListPort
  <1>5. SocketsInv'
    <2>1. \A p \in Ports : p \in listed' <=> sock'[p] = "on"
      BY <1>0, <1>1, <1>4 DEF SocketsInv
    <2>2. ASSUME NEW y \in live, y # r, Stage(y) = "list" PROVE sock'[On(y)] = "starting"
      <3>1. On(y) \in Ports /\ sock[On(y)] = "starting"
        BY <1>0, <2>2, ListPort DEF SocketsInv
      <3>2. On(y) # On(r)
        BY <1>0, <1>1, <2>2 DEF SocketsInv
      <3>. QED BY <1>0, <1>1, <3>1, <3>2 DEF SocketsInv
    <2>3. sock' \in [Ports -> {"free", "starting", "on", "told"}] /\ listed' \subseteq Ports
      BY <1>0, <1>1, <1>4 DEF SocketsInv
    <2>. QED BY <1>0, <1>2, <1>3, <2>1, <2>2, <2>3, SocketsOn
  <1>6. ReloadInv'
    <2>1. SUFFICES ASSUME ~clash PROVE ReloadInv'
      BY <1>1 DEF ReloadInv
    <2>2. \A y \in live : Renews(y) => y = r
      BY <1>3, <2>1 DEF ListenersInv, ReloadInv
    <2>3. Dirty \/ listed \cup PortsOf(r) \cup {On(r)} = Wanted
      BY <1>1, <2>1 DEF ListenersInv, ReloadInv
    <2>4. Dirty \/ Fits(x, listed')
      BY <1>1, <1>3, <2>3 DEF Fits, Renews
    <2>. QED BY <1>0, <1>1, <1>2, <1>3, <2>2, <2>4, ReloadOn
  <1>. QED BY <1>5, <1>6 DEF ListenersInv

LEMMA ListenersStart == ASSUME EntitledInv, EntitledInv', ListenersInv, NEW r \in live, start_listener(r) PROVE ListenersInv'
  <1>0. Typed /\ Requests /\ Apart(live') /\ SocketsInv
    BY DEF EntitledInv, Requests, ListenersInv
  <1>1. At(r, "start") /\ Stage(r) = "start" /\ Renews(r) /\ UNCHANGED <<rows, agents>>
    BY AtIs DEF start_listener, Reads, tables, Renews
  <1>2. Wanted' = Wanted
    BY <1>0, <1>1, WantedKept
  <1>3. ~clash => /\ \A y \in live : Renews(y) => y = r
                  /\ Dirty \/ listed \cup PortsOf(r) = Wanted
    BY <1>1 DEF ListenersInv, ReloadInv
  <1>4. CASE r.among = {} /\ UNCHANGED remoteVars /\ Advances(r)
    <2>1. PICK x : Goes(r, x) /\ <<r.q.op, Stage(r), Stage(x)>> \in Order
      BY <1>4 DEF Advances
    <2>2. Stage(x) = "end" /\ UNCHANGED <<sock, listed, clash>> /\ PortsOf(r) = {}
      BY <1>1, <1>4, <2>1, OrderIs DEF AfterIs, remoteVars, listening, PortsOf
    <2>3. SocketsInv'
      BY <1>0, <2>1, <2>2, SocketsOn DEF SocketsInv
    <2>4. ReloadInv'
      <3>1. CASE clash
        BY <2>2, <3>1 DEF ReloadInv
      <3>2. CASE ~clash
        <4>1. Dirty \/ Fits(x, listed')
          BY <1>3, <2>2, <3>2 DEF Fits
        <4>. QED BY <1>0, <1>1, <1>2, <1>3, <2>1, <3>2, <4>1, ReloadOn
      <3>. QED BY <3>1, <3>2
    <2>. QED BY <2>3, <2>4 DEF ListenersInv
  <1>5. ASSUME NEW y, Looked(r, y), UNCHANGED listed PROVE ListenersInv'
    <2>0. y \in r.among /\ y[2] \in Ports /\ y[2] \in PortsOf(r)
      BY <1>5 DEF Looked, PortsOf
    <2>1. ASSUME NEW x, x.among = r.among \ {y} PROVE PortsOf(x) \cup {y[2]} = PortsOf(r)
      BY <2>0, <2>1 DEF PortsOf
    <2>2. ASSUME UNCHANGED sock, (y[2] \in listed /\ UNCHANGED clash) \/ clash' = TRUE,
                 NEW x, Goes(r, x), x.among = r.among \ {y}, Stage(x) = "start"
          PROVE  ListenersInv'
      <3>1. SocketsInv'
        BY <1>0, <1>5, <2>2, SocketsOn DEF SocketsInv
      <3>2. ReloadInv'
        <4>1. CASE clash'
          BY <4>1 DEF ReloadInv
        <4>2. CASE ~clash' /\ y[2] \in listed /\ ~clash
          <5>1. PortsOf(x) \cup {y[2]} = PortsOf(r)
            BY <2>1, <2>2
          <5>2. Dirty \/ Fits(x, listed')
            BY <1>3, <1>5, <2>2, <4>2, <5>1 DEF Fits, Renews
          <5>. QED BY <1>0, <1>1, <1>2, <1>3, <2>2, <4>2, <5>2, ReloadOn
        <4>. QED BY <2>2, <4>1, <4>2
      <3>. QED BY <3>1, <3>2 DEF ListenersInv
    <2>3. ASSUME y[2] \notin listed, sock[y[2]] = "free", sock' = [sock EXCEPT ![y[2]] = "starting"], UNCHANGED clash,
                 NEW x, Goes(r, x), x.among = r.among \ {y}, Stage(x) = "list", On(x) = y[2]
          PROVE  ListenersInv'
      <3>1. \A z \in live : Stage(z) = "list" => On(z) \in Ports /\ sock[On(z)] = "starting"
        BY <1>0, ListPort DEF SocketsInv
      <3>2. \A z \in live : Stage(z) = "list" => On(z) # y[2] /\ sock'[On(z)] = "starting"
        BY <1>0, <2>3, <3>1 DEF SocketsInv
      <3>3. /\ sock' \in [Ports -> {"free", "starting", "on", "told"}] /\ sock'[y[2]] = "starting"
            /\ \A p \in Ports : p \in listed <=> sock'[p] = "on"
        BY <1>0, <2>0, <2>3 DEF SocketsInv
      <3>4. SocketsInv'
        <4>1. listed' \subseteq Ports
          BY <1>0, <1>5 DEF SocketsInv
        <4>. QED BY <1>0, <1>5, <2>3, <3>2, <3>3, <4>1, SocketsOn
      <3>5. ReloadInv'
        <4>1. CASE clash
          BY <2>3, <4>1 DEF ReloadInv
        <4>2. CASE ~clash
          <5>1. PortsOf(x) \cup {y[2]} = PortsOf(r)
            BY <2>1, <2>3
          <5>2. Dirty \/ Fits(x, listed')
            BY <1>3, <1>5, <2>3, <4>2, <5>1 DEF Fits, Renews
          <5>. QED BY <1>0, <1>1, <1>2, <1>3, <2>3, <4>2, <5>2, ReloadOn
        <4>. QED BY <4>1, <4>2
      <3>. QED BY <3>4, <3>5 DEF ListenersInv
    <2>. QED BY <1>5, <2>2, <2>3 DEF Looked
  <1>. QED BY <1>0, <1>4, <1>5, StartsGo

LEMMA ListenersDrop == ASSUME EntitledInv, EntitledInv', ListenersInv, NEW r \in live, DropRequest(r) PROVE ListenersInv'
  <1>0. Typed /\ Requests /\ Apart(live') /\ SocketsInv /\ Quits(r)
    BY OtherSteps DEF EntitledInv, Requests, ListenersInv
  <1>1. /\ UNCHANGED <<rows, agents, listed>> /\ r.todo # <<>>
        /\ sock' = IF At(r, "list") THEN [sock EXCEPT ![On(r)] = "free"] ELSE sock
        /\ clash' = (clash \/ r.todo[1][1] \in {"leave", "load", "retain", "start", "list"})
    BY DEF DropRequest, tables
  <1>2. CASE Stage(r) \notin Reform
    <2>1. UNCHANGED sock /\ (clash => clash')
      BY <1>1, <1>2, AtIs DEF Reform
    <2>. QED BY <1>0, <1>1, <1>2, <2>1, ListenersOut DEF Moved
  <1>3. CASE Stage(r) \in Reform
    <2>1. clash'
      BY <1>1, <1>3 DEF Stage, Reform
    <2>2. Renamed(live \ {r})
      BY <1>0, Renaming
    <2>3. CASE ~At(r, "list")
      BY <1>0, <1>1, <2>1, <2>2, <2>3, SocketsStay DEF Renamed, ListenersInv, ReloadInv
    <2>4. CASE At(r, "list")
      <3>1. Stage(r) = "list" /\ On(r) \in Ports /\ sock[On(r)] = "starting" /\ sock' = [sock EXCEPT ![On(r)] = "free"]
        BY <1>0, <1>1, <2>4, AtIs, ListPort DEF SocketsInv
      <3>2. /\ sock' \in [Ports -> {"free", "starting", "on", "told"}] /\ listed' \subseteq Ports
            /\ \A p \in Ports : p \in listed' <=> sock'[p] = "on"
        BY <1>0, <1>1, <3>1 DEF SocketsInv
      <3>3. ASSUME NEW s \in live', Stage(s) = "list" PROVE sock'[On(s)] = "starting"
        <4>1. PICK y \in live \ {r} : Same(y, s)
          BY <2>2 DEF Renamed
        <4>2. Stage(y) = "list" /\ On(y) = On(s)
          BY <3>3, <4>1, SameReload
        <4>3. On(y) # On(r) /\ On(y) \in Ports /\ sock[On(y)] = "starting"
          BY <1>0, <3>1, <4>1, <4>2, ListPort DEF SocketsInv
        <4>. QED BY <1>0, <3>1, <4>2, <4>3 DEF SocketsInv
      <3>4. ASSUME NEW s \in live', NEW t \in live', Stage(s) = "list", Stage(t) = "list", On(s) = On(t) PROVE s = t
        <4>1. PICK y \in live \ {r} : Same(y, s)
          BY <2>2 DEF Renamed
        <4>2. PICK z \in live \ {r} : Same(z, t)
          BY <2>2 DEF Renamed
        <4>3. y = z
          BY <1>0, <3>4, <4>1, <4>2, SameReload DEF SocketsInv
        <4>. QED BY <1>0, <4>1, <4>2, <4>3, SameReload DEF Apart
      <3>. QED BY <2>1, <3>2, <3>3, <3>4 DEF ListenersInv, SocketsInv, ReloadInv
    <2>. QED BY <2>3, <2>4
  <1>. QED BY <1>2, <1>3

LEMMA ListenersElsewhere ==
    ASSUME EntitledInv, ListenersInv,
           (\E p \in Ports : StopListener(p)) \/ (\E s \in Streams : AgentStep(s)) \/ UNCHANGED <<transferVars, remoteVars>>
    PROVE  ListenersInv'
  <1>0. SocketsInv /\ ReloadInv /\ Requests
    BY DEF ListenersInv, EntitledInv
  <1>1. UNCHANGED transferVars
    BY Elsewhere
  <1>2. UNCHANGED <<live, rows, agents>>
    BY <1>1 DEF transferVars, tables
  <1>3. Wanted' = Wanted
    BY <1>2 DEF Wanted, Enabled
  <1>4. /\ UNCHANGED <<listed, clash>>
        /\ UNCHANGED sock \/ \E p \in Ports : sock[p] = "told" /\ sock' = [sock EXCEPT ![p] = "free"]
    <2>1. ASSUME NEW p \in Ports, StopListener(p)
          PROVE  UNCHANGED <<listed, clash>> /\ sock[p] = "told" /\ sock' = [sock EXCEPT ![p] = "free"]
      BY <2>1 DEF StopListener
    <2>2. ASSUME NEW s \in Streams, AgentStep(s) PROVE UNCHANGED <<sock, listed, clash>>
      <3>1. OnAgent
        BY <2>2 DEF AgentStep, handle_nat_control_message, KeepNatSession, TargetSpeaks, handle_nat_data, handle_io_close,
                    handle_new_terminal_session, handle_terminal_message, terminal_output_loop, Takes
      <3>. QED BY <3>1 DEF OnAgent, listening
    <2>3. UNCHANGED <<transferVars, remoteVars>> => UNCHANGED <<sock, listed, clash>>
      BY DEF remoteVars, listening
    <2>. QED BY <2>1, <2>2, <2>3
  <1>5. SocketsInv'
    <2>1. CASE UNCHANGED sock
      BY <1>0, <1>2, <1>4, <2>1 DEF SocketsInv
    <2>2. ASSUME NEW p \in Ports, sock[p] = "told", sock' = [sock EXCEPT ![p] = "free"] PROVE SocketsInv'
      <3>1. /\ sock' \in [Ports -> {"free", "starting", "on", "told"}] /\ \A q \in Ports : q # p => sock'[q] = sock[q]
            /\ sock'[p] = "free"
        BY <1>0, <2>2 DEF SocketsInv
      <3>2. \A r \in live : Stage(r) = "list" => On(r) \in Ports /\ On(r) # p
        BY <1>0, <2>2, ListPort DEF SocketsInv
      <3>. QED BY <1>0, <1>2, <1>4, <2>2, <3>1, <3>2 DEF SocketsInv
    <2>. QED BY <1>4, <2>1, <2>2
  <1>6. ReloadInv'
    BY <1>0, <1>2, <1>3, <1>4 DEF ReloadInv, Dirty
  <1>. QED BY <1>5, <1>6 DEF ListenersInv

LEMMA ListenersInit == Init => ListenersInv
  <1>1. SUFFICES ASSUME Init PROVE ListenersInv
    OBVIOUS
  <1>2. /\ listed = Wanted /\ sock = [p \in Ports |-> IF p \in listed THEN "on" ELSE "free"]
    BY <1>1 DEF Init, Wanted
  <1>3. \A r \in live : Stage(r) \notin Reform
    <2>1. \A r \in live : Sound(r) /\ r.begun = FALSE
      BY <1>1, Beginnings
    <2>2. ASSUME NEW r \in live PROVE Stage(r) \notin Reform
      BY <2>1 DEF Sound, First, Reform
    <2>. QED BY <2>2
  <1>4. listed \subseteq Ports
    BY <1>1, <1>2, EntitledInit DEF EntitledInv, Typed, Wanted, Enabled, MappingRows
  <1>. QED BY <1>2, <1>3, <1>4 DEF ListenersInv, SocketsInv, ReloadInv, Reform, Renews

LEMMA ListenersNext == EntitledInv /\ ListenersInv /\ [Next]_<<transferVars, remoteVars, hostVars>> => ListenersInv'
  <1>1. SUFFICES ASSUME EntitledInv, ListenersInv, [Next]_<<transferVars, remoteVars, hostVars>> PROVE ListenersInv'
    OBVIOUS
  <1>2. EntitledInv'
    BY <1>1, EntitledNext
  <1>3. ASSUME NEW r \in live, RequestStep(r) PROVE ListenersInv'
    <2>1. CASE \/ FindMapping(r) \/ FindNatAgent(r) \/ FindActiveNatAgent(r) \/ FindPort(r) \/ ensure_terminal_agent_active(r)
               \/ ShowsMapping(r) \/ ListsMappings(r) \/ list_runtime_nat_mappings(r) \/ ReachesAgentIo(r)
      BY <1>1, <1>2, <2>1, ListenersRead
    <2>2. CASE \/ Accept(r) \/ ReadPolicy(r) \/ CountTunnels(r) \/ record_source_connection_in_map(r) \/ record_nat_connection(r)
               \/ ReserveTunnel(r) \/ SubscribeStream(r) \/ SendOpen(r) \/ UnsubscribeStream(r) \/ ReleaseTunnel(r)
               \/ record_nat_window_bytes(r) \/ CreatePending(r) \/ take_for_auth(r) \/ NextWindow(r) \/ Bridging(r)
      BY <1>1, <1>2, <2>2, ListenersStream
    <2>3. CASE CreateMapping(r) \/ UpdateMapping(r) \/ DeleteMapping(r) \/ FlipAgent(r) \/ BanAgent(r)
      BY <1>1, <1>2, <2>3, ListenersChange
    <2>4. CASE LoadMappings(r) \/ RetainListeners(r) \/ start_listener(r) \/ ListListener(r) \/ DropRequest(r)
      BY <1>1, <1>2, <2>4, ListenersLoad, ListenersRetain, ListenersStart, ListenersList, ListenersDrop
    <2>. QED BY <1>3, <2>1, <2>2, <2>3, <2>4 DEF RequestStep, Bridging
  <1>4. ASSUME NEW r \in live, UNCHANGED remoteVars, Authenticated(r, Scopes(r.q.op)) \/ AsksForCode(r) \/ Responds(r) \/ Change(r)
        PROVE  ListenersInv'
    BY <1>1, <1>2, <1>4, ListenersRead, ListenersChange
  <1>5. ASSUME (\E p \in Ports : StopListener(p)) \/ (\E s \in Streams : AgentStep(s)) \/ UNCHANGED <<transferVars, remoteVars>>
        PROVE  ListenersInv'
    BY <1>1, <1>5, ListenersElsewhere
  <1>. QED BY <1>1, <1>3, <1>4, <1>5 DEF Next

LEMMA ListenersFollow == ASSUME EntitledInv, ListenersInv PROVE ListenersFollowMappings
  <1>1. ASSUME ~clash, \A r \in live : r.begun => r.q.op \notin {"nat_create", "nat_update", "nat_delete", "revoke_agent"}
        PROVE  listed = {rows[m].port : m \in Enabled}
    <2>1. ASSUME NEW r \in live, Stage(r) \in Reform PROVE FALSE
      <3>1. Sound(r) /\ r.todo # <<>>
        BY <2>1 DEF EntitledInv, Requests, Stage, Reform
      <3>2. r.begun = TRUE
        BY <2>1, <3>1, BegunIs DEF Reform
      <3>3. r.q.op \in Mapping
        BY <2>1, <3>1, OpAt DEF AfterIs, Reform, Mapping
      <3>. QED BY <1>1, <3>2, <3>3 DEF Mapping
    <2>2. ~Dirty /\ \A r \in live : ~Renews(r)
      BY <2>1 DEF Dirty, Renews, Reform
    <2>. QED BY <1>1, <2>2 DEF ListenersInv, ReloadInv, Wanted
  <1>. QED BY <1>1 DEF ListenersFollowMappings, ListenersInv, SocketsInv

-----------------------------------------------------------------------------
(* Frames. *)

LEMMA HasTail ==
    ASSUME NEW S, NEW d \in Seq(S), d # <<>>, NEW f
    PROVE  /\ Head(d) = d[1] /\ Tail(d) \in Seq(S)
           /\ Has(Tail(d), f) => Has(d, f)
           /\ Has(d, f) /\ Head(d) # f => Has(Tail(d), f)
           /\ Head(d) = f => Has(d, f)
           /\ (\A i \in DOMAIN d : d[i] = f => i = 1) => ~Has(Tail(d), f)
  <1>1. /\ Len(d) \in Nat /\ Len(d) >= 1 /\ Tail(d) \in Seq(S) /\ DOMAIN d = 1..Len(d) /\ DOMAIN Tail(d) = 1..(Len(d) - 1)
        /\ \A i \in 1..(Len(d) - 1) : Tail(d)[i] = d[i + 1]
    BY TailOf
  <1>2. Head(d) = d[1]
    BY <1>1
  <1>3. ASSUME NEW i \in DOMAIN Tail(d) PROVE i + 1 \in DOMAIN d /\ Tail(d)[i] = d[i + 1] /\ i + 1 # 1
    BY <1>1
  <1>4. ASSUME NEW i \in DOMAIN d, i # 1 PROVE i - 1 \in DOMAIN Tail(d) /\ Tail(d)[i - 1] = d[i]
    <2>1. i - 1 \in 1..(Len(d) - 1) /\ (i - 1) + 1 = i
      BY <1>1, <1>4
    <2>. QED BY <1>1, <2>1
  <1>5. 1 \in DOMAIN d
    BY <1>1
  <1>6. Has(Tail(d), f) => Has(d, f)
    BY <1>3 DEF Has
  <1>7. Has(d, f) /\ Head(d) # f => Has(Tail(d), f)
    BY <1>2, <1>4 DEF Has
  <1>8. (\A i \in DOMAIN d : d[i] = f => i = 1) => ~Has(Tail(d), f)
    BY <1>3 DEF Has
  <1>. QED BY <1>1, <1>2, <1>5, <1>6, <1>7, <1>8 DEF Has

LEMMA HasCat ==
    ASSUME NEW S, NEW d \in Seq(S), NEW e \in Seq(S), NEW f
    PROVE  /\ d \o e \in Seq(S)
           /\ Has(d \o e, f) <=> Has(d, f) \/ Has(e, f)
           /\ \A i \in DOMAIN (d \o e) : i \notin DOMAIN d /\ (d \o e)[i] = f => Has(e, f)
           /\ \A i \in DOMAIN d : (d \o e)[i] = d[i]
  <1> DEFINE c == d \o e
  <1>1. /\ c \in Seq(S) /\ Len(d) \in Nat /\ Len(e) \in Nat /\ Len(c) = Len(d) + Len(e)
        /\ \A i \in 1..(Len(d) + Len(e)) : c[i] = IF i <= Len(d) THEN d[i] ELSE e[i - Len(d)]
    BY ConcatProperties, LenProperties
  <1>2. DOMAIN c = 1..(Len(d) + Len(e)) /\ DOMAIN d = 1..Len(d) /\ DOMAIN e = 1..Len(e)
    BY <1>1, LenProperties
  <1> HIDE DEF c
  <1>3. \A i \in DOMAIN d : i \in DOMAIN c /\ c[i] = d[i]
    BY <1>1, <1>2
  <1>4. ASSUME NEW i \in DOMAIN c, i \notin DOMAIN d PROVE i - Len(d) \in DOMAIN e /\ c[i] = e[i - Len(d)]
    BY <1>1, <1>2, <1>4
  <1>5. ASSUME NEW i \in DOMAIN e PROVE Len(d) + i \in DOMAIN c /\ c[Len(d) + i] = e[i]
    <2>1. Len(d) + i \in 1..(Len(d) + Len(e)) /\ ~(Len(d) + i <= Len(d)) /\ (Len(d) + i) - Len(d) = i
      BY <1>1, <1>2
    <2>. QED BY <1>1, <1>2, <2>1
  <1>6. \A i \in DOMAIN c : i \notin DOMAIN d /\ c[i] = f => Has(e, f)
    BY <1>4 DEF Has
  <1>7. Has(c, f) <=> Has(d, f) \/ Has(e, f)
    <2>1. Has(c, f) => Has(d, f) \/ Has(e, f)
      BY <1>3, <1>6 DEF Has
    <2>2. Has(d, f) => Has(c, f)
      BY <1>3 DEF Has
    <2>3. Has(e, f) => Has(c, f)
      BY <1>5 DEF Has
    <2>. QED BY <2>1, <2>2, <2>3
  <1>. QED BY <1>1, <1>3, <1>6, <1>7 DEF c

LEMMA Words ==
    /\ \A f : ~Has(<<>>, f)
    /\ \A f, g : Has(<<g>>, f) <=> f = g
    /\ \A f, g, h : Has(<<g, h>>, f) <=> f = g \/ f = h
    /\ {<<"open">>, <<"data">>, <<"close">>, <<"data", "close">>, <<>>} \subseteq Downs
    /\ {<<"ready">>, <<"data">>, <<"close">>, <<"error">>, <<"error", "close">>, <<>>} \subseteq Ups
  <1>1. \A f : ~Has(<<>>, f)
    BY DEF Has
  <1>2. \A f, g : Has(<<g>>, f) <=> f = g
    <2>1. ASSUME NEW f, NEW g PROVE Has(<<g>>, f) <=> f = g
      <3>1. DOMAIN <<g>> = {1} /\ <<g>>[1] = g
        OBVIOUS
      <3>. QED BY <3>1, Zenon DEF Has
    <2>. QED BY <2>1
  <1>3. \A f, g, h : Has(<<g, h>>, f) <=> f = g \/ f = h
    <2>1. ASSUME NEW f, NEW g, NEW h PROVE Has(<<g, h>>, f) <=> f = g \/ f = h
      <3>1. DOMAIN <<g, h>> = {1, 2} /\ <<g, h>>[1] = g /\ <<g, h>>[2] = h
        OBVIOUS
      <3>. QED BY <3>1, Zenon DEF Has
    <2>. QED BY <2>1
  <1>4. {<<"open">>, <<"data">>, <<"close">>, <<"data", "close">>, <<>>} \subseteq Downs
    BY DEF Downs
  <1>5. {<<"ready">>, <<"data">>, <<"close">>, <<"error">>, <<"error", "close">>, <<>>} \subseteq Ups
    BY DEF Ups
  <1>. QED BY <1>1, <1>2, <1>3, <1>4, <1>5

\* The server's end moves on.
LEMMA FineMove ==
    ASSUME NEW st, NEW st2, NEW d, NEW u, NEW e, Fine(st, d, u, e),
           "unused" \in st2 => "unused" \in st, "cut" \in st2 => "cut" \in st, "quiet" \in st => "quiet" \in st2,
           "bridged" \in st => "bridged" \in st2 \/ "quiet" \in st2 \/ Has(d, "close") \/ (e \notin Working /\ ~Has(d, "open"))
    PROVE  Fine(st2, d, u, e)
  BY DEF Fine

LEMMA FineSilenced ==
    ASSUME NEW st, NEW d, NEW u, NEW e, Fine(st, d, u, e)
    PROVE  Fine(st, d, <<>>, e)
  BY Words DEF Fine

LEMMA FineTold ==
    ASSUME NEW st, NEW st2, NEW d \in Downs, NEW u, NEW e, Fine(st, d, u, e), NEW fs \in Downs, ~Has(fs, "open"),
           "unused" \notin st2, "cut" \notin st2, "quiet" \in st => "quiet" \in st2,
           "bridged" \in st => "bridged" \in st2 \/ "quiet" \in st2 \/ Has(fs, "close")
    PROVE  d \o fs \in Downs /\ Fine(st2, d \o fs, u, e)
  <1>1. /\ d \o fs \in Downs
        /\ Has(d \o fs, "open") <=> Has(d, "open")
        /\ Has(d \o fs, "close") <=> Has(d, "close") \/ Has(fs, "close")
        /\ \A i \in DOMAIN (d \o fs) : (d \o fs)[i] = "open" => i \in DOMAIN d /\ d[i] = "open"
    BY HasCat DEF Downs
  <1> DEFINE c == d \o fs
  <1> HIDE DEF c
  <1>2. Fine(st2, c, u, e)
    BY <1>1 DEF Fine, c
  <1>. QED BY <1>1, <1>2 DEF c

LEMMA FineOpened ==
    ASSUME NEW st, NEW st2, NEW d, NEW u, NEW e, Fine(st, d, u, e), "unused" \in st, "unused" \notin st2, "cut" \notin st2, "bridged" \in st2
    PROVE  d \o <<"open">> \in Downs /\ Fine(st2, d \o <<"open">>, u, e)
  <1>1. d = <<>> /\ u = <<>> /\ e = "none"
    BY DEF Fine
  <1>2. d \o <<"open">> = <<"open">>
    BY <1>1
  <1>3. <<"open">> \in Downs /\ ~Has(u, "close") /\ DOMAIN <<"open">> = {1}
    BY <1>1, Words
  <1>. QED BY <1>1, <1>2, <1>3 DEF Fine, Working

LEMMA FineHeard ==
    ASSUME NEW st, NEW d, NEW u \in Ups, NEW e, Fine(st, d, u, e), u # <<>>
    PROVE  /\ "unused" \notin st /\ Tail(u) \in Ups /\ Fine(st, d, Tail(u), e)
           /\ Head(u) = "close" => e \notin Working /\ ~Has(d, "open")
  BY HasTail DEF Fine, Ups

LEMMA FineSaid ==
    ASSUME NEW st, NEW d, NEW u \in Ups, NEW e, Fine(st, d, u, e), "unused" \notin st, NEW fs \in Ups,
           Has(fs, "close") => e \notin Working /\ ~Has(d, "open")
    PROVE  u \o fs \in Ups /\ Fine(st, d, u \o fs, e)
  <1>1. u \o fs \in Ups /\ (Has(u \o fs, "close") <=> Has(u, "close") \/ Has(fs, "close"))
    BY HasCat DEF Ups
  <1>. QED BY <1>1 DEF Fine

LEMMA FineTakes ==
    ASSUME NEW st, NEW d \in Downs, NEW u, NEW e, Fine(st, d, u, e), d # <<>>, NEW g,
           g \in Working => Head(d) = "open" \/ (e \in Working /\ Head(d) # "close")
    PROVE  /\ "unused" \notin st /\ Tail(d) \in Downs /\ Fine(st, Tail(d), u, g) /\ ~Has(Tail(d), "open")
           /\ Head(d) = "open" => e = "none"
  <1>1. /\ "unused" \notin st /\ "cut" \notin st /\ Tail(d) \in Downs
        /\ (\A i \in DOMAIN d : d[i] = "open" => i = 1 /\ e = "none")
    BY HasTail DEF Fine, Downs
  <1>2. ~Has(Tail(d), "open") /\ \A i \in DOMAIN Tail(d) : Tail(d)[i] # "open"
    <2>1. ~Has(Tail(d), "open")
      BY <1>1, HasTail DEF Downs
    <2>. QED BY <2>1 DEF Has
  <1>3. g \in Working /\ "quiet" \notin st => Has(Tail(d), "close") \/ "bridged" \in st
    <2>1. g \in Working => e \in Working \/ Has(d, "open")
      BY HasTail DEF Downs
    <2>2. g \in Working => Head(d) # "close"
      OBVIOUS
    <2>3. Has(d, "close") /\ Head(d) # "close" => Has(Tail(d), "close")
      BY HasTail DEF Downs
    <2>. QED BY <2>1, <2>2, <2>3 DEF Fine
  <1>4. Has(u, "close") => g \notin Working
    <2>1. g \in Working => e \in Working \/ Has(d, "open")
      BY HasTail DEF Downs
    <2>. QED BY <2>1 DEF Fine
  <1>5. Head(d) = "open" => e = "none"
    <2>1. Head(d) = "open" => Has(d, "open")
      BY HasTail DEF Downs
    <2>. QED BY <1>1, <2>1 DEF Has
  <1>6. Fine(st, Tail(d), u, g)
    <2> DEFINE t == Tail(d)
    <2> HIDE DEF t
    <2>1. Fine(st, t, u, g)
      BY <1>1, <1>2, <1>3, <1>4 DEF Fine, t
    <2>. QED BY <2>1 DEF t
  <1>. QED BY <1>1, <1>2, <1>5, <1>6

LEMMA FineBecomes ==
    ASSUME NEW st, NEW d, NEW u, NEW e, Fine(st, d, u, e), e # "none", NEW g, g \in Working => e \in Working
    PROVE  "unused" \notin st /\ Fine(st, d, u, g) /\ ~Has(d, "open")
  BY DEF Fine, Has

-----------------------------------------------------------------------------
(* How streams stand after a step. *)

LEMMA StandingIs ==
    ASSUME NEW s
    PROVE  /\ "unused" \in Standing(s) <=> Unused(s)
           /\ "bridged" \in Standing(s) <=> Bridged(s)
           /\ "cut" \in Standing(s) <=> Cut(s)
           /\ "quiet" \in Standing(s) <=> s \in silent
           /\ "unused" \in Standing(s)' <=> Unused(s)'
           /\ "bridged" \in Standing(s)' <=> Bridged(s)'
           /\ "cut" \in Standing(s)' <=> Cut(s)'
           /\ "quiet" \in Standing(s)' <=> s \in silent'
  BY DEF Standing

LEMMA SameStream ==
    ASSUME NEW y, NEW s, Same(y, s)
    PROVE  /\ stream(s) = stream(y) /\ AtBridge(s) = AtBridge(y) /\ Unopened(s) = Unopened(y)
           /\ StreamAgent(s) = StreamAgent(y)
  BY SameHolds DEF stream, AtBridge, Unopened, StreamAgent, IsTunnel, Same

LEMMA BridgeAgent == ASSUME Requests, NEW r \in live, AtBridge(r) PROVE StreamAgent(r) \in Agents
  <1>1. CASE r.q.op = "connect"
    BY <1>1, GotIs DEF AtBridge, StreamAgent, IsTunnel
  <1>2. CASE r.q.op = "socket"
    BY <1>2 DEF Requests, Sound, IsRequest, StreamAgent, IsTunnel
  <1>. QED BY <1>1, <1>2 DEF AtBridge

\* Who is about to open a stream, or at its bridge, is alone with it.
LEMMA Alone ==
    ASSUME Requests, PendingInv, NEW r \in live, r.q.op \in {"connect", "socket"}, Stage(r) \in {"open", "bridge"}
    PROVE  /\ \A y \in live : y # r /\ (Unopened(y) \/ AtBridge(y)) => stream(y) # stream(r)
           /\ stream(r) \in Shells => pending[stream(r)] = Nothing
  <1>1. ASSUME NEW y \in live, Unopened(y) \/ AtBridge(y), stream(y) = stream(r) PROVE y = r
    <2>1. y.q.op \in {"connect", "socket", "terminal"} /\ (y.q.op = "terminal" => Unmade(y)) /\ (y.q.op = "socket" => Took(y))
      BY <1>1 DEF Unopened, AtBridge, Ready, Unmade, Took
    <2>2. /\ y.q.op = "connect" <=> stream(y) \notin Shells
          /\ r.q.op = "connect" <=> stream(r) \notin Shells
      BY <2>1, StreamIs
    <2>3. CASE r.q.op = "connect"
      <3>1. y.q.op = "connect"
        BY <1>1, <2>2, <2>3
      <3>. QED BY <1>1, <2>3, <3>1 DEF Requests, Apart, stream
    <2>4. CASE r.q.op = "socket"
      <3>1. Took(r) /\ r \in TakenBy(stream(r)) /\ y.q.op # "connect"
        BY <1>1, <2>2, <2>4 DEF Took, TakenBy
      <3>2. ~Unmade(y)
        BY <1>1, <3>1 DEF PendingInv
      <3>3. Took(y)
        BY <2>1, <3>1, <3>2
      <3>. QED BY <1>1, <3>1, <3>3 DEF PendingInv
    <2>. QED BY <2>3, <2>4
  <1>2. ASSUME stream(r) \in Shells PROVE pending[stream(r)] = Nothing
    <2>1. r.q.op = "socket"
      BY <1>2, StreamIs
    <2>2. r \in TakenBy(stream(r))
      BY <2>1 DEF Took, TakenBy
    <2>. QED BY <1>2, <2>2 DEF PendingInv
  <1>. QED BY <1>1, <1>2

LEMMA Streaming ==
    ASSUME NEW L, Renamed(L), \A y \in L : Unopened(y) => Unused(stream(y)), \A s \in Shells : pending'[s] # Nothing => Unused(s)
    PROVE  /\ \A s : Unused(s)' => Unused(s)
           /\ \A y \in L : AtBridge(y) => Bridged(stream(y))'
           /\ \A s : Cut(s)' => \E y \in L : AtBridge(y) /\ stream(y) = s /\ ~agents'[StreamAgent(y)].online
  <1>1. ASSUME NEW s, Unused(s)' PROVE Unused(s)
    <2>1. CASE s \in Shells /\ pending'[s] # Nothing
      BY <2>1
    <2>2. ASSUME NEW z \in live', Unopened(z), stream(z) = s PROVE Unused(s)
      <3>1. PICK y \in L : Same(y, z)
        BY DEF Renamed
      <3>. QED BY <2>2, <3>1, SameStream
    <2>. QED BY <1>1, <2>1, <2>2 DEF Unused
  <1>2. ASSUME NEW y \in L, AtBridge(y) PROVE Bridged(stream(y))'
    <2>1. PICK z \in live' : Same(y, z)
      BY DEF Renamed
    <2>. QED BY <1>2, <2>1, SameStream DEF Bridged
  <1>3. ASSUME NEW s, Cut(s)' PROVE \E y \in L : AtBridge(y) /\ stream(y) = s /\ ~agents'[StreamAgent(y)].online
    <2>1. PICK z \in live' : AtBridge(z) /\ ~agents'[StreamAgent(z)].online /\ stream(z) = s
      BY <1>3 DEF Cut, Online, StreamAgent, IsTunnel
    <2>2. PICK y \in L : Same(y, z)
      BY DEF Renamed
    <2>. QED BY <2>1, <2>2, SameStream
  <1>. QED BY <1>1, <1>2, <1>3

LEMMA UnopenedIs ==
    ASSUME Requests, NEW r \in live, NEW x, Goes(r, x), Stage(r) = "take" => pending[stream(r)] # Nothing
    PROVE  /\ Unopened(x) => Unused(stream(x))
           /\ stream(x) = stream(r) /\ x.q = r.q
           /\ Stage(r) # "open" => ~AtBridge(x)
  <1>1. /\ x.q = r.q
        /\ \/ AfterIs(r.q.op, Stage(r), Stage(x))
           \/ r.q.op \in {"socket", "connect"} /\ Stage(r) = "open" /\ Stage(x) = "unsubscribe"
           \/ r.q.op \in Mapping /\ Stage(r) = "start" /\ Stage(x) \in {"start", "list"}
    BY MovesIs DEF Goes, Follows
  <1>2. stream(x) = stream(r)
    BY <1>1 DEF stream
  <1>3. Sound(r) /\ r.todo # <<>> /\ Stage(r) # "end"
    <2>1. Stage(r) # "end"
      BY <1>1 DEF AfterIs
    <2>. QED BY <2>1 DEF Requests, Stage
  <1>4. Stage(r) \in StepNames
    <2>1. r.todo \in Seq(StepRows)
      BY <1>3 DEF Sound
    <2>2. r.todo[1] \in StepRows
      BY <1>3, <2>1, TailOf
    <2>. QED BY <1>3, <2>2 DEF Stage, StepRows
  <1>5. Stage(r) # "open" => ~AtBridge(x)
    BY <1>1, <1>4 DEF AtBridge, AfterIs, StepNames, Mapping
  <1>6. ASSUME Unopened(x) PROVE Unused(stream(x))
    <2>1. CASE r.q.op = "connect"
      <3>1. Unopened(r)
        BY <1>1, <1>4, <1>6, <2>1 DEF Unopened, AfterIs, Ready, Took, Unmade, Mapping
      <3>. QED BY <1>2, <3>1 DEF Unused
    <2>2. CASE r.q.op = "terminal"
      <3>1. Unopened(r)
        BY <1>3, <2>2 DEF Unopened, Unmade
      <3>. QED BY <1>2, <3>1 DEF Unused
    <2>3. CASE r.q.op = "socket"
      <3>1. Ready(x)
        BY <1>1, <1>6, <2>3 DEF Unopened, Unmade
      <3>2. Stage(r) \in {"take", "allowed", "subscribe"}
        BY <1>1, <1>4, <2>3, <3>1 DEF Ready, Took, AfterIs, StepNames, Mapping
      <3>3. CASE Stage(r) = "take"
        BY <1>2, <2>3, <3>3, StreamIs DEF Unused
      <3>4. CASE Stage(r) # "take"
        <4>1. Unopened(r)
          BY <2>3, <3>2, <3>4 DEF Unopened, Ready, Took
        <4>. QED BY <1>2, <4>1 DEF Unused
      <3>. QED BY <3>3, <3>4
    <2>. QED BY <1>1, <1>6, <2>1, <2>2, <2>3 DEF Unopened, Ready, Took, Unmade
  <1>. QED BY <1>1, <1>2, <1>5, <1>6

\* No end of a stream leaves or enters the bridge.
LEMMA StreamEnds ==
    ASSUME Requests, NEW r \in live,
           \/ live' = live
           \/ Quits(r) /\ ~AtBridge(r)
           \/ \E x : Goes(r, x) /\ ~AtBridge(r) /\ ~AtBridge(x),
           Stage(r) = "take" /\ ~Quits(r) => pending[stream(r)] # Nothing, \A s \in Shells : pending'[s] # Nothing => Unused(s)
    PROVE  /\ \A s : Unused(s)' => Unused(s)
           /\ \A s : Bridged(s) => Bridged(s)'
           /\ \A s : Cut(s)' => \E y \in live : AtBridge(y) /\ stream(y) = s /\ ~agents'[StreamAgent(y)].online
  <1>1. \E L : /\ Renamed(L) /\ (\A y \in L : Unopened(y) => Unused(stream(y)))
               /\ (\A y \in live : AtBridge(y) => y \in L) /\ (\A y \in L : AtBridge(y) => y \in live)
    <2>1. \A y \in live : Unopened(y) => Unused(stream(y))
      BY DEF Unused
    <2>2. CASE live' = live
      BY <2>1, <2>2, Renaming
    <2>3. CASE Quits(r) /\ ~AtBridge(r)
      BY <2>1, <2>3, Renaming
    <2>4. ASSUME NEW x, Goes(r, x), ~AtBridge(r), ~AtBridge(x), ~Quits(r)
          PROVE  \E L : /\ Renamed(L) /\ (\A y \in L : Unopened(y) => Unused(stream(y)))
                        /\ (\A y \in live : AtBridge(y) => y \in L) /\ (\A y \in L : AtBridge(y) => y \in live)
      <3> DEFINE L == (live \ {r}) \cup {x}
      <3>1. Renamed(L)
        BY <2>4, Renaming
      <3>2. Unopened(x) => Unused(stream(x))
        BY <2>4, UnopenedIs
      <3>. QED BY <2>1, <2>4, <3>1, <3>2
    <2>. QED BY <2>2, <2>3, <2>4
  <1>2. PICK L : /\ Renamed(L) /\ (\A y \in L : Unopened(y) => Unused(stream(y)))
                 /\ (\A y \in live : AtBridge(y) => y \in L) /\ (\A y \in L : AtBridge(y) => y \in live)
    BY <1>1
  <1>3. /\ \A s : Unused(s)' => Unused(s)
        /\ \A y \in L : AtBridge(y) => Bridged(stream(y))'
        /\ \A s : Cut(s)' => \E y \in L : AtBridge(y) /\ stream(y) = s /\ ~agents'[StreamAgent(y)].online
    BY <1>2, Streaming
  <1>4. \A s : Bridged(s) => Bridged(s)'
    BY <1>2, <1>3 DEF Bridged
  <1>. QED BY <1>2, <1>3, <1>4

\* So it is, nothing happens to the Agent's frames and sessions, and what comes from it is forgotten if anything.
LEMMA SessionsPlain ==
    ASSUME EntitledInv, SessionsInv, NEW r \in live,
           \/ live' = live
           \/ Quits(r) /\ ~AtBridge(r)
           \/ \E x : Goes(r, x) /\ ~AtBridge(r) /\ ~AtBridge(x),
           UNCHANGED <<down, sess, silent>>, \A a \in Agents : agents[a].online => agents'[a].online,
           UNCHANGED up \/ (up' \in [Streams -> Ups] /\ \A s \in Streams : up'[s] \in {up[s], <<>>}),
           Stage(r) = "take" /\ ~Quits(r) => pending[stream(r)] # Nothing, \A s \in Shells : pending'[s] # Nothing => Unused(s)
    PROVE  SessionsInv'
  <1>0. Requests
    BY DEF EntitledInv
  <1>1. /\ \A s : Unused(s)' => Unused(s)
        /\ \A s : Bridged(s) => Bridged(s)'
        /\ \A s : Cut(s)' => \E y \in live : AtBridge(y) /\ stream(y) = s /\ ~agents'[StreamAgent(y)].online
    BY <1>0, StreamEnds
  <1>2. ASSUME NEW s \in Streams PROVE Fine(Standing(s)', down'[s], up'[s], sess'[s])
    <2>1. Cut(s)' => Cut(s)
      BY <1>0, <1>1, BridgeAgent DEF Cut, Online
    <2>2. Fine(Standing(s), down[s], up[s], sess[s])
      BY DEF SessionsInv
    <2>3. Fine(Standing(s)', down[s], up[s], sess[s])
      BY <1>1, <2>1, <2>2, FineMove, StandingIs
    <2>4. up'[s] \in {up[s], <<>>}
      OBVIOUS
    <2>. QED BY <2>3, <2>4, FineSilenced
  <1>3. up' \in [Streams -> Ups]
    BY DEF SessionsInv
  <1>. QED BY <1>2, <1>3 DEF SessionsInv

LEMMA NoBridge ==
    ASSUME EntitledInv, NEW r \in live, Moved(r), Stage(r) \notin {"open", "bridge"}, Stage(r) = "take" /\ ~Quits(r) => pending[stream(r)] # Nothing
    PROVE  \/ live' = live
           \/ Quits(r) /\ ~AtBridge(r)
           \/ \E x : Goes(r, x) /\ ~AtBridge(r) /\ ~AtBridge(x)
  <1>1. Requests /\ ~AtBridge(r)
    BY DEF EntitledInv, AtBridge
  <1>2. ASSUME NEW x, Goes(r, x), ~Quits(r) PROVE ~AtBridge(x)
    BY <1>1, <1>2, UnopenedIs
  <1>. QED BY <1>1, <1>2 DEF Moved

\* Steps that are not about frames.
LEMMA SessionsRead ==
    ASSUME EntitledInv, EntitledInv', SessionsInv, NEW r \in live,
           \/ FindMapping(r) \/ FindNatAgent(r) \/ FindActiveNatAgent(r) \/ FindPort(r) \/ ensure_terminal_agent_active(r)
           \/ ShowsMapping(r) \/ ListsMappings(r) \/ list_runtime_nat_mappings(r) \/ ReachesAgentIo(r)
           \/ CreateMapping(r) \/ UpdateMapping(r) \/ DeleteMapping(r) \/ BanAgent(r)
           \/ (UNCHANGED remoteVars /\ (Authenticated(r, Scopes(r.q.op)) \/ AsksForCode(r) \/ Responds(r) \/ Change(r)))
    PROVE  SessionsInv'
  <1>0. Typed /\ Requests /\ Sound(r)
    BY DEF EntitledInv, Requests
  <1>1. Moved(r)
    BY <1>0, ReadingSteps, ShowingSteps, StreamSteps, WritingSteps, AuthGo, OtherSteps, AdvancesMoved DEF Moved
  <1>2. UNCHANGED remoteVars
    BY DEF FindMapping, FindNatAgent, FindActiveNatAgent, FindPort, ensure_terminal_agent_active, ShowsMapping, ListsMappings,
           list_runtime_nat_mappings, ReachesAgentIo, CreateMapping, UpdateMapping, DeleteMapping, AndReads, Writes, BanAgent
  <1>3. UNCHANGED <<down, up, sess, silent, pending>>
    BY <1>2 DEF remoteVars, streams, frames
  <1>4. \/ At(r, "get") \/ At(r, "nat_agent") \/ At(r, "nat_active") \/ At(r, "port") \/ At(r, "allowed") \/ At(r, "mapping")
        \/ At(r, "mappings") \/ At(r, "runtime") \/ At(r, "reach") \/ At(r, "insert") \/ At(r, "update") \/ At(r, "remove")
        \/ At(r, "auth") \/ At(r, "totp") \/ r.todo = <<>> \/ At(r, "change") \/ At(r, "ban")
    BY DEF FindMapping, FindNatAgent, FindActiveNatAgent, FindPort, ensure_terminal_agent_active, ShowsMapping, ListsMappings,
           list_runtime_nat_mappings, ReachesAgentIo, CreateMapping, UpdateMapping, DeleteMapping, Authenticated, AsksForCode,
           Responds, Change, BanAgent
  <1>5. Stage(r) \notin {"open", "bridge", "take"}
    BY <1>4, AtIs DEF Stage
  <1>6. ASSUME NEW a \in Agents, agents[a].online PROVE agents'[a].online
    <2>1. agents \in [Agents -> AgentRows] /\ r.q.agent \in Agents
      BY <1>0 DEF Typed, Sound, IsRequest
    <2>2. CASE UNCHANGED agents
      BY <1>6, <2>2
    <2>3. CASE BanAgent(r)
      BY <1>6, <2>1, <2>3 DEF BanAgent, AgentRows
    <2>4. CASE Change(r)
      <3>1. At(r, "change") /\ Stage(r) = "change" /\ r.todo # <<>>
        BY <2>4, AtIs DEF Change
      <3>2. r.q.op \in {"role", "leave", "owner"}
        BY <1>0, <3>1, OpAt DEF AfterIs
      <3>. QED BY <1>6, <2>1, <2>4, <3>2 DEF Change, AgentRows, tables
    <2>5. UNCHANGED agents \/ BanAgent(r) \/ Change(r)
      BY DEF FindMapping, FindNatAgent, FindActiveNatAgent, FindPort, ensure_terminal_agent_active, ShowsMapping, ListsMappings,
             list_runtime_nat_mappings, ReachesAgentIo, CreateMapping, UpdateMapping, DeleteMapping, AndReads, Writes, Reads,
             Authenticated, AsksForCode, Responds, tables
    <2>. QED BY <2>2, <2>3, <2>4, <2>5
  <1>7. \A s \in Shells : pending'[s] # Nothing => Unused(s)
    BY <1>3 DEF Unused
  <1>. QED BY <1>1, <1>3, <1>5, <1>6, <1>7, NoBridge, SessionsPlain

LEMMA SessionsOther ==
    ASSUME EntitledInv, EntitledInv', SessionsInv, NEW r \in live,
           \/ LoadMappings(r) \/ RetainListeners(r) \/ start_listener(r) \/ ListListener(r) \/ DropRequest(r)
           \/ Accept(r) \/ ReadPolicy(r) \/ CountTunnels(r) \/ record_source_connection_in_map(r) \/ record_nat_connection(r)
           \/ ReserveTunnel(r) \/ SubscribeStream(r) \/ ReleaseTunnel(r) \/ record_nat_window_bytes(r)
    PROVE  SessionsInv'
  <1>0. Typed /\ Requests /\ Sound(r)
    BY DEF EntitledInv, Requests
  <1>1. Moved(r)
    BY <1>0, LoadsGo, ListingSteps, StartsGo, AcceptingSteps, StreamSteps, OtherSteps, AdvancesMoved DEF Moved, Looked
  <1>2. UNCHANGED <<frames, pending, tables>>
    <2>1. CASE LoadMappings(r) \/ RetainListeners(r) \/ ListListener(r) \/ DropRequest(r) \/ Accept(r)
      BY <2>1 DEF LoadMappings, RetainListeners, ListListener, DropRequest, Accept, streams, Reads
    <2>2. CASE start_listener(r)
      BY <2>2 DEF start_listener, remoteVars, streams, Reads
    <2>3. CASE ReadPolicy(r) \/ CountTunnels(r) \/ record_source_connection_in_map(r) \/ record_nat_connection(r)
      BY <2>3 DEF ReadPolicy, CountTunnels, record_source_connection_in_map, record_nat_connection, streams, Reads
    <2>4. CASE ReserveTunnel(r) \/ SubscribeStream(r) \/ ReleaseTunnel(r) \/ record_nat_window_bytes(r)
      BY <2>4 DEF ReserveTunnel, SubscribeStream, ReleaseTunnel, record_nat_window_bytes, streams, Reads
    <2>. QED BY <2>1, <2>2, <2>3, <2>4
  <1>3. UNCHANGED <<down, up, sess, silent, agents, pending>>
    BY <1>2 DEF frames, tables
  <1>4. Stage(r) \notin {"open", "bridge", "take"}
    <2>1. CASE DropRequest(r)
      <3>1. r.todo # <<>> /\ r.q.op \in Mapping \cup {"terminal"}
        BY <2>1 DEF DropRequest, Mapping
      <3>. QED BY <1>0, <3>1, OpAt DEF AfterIs, Mapping
    <2>2. CASE ~DropRequest(r)
      <3>1. \/ At(r, "load") \/ At(r, "retain") \/ At(r, "start") \/ At(r, "list") \/ At(r, "accept") \/ At(r, "policy")
            \/ At(r, "room") \/ At(r, "track") \/ At(r, "record") \/ At(r, "reserve") \/ At(r, "subscribe") \/ At(r, "release")
            \/ At(r, "bytes")
        BY <2>2 DEF LoadMappings, RetainListeners, start_listener, ListListener, Accept, ReadPolicy, CountTunnels,
                    record_source_connection_in_map, record_nat_connection, ReserveTunnel, SubscribeStream, ReleaseTunnel,
                    record_nat_window_bytes
      <3>. QED BY <3>1, AtIs
    <2>. QED BY <2>1, <2>2
  <1>5. \A s \in Shells : pending'[s] # Nothing => Unused(s)
    BY <1>3 DEF Unused
  <1>. QED BY <1>1, <1>3, <1>4, <1>5, NoBridge, SessionsPlain

LEMMA SessionsPending ==
    ASSUME EntitledInv, EntitledInv', BoundedInv, SessionsInv, NEW r \in live, CreatePending(r) \/ take_for_auth(r) \/ NextWindow(r)
    PROVE  SessionsInv'
  <1>0. Typed /\ Requests /\ Sound(r) /\ PendingInv
    BY DEF EntitledInv, Requests, BoundedInv
  <1>1. Moved(r)
    BY <1>0, StreamSteps, OtherSteps, AdvancesMoved DEF Moved
  <1>2. UNCHANGED <<down, up, sess, silent, agents>>
    BY DEF CreatePending, take_for_auth, NextWindow, frames, Reads, tables
  <1>3. Stage(r) \in {"pend", "take", "tick"} /\ r.todo # <<>>
    BY AtIs DEF CreatePending, take_for_auth, NextWindow
  <1>4. /\ Stage(r) = "pend" => CreatePending(r) /\ r.q.op = "terminal"
        /\ Stage(r) = "take" => take_for_auth(r) /\ r.q.op = "socket"
        /\ Stage(r) = "tick" => NextWindow(r)
    <2>1. r.q.op = r.q.op /\ \E t : AfterIs(r.q.op, Stage(r), t)
      BY <1>0, <1>3, OpAt
    <2>2. (CreatePending(r) => Stage(r) = "pend") /\ (take_for_auth(r) => Stage(r) = "take") /\ (NextWindow(r) => Stage(r) = "tick")
      BY AtIs DEF CreatePending, take_for_auth, NextWindow
    <2>. QED BY <2>1, <2>2 DEF AfterIs
  <1>5. pending \in [Shells -> Creds \cup {Nothing}] /\ Nothing \notin Creds /\ r.q.by \in Creds
    BY <1>0, TransfersAssumption DEF PendingInv, Sound, IsRequest
  <1>6. Stage(r) = "take" /\ ~Quits(r) => pending[stream(r)] # Nothing
    BY <1>4, <1>5, EndsQuits DEF take_for_auth
  <1>7. ASSUME NEW s \in Shells, pending'[s] # Nothing PROVE Unused(s)
    <2>1. CASE Stage(r) = "pend"
      <3>1. r.q.op = "terminal" /\ stream(r) \in Shells
        BY <1>0, <1>4, <2>1, StreamIs
      <3>2. Unused(stream(r))
        BY <2>1, <3>1 DEF Unused, Unopened, Unmade
      <3>3. s # stream(r) => pending'[s] = pending[s]
        BY <1>4, <1>5, <2>1 DEF CreatePending
      <3>. QED BY <1>7, <3>2, <3>3 DEF Unused
    <2>2. CASE Stage(r) = "take"
      <3>1. pending'[s] = pending[s]
        BY <1>4, <1>5, <1>7, <2>2 DEF take_for_auth
      <3>. QED BY <1>7, <3>1 DEF Unused
    <2>3. CASE Stage(r) = "tick"
      BY <1>4, <1>7, <2>3 DEF NextWindow
    <2>. QED BY <1>3, <2>1, <2>2, <2>3
  <1>. QED BY <1>1, <1>2, <1>3, <1>6, <1>7, NoBridge, SessionsPlain

LEMMA SessionsEnds == ASSUME EntitledInv, EntitledInv', SessionsInv, NEW r \in live, UnsubscribeStream(r) PROVE SessionsInv'
  <1>0. Typed /\ Requests /\ Sound(r)
    BY DEF EntitledInv, Requests
  <1>1. Moved(r)
    BY <1>0, StreamSteps, AdvancesMoved DEF Moved
  <1>2. UNCHANGED <<down, sess, silent, agents, pending>> /\ up' = [up EXCEPT ![stream(r)] = <<>>]
    BY DEF UnsubscribeStream, Reads, tables
  <1>3. Stage(r) \notin {"open", "bridge", "take"}
    BY AtIs DEF UnsubscribeStream
  <1>4. up' \in [Streams -> Ups] /\ \A s \in Streams : up'[s] \in {up[s], <<>>}
    BY <1>2, Words DEF SessionsInv
  <1>5. \A s \in Shells : pending'[s] # Nothing => Unused(s)
    BY <1>2 DEF Unused
  <1>. QED BY <1>1, <1>2, <1>3, <1>4, <1>5, NoBridge, SessionsPlain

\* An Agent that goes takes all frames and sessions with it; one that comes finds none.
LEMMA SessionsFlip == ASSUME EntitledInv, EntitledInv', SessionsInv, NEW r \in live, FlipAgent(r) PROVE SessionsInv'
  <1>0. Typed /\ Requests /\ Sound(r) /\ r.q.agent \in Agents
    BY DEF EntitledInv, Requests, Sound, IsRequest
  <1>1. Moved(r)
    BY <1>0, OtherSteps, AdvancesMoved
  <1>2. UNCHANGED <<silent, pending>>
    BY DEF FlipAgent
  <1>3. Stage(r) \notin {"open", "bridge", "take"}
    BY AtIs DEF FlipAgent
  <1>4. \A s \in Shells : pending'[s] # Nothing => Unused(s)
    BY <1>2 DEF Unused
  <1>5. CASE ~agents[r.q.agent].online
    <2>1. UNCHANGED <<down, up, sess>>
      BY <1>5 DEF FlipAgent
    <2>2. \A a \in Agents : agents[a].online => agents'[a].online
      BY <1>0, <1>5 DEF FlipAgent, Typed, AgentRows
    <2>. QED BY <1>1, <1>2, <1>3, <1>4, <2>1, <2>2, NoBridge, SessionsPlain
  <1>6. CASE agents[r.q.agent].online
    <2>1. CleanUp
      BY <1>6 DEF FlipAgent
    <2>2. \A s : Unused(s)' => Unused(s)
      BY <1>0, <1>1, <1>3, <1>4, NoBridge, StreamEnds
    <2>3. \A s \in Streams : up'[s] \in {up[s], <<>>}
      BY <2>1 DEF CleanUp
    <2>4. ASSUME NEW s \in Streams PROVE Fine(Standing(s)', down'[s], up'[s], sess'[s])
      <3>1. down'[s] = <<>> /\ sess'[s] = "none"
        BY <2>1 DEF CleanUp
      <3>2. Unused(s)' => up'[s] = <<>>
        BY <2>2, <2>3, StandingIs DEF SessionsInv, Fine
      <3>. QED BY <3>1, <3>2, StandingIs, Words DEF Fine, Working
    <2>5. down' \in [Streams -> Downs] /\ up' \in [Streams -> Ups] /\ sess' \in [Streams -> Keeping]
      BY <2>1, Words DEF CleanUp, SessionsInv, Keeping
    <2>. QED BY <2>4, <2>5 DEF SessionsInv
  <1>. QED BY <1>5, <1>6

-----------------------------------------------------------------------------
(* At the ends of a stream. *)

\* A request at the bridge, or about to be, becomes x: its own stream, and the others.
LEMMA EndMoves ==
    ASSUME Requests, PendingInv, NEW r \in live, r.q.op \in {"connect", "socket"}, Stage(r) \in {"open", "bridge"},
           UNCHANGED <<agents, pending>>, NEW x, Renamed((live \ {r}) \cup {x}), x.q = r.q, ~Unopened(x)
    PROVE  /\ ~Unused(stream(r))'
           /\ AtBridge(x) => Bridged(stream(r))'
           /\ Cut(stream(r))' => AtBridge(x) /\ ~Online(x)
           /\ \A s : s # stream(r) => (Unused(s)' => Unused(s)) /\ (Bridged(s) => Bridged(s)') /\ (Cut(s)' => Cut(s))
  <1> DEFINE L == (live \ {r}) \cup {x}
  <1>1. stream(x) = stream(r) /\ x \in L /\ (\A y \in L : y = x \/ (y \in live /\ y # r))
    BY DEF stream
  <1>2. Renamed(L)
    OBVIOUS
  <1>3. \A y \in live : y # r => y \in L
    OBVIOUS
  <1> HIDE DEF L
  <1>4. \A s \in Shells : pending'[s] # Nothing => Unused(s)
    BY DEF Unused
  <1>5. \A y \in L : Unopened(y) => Unused(stream(y))
    BY <1>1 DEF Unused
  <1>6. /\ \A s : Unused(s)' => Unused(s)
        /\ \A y \in L : AtBridge(y) => Bridged(stream(y))'
        /\ \A s : Cut(s)' => \E y \in L : AtBridge(y) /\ stream(y) = s /\ ~agents'[StreamAgent(y)].online
    BY <1>2, <1>4, <1>5, Streaming
  <1>7. ASSUME Unused(stream(r))' PROVE FALSE
    <2>1. CASE stream(r) \in Shells /\ pending'[stream(r)] # Nothing
      BY <2>1, Alone
    <2>2. ASSUME NEW z \in live', Unopened(z), stream(z) = stream(r) PROVE FALSE
      <3>1. PICK y \in L : Same(y, z)
        BY <1>2 DEF Renamed
      <3>2. Unopened(y) /\ stream(y) = stream(r)
        BY <2>2, <3>1, SameStream
      <3>. QED BY <1>1, <3>2, Alone
    <2>. QED BY <1>7, <2>1, <2>2 DEF Unused
  <1>8. Cut(stream(r))' => AtBridge(x) /\ ~Online(x)
    BY <1>1, <1>6, Alone DEF Online
  <1>9. ASSUME NEW s, s # stream(r) PROVE (Bridged(s) => Bridged(s)') /\ (Cut(s)' => Cut(s))
    <2>1. Bridged(s) => Bridged(s)'
      BY <1>3, <1>6, <1>9 DEF Bridged
    <2>2. Cut(s)' => Cut(s)
      BY <1>1, <1>6, <1>9 DEF Cut, Online
    <2>. QED BY <2>1, <2>2
  <1>. QED BY <1>1, <1>6, <1>7, <1>8, <1>9

\* What is left to see to is the stream itself.
LEMMA OneStream ==
    ASSUME SessionsInv, NEW t \in Streams, silent \subseteq silent', \A s : s # t /\ s \in silent' => s \in silent,
           \A s : s # t => (Unused(s)' => Unused(s)) /\ (Bridged(s) => Bridged(s)') /\ (Cut(s)' => Cut(s)),
           NEW d, NEW u, NEW e, d \in Downs, u \in Ups, e \in Keeping,
           down' = [down EXCEPT ![t] = d], up' = [up EXCEPT ![t] = u], sess' = [sess EXCEPT ![t] = e], Fine(Standing(t)', d, u, e)
    PROVE  SessionsInv'
  <1>1. down' \in [Streams -> Downs] /\ up' \in [Streams -> Ups] /\ sess' \in [Streams -> Keeping]
    BY DEF SessionsInv
  <1>2. down'[t] = d /\ up'[t] = u /\ sess'[t] = e
    BY DEF SessionsInv
  <1>3. ASSUME NEW s \in Streams, s # t PROVE Fine(Standing(s)', down'[s], up'[s], sess'[s])
    <2>1. down'[s] = down[s] /\ up'[s] = up[s] /\ sess'[s] = sess[s] /\ Fine(Standing(s), down[s], up[s], sess[s])
      BY <1>3 DEF SessionsInv
    <2>2. Fine(Standing(s)', down[s], up[s], sess[s])
      BY <1>3, <2>1, FineMove, StandingIs
    <2>. QED BY <2>1, <2>2
  <1>. QED BY <1>1, <1>2, <1>3 DEF SessionsInv

LEMMA SessionsOpen == ASSUME EntitledInv, EntitledInv', BoundedInv, SessionsInv, NEW r \in live, SendOpen(r) PROVE SessionsInv'
  <1>0. Typed /\ Requests /\ Sound(r) /\ PendingInv
    BY DEF EntitledInv, Requests, BoundedInv
  <1>1. At(r, "open") /\ Stage(r) = "open" /\ r.todo # <<>> /\ UNCHANGED <<agents, up, sess, silent, pending>>
    BY AtIs DEF SendOpen, still, tables
  <1>2. r.q.op \in {"connect", "socket"} /\ ~AtBridge(r)
    <2>1. r.q.op \in {"connect", "socket"}
      BY <1>0, <1>1, OpAt DEF AfterIs
    <2>. QED BY <1>1, <2>1 DEF AtBridge
  <1>3. CASE ~Online(r)
    <2>1. PICK x : Goes(r, x) /\ Stage(x) = "unsubscribe"
      BY <1>0, <1>3, OpenGo
    <2>2. UNCHANGED down /\ ~AtBridge(x)
      BY <1>3, <2>1 DEF SendOpen, Tells, AtBridge
    <2>3. \A s \in Shells : pending'[s] # Nothing => Unused(s)
      BY <1>1 DEF Unused
    <2>. QED BY <1>1, <1>2, <2>1, <2>2, <2>3, SessionsPlain
  <1>4. CASE Online(r)
    <2> DEFINE x == Next_(r)
    <2>1. Proceeds(r) /\ down' = [down EXCEPT ![stream(r)] = @ \o <<"open">>]
      BY <1>4 DEF SendOpen, Tells
    <2>2. x.q = r.q /\ x.got = r.got /\ x.todo = Tail(r.todo) /\ Shaped(x)
      BY <1>0 DEF Next_, Shaped, Fields, Sound
    <2>3. live' = Noted((live \ {r}) \cup {x})
      BY <2>1 DEF Proceeds, Goto
    <2> HIDE DEF x
    <2>4. AtBridge(x) /\ ~Unopened(x)
      <3>1. AfterIs(r.q.op, Stage(r), Stage(x))
        BY <1>0, <1>1, <2>2, NextIs
      <3>2. Stage(x) = "bridge"
        BY <1>1, <1>2, <3>1 DEF AfterIs, Mapping
      <3>. QED BY <1>2, <2>2, <3>2 DEF AtBridge, Unopened, Ready, Unmade
    <2>5. Renamed((live \ {r}) \cup {x})
      <3>1. \A y \in (live \ {r}) \cup {x} : Shaped(y)
        BY <1>0, <2>2 DEF Requests, Sound
      <3>. QED BY <2>3, <3>1, Noting DEF Renamed
    <2>6. /\ ~Unused(stream(r))'
          /\ AtBridge(x) => Bridged(stream(r))'
          /\ Cut(stream(r))' => AtBridge(x) /\ ~Online(x)
          /\ \A s : s # stream(r) => (Unused(s)' => Unused(s)) /\ (Bridged(s) => Bridged(s)') /\ (Cut(s)' => Cut(s))
      BY <1>0, <1>1, <1>2, <2>2, <2>4, <2>5, EndMoves
    <2>7. Online(x)
      BY <1>4, <2>2 DEF Online, StreamAgent, IsTunnel
    <2>8. Unopened(r) /\ Unused(stream(r)) /\ stream(r) \in Streams
      BY <1>0, <1>1, <1>2, StreamIs DEF Unopened, Unused, Ready, Took
    <2> DEFINE t == stream(r)
               d == down[t] \o <<"open">>
    <2>9. Fine(Standing(t), down[t], up[t], sess[t]) /\ up[t] \in Ups /\ sess[t] \in Keeping
      BY <2>8 DEF SessionsInv
    <2>10. d \in Downs /\ Fine(Standing(t)', d, up[t], sess[t])
      BY <2>4, <2>6, <2>7, <2>8, <2>9, StandingIs, FineOpened
    <2>11. down' = [down EXCEPT ![t] = d] /\ up' = [up EXCEPT ![t] = up[t]] /\ sess' = [sess EXCEPT ![t] = sess[t]]
      BY <1>1, <2>1, <2>8 DEF SessionsInv
    <2> HIDE DEF d
    <2>. QED BY <1>1, <2>6, <2>8, <2>9, <2>10, <2>11, OneStream
  <1>. QED BY <1>3, <1>4

\* What the server sends to the Agent at the bridge, and what it has sent once it leaves with a Close.
Told == {<<"data">>, <<"close">>, <<"data", "close">>}
Tell(r, d) == d = down[stream(r)] \/ (Online(r) /\ \E fs \in Told : d = down[stream(r)] \o fs)
Closes(r, d) == Online(r) /\ \E fs \in Told : Has(fs, "close") /\ d = down[stream(r)] \o fs
Heard(r, u) == u = up[stream(r)] \/ (up[stream(r)] # <<>> /\ u = Tail(up[stream(r)]))
\* A request leaves the bridge for a reason.
Reason(r, d) ==
    \/ stream(r) \in silent' \/ Closes(r, d) \/ ~Online(r)
    \/ up[stream(r)] # <<>> /\ Head(up[stream(r)]) = "close" /\ d = down[stream(r)]
BridgeDoes(r, d, u) ==
    /\ down' = [down EXCEPT ![stream(r)] = d] /\ up' = [up EXCEPT ![stream(r)] = u] /\ Tell(r, d) /\ Heard(r, u)
    /\ silent' = silent \/ silent' = silent \cup {stream(r)}
    /\ live' = live \/ ((\E out : Leaves(r, out)) /\ Reason(r, d))

LEMMA DoesTell ==
    ASSUME SessionsInv, NEW r, stream(r) \in Streams, NEW fs \in Told, Tells(r, fs)
    PROVE  \E d : down' = [down EXCEPT ![stream(r)] = d] /\ Tell(r, d) /\ (Has(fs, "close") => Closes(r, d) \/ ~Online(r))
  <1> DEFINE t == stream(r)
  <1>1. CASE Online(r)
    <2>1. down' = [down EXCEPT ![t] = down[t] \o fs]
      BY <1>1 DEF Tells
    <2>. QED BY <1>1, <2>1 DEF Tell, Closes
  <1>2. CASE ~Online(r)
    <2>1. down' = [down EXCEPT ![t] = down[t]]
      BY <1>2 DEF Tells, SessionsInv
    <2>. QED BY <1>2, <2>1 DEF Tell
  <1>. QED BY <1>1, <1>2

LEMMA BridgeDoing ==
    ASSUME SessionsInv, NEW r \in live, stream(r) \in Streams, Bridging(r)
    PROVE  \E d, u : BridgeDoes(r, d, u)
  <1> DEFINE t == stream(r)
  <1>1. /\ UNCHANGED down => down' = [down EXCEPT ![t] = down[t]]
        /\ UNCHANGED up => up' = [up EXCEPT ![t] = up[t]]
        /\ Tell(r, down[t]) /\ Heard(r, up[t])
    BY DEF SessionsInv, Tell, Heard
  <1>2. Has(<<"close">>, "close") /\ Has(<<"data", "close">>, "close") /\ {<<"data">>, <<"close">>, <<"data", "close">>} \subseteq Told
    BY Words DEF Told
  <1>3. ASSUME NEW out, CloseAnd(r, out), NEW u, up' = [up EXCEPT ![t] = u], Heard(r, u) PROVE \E d : BridgeDoes(r, d, u)
    <2>1. Tells(r, <<"close">>) /\ UNCHANGED silent /\ Leaves(r, out)
      BY <1>3 DEF CloseAnd
    <2>2. PICK d : down' = [down EXCEPT ![t] = d] /\ Tell(r, d) /\ (Closes(r, d) \/ ~Online(r))
      BY <1>2, <2>1, DoesTell
    <2>. QED BY <1>3, <2>1, <2>2 DEF BridgeDoes, Reason
  <1>4. ASSUME NEW out, Silently(r, out), NEW u, up' = [up EXCEPT ![t] = u], Heard(r, u) PROVE \E d : BridgeDoes(r, d, u)
    <2>1. silent' = silent \cup {t} /\ UNCHANGED down /\ Leaves(r, out)
      BY <1>4 DEF Silently
    <2>2. BridgeDoes(r, down[t], u)
      BY <1>1, <1>4, <2>1 DEF BridgeDoes, Reason
    <2>. QED BY <2>2
  <1>5. ASSUME UNCHANGED <<down, silent, live>>, NEW u, up' = [up EXCEPT ![t] = u], Heard(r, u) PROVE \E d : BridgeDoes(r, d, u)
    <2>1. BridgeDoes(r, down[t], u)
      BY <1>1, <1>5 DEF BridgeDoes
    <2>. QED BY <2>1
  <1>6. CASE ClientSends(r)
    <2>1. UNCHANGED up
      BY <1>6 DEF ClientSends
    <2>2. CASE IsTunnel(r) /\ ~Online(r)
      <3>1. UNCHANGED <<down, silent>> /\ Leaves(r, "failed")
        BY <1>6, <2>2 DEF ClientSends
      <3>2. BridgeDoes(r, down[t], up[t])
        BY <1>1, <2>1, <2>2, <3>1 DEF BridgeDoes, Reason
      <3>. QED BY <3>2
    <2>3. CASE Tells(r, <<"data", "close">>) /\ UNCHANGED silent /\ Leaves(r, "failed")
      <3>1. PICK d : down' = [down EXCEPT ![t] = d] /\ Tell(r, d) /\ (Closes(r, d) \/ ~Online(r))
        BY <1>2, <2>3, DoesTell
      <3>2. BridgeDoes(r, d, up[t])
        BY <1>1, <2>1, <2>3, <3>1 DEF BridgeDoes, Reason
      <3>. QED BY <3>2
    <2>4. CASE Tells(r, <<"data">>) /\ UNCHANGED <<silent, live>>
      <3>1. PICK d : down' = [down EXCEPT ![t] = d] /\ Tell(r, d)
        BY <1>2, <2>4, DoesTell
      <3>2. BridgeDoes(r, d, up[t])
        BY <1>1, <2>1, <2>4, <3>1 DEF BridgeDoes
      <3>. QED BY <3>2
    <2>5. \/ IsTunnel(r) /\ ~Online(r)
          \/ Tells(r, <<"data", "close">>) /\ UNCHANGED silent /\ Leaves(r, "failed")
          \/ Tells(r, <<"data">>) /\ UNCHANGED <<silent, live>>
      BY <1>6 DEF ClientSends
    <2>. QED BY <2>2, <2>3, <2>4, <2>5
  <1>7. CASE ClientCloses(r) \/ ClientFails(r) \/ TunnelTimesOut(r)
    <2>1. UNCHANGED up /\ \E out : CloseAnd(r, out) \/ Silently(r, out)
      BY <1>7 DEF ClientCloses, ClientFails, TunnelTimesOut
    <2>. QED BY <1>1, <1>3, <1>4, <2>1
  <1>8. CASE AgentFrameArrives(r)
    <2>1. CASE up[t] = <<>>
      <3>1. UNCHANGED up /\ Silently(r, "success")
        BY <1>8, <2>1 DEF AgentFrameArrives
      <3>. QED BY <1>1, <1>4, <3>1
    <2>2. CASE up[t] # <<>>
      <3>1. up' = [up EXCEPT ![t] = Tail(up[t])] /\ Heard(r, Tail(up[t]))
        BY <1>8, <2>2 DEF AgentFrameArrives, Heard
      <3>2. \/ UNCHANGED <<down, silent, live>>
            \/ \E out : CloseAnd(r, out) \/ Silently(r, out)
            \/ Head(up[t]) = "close" /\ UNCHANGED <<down, silent>> /\ Leaves(r, "success")
        BY <1>8, <2>2 DEF AgentFrameArrives
      <3>3. CASE Head(up[t]) = "close" /\ UNCHANGED <<down, silent>> /\ Leaves(r, "success")
        <4>1. BridgeDoes(r, down[t], Tail(up[t]))
          BY <1>1, <2>2, <3>1, <3>3 DEF BridgeDoes, Reason
        <4>. QED BY <4>1
      <3>. QED BY <1>3, <1>4, <1>5, <3>1, <3>2, <3>3
    <2>. QED BY <2>1, <2>2
  <1>. QED BY <1>6, <1>7, <1>8 DEF Bridging

LEMMA SessionsBridge == ASSUME EntitledInv, EntitledInv', BoundedInv, SessionsInv, NEW r \in live, Bridging(r) PROVE SessionsInv'
  <1> DEFINE t == stream(r)
             st == Standing(t)
  <1>0. Typed /\ Requests /\ Sound(r) /\ PendingInv
    BY DEF EntitledInv, Requests, BoundedInv
  <1>1. At(r, "bridge") /\ Stage(r) = "bridge" /\ r.todo # <<>> /\ (Advances(r) \/ live' = live)
    BY <1>0, BridgeSteps, AtIs
  <1>2. UNCHANGED <<agents, pending, sess>>
    BY DEF Bridging, ClientSends, ClientCloses, ClientFails, TunnelTimesOut, AgentFrameArrives, InBridge, Reads, tables, streams
  <1>3. r.q.op \in {"connect", "socket"} /\ AtBridge(r) /\ t \in Streams
    <2>1. r.q.op \in {"connect", "socket"}
      BY <1>0, <1>1, OpAt DEF AfterIs
    <2>. QED BY <1>0, <1>1, <2>1, StreamIs DEF AtBridge
  <1>4. PICK d, u : BridgeDoes(r, d, u)
    BY <1>3, BridgeDoing
  <1>5. /\ down' = [down EXCEPT ![t] = d] /\ up' = [up EXCEPT ![t] = u] /\ Tell(r, d) /\ Heard(r, u)
        /\ silent' = silent \/ silent' = silent \cup {t}
        /\ live' = live \/ Reason(r, d)
    BY <1>4 DEF BridgeDoes
  <1>6. \E x : /\ Renamed((live \ {r}) \cup {x}) /\ x.q = r.q /\ ~Unopened(x)
               /\ (x = r \/ (~AtBridge(x) /\ Reason(r, d)))
    <2>1. CASE live' = live
      <3>1. Renamed(live) /\ (live \ {r}) \cup {r} = live
        BY <1>0, <2>1, Renaming
      <3>. QED BY <1>1, <1>3, <3>1 DEF Unopened, Ready, Unmade
    <2>2. CASE live' # live
      <3>1. PICK x : Goes(r, x)
        BY <1>1, <2>2 DEF Advances
      <3>2. x.q = r.q /\ <<r.q.op, Stage(r), Stage(x)>> \in Moves /\ Renamed((live \ {r}) \cup {x})
        BY <1>0, <3>1, Renaming DEF Goes, Follows
      <3>3. Stage(x) = "unsubscribe"
        BY <1>1, <1>3, <3>2, MovesIs DEF AfterIs, Mapping
      <3>4. ~Unopened(x) /\ ~AtBridge(x)
        BY <1>3, <3>2, <3>3 DEF Unopened, Ready, Unmade, AtBridge
      <3>. QED BY <1>5, <2>2, <3>2, <3>4
    <2>. QED BY <2>1, <2>2
  <1>7. PICK x : /\ Renamed((live \ {r}) \cup {x}) /\ x.q = r.q /\ ~Unopened(x)
                 /\ (x = r \/ (~AtBridge(x) /\ Reason(r, d)))
    BY <1>6
  <1>8. /\ ~Unused(t)'
        /\ AtBridge(x) => Bridged(t)'
        /\ Cut(t)' => AtBridge(x) /\ ~Online(x)
        /\ \A s : s # t => (Unused(s)' => Unused(s)) /\ (Bridged(s) => Bridged(s)') /\ (Cut(s)' => Cut(s))
    BY <1>0, <1>1, <1>2, <1>3, <1>7, EndMoves
  <1>9. Fine(st, down[t], up[t], sess[t]) /\ down[t] \in Downs /\ up[t] \in Ups /\ sess[t] \in Keeping
    BY <1>3 DEF SessionsInv
  <1>10. u \in Ups /\ Fine(st, down[t], u, sess[t])
    <2>1. CASE u = up[t]
      BY <1>9, <2>1
    <2>2. CASE up[t] # <<>> /\ u = Tail(up[t])
      <3> HIDE DEF st, t
      <3>1. Tail(up[t]) \in Ups /\ Fine(st, down[t], Tail(up[t]), sess[t])
        BY <1>9, <2>2, FineHeard
      <3>. QED BY <2>2, <3>1
    <2>. QED BY <1>5, <2>1, <2>2 DEF Heard
  <1>11. ~Online(r) => sess[t] = "none" /\ down[t] = <<>> /\ d = down[t]
    <2>1. ~Online(r) => "cut" \in st
      BY <1>3, StandingIs DEF Cut
    <2>. QED BY <1>5, <1>9, <2>1 DEF Fine, Tell
  <1>12. /\ "unused" \notin Standing(t)' /\ ("quiet" \in st => "quiet" \in Standing(t)') /\ (t \in silent' => "quiet" \in Standing(t)')
         /\ x = r => "bridged" \in Standing(t)'
         /\ "cut" \in Standing(t)' => x = r /\ ~Online(r) /\ "cut" \in st
    BY <1>3, <1>5, <1>7, <1>8, StandingIs DEF Cut
  <1> DEFINE su == Standing(t)'
  <1> HIDE DEF st, su
  <1>13. CASE d = down[t] /\ ~Closes(r, d)
    <2>1. x # r => "quiet" \in su \/ (sess[t] \notin Working /\ ~Has(down[t], "open"))
      <3>1. CASE t \in silent'
        BY <1>12, <3>1 DEF su
      <3>2. CASE ~Online(r)
        BY <1>11, <3>2, Words DEF Working
      <3>3. CASE up[t] # <<>> /\ Head(up[t]) = "close"
        BY <1>9, <3>3, FineHeard
      <3>. QED BY <1>7, <1>13, <3>1, <3>2, <3>3 DEF Reason
    <2>2. Fine(su, down[t], u, sess[t])
      BY <1>10, <1>12, <2>1, FineMove DEF su
    <2>. QED BY <1>2, <1>3, <1>5, <1>8, <1>9, <1>10, <1>13, <2>2, OneStream DEF su, SessionsInv
  <1>14. ASSUME NEW fs \in Told, Online(r), d = down[t] \o fs, Closes(r, d) => Has(fs, "close"), d = down[t] => Closes(r, d)
         PROVE  SessionsInv'
    <2>1. fs \in Downs /\ ~Has(fs, "open")
      BY Words DEF Told
    <2>2. x # r => "quiet" \in su \/ Has(fs, "close")
      <3>1. x # r => t \in silent' \/ Closes(r, d)
        BY <1>7, <1>14 DEF Reason
      <3>. QED BY <1>12, <1>14, <3>1 DEF su
    <2>3. d \in Downs /\ Fine(su, d, u, sess[t])
      BY <1>9, <1>10, <1>12, <1>14, <2>1, <2>2, FineTold DEF su
    <2>. QED BY <1>2, <1>3, <1>5, <1>8, <1>9, <1>10, <2>3, OneStream DEF su, SessionsInv
  <1>15. CASE Closes(r, d)
    BY <1>14, <1>15 DEF Closes
  <1>16. CASE ~Closes(r, d) /\ d # down[t]
    BY <1>5, <1>14, <1>16 DEF Tell
  <1>. QED BY <1>13, <1>15, <1>16

-----------------------------------------------------------------------------
(* The Agent. *)

Said == {<<"ready">>, <<"data">>, <<"close">>, <<"error">>, <<"error", "close">>, <<>>}
\* The Agent takes a frame, or does something for a session it has; what it keeps becomes e and fs is sent.
AgentTakes(s, e) ==
    /\ down[s] # <<>> /\ down' = [down EXCEPT ![s] = Tail(down[s])]
    /\ e \in Working => Head(down[s]) = "open" \/ (sess[s] \in Working /\ Head(down[s]) # "close")
AgentActs(s, e) == UNCHANGED down /\ sess[s] # "none" /\ (e \in Working => sess[s] \in Working)
AgentDoes(s, e, fs) ==
    /\ AgentTakes(s, e) \/ AgentActs(s, e)
    /\ e \in Keeping /\ sess' = [sess EXCEPT ![s] = e]
    /\ fs \in Said /\ (Has(fs, "close") => e \notin Working) /\ (UNCHANGED up \/ FromAgent(s, fs))

LEMMA SayingIs ==
    /\ ~Has(<<>>, "close") /\ ~Has(<<"ready">>, "close") /\ ~Has(<<"data">>, "close") /\ ~Has(<<"error">>, "close")
    /\ {<<"ready">>, <<"data">>, <<"close">>, <<"error">>, <<"error", "close">>, <<>>} \subseteq Said
    /\ "none" \notin Working /\ "cut" \notin Working /\ "exited" \notin Working /\ "deaf" \notin Working
    /\ {"nat", "mute", "deaf", "shell", "exited", "opening", "cut", "none"} = Keeping
  BY Words DEF Said, Working, Keeping, Kept, Opening

LEMMA AgentDoing ==
    ASSUME SessionsInv, NEW s \in Streams, AgentStep(s)
    PROVE  \E e, fs : AgentDoes(s, e, fs)
  <1>0. sess[s] \in Keeping /\ (UNCHANGED sess => sess' = [sess EXCEPT ![s] = sess[s]])
    BY DEF SessionsInv
  <1>1. ASSUME NEW f, Takes(s, f)
        PROVE  down[s] # <<>> /\ down' = [down EXCEPT ![s] = Tail(down[s])] /\ Head(down[s]) = f /\ sess[s] \notin Opening
    BY <1>1 DEF Takes, Free
  <1>2. CASE handle_nat_control_message(s) \/ handle_new_terminal_session(s)
    <2>1. Takes(s, "open")
      BY <1>2 DEF handle_nat_control_message, handle_new_terminal_session
    <2>2. \/ \E e \in {"opening", "shell"} : Becomes(s, e) /\ UNCHANGED up
          \/ UNCHANGED sess /\ FromAgent(s, <<"error">>)
      BY <1>2 DEF handle_nat_control_message, handle_new_terminal_session
    <2>3. CASE UNCHANGED sess /\ FromAgent(s, <<"error">>)
      <3>1. AgentDoes(s, sess[s], <<"error">>)
        BY <1>0, <1>1, <2>1, <2>3, SayingIs DEF AgentDoes, AgentTakes
      <3>. QED BY <3>1
    <2>4. ASSUME NEW e \in {"opening", "shell"}, Becomes(s, e), UNCHANGED up PROVE AgentDoes(s, e, <<>>)
      BY <1>1, <2>1, <2>4, SayingIs DEF AgentDoes, AgentTakes, Becomes
    <2>. QED BY <2>2, <2>3, <2>4
  <1>3. CASE KeepNatSession(s)
    <2> DEFINE e == IF sess[s] = "cut" THEN "deaf" ELSE "nat"
    <2>1. UNCHANGED down /\ sess[s] \in {"opening", "cut"} /\ sess' = [sess EXCEPT ![s] = e] /\ FromAgent(s, <<"ready">>)
      BY <1>3 DEF KeepNatSession, Becomes, Opening
    <2>2. e \in Keeping /\ (e \in Working => sess[s] \in Working)
      BY <2>1, SayingIs DEF Working
    <2> HIDE DEF e
    <2>3. AgentDoes(s, e, <<"ready">>)
      BY <2>1, <2>2, SayingIs DEF AgentDoes, AgentActs
    <2>. QED BY <2>3
  <1>4. CASE TargetSpeaks(s) \/ terminal_output_loop(s)
    <2>1. UNCHANGED down /\ sess[s] \in {"nat", "mute", "opening", "shell"}
      BY <1>4 DEF TargetSpeaks, terminal_output_loop
    <2>2. \/ FromAgent(s, <<"data">>) /\ UNCHANGED sess
          \/ \E e \in {"none", "cut", "exited"}, fs \in {<<"close">>, <<"error">>} : Becomes(s, e) /\ FromAgent(s, fs)
      BY <1>4 DEF TargetSpeaks, terminal_output_loop
    <2>3. CASE FromAgent(s, <<"data">>) /\ UNCHANGED sess
      <3>1. AgentDoes(s, sess[s], <<"data">>)
        BY <1>0, <2>1, <2>3, SayingIs DEF AgentDoes, AgentActs
      <3>. QED BY <3>1
    <2>4. ASSUME NEW e \in {"none", "cut", "exited"}, NEW fs \in {<<"close">>, <<"error">>}, Becomes(s, e), FromAgent(s, fs)
          PROVE  AgentDoes(s, e, fs)
      BY <2>1, <2>4, SayingIs DEF AgentDoes, AgentActs, Becomes
    <2>. QED BY <2>2, <2>3, <2>4
  <1>5. CASE handle_nat_data(s) \/ handle_terminal_message(s)
    <2>1. Takes(s, "data")
      BY <1>5 DEF handle_nat_data, handle_terminal_message
    <2>2. \/ UNCHANGED sess /\ (UNCHANGED up \/ FromAgent(s, <<"error">>))
          \/ sess[s] = "nat" /\ Becomes(s, "mute") /\ FromAgent(s, <<"error">>)
          \/ \E fs \in {<<"close">>, <<"error">>, <<"error", "close">>} : Becomes(s, "none") /\ FromAgent(s, fs)
      BY <1>5 DEF handle_nat_data, handle_terminal_message
    <2>3. CASE UNCHANGED sess /\ (UNCHANGED up \/ FromAgent(s, <<"error">>))
      <3>1. AgentDoes(s, sess[s], <<"error">>)
        BY <1>0, <1>1, <2>1, <2>3, SayingIs DEF AgentDoes, AgentTakes
      <3>. QED BY <3>1
    <2>4. CASE sess[s] = "nat" /\ Becomes(s, "mute") /\ FromAgent(s, <<"error">>)
      <3>1. AgentDoes(s, "mute", <<"error">>)
        BY <1>1, <2>1, <2>4, SayingIs DEF AgentDoes, AgentTakes, Becomes, Working
      <3>. QED BY <3>1
    <2>5. ASSUME NEW fs \in {<<"close">>, <<"error">>, <<"error", "close">>}, Becomes(s, "none"), FromAgent(s, fs)
          PROVE  AgentDoes(s, "none", fs)
      BY <1>1, <2>1, <2>5, SayingIs DEF AgentDoes, AgentTakes, Becomes
    <2>. QED BY <2>2, <2>3, <2>4, <2>5
  <1>6. CASE handle_io_close(s)
    <2>1. Takes(s, "close")
      BY <1>6 DEF handle_io_close
    <2>2. CASE sess[s] \in Kept
      <3>1. Becomes(s, "none") /\ FromAgent(s, <<"close">>)
        BY <1>6, <2>2 DEF handle_io_close
      <3>2. AgentDoes(s, "none", <<"close">>)
        BY <1>1, <2>1, <3>1, SayingIs DEF AgentDoes, AgentTakes, Becomes
      <3>. QED BY <3>2
    <2>3. CASE sess[s] \notin Kept
      <3>1. UNCHANGED <<sess, up>> /\ sess[s] = "none"
        BY <1>0, <1>1, <1>6, <2>1, <2>3 DEF handle_io_close, Keeping
      <3>2. AgentDoes(s, "none", <<>>)
        BY <1>0, <1>1, <2>1, <3>1, SayingIs DEF AgentDoes, AgentTakes
      <3>. QED BY <3>2
    <2>. QED BY <2>2, <2>3
  <1>. QED BY <1>2, <1>3, <1>4, <1>5, <1>6 DEF AgentStep

LEMMA SessionsAgent == ASSUME SessionsInv, NEW s \in Streams, AgentStep(s) PROVE SessionsInv'
  <1> DEFINE st == Standing(s)
  <1>1. UNCHANGED <<live, agents, pending, silent>>
    <2>1. OnAgent
      BY DEF AgentStep, handle_nat_control_message, KeepNatSession, TargetSpeaks, handle_nat_data, handle_io_close,
             handle_new_terminal_session, handle_terminal_message, terminal_output_loop, Takes
    <2>. QED BY <2>1 DEF OnAgent, transferVars, tables, streams
  <1>2. \A x : Unused(x)' = Unused(x) /\ Bridged(x)' = Bridged(x) /\ Cut(x)' = Cut(x)
    BY <1>1 DEF Unused, Bridged, Cut, Online
  <1>3. Standing(s)' = st
    BY <1>1, <1>2 DEF Standing
  <1>4. PICK e, fs : AgentDoes(s, e, fs)
    BY AgentDoing
  <1>5. Fine(st, down[s], up[s], sess[s]) /\ down[s] \in Downs /\ up[s] \in Ups
    BY DEF SessionsInv
  <1> HIDE DEF st
  <1>6. \E d \in Downs : /\ down' = [down EXCEPT ![s] = d] /\ "unused" \notin st /\ Fine(st, d, up[s], e) /\ ~Has(d, "open")
    <2>1. CASE AgentTakes(s, e)
      BY <1>5, <2>1, FineTakes DEF AgentTakes
    <2>2. CASE AgentActs(s, e)
      <3>1. "unused" \notin st /\ Fine(st, down[s], up[s], e) /\ ~Has(down[s], "open")
        BY <1>5, <2>2, FineBecomes DEF AgentActs
      <3>2. down' = [down EXCEPT ![s] = down[s]]
        BY <2>2 DEF AgentActs, SessionsInv
      <3>. QED BY <1>5, <3>1, <3>2
    <2>. QED BY <1>4, <2>1, <2>2 DEF AgentDoes
  <1>7. PICK d \in Downs : /\ down' = [down EXCEPT ![s] = d] /\ "unused" \notin st /\ Fine(st, d, up[s], e) /\ ~Has(d, "open")
    BY <1>6
  <1>8. \E u \in Ups : up' = [up EXCEPT ![s] = u] /\ Fine(st, d, u, e)
    <2>1. CASE UNCHANGED up
      <3>1. up' = [up EXCEPT ![s] = up[s]]
        BY <2>1 DEF SessionsInv
      <3>. QED BY <1>5, <1>7, <3>1
    <2>2. CASE up' = [up EXCEPT ![s] = up[s] \o fs]
      <3>1. fs \in Ups /\ (Has(fs, "close") => e \notin Working)
        BY <1>4, Words DEF AgentDoes, Said
      <3>2. up[s] \o fs \in Ups /\ Fine(st, d, up[s] \o fs, e)
        BY <1>5, <1>7, <3>1, FineSaid
      <3>. QED BY <2>2, <3>2
    <2>3. UNCHANGED up \/ up' = [up EXCEPT ![s] = up[s] \o fs]
      BY <1>4 DEF AgentDoes, FromAgent
    <2>. QED BY <2>1, <2>2, <2>3
  <1>9. e \in Keeping /\ sess' = [sess EXCEPT ![s] = e]
    BY <1>4 DEF AgentDoes
  <1>. QED BY <1>1, <1>2, <1>3, <1>7, <1>8, <1>9, OneStream

LEMMA SessionsElsewhere ==
    ASSUME SessionsInv,
           (\E p \in Ports : StopListener(p)) \/ (\E s \in Streams : AgentStep(s)) \/ UNCHANGED <<transferVars, remoteVars>>
    PROVE  SessionsInv'
  <1>1. CASE \E s \in Streams : AgentStep(s)
    BY <1>1, SessionsAgent
  <1>2. CASE (\E p \in Ports : StopListener(p)) \/ UNCHANGED <<transferVars, remoteVars>>
    <2>1. UNCHANGED <<live, agents, pending, silent, down, up, sess>>
      <3>1. ASSUME NEW p \in Ports, StopListener(p) PROVE UNCHANGED <<live, agents, pending, silent, down, up, sess>>
        BY <3>1 DEF StopListener, transferVars, tables, frames, streams
      <3>2. UNCHANGED <<transferVars, remoteVars>> => UNCHANGED <<live, agents, pending, silent, down, up, sess>>
        BY DEF transferVars, tables, remoteVars, frames, streams
      <3>. QED BY <1>2, <3>1, <3>2
    <2>2. \A s : Standing(s)' = Standing(s)
      BY <2>1 DEF Standing, Unused, Bridged, Cut, Online
    <2>. QED BY <2>1, <2>2 DEF SessionsInv
  <1>. QED BY <1>1, <1>2

LEMMA SessionsInit == Init => SessionsInv
  <1>1. SUFFICES ASSUME Init PROVE SessionsInv
    OBVIOUS
  <1>2. /\ down = [s \in Streams |-> <<>>] /\ up = [s \in Streams |-> <<>>] /\ sess = [s \in Streams |-> "none"]
    BY <1>1 DEF Init
  <1>3. \A s : Fine(Standing(s), <<>>, <<>>, "none")
    BY Words DEF Fine, Working
  <1>4. <<>> \in Downs /\ <<>> \in Ups /\ "none" \in Keeping
    BY Words DEF Keeping
  <1>. QED BY <1>2, <1>3, <1>4 DEF SessionsInv

LEMMA SessionsNext ==
    EntitledInv /\ BoundedInv /\ SessionsInv /\ [Next]_<<transferVars, remoteVars, hostVars>> => SessionsInv'
  <1>1. SUFFICES ASSUME EntitledInv, BoundedInv, SessionsInv, [Next]_<<transferVars, remoteVars, hostVars>> PROVE SessionsInv'
    OBVIOUS
  <1>2. EntitledInv'
    BY <1>1, EntitledNext
  <1>3. ASSUME NEW r \in live, RequestStep(r) PROVE SessionsInv'
    <2>1. CASE \/ FindMapping(r) \/ FindNatAgent(r) \/ FindActiveNatAgent(r) \/ FindPort(r) \/ ensure_terminal_agent_active(r)
               \/ ShowsMapping(r) \/ ListsMappings(r) \/ list_runtime_nat_mappings(r) \/ ReachesAgentIo(r)
               \/ CreateMapping(r) \/ UpdateMapping(r) \/ DeleteMapping(r) \/ BanAgent(r)
      BY <1>1, <1>2, <2>1, SessionsRead
    <2>2. CASE \/ LoadMappings(r) \/ RetainListeners(r) \/ start_listener(r) \/ ListListener(r) \/ DropRequest(r)
               \/ Accept(r) \/ ReadPolicy(r) \/ CountTunnels(r) \/ record_source_connection_in_map(r) \/ record_nat_connection(r)
               \/ ReserveTunnel(r) \/ SubscribeStream(r) \/ ReleaseTunnel(r) \/ record_nat_window_bytes(r)
      BY <1>1, <1>2, <2>2, SessionsOther
    <2>3. CASE CreatePending(r) \/ take_for_auth(r) \/ NextWindow(r)
      BY <1>1, <1>2, <2>3, SessionsPending
    <2>4. CASE UnsubscribeStream(r) \/ FlipAgent(r) \/ SendOpen(r) \/ Bridging(r)
      BY <1>1, <1>2, <2>4, SessionsEnds, SessionsFlip, SessionsOpen, SessionsBridge
    <2>. QED BY <1>3, <2>1, <2>2, <2>3, <2>4 DEF RequestStep, Bridging
  <1>4. ASSUME NEW r \in live, UNCHANGED remoteVars, Authenticated(r, Scopes(r.q.op)) \/ AsksForCode(r) \/ Responds(r) \/ Change(r)
        PROVE  SessionsInv'
    BY <1>1, <1>2, <1>4, SessionsRead
  <1>5. ASSUME (\E p \in Ports : StopListener(p)) \/ (\E s \in Streams : AgentStep(s)) \/ UNCHANGED <<transferVars, remoteVars>>
        PROVE  SessionsInv'
    BY <1>1, <1>5, SessionsElsewhere
  <1>. QED BY <1>1, <1>3, <1>4, <1>5 DEF Next

(***************************************************************************)
(* A listener that is not to stop is one a reload can find; once nobody is *)
(* at work on mappings, and no reloads clashed, exactly the ports of       *)
(* enabled mappings are listened on.  And what an Agent keeps for a stream *)
(* has the server's end under way, a Close coming to it, or was left       *)
(* without a word (NatTunnelManager::reload, bridge_over_iostream,         *)
(* handle_terminal_socket, handle_io_frame).                               *)
(***************************************************************************)
THEOREM NothingLeft == Spec => []NothingIsLeftBehind
  <1>1. EntitledInv /\ ListenersInv /\ SessionsInv => NothingIsLeftBehind
    <2>1. SUFFICES ASSUME EntitledInv, ListenersInv, SessionsInv PROVE NothingIsLeftBehind
      OBVIOUS
    <2>2. ASSUME NEW s \in Streams, sess[s] \in {"nat", "mute", "shell"}, s \notin silent
          PROVE  \/ \E i \in DOMAIN down[s] : down[s][i] = "close"
                 \/ \E r \in live : r.begun /\ r.q.op \in {"connect", "socket"} /\ stream(r) = s
      <3>1. Fine(Standing(s), down[s], up[s], sess[s]) /\ sess[s] \in Working
        BY <2>1, <2>2 DEF SessionsInv, Working
      <3>2. Has(down[s], "close") \/ Bridged(s)
        BY <2>2, <3>1, StandingIs DEF Fine
      <3>3. ASSUME NEW r \in live, AtBridge(r) PROVE r.begun = TRUE /\ r.q.op \in {"connect", "socket"}
        BY <2>1, <3>3, BegunIs DEF EntitledInv, Requests, AtBridge
      <3>. QED BY <3>2, <3>3 DEF Has, Bridged
    <2>3. SessionIsAnswered
      BY <2>2 DEF SessionIsAnswered
    <2>. QED BY <2>1, <2>3, ListenersFollow DEF NothingIsLeftBehind
  <1>2. Spec => [](EntitledInv /\ BoundedInv /\ ListenersInv /\ SessionsInv)
    BY EntitledInit, EntitledNext, BoundedInit, BoundedNext, ListenersInit, ListenersNext, SessionsInit, SessionsNext, PTL DEF Spec
  <1>. QED BY <1>1, <1>2, PTL
=============================================================================

------------------------------- MODULE Fleet ---------------------------------
(***************************************************************************)
(* The requests that change the Agents a user has (api/v1/servers.rs):     *)
(* metadata, batches (deletion, tags, visibility, groups, owners), server  *)
(* groups and the record of owner transfers with its retry and cancel.     *)
(*                                                                         *)
(* Each request reads, checks what it read and then writes; only the       *)
(* transfer itself is a transaction.  Any two requests may interleave at   *)
(* their accesses, and with the enrolment, the challenges and the          *)
(* revocations of Enrollment, which work on the same rows.                 *)
(***************************************************************************)
EXTENDS Enrollment

CONSTANTS
    Groups, Transfers,
    Gone,       \* users that have been deleted
    GroupOwner, \* groups there are at first, and whose they are
    StoredTransfers,
    MaxIds      \* SERVER_BATCH_MAX_SERVER_IDS

TransferRow == [agent : Agents, from : Users, to : Users, attempts : Nat,
                status : {"failed", "completed", "cancelled"}]

\* Each id once, as the positions of the ids that do not come earlier; a list that is
\* too long is refused.
dedupe_ids(ids) ==
    IF Len(ids) > MaxIds THEN {}
    ELSE {i \in DOMAIN ids : \A j \in 1..(i - 1) : ids[j] # ids[i]}

IsTransfer(q) == q.op = "batch" /\ q.action = "transfer"

\* What a request names and carries.
FleetRequest(q) ==
    /\ q.op \in {"group", "regroup", "ungroup", "add", "remove"} => q.group \in Groups /\ q.user \in Users
    /\ q.op \in {"add", "batch"} => q.servers \in Seq(Agents)
    /\ q.op = "update" => q.agent \in Agents /\ q.tags \subseteq Tags /\ q.hidden \in BOOLEAN
    /\ q.op = "batch" =>
          /\ q.action \in {"delete", "move", "tags", "hide", "transfer"}
          /\ q.group \in Groups /\ q.more \subseteq Tags /\ q.hidden \in BOOLEAN
    /\ IsTransfer(q) => q.to \in Users /\ \A i \in dedupe_ids(q.servers) : i \in DOMAIN q.ids /\ q.ids[i] \in Transfers
    /\ q.op \in {"retry", "cancel"} => q.transfer \in Transfers

ASSUME FleetAssumption ==
    /\ GroupOwner \in [Groups -> Users \cup {Nothing}]
    /\ Gone \subseteq Users /\ MaxIds \in Nat
    /\ Nothing \notin TransferRow /\ StoredTransfers \subseteq [Transfers -> TransferRow \cup {Nothing}]

\* A request that makes a row draws a UUID for it, which no other row has: the Agent of
\* enroll, the token of create_enrollment_token, the records of a batch of transfers.
ASSUME WorkloadsAssumption ==
    \A w \in Workloads : \A p, q \in w :
        /\ EnrollmentRequest(p) /\ FleetRequest(p)
        /\ p.op = "enroll" => /\ \A s \in Stored : s[p.agent] = Nothing
                              /\ q.op = "enroll" /\ p.agent = q.agent => p = q
        /\ p.op = "token" /\ q.op = "token" /\ p.token = q.token => p = q
        /\ IsTransfer(p) => \A i \in dedupe_ids(p.servers) :
              /\ \A t \in StoredTransfers : t[p.ids[i]] = Nothing
              /\ IsTransfer(q) => \A j \in dedupe_ids(q.servers) : p.ids[i] = q.ids[j] => p = q /\ i = j

VARIABLES
    groups,    \* server_groups: the owner
    members,   \* server_group_members
    transfers, \* server_owner_transfers
    audit,     \* outcomes record_server_transfer_audit has written
    shown,     \* the last group that was answered, and to whom
    owners     \* history: everyone an Agent has belonged to

fleet == <<groups, members, transfers, audit, shown, owners>>
fleetVars == <<enrolment, live, faults, fleet>>

FleetTypeOK ==
    /\ EnrollmentTypeOK
    /\ groups \in [Groups -> Users \cup {Nothing, Deleted}]
    /\ members \subseteq Groups \X Agents
    /\ transfers \in [Transfers -> TransferRow \cup {Nothing}]
    /\ audit \subseteq Transfers \X {"success", "failure"}
    /\ \A a \in Agents : Exists(a) => agents[a].owner \in owners[a]

Completed(x) == transfers[x] # Nothing /\ transfers[x].status = "completed"

FleetInit ==
    /\ EnrollmentInit
    /\ live \in {{Request(q) : q \in w} : w \in Workloads}
    /\ groups = GroupOwner /\ members = {} /\ audit = {}
    /\ shown = [user |-> Nothing, servers |-> {}]
    /\ transfers \in StoredTransfers
    /\ \A x \in Transfers : transfers[x] # Nothing => Exists(transfers[x].agent)
    /\ owners = [a \in Agents |-> {u \in Users : \/ Exists(a) /\ agents[a].owner = u
                                               \/ \E x \in Transfers : Completed(x) /\ transfers[x].agent = a /\ transfers[x].to = u}]

server_visible(q, a) == q.scope = Nothing \/ a \in q.scope
agent_visible(q, a) == server_visible(q, a) /\ (q.user \in Admins \/ agents[a].owner = q.user)

-----------------------------------------------------------------------------
(* Server groups. *)

\* Variant: the members as the table has them.
load_server_group_members_All(u, g) == {a \in Agents : <<g, a>> \in members}

\* The members that still belong to the group's owner.
load_server_group_members(u, g) ==
    {a \in Agents : <<g, a>> \in members /\ agents[a].owner = u}

\* Only to the owner, and only to a session that reaches every member.
load_server_group(q, g) ==
    /\ groups[g] = q.user
    /\ \A a \in load_server_group_members(q.user, g) : server_visible(q, a)

\* require_server_group_write_auth
GroupSession(q) == q.scope = Nothing

create_server_group(r) ==
    /\ At(r, "group", "start") /\ groups[r.q.group] = Nothing
    /\ IF GroupSession(r.q)
       THEN groups' = [groups EXCEPT ![r.q.group] = r.q.user] /\ Goto(r, "load", Nothing)
       ELSE Answer(r) /\ UNCHANGED groups
    /\ UNCHANGED <<enrolment, faults, members, transfers, audit, owners, shown>>

\* What update_server_group, delete_server_group and the two requests for members check
\* first; the name and the colour, which the first one writes, decide nothing here.
GroupChecks(r) ==
    /\ r.q.op \in {"regroup", "ungroup", "add", "remove"} /\ r.at = "start"
    /\ IF GroupSession(r.q) /\ load_server_group(r.q, r.q.group)
       THEN Goto(r, IF r.q.op \in {"add", "remove"} THEN "check" ELSE "write", Nothing)
       ELSE Answer(r)
    /\ UNCHANGED <<enrolment, faults, fleet>>

update_server_group(r) ==
    /\ At(r, "regroup", "write")
    /\ IF groups[r.q.group] = r.q.user THEN Goto(r, "load", Nothing) ELSE Answer(r)
    /\ UNCHANGED <<enrolment, faults, fleet>>

delete_server_group(r) ==
    /\ At(r, "ungroup", "write") /\ Answer(r)
    /\ groups' = IF groups[r.q.group] = r.q.user THEN [groups EXCEPT ![r.q.group] = Deleted] ELSE groups
    /\ members' = {m \in members : groups'[m[1]] # Deleted}
    /\ UNCHANGED <<enrolment, faults, transfers, audit, owners, shown>>

Ids(r) == dedupe_ids(r.q.servers)
Server(r) == r.q.servers[r.i]

\* On to the next id, or to what follows the last one.
NextId(r, again, after) ==
    LET rest == {j \in Ids(r) : j > r.i}
        On(i, at) == live' = (live \ {r}) \cup {[r EXCEPT !.i = i, !.at = at, !.saw = Nothing]}
    IN
    \/ rest = {} /\ On(1, after)
    \/ \E j \in rest : (\A k \in rest : j <= k) /\ On(j, again)

ensure_group_server_active(q, a) ==
    Active(a) /\ agent_visible(q, a) /\ agents[a].owner = q.user

\* The ids are checked one after the other, and then inserted one after the other.
AddChecksServer(r) ==
    /\ At(r, "add", "check")
    /\ IF Ids(r) # {} /\ ensure_group_server_active(r.q, Server(r))
       THEN NextId(r, "check", "write") ELSE Answer(r)
    /\ UNCHANGED <<enrolment, faults, fleet>>

\* The foreign keys of server_group_members refuse a group or an Agent that is gone.
Joins(g, a) == groups[g] \notin {Nothing, Deleted} /\ Exists(a)

AddInserts(r) ==
    /\ At(r, "add", "write")
    /\ IF Joins(r.q.group, Server(r))
       THEN members' = members \cup {<<r.q.group, Server(r)>>} /\ NextId(r, "write", "load")
       ELSE Answer(r) /\ UNCHANGED members
    /\ UNCHANGED <<enrolment, faults, groups, transfers, audit, owners, shown>>

ensure_group_server_access(r) ==
    /\ At(r, "remove", "check")
    /\ IF Exists(r.q.agent) /\ agent_visible(r.q, r.q.agent)
       THEN Goto(r, "write", Nothing) ELSE Answer(r)
    /\ UNCHANGED <<enrolment, faults, fleet>>

delete_server_group_member(r) ==
    /\ At(r, "remove", "write") /\ Goto(r, "load", Nothing)
    /\ members' = members \ {<<r.q.group, r.q.agent>>}
    /\ UNCHANGED <<enrolment, faults, groups, transfers, audit, owners, shown>>

\* The answer is the group as it is then.
AnswersWithGroup(r) ==
    /\ r.at = "load" /\ Answer(r)
    /\ shown' = IF load_server_group(r.q, r.q.group)
                THEN [user |-> r.q.user, servers |-> load_server_group_members(r.q.user, r.q.group)]
                ELSE shown
    /\ UNCHANGED <<enrolment, faults, groups, members, transfers, audit, owners>>

-----------------------------------------------------------------------------
(* Metadata. *)

\* The visibility is an administrator's to change, tags anybody's but an API token's;
\* both are compared with the row that was read.
MayWriteMetadata(q, row) ==
    /\ q.hidden # row.hidden => AdminSession(q)
    /\ q.tags # row.tags => q.scope = Nothing

update_server_reads(r) ==
    LET a == r.q.agent IN
    /\ At(r, "update", "start")
    /\ IF Exists(a) /\ agent_visible(r.q, a) /\ MayWriteMetadata(r.q, agents[a])
       THEN Goto(r, "write", Nothing) ELSE Answer(r)
    /\ UNCHANGED <<enrolment, faults, fleet>>

\* All of the metadata is the request's.
update_dashboard_metadata(r) ==
    LET a == r.q.agent IN
    /\ At(r, "update", "write") /\ Answer(r)
    /\ agents' = IF Exists(a) THEN [agents EXCEPT ![a].tags = r.q.tags, ![a].hidden = r.q.hidden] ELSE agents
    /\ UNCHANGED <<servers, tokens, challenges, issued, purged, made, faults, fleet>>

-----------------------------------------------------------------------------
(* Batches. *)

\* What a batch needs before its first id.
MayBatch(q) ==
    /\ q.action \in {"delete", "move", "tags"} => q.scope = Nothing
    /\ q.action = "hide" => AdminSession(q)
    /\ q.action = "transfer" => AdminSession(q) /\ q.to \notin Gone
    /\ q.action = "move" => load_server_group(q, q.group)
    /\ dedupe_ids(q.servers) # {}

batch_update_servers(r) ==
    /\ At(r, "batch", "start")
    /\ IF MayBatch(r.q) THEN Goto(r, "row", Nothing) ELSE Answer(r)
    /\ UNCHANGED <<enrolment, faults, fleet>>

\* What apply_batch_action asks of the row it reads.
MayApply(q, a) ==
    /\ Exists(a) /\ agent_visible(q, a)
    /\ q.action = "delete" => q.user \in Admins \/ agents[a].owner = q.user
    /\ q.action = "move" => agents[a].owner = q.user /\ ~agents[a].revoked

NextServer(r) == NextId(r, "row", "done")

apply_batch_action(r) ==
    /\ At(r, "batch", "row")
    /\ IF MayApply(r.q, Server(r)) THEN Goto(r, r.q.action, agents[Server(r)]) ELSE NextServer(r)
    /\ UNCHANGED <<enrolment, faults, fleet>>

\* The whole of the metadata is written, as read but for what the action changes.
update_agent_dashboard_metadata(r) ==
    LET a == Server(r) IN
    /\ r.at \in {"tags", "hide"} /\ NextServer(r)
    /\ agents' =
         IF ~Exists(a) THEN agents
         ELSE [agents EXCEPT
                 ![a].tags = IF r.at = "tags" THEN (r.saw.tags \ r.q.less) \cup r.q.more ELSE r.saw.tags,
                 ![a].hidden = IF r.at = "hide" THEN r.q.hidden ELSE r.saw.hidden]
    /\ UNCHANGED <<servers, tokens, challenges, issued, purged, made, faults, fleet>>

\* move_agent_to_server_group: out of the user's groups, then into the one.
MoveLeaves(r) ==
    /\ r.at = "move" /\ Goto(r, "join", Nothing)
    /\ members' = {m \in members : m[2] # Server(r) \/ groups[m[1]] # r.q.user}
    /\ UNCHANGED <<enrolment, faults, groups, transfers, audit, owners, shown>>

MoveJoins(r) ==
    /\ r.at = "join" /\ NextServer(r)
    /\ members' = IF Joins(r.q.group, Server(r)) THEN members \cup {<<r.q.group, Server(r)>>} ELSE members
    /\ UNCHANGED <<enrolment, faults, groups, transfers, audit, owners, shown>>

\* delete_agent: the memberships, the row, the challenges.
DeleteLeaves(r) ==
    /\ r.at = "delete" /\ Goto(r, "drop", Nothing)
    /\ members' = {m \in members : m[2] # Server(r)}
    /\ UNCHANGED <<enrolment, faults, groups, transfers, audit, owners, shown>>

\* What goes with an Agent's row: memberships made in between, and its transfers.
Cascade(a) ==
    /\ transfers' = [x \in Transfers |-> IF transfers[x] # Nothing /\ transfers[x].agent = a
                                         THEN Nothing ELSE transfers[x]]
    /\ members' = {m \in members : m[2] # a}

DeleteRow(r) ==
    LET a == Server(r) IN
    /\ r.at = "drop"
    /\ IF Exists(a)
       THEN /\ agents' = [agents EXCEPT ![a] = Deleted]
            /\ Cascade(a) /\ Goto(r, "purge", Nothing)
       ELSE NextServer(r) /\ UNCHANGED <<agents, members, transfers>>
    /\ UNCHANGED <<servers, tokens, challenges, issued, purged, made, faults, groups, audit, owners, shown>>

DeletePurges(r) ==
    /\ At(r, "batch", "purge") /\ NextServer(r)
    /\ purge_agent_jwt_challenges(Server(r))
    /\ UNCHANGED fleet

BatchAnswers(r) == r.at = "done" /\ Answer(r) /\ UNCHANGED <<enrolment, faults, fleet>>

-----------------------------------------------------------------------------
(* Owner transfers. *)

\* The row the transaction's first statement finds.
OwnerStill(a, from) == Exists(a) /\ agents[a].owner = from

\* persist_owner_transfer: the owner, the groups of others, and the record, or nothing.
persist_owner_transfer(x, a, from, to) ==
    /\ agents' = [agents EXCEPT ![a].owner = to]
    /\ owners' = [owners EXCEPT ![a] = @ \cup {to}]
    /\ members' = {m \in members : m[2] # a \/ groups[m[1]] = to}
    /\ transfers' = [transfers EXCEPT ![x] =
           [agent |-> a, from |-> from, to |-> to, status |-> "completed",
            attempts |-> IF transfers[x] = Nothing THEN 1 ELSE transfers[x].attempts + 1]]
    /\ UNCHANGED <<servers, tokens, challenges, issued, purged, made, groups, audit, shown>>

\* A new transfer gets an id of its own, one of those drawn for the request.
perform_owner_transfer_new(r) ==
    LET a == Server(r)  x == r.q.ids[r.i] IN
    /\ At(r, "batch", "transfer")
    /\ IF OwnerStill(a, r.saw.owner)
       THEN /\ persist_owner_transfer(x, a, r.saw.owner, r.q.to)
            /\ Goto(r, "log", [x |-> x, outcome |-> "success"])
       ELSE /\ Goto(r, "record", [x |-> x, from |-> r.saw.owner])
            /\ UNCHANGED <<enrolment, fleet>>
    /\ UNCHANGED faults

\* The foreign key refuses the record of an Agent that is gone; that is only logged.
record_failed_server_owner_transfer(r) ==
    LET a == Server(r) IN
    /\ At(r, "batch", "record") /\ Goto(r, "log", [x |-> r.saw.x, outcome |-> "failure"])
    /\ transfers' = IF Exists(a)
                    THEN [transfers EXCEPT ![r.saw.x] = [agent |-> a, from |-> r.saw.from, to |-> r.q.to,
                                                         status |-> "failed", attempts |-> 1]]
                    ELSE transfers
    /\ UNCHANGED <<enrolment, faults, groups, members, audit, owners, shown>>

record_server_transfer_audit(r) ==
    /\ r.at = "log"
    /\ audit' = audit \cup {<<r.saw.x, r.saw.outcome>>}
    /\ IF r.q.op = "batch" THEN NextServer(r) ELSE Answer(r)
    /\ UNCHANGED <<enrolment, faults, groups, members, transfers, owners, shown>>

load_server_owner_transfer(x) == transfers[x]

\* A record that may still be retried or cancelled, as the request reads it.
Unsettled(q) ==
    LET t == load_server_owner_transfer(q.transfer) IN
    AdminSession(q) /\ t # Nothing /\ t.status # "completed"

RetryLoads(r) ==
    /\ At(r, "retry", "start")
    /\ IF Unsettled(r.q)
       THEN Goto(r, "agent", [x |-> r.q.transfer, t |-> load_server_owner_transfer(r.q.transfer)])
       ELSE Answer(r)
    /\ UNCHANGED <<enrolment, faults, fleet>>

CancelLoads(r) ==
    /\ At(r, "cancel", "start")
    /\ IF Unsettled(r.q) THEN Goto(r, "write", [x |-> r.q.transfer]) ELSE Answer(r)
    /\ UNCHANGED <<enrolment, faults, fleet>>

\* Retry reads the user and the Agent and takes its way.
RetryReads(r) ==
    LET t == r.saw.t  a == t.agent
        seen == [x |-> r.saw.x, t |-> t, from |-> IF Exists(a) THEN agents[a].owner ELSE Nothing]
    IN
    /\ At(r, "retry", "agent")
    /\ Goto(r, IF t.to \in Gone \/ ~Exists(a) THEN "refuse"
               ELSE IF agents[a].owner = t.to THEN "complete" ELSE "persist", seen)
    /\ UNCHANGED <<enrolment, faults, fleet>>

\* What happened is written to the audit log, and then answered.
Outcome(r, x, outcome) == Goto(r, "log", [x |-> x, outcome |-> outcome])

Mark(x, status) == [transfers EXCEPT ![x].status = status, ![x].attempts = @ + 1]

mark_server_owner_transfer_completed(r) ==
    LET x == r.saw.x IN
    /\ At(r, "retry", "complete")
    /\ IF transfers[x] # Nothing
       THEN /\ transfers' = [Mark(x, "completed") EXCEPT ![x].from = r.saw.from]
            /\ Outcome(r, x, "success")
       ELSE Goto(r, "fail", [x |-> x]) /\ UNCHANGED transfers
    /\ UNCHANGED <<enrolment, faults, groups, members, audit, owners, shown>>

perform_owner_transfer_existing(r) ==
    LET x == r.saw.x  a == r.saw.t.agent IN
    /\ At(r, "retry", "persist")
    /\ IF OwnerStill(a, r.saw.from)
       THEN /\ persist_owner_transfer(x, a, r.saw.from, r.saw.t.to)
            /\ Outcome(r, x, "success")
       ELSE Goto(r, "fail", [x |-> x]) /\ UNCHANGED <<enrolment, fleet>>
    /\ UNCHANGED faults

\* Whatever the record says by then; without a record the request fails, with nothing logged.
mark_server_owner_transfer_failed(r) ==
    LET x == r.saw.x IN
    /\ r.q.op = "retry" /\ r.at \in {"refuse", "fail"}
    /\ IF transfers[x] = Nothing
       THEN Answer(r) /\ UNCHANGED transfers
       ELSE /\ transfers' = Mark(x, "failed")
            /\ IF r.at = "refuse" THEN Answer(r) ELSE Outcome(r, x, "failure")
    /\ UNCHANGED <<enrolment, faults, groups, members, audit, owners, shown>>

\* Variant: the statement does not look at the status again.
mark_server_owner_transfer_cancelled_Any(r) ==
    LET x == r.saw.x IN
    /\ At(r, "cancel", "write")
    /\ IF transfers[x] # Nothing
       THEN /\ transfers' = [transfers EXCEPT ![x].status = "cancelled"]
            /\ Outcome(r, x, "success")
       ELSE Answer(r) /\ UNCHANGED transfers
    /\ UNCHANGED <<enrolment, faults, groups, members, audit, owners, shown>>

mark_server_owner_transfer_cancelled(r) ==
    LET x == r.saw.x IN
    /\ At(r, "cancel", "write")
    /\ IF transfers[x] # Nothing /\ transfers[x].status # "completed"
       THEN /\ transfers' = [transfers EXCEPT ![x].status = "cancelled"]
            /\ Outcome(r, x, "success")
       ELSE Answer(r) /\ UNCHANGED transfers
    /\ UNCHANGED <<enrolment, faults, groups, members, audit, owners, shown>>

-----------------------------------------------------------------------------
(* The specification. *)

GroupStep(r) ==
    \/ create_server_group(r) \/ GroupChecks(r) \/ update_server_group(r) \/ delete_server_group(r)
    \/ AddChecksServer(r) \/ AddInserts(r) \/ ensure_group_server_access(r)
    \/ delete_server_group_member(r) \/ AnswersWithGroup(r)

BatchStep(r) ==
    \/ update_server_reads(r) \/ update_dashboard_metadata(r)
    \/ batch_update_servers(r) \/ apply_batch_action(r) \/ update_agent_dashboard_metadata(r)
    \/ MoveLeaves(r) \/ MoveJoins(r) \/ DeleteLeaves(r) \/ DeleteRow(r) \/ DeletePurges(r) \/ BatchAnswers(r)

TransferStep(r) ==
    \/ perform_owner_transfer_new(r) \/ record_failed_server_owner_transfer(r)
    \/ record_server_transfer_audit(r) \/ RetryLoads(r) \/ CancelLoads(r) \/ RetryReads(r) \/ mark_server_owner_transfer_completed(r)
    \/ perform_owner_transfer_existing(r) \/ mark_server_owner_transfer_failed(r)
    \/ mark_server_owner_transfer_cancelled(r)

\* An access fails, or the request's future is dropped where it waits.
Dropped(r) ==
    /\ r.at # "start" /\ faults < MaxFaults /\ faults' = faults + 1
    /\ Answer(r) /\ UNCHANGED <<enrolment, fleet>>

\* Enrolment gives the Agent its first owner.
Enrols(r) ==
    /\ EnrollmentStep(r)
    /\ owners' = [a \in Agents |-> IF agents'[a] \notin {Nothing, Deleted}
                                   THEN owners[a] \cup {agents'[a].owner} ELSE owners[a]]
    /\ UNCHANGED <<groups, members, transfers, audit, shown>>

FleetStep(r) == Enrols(r) \/ GroupStep(r) \/ BatchStep(r) \/ TransferStep(r) \/ Dropped(r)

-----------------------------------------------------------------------------
(* Properties. *)

\* A membership never outlives its group or its Agent, although delete_agent removes the
\* memberships and the row in two statements and an insertion may come between them.
NoDanglingMember ==
    \A m \in members : groups[m[1]] \notin {Nothing, Deleted} /\ Exists(m[2])

\* A group request is answered with Agents that belong to the asking user at that moment;
\* an Agent that was added while it changed hands is in the table and not in the answer.
GroupShowsOwnAgents ==
    [][shown' # shown => \A a \in shown'.servers : agents[a].owner = shown'.user]_<<shown>>

\* An Agent changes hands only together with the record of it: from the owner the
\* administrator's request had read to the one it named, and marked as completed.
OwnerChangeIsRecorded ==
    [][\A a \in Agents :
          (Exists(a) /\ Exists(a)' /\ agents'[a].owner # agents[a].owner) =>
              \E x \in Transfers :
                  /\ transfers'[x] # transfers[x] /\ transfers'[x] # Nothing
                  /\ transfers'[x].agent = a /\ transfers'[x].status = "completed"
                  /\ transfers'[x].from = agents[a].owner /\ transfers'[x].to = agents'[a].owner]_fleetVars

\* A transfer that is recorded as completed has happened, also when a retry found the
\* Agent with its new owner already; and a cancel never undoes what is recorded as done.
CompletedWasOwned ==
    \A x \in Transfers :
        Completed(x) => transfers[x].to \in owners[transfers[x].agent]

CompletedIsNotCancelled ==
    [][\A x \in Transfers :
          Completed(x) /\ transfers'[x] # Nothing => transfers'[x].status # "cancelled"]_transfers

\* The record of owner transfers tells what happened: no change of hands without its record,
\* no completed transfer without the change, and no cancellation of one that is completed.
TransfersAreTrue == OwnerChangeIsRecorded /\ []CompletedWasOwned /\ CompletedIsNotCancelled

\* Groups hold and show what they should while Agents are moved, removed and change hands.
GroupsAreTrue == []NoDanglingMember /\ GroupShowsOwnAgents
=============================================================================

---------------------------- MODULE Notifications ----------------------------
(***************************************************************************)
(* Notification channels and groups: the requests of                       *)
(* crates/server/src/api/v1/notifications.rs, the rows they write, and how *)
(* an event is told to a group's channels (notifications/sender.rs,        *)
(* notifications/policy.rs).                                               *)
(*                                                                         *)
(* A request of several statements is a slot that moves from one await to  *)
(* the next.  A channel is its owner and whether what is stored passes     *)
(* validation: rows of older versions may not.  Authorisation (scope,      *)
(* cookie session, TOTP) comes before all of this and is not modelled.     *)
(***************************************************************************)
EXTENDS Integers, FiniteSets

CONSTANTS
    Users,
    Channels,     \* ids of notifications
    Groups,       \* ids of notification groups
    Editors,      \* requests of more than one statement
    Nothing,      \* no such row, no value
    MaxMembers,   \* NOTIFICATION_MAX_GROUP_CHANNELS, 32 in the code
    Cooldown,     \* NOTIFICATION_TEST_COOLDOWN_SECS
    MaxTime       \* bound on the clock

ASSUME NotificationsAssumption ==
    /\ MaxMembers \in Nat \ {0} /\ Cooldown \in Nat \ {0} /\ MaxTime \in Nat
    /\ IsFiniteSet(Channels) /\ IsFiniteSet(Groups)
    /\ Nothing \notin Users \cup Channels \cup Groups

VARIABLES
    time,
    channel,  \* the notifications table
    group,    \* notification_groups: the owner of each
    member,   \* notification_group_members
    edit,     \* where each request of several statements is
    tested    \* NOTIFICATION_TEST_RATE_STATE: when each channel was last tested

notifyVars == <<channel, group, member, edit, tested>>

Channel == [owner : Users, valid : BOOLEAN]
Idle == [at |-> "idle"]
Edit == {Idle, [at |-> "done"]}
        \cup [at : {"count", "insert"}, group : Groups, channel : Channels, user : Users]
        \cup [at : {"write"}, channel : Channels, user : Users]

NotifyTypeOK ==
    /\ channel \in [Channels -> Channel \cup {Nothing}]
    /\ group \in [Groups -> Users \cup {Nothing}]
    /\ member \subseteq Groups \X Channels
    /\ edit \in [Editors -> Edit]
    /\ tested \in [Channels -> (0..MaxTime) \cup {Nothing}]

-----------------------------------------------------------------------------
(* Rows. *)

\* ensure_notification_group_owned_by
OwnsGroup(u, g) == group[g] = u
ensure_group_exists(u, g) == OwnsGroup(u, g)

\* ensure_notification_exists
OwnsChannel(u, c) == channel[c] # Nothing /\ channel[c].owner = u

\* Both rows are the user's, too.
notification_group_member_exists(u, g, c) == <<g, c>> \in member /\ OwnsGroup(u, g) /\ OwnsChannel(u, c)

MembersOf(g) == {c \in Channels : <<g, c>> \in member}

\* ensure_group_member_count_allowed
CountAllowed(g) == Cardinality(MembersOf(g)) < MaxMembers

\* The join of channels_for_rule: channels of the group, both of the owner.
JoinedFor(u, g) == {c \in MembersOf(g) : OwnsGroup(u, g) /\ OwnsChannel(u, c)}

\* notification_channel_from_values skips rows that fail validation.
Usable(cs) == {c \in cs : channel[c].valid}

Goto(e, x) == edit' = [edit EXCEPT ![e] = x]

-----------------------------------------------------------------------------
(* Requests of one statement. *)

create_notification(u) ==
    /\ \E c \in Channels :
          /\ channel[c] = Nothing
          /\ channel' = [channel EXCEPT ![c] = [owner |-> u, valid |-> TRUE]]
    /\ UNCHANGED <<group, member, edit, tested>>

\* The members go with the row: ON DELETE CASCADE.
delete_notification(u) ==
    /\ \E c \in Channels :
          /\ OwnsChannel(u, c)
          /\ channel' = [channel EXCEPT ![c] = Nothing]
          /\ member' = {m \in member : m[2] # c}
    /\ UNCHANGED <<group, edit, tested>>

create_notification_group(u) ==
    /\ \E g \in Groups : group[g] = Nothing /\ group' = [group EXCEPT ![g] = u]
    /\ UNCHANGED <<channel, member, edit, tested>>

\* What is left behind: alert_rules.notification_group_id becomes NULL, which
\* AlertEngine adds to this step.
delete_notification_group(u, g) ==
    /\ OwnsGroup(u, g)
    /\ group' = [group EXCEPT ![g] = Nothing]
    /\ member' = {m \in member : m[1] # g}
    /\ UNCHANGED <<channel, edit, tested>>

\* Its two checks and the EXISTS of its DELETE ask for the same.
delete_notification_group_member(u) ==
    /\ \E m \in member :
          /\ OwnsGroup(u, m[1]) /\ OwnsChannel(u, m[2])
          /\ member' = member \ {m}
    /\ UNCHANGED <<channel, group, edit, tested>>

-----------------------------------------------------------------------------
(* Requests of several statements. *)

\* add_notification_group_member: both rows are the user's, and a channel that
\* is a member already ends the request.
AddMemberChecks(e) ==
    /\ edit[e] = Idle
    /\ \E u \in Users, g \in Groups, c \in Channels :
          /\ ensure_group_exists(u, g) /\ OwnsChannel(u, c)
          /\ Goto(e, IF notification_group_member_exists(u, g, c) THEN [at |-> "done"]
                     ELSE [at |-> "count", group |-> g, channel |-> c, user |-> u])
    /\ UNCHANGED <<channel, group, member, tested>>

AddMemberCounts(e) ==
    /\ edit[e].at = "count"
    /\ Goto(e, IF CountAllowed(edit[e].group) THEN [edit[e] EXCEPT !.at = "insert"]
               ELSE [at |-> "done"])
    /\ UNCHANGED <<channel, group, member, tested>>

\* ON CONFLICT DO NOTHING; a row that is gone fails the foreign key.
AddMemberInserts(e) ==
    /\ edit[e].at = "insert"
    /\ LET g == edit[e].group c == edit[e].channel IN
       IF group[g] # Nothing /\ channel[c] # Nothing
       THEN member' = member \cup {<<g, c>>}
       ELSE UNCHANGED member
    /\ Goto(e, [at |-> "done"])
    /\ UNCHANGED <<channel, group, tested>>

load_notification_record_for_owner(u, c) == OwnsChannel(u, c)

\* update_notification reads the row, looks up the URL's host and writes all
\* fields; what it writes passed validation.
UpdateReads(e) ==
    /\ edit[e] = Idle
    /\ \E u \in Users, c \in Channels :
          load_notification_record_for_owner(u, c) /\ Goto(e, [at |-> "write", channel |-> c, user |-> u])
    /\ UNCHANGED <<channel, group, member, tested>>

\* The row's fields with the new ones in their place do not pass, those that were stored included.
build_update_notification_input(e) ==
    /\ edit[e].at = "write" /\ Goto(e, [at |-> "done"])
    /\ UNCHANGED <<channel, group, member, tested>>

UpdateWrites(e) ==
    /\ edit[e].at = "write"
    /\ LET c == edit[e].channel IN
       channel' = IF OwnsChannel(edit[e].user, c)
                  THEN [channel EXCEPT ![c].valid = TRUE] ELSE channel
    /\ Goto(e, [at |-> "done"])
    /\ UNCHANGED <<group, member, tested>>

\* test_notification: the limiter forgets what is older than the cooldown and
\* takes the test; then the channel must validate and is sent to.
test_notification(u) ==
    /\ \E c \in Channels :
          /\ OwnsChannel(u, c)
          /\ tested[c] # Nothing => time - tested[c] >= Cooldown
          /\ tested' = [d \in Channels |->
                 IF d = c THEN time
                 ELSE IF tested[d] # Nothing /\ time - tested[d] >= Cooldown THEN Nothing
                 ELSE tested[d]]
    /\ UNCHANGED <<channel, group, member, edit>>

\* A request arrives; one of several statements goes on.  DELETE of a group is
\* AlertEngine's, which adds what it does to the rules.
NotifyRequest ==
    \/ \E u \in Users :
          \/ create_notification(u) \/ delete_notification(u)
          \/ create_notification_group(u) \/ delete_notification_group_member(u)
          \/ test_notification(u)
    \/ \E e \in Editors : AddMemberChecks(e) \/ UpdateReads(e)

NotifyContinues ==
    \E e \in Editors : AddMemberCounts(e) \/ AddMemberInserts(e) \/ build_update_notification_input(e) \/ UpdateWrites(e)
=============================================================================

--------------------------- MODULE ReadersProofs ----------------------------
(***************************************************************************)
(* Proofs about Maintenance and the modules it builds on: what the store   *)
(* of samples keeps (MetricsAreKept), what overlapping requests leave in   *)
(* the tables (StoredIsAsAsked) and what a dashboard is shown (CaughtUp).  *)
(* The three share BaseInv, which says what the tables hold and what a     *)
(* request carries from one of its steps to the next.                      *)
(***************************************************************************)
EXTENDS Maintenance, FiniteSetTheorems, SequenceTheorems, TLAPS

-----------------------------------------------------------------------------
(* What the tables hold and a request carries. *)

Fields == {"q", "at", "ids", "todo", "show", "ever", "always", "n", "view"}
Shaped(x) == DOMAIN x = Fields /\ "op" \in DOMAIN x.q

Catalogues == [Themes -> Uses \cup {Nothing}]
SiteKept(s) ==
    /\ DOMAIN s = SiteKeys /\ s.themes \in Catalogues
    /\ s.retention \in (1..MaxDays) \cup {Nothing} /\ {s.public, s.dashboard} \subseteq Themes \cup {Nothing}
Saved(b) == SiteKept(b.site) /\ IsTable(b.tasks)

Asks(q) ==
    /\ q.op \in {"publish", "sample"} => q.agent \in Agents
    /\ q.op = "ws" => q.user # Nothing
    /\ q.op = "settings" => \A i \in 1..Len(q.fields) : q.fields[i].key \in SettingKeys
    /\ q.op \in Edits \cup {"choose"} => q.theme \in Themes
    /\ q.op \in {"import", "retheme", "choose"} => q.target \in Uses
    /\ q.op \in {"create", "edit", "remove"} => q.task \in Tasks
    /\ q.op = "create" => q.new \in TaskRows
    /\ q.op = "edit" => IsPart(q.new)

\* The row that is about to be written, and for an update the one it was made from.
Drafted(x) ==
    IF x.q.op = "create" THEN x.todo = {x.q.new}
    ELSE \E old \in x.show : old \in TaskRows /\ x.show = {old} /\ x.todo = {Patched(x.q.new, old)}

Carries(x) ==
    /\ At(x, "settings", "field") => x.n \in Nat \ {0}
    /\ At(x, "retention", "setting") => x.q.k \in 1..MaxDays
    /\ At(x, "restore", "apply") => \A b \in x.todo : Saved(b)
    /\ x.q.op \in Edits /\ x.at = "catalogue" => \E c \in x.todo : x.todo = {c} /\ c \in Catalogues
    /\ x.q.op \in {"create", "edit"} /\ x.at \in {"servers", "write"} => Drafted(x)
    /\ x.q.op \in {"create", "edit"} /\ x.at = "write" => \A row \in x.todo : validate_task_target_and_payload(row)

TablesInv == SiteKept(site) /\ IsTable(tasks)
BaseInv ==
    /\ \A x \in live : Shaped(x) /\ Asks(x.q) /\ Carries(x)
    /\ TablesInv
    /\ \A b \in backups : Saved(b)

Carriers == {"settings", "retention", "restore", "create", "edit"} \cup Edits
ReaderOps == {"servers", "server", "metrics", "groups", "services", "service", "uptime", "status", "detail", "mjpeg"}
ChangeOps == {"owner", "revoke", "visibility", "regroup", "rechannel", "assign", "result"}
AlarmOps == {"rules", "unrule", "event", "events", "noticegroups"}
SocketOps == {"publish", "ws"}
SiteOps == {"settings", "choose"} \cup Edits
TaskOps == {"create", "edit", "remove", "run", "trigger", "scan", "tasks", "task", "runs", "triggers"}
StoreOps == {"sample", "compact", "retention", "backup", "archive", "restore", "restart", "day"}

LEMMA Untracked == ASSUME NEW x, x.q.op \notin Carriers PROVE Carries(x)
  BY DEF Carries, Carriers, At

-----------------------------------------------------------------------------
(* How a step changes the requests. *)

\* What comes in a request's place: the request itself, further on, or the runs that a scan starts.
Kin(r, s) ==
    /\ Shaped(s) /\ s.q.op = r.q.op /\ (r.q.op # "scan" => s.q = r.q)
    /\ r.q.op \in Carriers => Carries(s)
Plain(r) == \E S : (\A s \in S : Kin(r, s)) /\ live' = (live \ {r}) \cup S
Written(r) == \E S : (\A s \in S : Kin(r, s)) /\ live' = {Noted(x) : x \in (live \ {r}) \cup S}
Steps(r) == (Plain(r) /\ UNCHANGED <<agents, site>>) \/ Written(r)

LEMMA GoesOn == ASSUME NEW r, NEW x, Kin(r, x), Goto(r, x) PROVE Plain(r)
  <1>1. \A s \in {x} : Kin(r, s)
    OBVIOUS
  <1>. QED BY <1>1 DEF Plain, Goto

LEMMA Leaves == ASSUME NEW r, live' = live \ {r} PROVE Plain(r)
  <1>1. \A s \in {} : Kin(r, s)
    OBVIOUS
  <1>2. live' = (live \ {r}) \cup {}
    OBVIOUS
  <1>. QED BY <1>1, <1>2 DEF Plain

LEMMA WritesOn ==
    ASSUME NEW r, NEW S, \A s \in S : Kin(r, s), live' = {Noted(x) : x \in (live \ {r}) \cup S}
    PROVE  Written(r)
  BY DEF Written

LEMMA WritesLast == ASSUME NEW r, live' = {Noted(x) : x \in live \ {r}} PROVE Written(r)
  <1>1. \A s \in {} : Kin(r, s)
    OBVIOUS
  <1>2. live' = {Noted(x) : x \in (live \ {r}) \cup {}}
    OBVIOUS
  <1>. QED BY <1>1, <1>2 DEF Written

LEMMA Becomes == ASSUME NEW r, NEW x, Kin(r, x), live' = (live \ {r}) \cup {x} PROVE Plain(r)
  <1>1. \A s \in {x} : Kin(r, s)
    OBVIOUS
  <1>. QED BY <1>1 DEF Plain
LEMMA Refuses == ASSUME NEW r, Refuse(r) PROVE Plain(r)
  BY Leaves DEF Refuse
LEMMA Shows == ASSUME NEW r, NEW m, Show(r, m) PROVE Plain(r)
  BY Leaves DEF Show

LEMMA ReadersStep ==
    ASSUME NEW r \in live, Shaped(r), ReaderStep(r)
    PROVE  Plain(r) /\ r.q.op \in ReaderOps /\ UNCHANGED tables
  <1> USE GoesOn, Refuses, Shows, Becomes DEF Kin, Shaped, Fields, tables, ReaderOps, Carriers, Edits, At
  <1>1. CASE list_servers(r)
    BY <1>1 DEF list_servers, Reads
  <1>2. CASE get_server(r)
    BY <1>2 DEF get_server, Reads
  <1>3. CASE AddsDetails(r)
    BY <1>3 DEF AddsDetails, Reads
  <1>4. CASE list_server_groups(r)
    BY <1>4 DEF list_server_groups, Reads
  <1>5. CASE load_server_group_members(r)
    BY <1>5 DEF load_server_group_members, Reads
  <1>6. CASE ListServicesIds(r)
    BY <1>6 DEF ListServicesIds, Reads
  <1>7. CASE ListServicesRows(r)
    BY <1>7 DEF ListServicesRows, Reads
  <1>8. CASE load_service(r)
    BY <1>8 DEF load_service, Reads
  <1>9. CASE attach_service_server_ids(r)
    BY <1>9 DEF attach_service_server_ids, Reads
  <1>10. CASE service_visible_to_auth(r)
    BY <1>10 DEF service_visible_to_auth, Reads
  <1>11. CASE apply_visible_latest_results(r)
    BY <1>11 DEF apply_visible_latest_results, Reads
  <1>12. CASE LatestResult(r)
    BY <1>12 DEF LatestResult, Reads
  <1>13. CASE ServicesAnswered(r)
    BY <1>13 DEF ServicesAnswered, Reads
  <1>14. CASE attach_service_history(r)
    BY <1>14 DEF attach_service_history, Reads
  <1>15. CASE load_service_security_meta(r)
    BY <1>15 DEF load_service_security_meta, Reads
  <1>16. CASE ensure_service_history_visible_to_auth(r)
    BY <1>16 DEF ensure_service_history_visible_to_auth, Reads
  <1>17. CASE ensure_requested_server_visible_to_auth(r)
    BY <1>17 DEF ensure_requested_server_visible_to_auth, Reads
  <1>18. CASE resolve_query_server_ids(r)
    BY <1>18 DEF resolve_query_server_ids, Reads
  <1>19. CASE service_uptime_for_auth(r)
    BY <1>19 DEF service_uptime_for_auth, Reads
  <1>20. CASE list_service_history_for_auth(r)
    BY <1>20 DEF list_service_history_for_auth, Reads
  <1>21. CASE PublicStarts(r)
    BY <1>21 DEF PublicStarts, Reads
  <1>22. CASE public_agent_rows(r)
    BY <1>22 DEF public_agent_rows, Reads
  <1>23. CASE PublicDetails(r)
    BY <1>23 DEF PublicDetails, Reads
  <1>24. CASE public_services(r)
    BY <1>24 DEF public_services, Reads
  <1>25. CASE PublicServiceServers(r)
    BY <1>25 DEF PublicServiceServers, Reads
  <1>26. CASE PublicServiceHistory(r)
    BY <1>26 DEF PublicServiceHistory, Reads
  <1>27. CASE selected_public_theme_id(r)
    BY <1>27 DEF selected_public_theme_id, Reads
  <1>28. CASE public_status(r)
    BY <1>28 DEF public_status, Reads
  <1>29. CASE DetailSetting(r)
    BY <1>29 DEF DetailSetting, Reads
  <1>30. CASE public_server_detail(r)
    BY <1>30 DEF public_server_detail, Reads
  <1>31. CASE public_status_mjpeg(r)
    BY <1>31 DEF public_status_mjpeg, Reads
  <1>32. CASE FrameLock(r)
    BY <1>32 DEF FrameLock, Reads
  <1>33. CASE FrameCached(r)
    <2> DEFINE x == [r EXCEPT !.at = "frame"]
    <2>1. Kin(r, x) /\ Kin(r, [r EXCEPT !.at = "build"])
      BY <1>33 DEF FrameCached
    <2> HIDE DEF x
    <2>2. Refuse(r) \/ Goto(r, [r EXCEPT !.at = "build"]) \/ live' = (live \ {r}) \cup {x}
      BY <1>33 DEF FrameCached, x
    <2>. QED BY <1>33, <2>1, <2>2 DEF FrameCached
  <1>34. CASE FrameBuilt(r)
    BY <1>34 DEF FrameBuilt, Reads
  <1>35. CASE FrameStored(r)
    <2> DEFINE x == [r EXCEPT !.at = "frame", !.ids = {}]
    <2>1. Kin(r, x)
      BY <1>35 DEF FrameStored
    <2> HIDE DEF x
    <2>2. Refuse(r) \/ live' = (live \ {r}) \cup {x}
      BY <1>35 DEF FrameStored, x
    <2>. QED BY <1>35, <2>1, <2>2 DEF FrameStored
  <1>36. CASE StreamDropped(r)
    BY <1>36 DEF StreamDropped, Streaming
  <1>. QED BY <1>1, <1>2, <1>3, <1>4, <1>5, <1>6, <1>7, <1>8, <1>9, <1>10, <1>11, <1>12, <1>13, <1>14, <1>15, <1>16, <1>17, <1>18, <1>19, <1>20, <1>21, <1>22, <1>23, <1>24, <1>25, <1>26, <1>27, <1>28, <1>29, <1>30, <1>31, <1>32, <1>33, <1>34, <1>35, <1>36 DEF ReaderStep

LEMMA ChangesStep ==
    ASSUME NEW r \in live, Change(r)
    PROVE  Written(r) /\ r.q.op \in ChangeOps /\ UNCHANGED <<tasks, site>>
  <1> USE DEF ChangeOps, At
  <1>0. ASSUME Happens(r, {}) PROVE Written(r)
    <2>1. live' = {Noted(x) : x \in live \ {r}}
      BY <1>0 DEF Happens
    <2>. QED BY <2>1, WritesLast
  <1>1. CASE OwnerChanges(r)
    BY <1>0, <1>1 DEF OwnerChanges, SetAgents
  <1>2. CASE AgentRevoked(r)
    BY <1>0, <1>2 DEF AgentRevoked, SetAgents
  <1>3. CASE VisibilityChanges(r)
    BY <1>0, <1>3 DEF VisibilityChanges, SetAgents
  <1>4. CASE Regrouped(r)
    BY <1>0, <1>4 DEF Regrouped, SetAgents
  <1>5. CASE Rechannelled(r)
    BY <1>0, <1>5 DEF Rechannelled, SetAgents
  <1>6. CASE Reassigned(r)
    BY <1>0, <1>6 DEF Reassigned, SetAgents
  <1>7. CASE ResultSaved(r)
    BY <1>0, <1>7 DEF ResultSaved, SetAgents
  <1>. QED BY <1>0, <1>1, <1>2, <1>3, <1>4, <1>5, <1>6, <1>7 DEF Change

LEMMA AlarmsStep ==
    ASSUME NEW r \in live, Shaped(r), AlarmStep(r)
    PROVE  Plain(r) /\ r.q.op \in AlarmOps /\ UNCHANGED <<tables, hub, astray>>
  <1> USE GoesOn, Refuses, Shows, Becomes DEF Kin, Shaped, Fields, tables, AlarmOps, Carriers, Edits, At, Begun, Waiting
  <1>1. CASE list_alert_rules(r)
    BY <1>1 DEF list_alert_rules, Reads, ReadsAlarms
  <1>2. CASE list_alert_rules_visible_page(r)
    BY <1>2 DEF list_alert_rules_visible_page, Reads, ReadsAlarms
  <1>3. CASE NextAlertRule(r)
    BY <1>3 DEF NextAlertRule, Reads, ReadsAlarms
  <1>4. CASE AlertBatchDone(r)
    BY <1>4 DEF AlertBatchDone, Reads, ReadsAlarms
  <1>5. CASE ensure_alert_conditions_visible_to_auth(r)
    BY <1>5 DEF ensure_alert_conditions_visible_to_auth, Reads, ReadsAlarms
  <1>6. CASE AlertRuleListed(r)
    BY <1>6 DEF AlertRuleListed, Reads, ReadsAlarms
  <1>7. CASE delete_alert_rule(r)
    BY <1>7 DEF delete_alert_rule, Reads, ReadsAlarms
  <1>8. CASE AlertRuleDeleted(r)
    BY <1>8 DEF AlertRuleDeleted, Reads, ReadsAlarms
  <1>9. CASE EventStored(r)
    BY <1>9 DEF EventStored, Reads, ReadsAlarms
  <1>10. CASE list_alert_events(r)
    BY <1>10 DEF list_alert_events, Reads, ReadsAlarms
  <1>11. CASE list_groups_for_owner(r)
    BY <1>11 DEF list_groups_for_owner, Reads, ReadsAlarms
  <1>12. CASE NoticeMembers(r)
    BY <1>12 DEF NoticeMembers, Reads, ReadsAlarms
  <1>. QED BY <1>1, <1>2, <1>3, <1>4, <1>5, <1>6, <1>7, <1>8, <1>9, <1>10, <1>11, <1>12 DEF AlarmStep

LEMMA SocketsStep ==
    ASSUME NEW r \in live, Shaped(r), RealtimeStep(r)
    PROVE  Plain(r) /\ r.q.op \in SocketOps /\ UNCHANGED tables
  <1> USE GoesOn, Refuses, Shows, Becomes DEF Kin, Shaped, Fields, tables, SocketOps, Carriers, Edits, At
  <1>1. CASE publish(r)
    BY <1>1 DEF publish, hub
  <1>2. CASE Sends(r)
    BY <1>2 DEF Sends, hub
  <1>3. CASE ws_servers(r)
    BY <1>3 DEF ws_servers, hub
  <1>4. CASE subscribe(r)
    BY <1>4 DEF subscribe, hub
  <1>5. CASE SendsSnapshot(r)
    <2> DEFINE x == [r EXCEPT !.at = "recv", !.view = Snapshot(r), !.ever = {}]
    <2>1. Kin(r, x)
      BY <1>5 DEF SendsSnapshot
    <2> HIDE DEF x
    <2>2. live' = (live \ {r}) \cup {x}
      BY <1>5 DEF SendsSnapshot, x
    <2>. QED BY <1>5, <2>1, <2>2 DEF SendsSnapshot
  <1>6. CASE Receives(r)
    BY <1>6 DEF Receives, hub
  <1>7. CASE ForwardsEvent(r)
    <2> DEFINE e == channel[r.n]
               x == [r EXCEPT !.at = "recv", !.ids = @ \cup {e.agent}, !.view[e.agent] = e.n, !.ever = {}]
               y == [r EXCEPT !.at = "recv", !.ids = @ \ {e.agent}, !.ever = {}]
    <2>1. Kin(r, x) /\ Kin(r, y)
      BY <1>7 DEF ForwardsEvent
    <2>2. live' = (live \ {r}) \cup {x} \/ Goto(r, y)
      BY <1>7 DEF ForwardsEvent
    <2> HIDE DEF x, y
    <2>. QED BY <1>7, <2>1, <2>2 DEF ForwardsEvent
  <1>8. CASE CheckFails(r)
    BY <1>8 DEF CheckFails, hub
  <1>9. CASE Lagged(r)
    BY <1>9 DEF Lagged, hub
  <1>10. CASE SocketCloses(r)
    BY <1>10 DEF SocketCloses, hub
  <1>. QED BY <1>1, <1>2, <1>3, <1>4, <1>5, <1>6, <1>7, <1>8, <1>9, <1>10 DEF RealtimeStep

LEMMA SiteSet ==
    ASSUME NEW s, SiteKept(s), NEW key \in SiteKeys, NEW v,
           key = "themes" => v \in Catalogues, key \in Pages => v \in Themes \cup {Nothing}, key = "retention" => v \in 1..MaxDays
    PROVE  SiteKept([s EXCEPT ![key] = v])
  BY DEF SiteKept, SiteKeys, SettingKeys, Pages

LEMMA Sets ==
    ASSUME NEW r, NEW key, NEW value, NEW S, \A s \in S : Kin(r, s), set_raw_setting(r, key, value, S)
    PROVE  Written(r) /\ UNCHANGED <<tasks, hub>> /\ site' = [site EXCEPT ![key] = value]
  BY WritesOn DEF set_raw_setting

LEMMA EditsCatalogue ==
    ASSUME NEW r, Asks(r.q), r.q.op \in Edits, NEW c \in Catalogues, r.todo = {c}
    PROVE  /\ Edited(r) = [c EXCEPT ![r.q.theme] = IF r.q.op = "untheme" THEN Nothing ELSE r.q.target]
           /\ Edited(r) \in Catalogues
  <1>1. (CHOOSE x \in r.todo : TRUE) = c
    OBVIOUS
  <1>2. r.q.theme \in Themes /\ (r.q.op # "untheme" => r.q.target \in Uses)
    BY DEF Asks, Edits
  <1>. QED BY <1>1, <1>2 DEF Edited, Catalogues

LEMMA SitesStep ==
    ASSUME NEW r \in live, Shaped(r), Asks(r.q), Carries(r), SiteKept(site), SiteStep(r)
    PROVE  Steps(r) /\ r.q.op \in SiteOps /\ UNCHANGED <<tasks, hub>> /\ SiteKept(site')
  <1> USE GoesOn, Refuses, Shows, Becomes, Sets DEF Kin, Shaped, Fields, tables, Steps, SiteOps, Edits, At
  <1>0. \A s \in Following(r) : r.q.op \in {"untheme", "choose"} => Kin(r, s)
    BY DEF Following, Carries
  <1>1. CASE update_settings(r)
    <2> DEFINE x == [r EXCEPT !.at = "field", !.n = 1]
    <2>1. Kin(r, x)
      BY <1>1 DEF update_settings, Carries
    <2>2. r.q.op = "settings" /\ (Goto(r, x) \/ Refuse(r)) /\ NoWrite
      BY <1>1 DEF update_settings
    <2> HIDE DEF x
    <2>. QED BY <2>1, <2>2 DEF NoWrite, Reads
  <1>2. CASE ensure_geoip_ip_change_servers_active(r)
    BY <1>2 DEF ensure_geoip_ip_change_servers_active, Reads, NoWrite, Fielded, Carries
  <1>3. CASE FieldRefused(r)
    BY <1>3 DEF FieldRefused, Reads, NoWrite, Fielded
  <1>4. CASE WritesField(r)
    <2> DEFINE x == [r EXCEPT !.n = @ + 1, !.ids = {}]  S == {x}
    <2>0. r.q.op = "settings" /\ r.at = "field" /\ r.n <= Len(r.q.fields)
      BY <1>4 DEF WritesField, Fielded
    <2>1. Kin(r, x)
      BY <2>0 DEF Carries
    <2>2. set_raw_setting(r, Field(r).key, Field(r).value, S)
      BY <1>4 DEF WritesField
    <2> HIDE DEF x
    <2>3. \A s \in S : Kin(r, s)
      BY <2>1
    <2> HIDE DEF S
    <2>4. Field(r).key \in SettingKeys
      BY <2>0 DEF Carries, Asks, Field
    <2>5. SiteKept(site')
      BY <2>2, <2>3, <2>4, SiteSet DEF SiteKeys, SettingKeys, Pages
    <2>. QED BY <2>0, <2>2, <2>3, <2>5
  <1>5. CASE SettingsAnswered(r)
    BY <1>5 DEF SettingsAnswered, Reads, NoWrite
  <1>6. CASE custom_themes(r)
    <2> DEFINE x == [r EXCEPT !.at = "catalogue", !.todo = {site.themes}]
    <2>1. Kin(r, x)
      BY <1>6 DEF custom_themes, Carries, SiteKept
    <2>2. r.q.op \in Edits /\ (Goto(r, x) \/ Refuse(r)) /\ NoWrite
      BY <1>6 DEF custom_themes
    <2> HIDE DEF x
    <2>. QED BY <2>1, <2>2 DEF NoWrite, Reads
  <1>7. CASE set_custom_themes(r)
    <2>1. PICK c \in Catalogues : r.todo = {c}
      BY <1>7 DEF set_custom_themes, Carries
    <2>2. CASE set_raw_setting(r, "themes", Edited(r), {})
      BY <1>7, <2>1, <2>2, EditsCatalogue, SiteSet DEF set_custom_themes, SiteKeys, Pages
    <2>3. CASE Refuse(r) /\ NoWrite
      BY <1>7, <2>3 DEF set_custom_themes, NoWrite, Reads
    <2>. QED BY <1>7, <2>2, <2>3 DEF set_custom_themes
  <1>8. CASE delete_theme(r)
    <2> DEFINE x == [r EXCEPT !.at = "public", !.todo = {}]  S == {x}
    <2>0. r.q.op = "untheme" /\ r.at = "catalogue" /\ set_raw_setting(r, "themes", Edited(r), S)
      BY <1>8 DEF delete_theme
    <2>1. Kin(r, x)
      BY <2>0 DEF Carries
    <2>2. PICK c \in Catalogues : r.todo = {c}
      BY <2>0 DEF Carries
    <2> HIDE DEF x
    <2>3. \A s \in S : Kin(r, s)
      BY <2>1
    <2> HIDE DEF S
    <2>4. SiteKept(site')
      BY <2>0, <2>2, <2>3, EditsCatalogue, SiteSet DEF SiteKeys, Pages
    <2>. QED BY <2>0, <2>3, <2>4
  <1>9. CASE ReadsChosen(r)
    <2>1. CASE Goto(r, [r EXCEPT !.ids = {r.q.theme}])
      BY <1>9, <2>1 DEF ReadsChosen, NoWrite, Reads, Carries, Pages
    <2>2. CASE live' = (live \ {r}) \cup Following(r)
      BY <1>9, <2>2, <1>0 DEF ReadsChosen, NoWrite, Reads, Plain
    <2>. QED BY <1>9, <2>1, <2>2 DEF ReadsChosen
  <1>10. CASE ClearsChosen(r)
    <2>1. r.q.op = "untheme" /\ r.at \in Pages /\ set_raw_setting(r, r.at, Nothing, Following(r))
      BY <1>10 DEF ClearsChosen
    <2>2. SiteKept(site')
      BY <1>0, <2>1, SiteSet DEF SiteKeys, Pages
    <2>. QED BY <1>0, <2>1, <2>2
  <1>11. CASE select_theme(r)
    <2> DEFINE x == [r EXCEPT !.at = IF r.q.target = "dashboard" THEN "dashboard" ELSE "public"]
    <2>1. Kin(r, x)
      BY <1>11 DEF select_theme, Carriers
    <2>2. r.q.op = "choose" /\ (Goto(r, x) \/ Refuse(r)) /\ NoWrite
      BY <1>11 DEF select_theme
    <2> HIDE DEF x
    <2>. QED BY <2>1, <2>2 DEF NoWrite, Reads
  <1>12. CASE WritesChosen(r)
    <2> DEFINE S == IF r.q.target = "both" THEN Following(r) ELSE {}
    <2>1. r.q.op = "choose" /\ r.at \in Pages /\ set_raw_setting(r, r.at, r.q.theme, S)
      BY <1>12 DEF WritesChosen
    <2>2. \A s \in S : Kin(r, s)
      BY <1>0, <2>1
    <2> HIDE DEF S
    <2>3. SiteKept(site')
      BY <2>1, <2>2, SiteSet DEF SiteKeys, Pages, Asks
    <2>. QED BY <2>1, <2>2, <2>3
  <1>13. CASE SiteDropped(r)
    BY <1>13 DEF SiteDropped, Reads, NoWrite
  <1>. QED BY <1>1, <1>2, <1>3, <1>4, <1>5, <1>6, <1>7, <1>8, <1>9, <1>10, <1>11, <1>12, <1>13 DEF SiteStep

-----------------------------------------------------------------------------
(* Tasks. *)

LEMMA Merged == ASSUME NEW new, IsPart(new), NEW old \in TaskRows PROVE Patched(new, old) \in TaskRows
  <1> DEFINE N == {"owner", "type", "command", "payload", "cover", "ids", "source", "group", "tags", "exclude", "notice",
                   "push", "enabled", "cron"}
             m == Patched(new, old)
  <1>1. DOMAIN TaskFields = N /\ DOMAIN old = N
    BY DEF TaskFields, TaskRows
  <1>2. m = [x \in DOMAIN old |-> IF x \in DOMAIN new THEN new[x] ELSE old[x]]
    BY DEF Patched
  <1>3. DOMAIN new \subseteq N
    BY <1>1 DEF IsPart
  <1>4. \A f \in N : old[f] \in TaskFields[f]
    BY DEF TaskFields, TaskRows
  <1> HIDE DEF m
  <1>5. m = [f \in N |-> m[f]] /\ \A f \in N : m[f] \in TaskFields[f]
    BY <1>1, <1>2, <1>3, <1>4 DEF IsPart
  <1>6. m \in TaskRows
    BY <1>5 DEF TaskRows, TaskFields
  <1>. QED BY <1>6 DEF m

LEMMA Chosen == ASSUME NEW r, NEW row, r.todo = {row} PROVE RowOfTask(r) = row
  BY DEF RowOfTask

LEMMA SetsTask ==
    ASSUME NEW r, NEW row, NEW left, SetTask(r, row, left)
    PROVE  Written(r) /\ UNCHANGED <<agents, site, hub, astray>> /\ tasks' = [tasks EXCEPT ![r.q.task] = row]
  BY WritesLast DEF SetTask

LEMMA TableSet ==
    ASSUME NEW ts, IsTable(ts), NEW t \in Tasks, NEW row \in TaskRows \cup {Nothing}, row # Nothing => validate_task_target_and_payload(row)
    PROVE  IsTable([ts EXCEPT ![t] = row])
  BY DEF IsTable

\* The row that an insert or an update writes.
LEMMA Draft ==
    ASSUME NEW r, Asks(r.q), Carries(r), r.q.op \in {"create", "edit"}, r.at \in {"servers", "write"}
    PROVE  /\ r.todo = {RowOfTask(r)} /\ RowOfTask(r) \in TaskRows
           /\ r.at = "write" => validate_task_target_and_payload(RowOfTask(r))
           /\ r.q.op = "create" => RowOfTask(r) = r.q.new
           /\ r.q.op = "edit" => \E old \in TaskRows : r.show = {old} /\ RowOfTask(r) = Patched(r.q.new, old)
  <1>1. CASE r.q.op = "create"
    BY <1>1, Chosen DEF Carries, Drafted, Asks
  <1>2. CASE r.q.op = "edit"
    <2>1. PICK old \in TaskRows : r.show = {old} /\ r.todo = {Patched(r.q.new, old)}
      BY <1>2 DEF Carries, Drafted
    <2>2. Patched(r.q.new, old) \in TaskRows
      BY <1>2, Merged DEF Asks
    <2>. QED BY <1>2, <2>1, <2>2, Chosen DEF Carries
  <1>. QED BY <1>1, <1>2

\* What was asked for is what is there, as far as no update overlapped another.
AskedInv == asked \in [Tasks -> TaskRows \cup {Nothing}] /\ TasksAreAsAsked
TasksKept == UNCHANGED <<tasks, asked, mixed>> \/ (IsTable(tasks)' /\ AskedInv')

LEMMA TaskWritten ==
    ASSUME NEW r, Shaped(r), Asks(r.q), Carries(r), IsTable(tasks), AskedInv, TaskInserted(r) \/ TaskUpdated(r) \/ TaskDeleted(r)
    PROVE  Steps(r) /\ r.q.op \in TaskOps /\ UNCHANGED <<site, hub, astray>> /\ TasksKept
  <1> USE DEF TaskOps, At
  <1> DEFINE t == r.q.task  row == RowOfTask(r)
  <1>0. Nothing \notin TaskRows
    BY TasksAssumption
  <1>1. CASE TaskInserted(r)
    <2>1. t \in Tasks /\ row \in TaskRows /\ row = r.q.new /\ validate_task_target_and_payload(row)
      BY <1>1, Draft DEF TaskInserted, Asks
    <2>2. SetTask(r, row, runs) /\ asked' = [asked EXCEPT ![t] = row] /\ mixed' = mixed /\ r.q.op = "create"
      BY <1>1, <2>1 DEF TaskInserted
    <2> HIDE DEF row
    <2>3. IsTable(tasks)'
      BY <2>1, <2>2, SetsTask, TableSet
    <2>4. AskedInv'
      BY <1>0, <2>1, <2>2, SetsTask DEF AskedInv, TasksAreAsAsked, IsTable
    <2>. QED BY <2>2, <2>3, <2>4, SetsTask DEF Steps, TasksKept
  <1>2. CASE TaskUpdated(r)
    <2>1. t \in Tasks /\ row \in TaskRows /\ validate_task_target_and_payload(row) /\ r.q.op = "edit" /\ IsPart(r.q.new)
      BY <1>2, Draft DEF TaskUpdated, Asks
    <2>2. PICK old \in TaskRows : r.show = {old} /\ row = Patched(r.q.new, old)
      BY <1>2, Draft DEF TaskUpdated
    <2>3. CASE Refuse(r) /\ ReadsTasks
      BY <2>1, <2>3, Refuses DEF Steps, ReadsTasks, Reads, tables, history, TasksKept
    <2>4. CASE ~(Refuse(r) /\ ReadsTasks)
      <3>1. /\ tasks[t] # Nothing /\ SetTask(r, row, runs) /\ asked' = [asked EXCEPT ![t] = Patched(r.q.new, @)]
            /\ mixed' = IF tasks[t] = old THEN mixed ELSE mixed \cup {t}
        BY <1>2, <2>2, <2>4 DEF TaskUpdated
      <3>2. IsTable(tasks)'
        BY <2>1, <3>1, SetsTask, TableSet
      <3>3. asked[t] \in TaskRows /\ Patched(r.q.new, asked[t]) \in TaskRows
        BY <2>1, <3>1, Merged DEF AskedInv, TasksAreAsAsked
      <3>4. t \notin mixed' => asked[t] = old
        BY <2>1, <3>1 DEF AskedInv, TasksAreAsAsked
      <3>5. DOMAIN tasks = Tasks /\ DOMAIN asked = Tasks
        BY DEF IsTable, AskedInv
      <3> HIDE DEF row
      <3>6. tasks' = [tasks EXCEPT ![t] = row] /\ asked' = [asked EXCEPT ![t] = Patched(r.q.new, asked[t])] /\ mixed \subseteq mixed'
        BY <3>1, <3>5, SetsTask
      <3>7. ASSUME NEW u \in Tasks PROVE (tasks'[u] = Nothing <=> asked'[u] = Nothing) /\ (u \notin mixed' => tasks'[u] = asked'[u])
        <4>1. CASE u = t
          BY <1>0, <2>1, <2>2, <3>3, <3>4, <3>5, <3>6, <4>1
        <4>2. CASE u # t
          BY <3>5, <3>6, <4>2 DEF AskedInv, TasksAreAsAsked
        <4>. QED BY <4>1, <4>2
      <3>8. asked' \in [Tasks -> TaskRows \cup {Nothing}]
        BY <3>3, <3>6 DEF AskedInv
      <3>9. AskedInv'
        BY <3>7, <3>8 DEF AskedInv, TasksAreAsAsked
      <3>. QED BY <2>1, <3>1, <3>2, <3>9, SetsTask DEF Steps, TasksKept
    <2>. QED BY <2>3, <2>4
  <1>3. CASE TaskDeleted(r)
    <2>1. t \in Tasks /\ r.q.op = "remove"
      BY <1>3 DEF TaskDeleted, Asks
    <2>2. SetTask(r, Nothing, {x \in runs : x[1] # t}) /\ asked' = [asked EXCEPT ![t] = Nothing] /\ mixed' = mixed
      BY <1>3 DEF TaskDeleted
    <2>3. IsTable(tasks)'
      BY <2>1, <2>2, SetsTask, TableSet
    <2>4. AskedInv'
      BY <2>1, <2>2, SetsTask DEF AskedInv, TasksAreAsAsked, IsTable
    <2>. QED BY <2>1, <2>2, <2>3, <2>4, SetsTask DEF Steps, TasksKept
  <1>. QED BY <1>1, <1>2, <1>3

LEMMA TasksStep ==
    ASSUME NEW r \in live, Shaped(r), Asks(r.q), Carries(r), IsTable(tasks), AskedInv, TaskStep(r)
    PROVE  Steps(r) /\ r.q.op \in TaskOps /\ UNCHANGED <<site, hub, astray>> /\ TasksKept
  <1> USE GoesOn, Refuses, Shows, Becomes DEF Kin, Shaped, Fields, tables, Steps, TaskOps, Carriers, Edits, Starting, At, history, TasksKept
  <1>1. CASE create_task(r)
    <2> DEFINE x == [r EXCEPT !.at = "servers", !.todo = {r.q.new}]
    <2>1. Kin(r, x)
      BY <1>1 DEF create_task, Carries, Drafted
    <2>2. r.q.op = "create" /\ (Goto(r, x) \/ Refuse(r)) /\ ReadsTasks
      BY <1>1 DEF create_task
    <2> HIDE DEF x
    <2>. QED BY <2>1, <2>2 DEF ReadsTasks, Reads
  <1>2. CASE update_task(r)
    <2> DEFINE old == tasks[r.q.task]  x == [r EXCEPT !.at = "servers", !.todo = {Patched(r.q.new, old)}, !.show = {old}]
    <2>1. r.q.op = "edit" /\ ((old # Nothing /\ Goto(r, x)) \/ Refuse(r)) /\ ReadsTasks
      BY <1>2 DEF update_task
    <2>2. ASSUME old # Nothing PROVE Kin(r, x)
      <3>1. old \in TaskRows
        BY <2>1, <2>2 DEF Asks, IsTable
      <3>2. Drafted(x)
        BY <2>1, <3>1 DEF Drafted
      <3>3. Carries(x)
        BY <2>1, <3>2 DEF Carries
      <3>. QED BY <2>1, <3>3
    <2> HIDE DEF x, old
    <2>. QED BY <2>1, <2>2 DEF ReadsTasks, Reads
  <1>3. CASE ensure_explicit_selector_servers_active(r)
    <2>1. PICK a : (Goto(r, [r EXCEPT !.ids = @ \cup {a}]) \/ Refuse(r)) /\ r.q.op \in {"create", "edit"} /\ r.at = "servers" /\ ReadsTasks
      BY <1>3 DEF ensure_explicit_selector_servers_active
    <2> DEFINE x == [r EXCEPT !.ids = @ \cup {a}]
    <2>2. Drafted(x)
      BY <2>1 DEF Carries, Drafted
    <2>3. Kin(r, x)
      BY <2>1, <2>2 DEF Carries
    <2> HIDE DEF x
    <2>. QED BY <2>1, <2>3 DEF ReadsTasks, Reads, x
  <1>4. CASE ensure_selector_groups_owned(r)
    <2> DEFINE x == [r EXCEPT !.at = "write"]
    <2>1. /\ (validate_task_target_and_payload(RowOfTask(r)) /\ Goto(r, x)) \/ Refuse(r)
          /\ r.q.op \in {"create", "edit"} /\ r.at = "servers" /\ ReadsTasks
      BY <1>4 DEF ensure_selector_groups_owned, validate_task_definition
    <2>2. Drafted(x)
      BY <2>1 DEF Carries, Drafted
    <2>3. ASSUME validate_task_target_and_payload(RowOfTask(r)) PROVE Kin(r, x)
      <3>1. \A row \in x.todo : validate_task_target_and_payload(row)
        BY <2>1, <2>3, Draft
      <3>2. Carries(x)
        BY <2>1, <2>2, <3>1 DEF Carries
      <3>. QED BY <2>1, <3>2
    <2> HIDE DEF x
    <2>. QED BY <2>1, <2>3 DEF ReadsTasks, Reads
  <1>5. CASE TaskInserted(r)
    BY <1>5, TaskWritten
  <1>6. CASE TaskUpdated(r)
    BY <1>6, TaskWritten
  <1>7. CASE delete_task(r)
    BY <1>7 DEF delete_task, ReadsTasks, Reads
  <1>8. CASE TaskDeleted(r)
    BY <1>8, TaskWritten
  <1>9. CASE run_task(r)
    BY <1>9 DEF run_task, ReadsTasks, Reads
  <1>10. CASE run_triggered_task(r)
    BY <1>10 DEF run_triggered_task, ReadsTasks, Reads
  <1>11. CASE StartsDue(r)
    <2> DEFINE N(t) == [r EXCEPT !.at = "owned", !.q.task = t, !.todo = {tasks[t]}]  S == {N(t) : t \in Scheduled}
    <2>1. r.q.op = "scan" /\ live' = (live \ {r}) \cup S /\ UNCHANGED <<tables, hub, astray, history>>
      BY <1>11 DEF StartsDue, At, ReadsTasks, Reads
    <2>2. ASSUME NEW t PROVE Kin(r, N(t))
      BY <2>1
    <2> HIDE DEF N
    <2>3. \A s \in S : Kin(r, s)
      BY <2>2
    <2> HIDE DEF S
    <2>. QED BY <2>1, <2>3 DEF Plain
  <1>12. CASE list_owned_agent_records(r)
    BY <1>12 DEF list_owned_agent_records, ReadsTasks, Reads
  <1>13. CASE Resolves(r)
    BY <1>13 DEF Resolves, ReadsTasks, Reads
  <1>14. CASE RunEnds(r)
    BY <1>14, Leaves DEF RunEnds, ReadsTasks, Reads
  <1>15. CASE list_visible_tasks(r)
    BY <1>15 DEF list_visible_tasks, ReadsTasks, Reads
  <1>16. CASE get_task(r)
    BY <1>16 DEF get_task, ReadsTasks, Reads
  <1>17. CASE get_task_runs(r)
    BY <1>17 DEF get_task_runs, ReadsTasks, Reads
  <1>18. CASE ensure_task_ids_visible_to_auth_session(r)
    BY <1>18 DEF ensure_task_ids_visible_to_auth_session, ReadsTasks, Reads
  <1>19. CASE TaskDropped(r)
    BY <1>19 DEF TaskDropped, ReadsTasks, Reads
  <1>20. ASSUME NEW a \in Agents, DispatchesTo(r, a) PROVE Steps(r) /\ r.q.op \in TaskOps /\ UNCHANGED <<site, hub, astray>> /\ TasksKept
    <2> DEFINE x == [r EXCEPT !.ids = @ \ {a}]  y == [r EXCEPT !.ids = @ \ {a}, !.show = {"error"}]  S == {x}
    <2>1. Kin(r, x) /\ Kin(r, y)
      BY <1>20 DEF DispatchesTo
    <2>2. /\ live' = {Noted(z) : z \in (live \ {r}) \cup S} \/ live' = (live \ {r}) \cup {y}
          /\ UNCHANGED <<agents, site, hub, astray, tasks, asked, mixed>> /\ r.q.op \in TaskOps
      BY <1>20 DEF DispatchesTo
    <2> HIDE DEF x, y
    <2>3. \A s \in S : Kin(r, s)
      BY <2>1
    <2> HIDE DEF S
    <2>. QED BY <2>1, <2>2, <2>3, WritesOn
  <1>. QED BY <1>1, <1>2, <1>3, <1>4, <1>5, <1>6, <1>7, <1>8, <1>9, <1>10, <1>11, <1>12, <1>13, <1>14, <1>15, <1>16, <1>17, <1>18, <1>19, <1>20 DEF TaskStep

-----------------------------------------------------------------------------
(* Maintenance.  Two of its steps change other requests as well: see RetentionSet and Restarts. *)

LEMMA UnlessStep == ASSUME NEW r, UnlessMetrics(r) PROVE Plain(r) /\ UNCHANGED <<tables, frames, hub, astray, alarms, history>>
  BY Refuses DEF UnlessMetrics

LEMMA BackupSaved == ASSUME TablesInv PROVE Saved(sqlite_backup_bytes)
  BY DEF TablesInv, Saved, sqlite_backup_bytes

LEMMA StoreStep ==
    ASSUME NEW r \in live, BaseInv, AskedInv, MaintenanceStep(r), ~update_tsdb_retention(r), ~Restart(r)
    PROVE  /\ Steps(r) /\ r.q.op \in StoreOps /\ UNCHANGED hub
           /\ SiteKept(site') /\ TasksKept /\ \A b \in backups' : Saved(b)
  <1> USE GoesOn, Refuses, Shows, Becomes, UnlessStep DEF Kin, Shaped, Fields, tables, Steps, StoreOps, Carriers, Edits, At, history, TasksKept, maintenance, metrics
  <1>0. Shaped(r) /\ Carries(r) /\ SiteKept(site) /\ IsTable(tasks) /\ \A b \in backups : Saved(b)
    BY DEF BaseInv, TablesInv
  <1>1. CASE WriteBegins(r)
    BY <1>0, <1>1 DEF WriteBegins, ReadsTasks, Reads
  <1>2. CASE write(r)
    BY <1>0, <1>2 DEF write
  <1>3. CASE compact_tsdb(r)
    BY <1>0, <1>3 DEF compact_tsdb
  <1>4. CASE set_tsdb_retention_days(r)
    <2>1. r.q.op = "retention" /\ r.at = "setting" /\ set_raw_setting(r, "retention", r.q.k, {}) /\ UNCHANGED <<history, backups>>
      BY <1>4 DEF set_tsdb_retention_days
    <2>2. r.q.k \in 1..MaxDays
      BY <1>0, <2>1 DEF Carries
    <2>3. Written(r) /\ UNCHANGED <<tasks, hub>> /\ site' = [site EXCEPT !["retention"] = r.q.k]
      BY <2>1, Sets
    <2>4. SiteKept(site')
      BY <1>0, <2>2, <2>3, SiteSet DEF SiteKeys, Pages
    <2>. QED BY <1>0, <2>1, <2>3, <2>4
  <1>5. CASE RetentionDropped(r)
    BY <1>0, <1>5 DEF RetentionDropped
  <1>6. CASE download_backup(r)
    BY <1>0, <1>6, BackupSaved DEF download_backup, BaseInv
  <1>7. CASE download_archive(r)
    <2> DEFINE x == [r EXCEPT !.at = "export"]
    <2>1. /\ Goto(r, x) \/ Refuse(r)
          /\ r.q.op = "archive" /\ ReadsTasks /\ backups' \subseteq backups \cup {sqlite_backup_bytes}
      BY <1>7 DEF download_archive
    <2>2. Kin(r, x)
      BY <1>0, <2>1
    <2> HIDE DEF x
    <2>. QED BY <1>0, <2>1, <2>2, BackupSaved DEF BaseInv, ReadsTasks, Reads
  <1>8. CASE ArchiveExports(r)
    BY <1>0, <1>8, Leaves DEF ArchiveExports, ReadsTasks, Reads
  <1>9. CASE validate_restore_candidate(r)
    <2>1. /\ Refuse(r) \/ \E b \in backups : Goto(r, [r EXCEPT !.at = "apply", !.todo = {b}])
          /\ r.q.op = "restore" /\ ReadsTasks /\ UNCHANGED backups
      BY <1>9 DEF validate_restore_candidate
    <2>2. ASSUME NEW b \in backups PROVE Kin(r, [r EXCEPT !.at = "apply", !.todo = {b}])
      BY <1>0, <2>1 DEF Carries
    <2>. QED BY <1>0, <2>1, <2>2 DEF ReadsTasks, Reads
  <1>10. CASE apply_sqlite_restore(r)
    <2>1. /\ r.q.op = "restore" /\ r.at = "apply" /\ live' = {Noted(x) : x \in live \ {r}} /\ UNCHANGED <<hub, mixed, backups>>
          /\ \E b \in r.todo : tasks' = b.tasks /\ site' = b.site /\ asked' = b.tasks
      BY <1>10 DEF apply_sqlite_restore
    <2>2. SiteKept(site') /\ IsTable(tasks)' /\ asked' = tasks'
      BY <1>0, <2>1 DEF Carries, Saved
    <2>3. AskedInv'
      BY <2>2 DEF AskedInv, TasksAreAsAsked, IsTable
    <2>. QED BY <1>0, <2>1, <2>2, <2>3, WritesLast
  <1>11. CASE RestoreFails(r)
    BY <1>0, <1>11 DEF RestoreFails
  <1>12. CASE DayPasses(r)
    BY <1>0, <1>12 DEF DayPasses
  <1>. QED BY <1>1, <1>2, <1>3, <1>4, <1>5, <1>6, <1>7, <1>8, <1>9, <1>10, <1>11, <1>12 DEF MaintenanceStep

-----------------------------------------------------------------------------
(* What stays of a request while others step. *)

Like(y, x) ==
    /\ Shaped(y) /\ y.q = x.q /\ y.at = x.at /\ y.ids = x.ids /\ y.todo = x.todo /\ y.show = x.show /\ y.n = x.n /\ y.view = x.view

LEMMA NotedAlike ==
    ASSUME NEW x, Shaped(x)
    PROVE  /\ Like(Noted(x), x) /\ Noted(x).always \subseteq Sees(x.q)'
           /\ x.at # "start" => Noted(x).always \subseteq x.always
  <1> DEFINE S == Sees(x.q)'
  <1>1. Noted(x) = IF x.at = "start" THEN [x EXCEPT !.ever = S, !.always = S] ELSE [x EXCEPT !.ever = @ \cup S, !.always = @ \cap S]
    BY DEF Noted
  <1> HIDE DEF S
  <1>2. Like(Noted(x), x) /\ Noted(x).always \subseteq S /\ (x.at # "start" => Noted(x).always \subseteq x.always)
    BY <1>1 DEF Like, Shaped, Fields
  <1>. QED BY <1>2 DEF S

LEMMA LikeItself == ASSUME NEW x, Shaped(x) PROVE Like(x, x)
  BY DEF Like

LEMMA LikeCarries == ASSUME NEW x, NEW y, Like(y, x), Carries(x) PROVE Carries(y)
  BY DEF Like, Carries, Drafted, At

\* After a step of r every request is one that was there, or one that comes in r's place.
LEMMA Follow ==
    ASSUME NEW r \in live, \A x \in live : Shaped(x), Steps(r), NEW y \in live'
    PROVE  (\E x \in live \ {r} : Like(y, x)) \/ (\E s : Kin(r, s) /\ Like(y, s))
  <1>1. CASE Plain(r)
    <2>1. PICK S : (\A s \in S : Kin(r, s)) /\ live' = (live \ {r}) \cup S
      BY <1>1 DEF Plain
    <2>. QED BY <2>1, LikeItself DEF Kin
  <1>2. CASE Written(r)
    <2>1. PICK S : (\A s \in S : Kin(r, s)) /\ live' = {Noted(x) : x \in (live \ {r}) \cup S}
      BY <1>2 DEF Written
    <2>2. PICK x \in (live \ {r}) \cup S : y = Noted(x)
      BY <2>1
    <2>3. Like(y, x)
      BY <2>1, <2>2, NotedAlike DEF Kin
    <2>. QED BY <2>1, <2>2, <2>3
  <1>. QED BY <1>1, <1>2 DEF Steps

\* And each of the others is still there.
LEMMA Remain ==
    ASSUME NEW r \in live, \A x \in live : Shaped(x), Steps(r), NEW x \in live \ {r}
    PROVE  \E y \in live' : Like(y, x)
  <1>1. CASE Plain(r)
    BY <1>1, LikeItself DEF Plain
  <1>2. CASE Written(r)
    <2>1. Noted(x) \in live'
      BY <1>2 DEF Written
    <2>. QED BY <2>1, NotedAlike
  <1>. QED BY <1>1, <1>2 DEF Steps

\* What a request carries is what the next steps of it rely on.
LEMMA LiveKept ==
    ASSUME NEW r \in live, \A x \in live : Shaped(x) /\ Asks(x.q) /\ Carries(x), Steps(r), NEW y \in live'
    PROVE  Shaped(y) /\ Asks(y.q) /\ Carries(y)
  <1>1. CASE \E x \in live : Like(y, x)
    BY <1>1, LikeCarries DEF Like
  <1>2. ASSUME NEW s, Kin(r, s), Like(y, s) PROVE Shaped(y) /\ Asks(y.q) /\ Carries(y)
    <2>1. Shaped(y) /\ y.q = s.q /\ s.q.op = r.q.op /\ (r.q.op # "scan" => s.q = r.q)
      BY <1>2 DEF Kin, Like
    <2>2. Carries(y)
      BY <1>2, <2>1, LikeCarries, Untracked DEF Kin
    <2>3. Asks(y.q)
      <3>1. CASE r.q.op = "scan"
        BY <2>1, <3>1 DEF Asks, Edits
      <3>2. CASE r.q.op # "scan"
        BY <2>1, <3>2
      <3>. QED BY <3>1, <3>2
    <2>. QED BY <2>1, <2>2, <2>3
  <1>. QED BY <1>1, <1>2, Follow

-----------------------------------------------------------------------------
(* BaseInv is inductive, together with what the tasks were asked to be. *)

CoreInv == BaseInv /\ AskedInv

LEMMA RetentionSet ==
    ASSUME NEW r \in live, BaseInv, update_tsdb_retention(r)
    PROVE  /\ r.q.op = "retention" /\ UNCHANGED <<tables, hub, astray, history, written, today, backups>>
           /\ \/ Plain(r) /\ Refuse(r) /\ r.at = "start" /\ UNCHANGED <<retention, shortest, series, apart>>
              \/ /\ r.q.k \in 1..MaxDays /\ retention' = r.q.k /\ shortest' = Least(shortest, r.q.k)
                 /\ series' = compact_all(cutoff_for_retention(today, r.q.k)) /\ apart' = (apart \/ Updating # {})
                 /\ live' = (live \ (Updating \cup {r})) \cup {[x EXCEPT !.n = 1] : x \in Updating}
                            \cup {[r EXCEPT !.at = "setting", !.n = IF Updating = {} THEN 0 ELSE 1]}
  BY Refuses DEF update_tsdb_retention, At, normalize_tsdb_retention_days

\* A request that is there after the retention was set.
LEMMA AfterSet ==
    ASSUME NEW r \in live, BaseInv, r.q.op = "retention", r.q.k \in 1..MaxDays,
           live' = (live \ (Updating \cup {r})) \cup {[x EXCEPT !.n = 1] : x \in Updating}
                   \cup {[r EXCEPT !.at = "setting", !.n = IF Updating = {} THEN 0 ELSE 1]},
           NEW y \in live'
    PROVE  /\ Shaped(y) /\ Asks(y.q) /\ Carries(y)
           /\ y \in live \/ y.q.op = "retention"
  <1>0. \A x \in live : Shaped(x) /\ Asks(x.q) /\ Carries(x)
    BY DEF BaseInv
  <1>1. CASE y \in live
    BY <1>0, <1>1
  <1>2. ASSUME NEW x \in Updating, y = [x EXCEPT !.n = 1] PROVE Shaped(y) /\ y.q = x.q /\ y.at = "setting" /\ x \in live /\ x.q.op = "retention" /\ x.q.k \in 1..MaxDays
    BY <1>0, <1>2 DEF Updating, At, Shaped, Fields, Carries
  <1>3. CASE y = [r EXCEPT !.at = "setting", !.n = IF Updating = {} THEN 0 ELSE 1]
    <2>1. Shaped(y) /\ y.q = r.q /\ y.at = "setting"
      BY <1>0, <1>3 DEF Shaped, Fields
    <2>2. Carries(y)
      BY <2>1 DEF Carries, At, Edits
    <2>. QED BY <1>0, <2>1, <2>2
  <1>4. CASE \E x \in Updating : y = [x EXCEPT !.n = 1]
    <2>1. PICK x \in Updating : y = [x EXCEPT !.n = 1]
      BY <1>4
    <2>2. Shaped(y) /\ y.q = x.q /\ y.at = "setting" /\ x \in live /\ x.q.op = "retention" /\ x.q.k \in 1..MaxDays
      BY <1>2, <2>1
    <2>3. Carries(y)
      BY <2>2 DEF Carries, At, Edits
    <2>. QED BY <1>0, <2>2, <2>3
  <1>. QED BY <1>1, <1>3, <1>4

LEMMA Restarts ==
    ASSUME NEW r \in live, Restart(r)
    PROVE  /\ r.q.op = "restart" /\ live' = {x \in live \ {r} : x.at = "start"} /\ UNCHANGED <<tables, history, backups, today>>
           /\ latest' = [a \in Agents |-> 0] /\ channel' = <<>> /\ reports' = reports
           /\ astray' = astray \cup {x.q.theme : x \in {x \in live : x.q.op = "untheme" /\ x.at \in Pages}}
           /\ series' = NoSamples /\ written' = NoSamples /\ retention' = tsdb_retention_days /\ shortest' = retention' /\ apart' = FALSE
  BY DEF Restart, At, StartRetention

LEMMA CoreInit == Init => CoreInv
  <1> SUFFICES ASSUME Init PROVE CoreInv
    OBVIOUS
  <1>1. PICK x0 \in Rows : site = x0.site /\ tasks = x0.tasks
    BY DEF Init, TasksInit, ReadersInit
  <1>2. IsSaved(x0.site) /\ IsTable(x0.tasks)
    BY RowsAssumption
  <1>3. TablesInv
    BY <1>1, <1>2 DEF TablesInv, IsSaved, SiteOK, SiteKept, Catalogues
  <1>4. PICK w \in Workloads : live = {Request(q) : q \in w}
    BY DEF Init, TasksInit, ReadersInit
  <1>5. ASSUME NEW x \in live PROVE Shaped(x) /\ Asks(x.q) /\ Carries(x)
    <2>1. PICK q \in w : x = Request(q)
      BY <1>4
    <2>2. x.q = q /\ x.at = "start" /\ DOMAIN x = Fields
      BY <2>1 DEF Request, Fields
    <2>3. "op" \in DOMAIN q /\ Asks(q)
      BY WorkloadsAssumption DEF Asks
    <2>4. Carries(x)
      BY <2>2 DEF Carries, At, Pages
    <2>. QED BY <2>2, <2>3, <2>4 DEF Shaped
  <1>6. AskedInv
    BY <1>3 DEF Init, TasksInit, AskedInv, TasksAreAsAsked, TablesInv, IsTable
  <1>. QED BY <1>3, <1>5, <1>6 DEF CoreInv, BaseInv, Init

LEMMA CoreNext == CoreInv /\ [Next]_vars => CoreInv'
  <1> SUFFICES ASSUME CoreInv, [Next]_vars PROVE CoreInv'
    OBVIOUS
  <1>0. BaseInv /\ AskedInv /\ TablesInv /\ SiteKept(site) /\ IsTable(tasks) /\ \A x \in live : Shaped(x) /\ Asks(x.q) /\ Carries(x)
    BY DEF CoreInv, BaseInv, TablesInv
  <1>1. ASSUME NEW r \in live, Steps(r), SiteKept(site'), TasksKept, \A b \in backups' : Saved(b) PROVE CoreInv'
    <2>1. \A y \in live' : Shaped(y) /\ Asks(y.q) /\ Carries(y)
      BY <1>0, <1>1, LiveKept
    <2>2. IsTable(tasks)' /\ AskedInv'
      BY <1>0, <1>1 DEF TasksKept, AskedInv, TasksAreAsAsked
    <2>. QED BY <1>1, <2>1, <2>2 DEF CoreInv, BaseInv, TablesInv
  <1>2. ASSUME UNCHANGED <<tables, history, backups>>, \A y \in live' : Shaped(y) /\ Asks(y.q) /\ Carries(y) PROVE CoreInv'
    BY <1>0, <1>2 DEF CoreInv, BaseInv, TablesInv, tables, history, AskedInv, TasksAreAsAsked
  <1> USE DEF TasksKept, history, maintenance
  <1>3. ASSUME NEW r \in live, TaskStep(r), UNCHANGED maintenance PROVE CoreInv'
    <2>1. Steps(r) /\ UNCHANGED site /\ TasksKept
      BY <1>0, <1>3, TasksStep
    <2>. QED BY <1>0, <1>1, <1>3, <2>1 DEF BaseInv
  <1>4. ASSUME NEW r \in live, SiteStep(r), UNCHANGED <<history, maintenance>> PROVE CoreInv'
    <2>1. Steps(r) /\ UNCHANGED tasks /\ SiteKept(site')
      BY <1>0, <1>4, SitesStep
    <2>. QED BY <1>0, <1>1, <1>4, <2>1 DEF BaseInv
  <1>5. ASSUME NEW r \in live, RealtimeStep(r) \/ AlarmStep(r) \/ ReaderStep(r), UNCHANGED <<history, maintenance>> PROVE CoreInv'
    <2>1. Plain(r) /\ UNCHANGED tables
      BY <1>0, <1>5, SocketsStep, AlarmsStep, ReadersStep
    <2>. QED BY <1>0, <1>1, <1>5, <2>1 DEF BaseInv, Steps, tables
  <1>6. ASSUME NEW r \in live, Change(r), UNCHANGED <<history, maintenance>> PROVE CoreInv'
    <2>1. Written(r) /\ UNCHANGED <<tasks, site>>
      BY <1>6, ChangesStep
    <2>. QED BY <1>0, <1>1, <1>6, <2>1 DEF BaseInv, Steps
  <1>7. ASSUME NEW r \in live, MaintenanceStep(r) PROVE CoreInv'
    <2>1. CASE update_tsdb_retention(r)
      <3>1. CASE Plain(r) /\ UNCHANGED <<retention, shortest, series, apart>>
        BY <1>0, <1>1, <2>1, <3>1, RetentionSet DEF BaseInv, Steps, tables
      <3>2. CASE ~(Plain(r) /\ UNCHANGED <<retention, shortest, series, apart>>)
        <4>1. \A y \in live' : Shaped(y) /\ Asks(y.q) /\ Carries(y)
          BY <1>0, <2>1, <3>2, RetentionSet, AfterSet
        <4>. QED BY <1>0, <1>2, <2>1, <4>1, RetentionSet
      <3>. QED BY <3>1, <3>2
    <2>2. CASE Restart(r)
      BY <1>0, <1>2, <2>2, Restarts
    <2>3. CASE ~update_tsdb_retention(r) /\ ~Restart(r)
      BY <1>0, <1>1, <1>7, <2>3, StoreStep
    <2>. QED BY <2>1, <2>2, <2>3
  <1>8. CASE CacheExpires /\ UNCHANGED <<history, maintenance>>
    BY <1>0, <1>2, <1>8 DEF CacheExpires
  <1>9. CASE run_tsdb_compaction \/ UNCHANGED vars
    BY <1>0, <1>2, <1>9 DEF run_tsdb_compaction, vars, taskVars, readers
  <1>. QED BY <1>3, <1>4, <1>5, <1>6, <1>7, <1>8, <1>9 DEF Next, TasksNext, ReadersNext

LEMMA CoreHolds == Spec => []CoreInv
  BY CoreInit, CoreNext, PTL DEF Spec

-----------------------------------------------------------------------------
(* The chosen themes. *)

\* A deletion that has yet to look at the page.
Followed(page, t) ==
    \E x \in live : x.q.op = "untheme" /\ x.q.theme = t /\ (x.at = "public" \/ (x.at = "dashboard" /\ page = "dashboard"))
PicksInv ==
    \A page \in Pages : site[page] = Nothing \/ IsTheme(site[page]) \/ site[page] \in astray \/ Followed(page, site[page])

LEMMA PicksStay ==
    ASSUME PicksInv, site'.themes = site.themes, site'["public"] = site["public"], site'["dashboard"] = site["dashboard"], astray \subseteq astray',
           \A x \in live : x.q.op = "untheme" /\ x.at \in Pages => \E y \in live' : Like(y, x)
    PROVE  PicksInv'
  <1> SUFFICES ASSUME NEW page \in Pages
      PROVE site'[page] = Nothing \/ IsTheme(site[page])' \/ site'[page] \in astray' \/ Followed(page, site[page])'
    BY DEF PicksInv
  <1>1. site'[page] = site[page]
    BY DEF Pages
  <1>2. CASE IsTheme(site[page])
    BY <1>1, <1>2 DEF IsTheme
  <1>3. CASE Followed(page, site[page])
    <2> DEFINE t == site[page]
    <2>1. PICK x \in live : x.q.op = "untheme" /\ x.q.theme = t /\ (x.at = "public" \/ (x.at = "dashboard" /\ page = "dashboard"))
      BY <1>3 DEF Followed
    <2>2. PICK y \in live' : Like(y, x)
      BY <2>1 DEF Pages
    <2>. QED BY <1>1, <2>1, <2>2 DEF Followed, Like
  <1>. QED BY <1>1, <1>2, <1>3 DEF PicksInv

LEMMA Others ==
    ASSUME NEW r \in live, \A x \in live : Shaped(x), Steps(r), r.q.op # "untheme" \/ r.at \notin Pages
    PROVE  \A x \in live : x.q.op = "untheme" /\ x.at \in Pages => \E y \in live' : Like(y, x)
  BY Remain

\* The catalogue is written back: what it takes away is astray, or followed.
LEMMA PicksRewritten ==
    ASSUME NEW r \in live, CoreInv, PicksInv, Steps(r), r.q.op \in Edits, r.at = "catalogue",
           site' = [site EXCEPT !["themes"] = Edited(r)], astray' = astray \cup Undone(r),
           r.q.op = "untheme" => \E y \in live' : y.q = r.q /\ y.at = "public"
    PROVE  PicksInv'
  <1>0. Shaped(r) /\ Asks(r.q) /\ Carries(r) /\ SiteKept(site) /\ \A x \in live : Shaped(x)
    BY DEF CoreInv, BaseInv, TablesInv
  <1>1. PICK c \in Catalogues : r.todo = {c}
    BY <1>0 DEF Carries
  <1> DEFINE e == Edited(r)
  <1>2. e = [c EXCEPT ![r.q.theme] = IF r.q.op = "untheme" THEN Nothing ELSE r.q.target] /\ e \in Catalogues
    BY <1>0, <1>1, EditsCatalogue
  <1>3. r.q.theme \in Themes /\ (r.q.op # "untheme" => e[r.q.theme] # Nothing)
    BY <1>0, <1>2, SiteAssumption DEF Asks, Edits, Catalogues, Uses
  <1> HIDE DEF e
  <1>4. site'.themes = e /\ site'["public"] = site["public"] /\ site'["dashboard"] = site["dashboard"]
    BY <1>0 DEF SiteKept, SiteKeys, e
  <1> SUFFICES ASSUME NEW page \in Pages
      PROVE site'[page] = Nothing \/ IsTheme(site[page])' \/ site'[page] \in astray' \/ Followed(page, site[page])'
    BY DEF PicksInv
  <1> DEFINE t == site[page]
  <1>5. site'[page] = t /\ (t = Nothing \/ t \in Themes)
    BY <1>0, <1>4 DEF Pages, SiteKept
  <1>6. CASE Followed(page, t)
    <2>1. PICK x \in live : x.q.op = "untheme" /\ x.q.theme = t /\ (x.at = "public" \/ (x.at = "dashboard" /\ page = "dashboard"))
      BY <1>6 DEF Followed
    <2>2. PICK y \in live' : Like(y, x)
      BY <1>0, <2>1, Others DEF Pages
    <2>. QED BY <1>5, <2>1, <2>2 DEF Followed, Like
  <1>7. CASE t = r.q.theme /\ r.q.op = "untheme"
    BY <1>5, <1>7 DEF Followed
  <1>8. CASE t # Nothing /\ IsTheme(t) /\ ~(t = r.q.theme /\ r.q.op = "untheme")
    <2>1. CASE t \in DOMAIN Builtins
      BY <1>5, <2>1 DEF IsTheme
    <2>2. CASE site.themes[t] # Nothing
      <3>1. e[t] # Nothing \/ t \in Undone(r)
        BY <1>3, <1>5, <1>8, <2>2 DEF Undone, Custom, e
      <3>2. CASE e[t] # Nothing
        BY <1>4, <1>5, <3>2 DEF IsTheme
      <3>. QED BY <1>5, <3>1, <3>2
    <2>. QED BY <1>8, <2>1, <2>2 DEF IsTheme
  <1>. QED BY <1>5, <1>6, <1>7, <1>8 DEF PicksInv

\* A request is done with one page: that page is in order, and the other one is as it was.
LEMMA PicksPage ==
    ASSUME NEW r \in live, CoreInv, PicksInv, Steps(r), r.at \in Pages, site'.themes = site.themes, astray \subseteq astray',
           \A page \in Pages : page # r.at => site'[page] = site[page],
           \/ site'[r.at] = Nothing \/ IsTheme(site'[r.at]) \/ site'[r.at] \in astray'
           \/ (site'[r.at] = site[r.at] /\ (r.q.op = "untheme" => site[r.at] # r.q.theme)),
           r.q.op = "untheme" /\ r.at = "public" => r.q.theme \in astray' \/ \E y \in live' : y.q = r.q /\ y.at = "dashboard"
    PROVE  PicksInv'
  <1>0. \A x \in live : Shaped(x)
    BY DEF CoreInv, BaseInv
  <1>1. ASSUME NEW t PROVE IsTheme(t)' <=> IsTheme(t)
    BY DEF IsTheme
  <1> SUFFICES ASSUME NEW page \in Pages
      PROVE site'[page] = Nothing \/ IsTheme(site[page])' \/ site'[page] \in astray' \/ Followed(page, site[page])'
    BY DEF PicksInv
  <1> DEFINE t == site[page]
  <1>2. ASSUME NEW x \in live \ {r}, x.q.op = "untheme", x.q.theme = t, x.at = "public" \/ (x.at = "dashboard" /\ page = "dashboard"), site'[page] = t
        PROVE  Followed(page, site[page])'
    <2>1. PICK y \in live' : Like(y, x)
      BY <1>0, Remain
    <2>. QED BY <1>2, <2>1 DEF Followed, Like
  <1>3. CASE IsTheme(site'[page])
    BY <1>3 DEF IsTheme
  <1>4. CASE site'[page] = t /\ Followed(page, t) /\ (r.q.op = "untheme" /\ page = r.at => t # r.q.theme)
    <2>1. PICK x \in live : x.q.op = "untheme" /\ x.q.theme = t /\ (x.at = "public" \/ (x.at = "dashboard" /\ page = "dashboard"))
      BY <1>4 DEF Followed
    <2>2. CASE x # r
      BY <1>2, <1>4, <2>1, <2>2
    <2>3. CASE x = r
      <3>1. page = "dashboard" /\ r.at = "public" /\ r.q.op = "untheme" /\ r.q.theme = t
        BY <1>4, <2>1, <2>3 DEF Pages
      <3>. QED BY <1>4, <3>1 DEF Followed
    <2>. QED BY <2>2, <2>3
  <1>5. CASE page = r.at
    BY <1>3, <1>4, <1>5 DEF PicksInv, IsTheme
  <1>6. CASE page # r.at
    BY <1>3, <1>4, <1>6 DEF PicksInv, IsTheme
  <1>. QED BY <1>5, <1>6

LEMMA PicksSite ==
    ASSUME NEW r \in live, CoreInv, PicksInv, SiteStep(r)
    PROVE  PicksInv'
  <1> USE DEF At, Edits
  <1>0. Shaped(r) /\ Asks(r.q) /\ Carries(r) /\ SiteKept(site) /\ \A x \in live : Shaped(x)
    BY DEF CoreInv, BaseInv, TablesInv
  <1>1. Steps(r)
    BY <1>0, SitesStep
  <1>2. ASSUME r.q.op # "untheme" \/ r.at \notin Pages, UNCHANGED site, astray \subseteq astray' PROVE PicksInv'
    BY <1>0, <1>1, <1>2, Others, PicksStay
  <1>3. CASE update_settings(r) \/ SettingsAnswered(r) \/ select_theme(r)
    BY <1>2, <1>3 DEF update_settings, SettingsAnswered, select_theme, NoWrite, Reads, tables
  <1>4. CASE ensure_geoip_ip_change_servers_active(r) \/ FieldRefused(r)
    BY <1>2, <1>4 DEF ensure_geoip_ip_change_servers_active, FieldRefused, Fielded, NoWrite, Reads, tables
  <1>5. CASE WritesField(r)
    <2>1. r.q.op = "settings" /\ r.at = "field" /\ r.n <= Len(r.q.fields) /\ site' = [site EXCEPT ![Field(r).key] = Field(r).value] /\ UNCHANGED astray
      BY <1>5 DEF WritesField, Fielded, set_raw_setting
    <2>2. Field(r).key \in SettingKeys
      BY <1>0, <2>1 DEF Carries, Asks, Field
    <2>3. site'.themes = site.themes /\ site'["public"] = site["public"] /\ site'["dashboard"] = site["dashboard"]
      BY <1>0, <2>1, <2>2 DEF SiteKept, SiteKeys, SettingKeys
    <2>. QED BY <1>0, <1>1, <2>1, <2>3, Others, PicksStay
  <1>6. CASE custom_themes(r)
    BY <1>2, <1>6 DEF custom_themes, NoWrite, Reads, tables, Pages
  <1>7. CASE set_custom_themes(r)
    <2>1. CASE Refuse(r) /\ NoWrite
      BY <1>2, <1>7, <2>1 DEF set_custom_themes, NoWrite, Reads, tables, Pages
    <2>2. CASE ~(Refuse(r) /\ NoWrite)
      BY <1>1, <1>7, <2>2, PicksRewritten DEF set_custom_themes, set_raw_setting
    <2>. QED BY <2>1, <2>2
  <1>8. CASE delete_theme(r)
    <2> DEFINE x == [r EXCEPT !.at = "public", !.todo = {}]
    <2>1. /\ r.q.op = "untheme" /\ r.at = "catalogue" /\ live' = {Noted(z) : z \in (live \ {r}) \cup {x}}
          /\ site' = [site EXCEPT !["themes"] = Edited(r)] /\ astray' = astray \cup Undone(r)
      BY <1>8 DEF delete_theme, set_raw_setting
    <2>2. Shaped(x) /\ x.q = r.q /\ x.at = "public"
      BY <1>0 DEF Shaped, Fields
    <2> HIDE DEF x
    <2>3. Noted(x) \in live' /\ Like(Noted(x), x)
      BY <2>1, <2>2, NotedAlike
    <2>. QED BY <1>1, <2>1, <2>2, <2>3, PicksRewritten DEF Like
  <1>9. CASE ReadsChosen(r)
    <2>1. r.q.op = "untheme" /\ r.at \in Pages /\ UNCHANGED <<site, astray>>
      BY <1>9 DEF ReadsChosen, NoWrite, Reads, tables
    <2>2. CASE site[r.at] = r.q.theme
      <3> DEFINE x == [r EXCEPT !.ids = {r.q.theme}]
      <3>1. x \in live' /\ \A z \in live : z # r => z \in live'
        BY <1>9, <2>2 DEF ReadsChosen, Goto
      <3>2. x.q = r.q /\ x.at = r.at
        BY <1>0 DEF Shaped, Fields
      <3> HIDE DEF x
      <3> SUFFICES ASSUME NEW page \in Pages
          PROVE site'[page] = Nothing \/ IsTheme(site[page])' \/ site'[page] \in astray' \/ Followed(page, site[page])'
        BY DEF PicksInv
      <3>3. CASE Followed(page, site[page])
        <4>1. PICK z \in live : z.q.op = "untheme" /\ z.q.theme = site[page] /\ (z.at = "public" \/ (z.at = "dashboard" /\ page = "dashboard"))
          BY <3>3 DEF Followed
        <4>. QED BY <2>1, <3>1, <3>2, <4>1 DEF Followed
      <3>. QED BY <2>1, <3>3 DEF PicksInv, IsTheme
    <2>3. CASE site[r.at] # r.q.theme
      <3>1. ASSUME r.at = "public" PROVE \E y \in live' : y.q = r.q /\ y.at = "dashboard"
        <4> DEFINE x == [r EXCEPT !.at = "dashboard", !.ids = {}]
        <4>1. x \in live'
          BY <1>9, <2>3, <3>1 DEF ReadsChosen, Following
        <4>2. x.q = r.q /\ x.at = "dashboard"
          BY <1>0 DEF Shaped, Fields
        <4>. QED BY <4>1, <4>2
      <3>. QED BY <1>1, <2>1, <2>3, <3>1, PicksPage
    <2>. QED BY <2>2, <2>3
  <1>10. CASE ClearsChosen(r)
    <2>1. /\ r.q.op = "untheme" /\ r.at \in Pages /\ UNCHANGED astray /\ site' = [site EXCEPT ![r.at] = Nothing]
          /\ live' = {Noted(x) : x \in (live \ {r}) \cup Following(r)}
      BY <1>10 DEF ClearsChosen, set_raw_setting
    <2>2. site'.themes = site.themes /\ site'[r.at] = Nothing /\ \A page \in Pages : page # r.at => site'[page] = site[page]
      BY <1>0, <2>1 DEF SiteKept, SiteKeys, Pages
    <2>3. ASSUME r.at = "public" PROVE \E y \in live' : y.q = r.q /\ y.at = "dashboard"
      <3> DEFINE x == [r EXCEPT !.at = "dashboard", !.ids = {}]
      <3>1. x \in Following(r) /\ Shaped(x) /\ x.q = r.q /\ x.at = "dashboard"
        BY <1>0, <2>3 DEF Following, Shaped, Fields
      <3> HIDE DEF x
      <3>2. Noted(x) \in live' /\ Like(Noted(x), x)
        BY <2>1, <3>1, NotedAlike
      <3>. QED BY <3>1, <3>2 DEF Like
    <2>. QED BY <1>1, <2>1, <2>2, <2>3, PicksPage
  <1>11. CASE WritesChosen(r)
    <2>1. /\ r.q.op = "choose" /\ r.at \in Pages /\ site' = [site EXCEPT ![r.at] = r.q.theme]
          /\ astray \subseteq astray' /\ (IsTheme(r.q.theme) \/ r.q.theme \in astray')
      BY <1>11 DEF WritesChosen, set_raw_setting
    <2>2. site'.themes = site.themes /\ site'[r.at] = r.q.theme /\ \A page \in Pages : page # r.at => site'[page] = site[page]
      BY <1>0, <2>1 DEF SiteKept, SiteKeys, Pages
    <2>. QED BY <1>1, <2>1, <2>2, PicksPage
  <1>12. CASE SiteDropped(r)
    <2>1. UNCHANGED site /\ astray \subseteq astray' /\ (r.q.op = "untheme" /\ r.at \in Pages => r.q.theme \in astray')
      BY <1>12 DEF SiteDropped, Reads, tables
    <2>2. CASE r.q.op = "untheme" /\ r.at \in Pages
      BY <1>1, <2>1, <2>2, PicksPage
    <2>. QED BY <1>2, <2>1, <2>2
  <1>. QED BY <1>3, <1>4, <1>5, <1>6, <1>7, <1>8, <1>9, <1>10, <1>11, <1>12 DEF SiteStep

StoredInv == CoreInv /\ PicksInv

LEMMA StoredInit == Init => StoredInv
  <1> SUFFICES ASSUME Init PROVE PicksInv
    BY CoreInit DEF StoredInv
  <1>1. PICK x0 \in Rows : site = x0.site
    BY DEF Init, TasksInit, ReadersInit
  <1>2. Picks(site) \subseteq ThemesOf(site)
    BY <1>1, RowsAssumption
  <1>. QED BY <1>2 DEF PicksInv, Picks, ThemesOf, IsTheme

LEMMA StoredNext == StoredInv /\ [Next]_vars => StoredInv'
  <1> SUFFICES ASSUME StoredInv, [Next]_vars PROVE PicksInv'
    BY CoreNext DEF StoredInv
  <1>0. CoreInv /\ BaseInv /\ PicksInv /\ AskedInv /\ SiteKept(site) /\ IsTable(tasks) /\ \A x \in live : Shaped(x) /\ Asks(x.q) /\ Carries(x)
    BY DEF StoredInv, CoreInv, BaseInv, TablesInv
  <1>1. ASSUME NEW r \in live, Steps(r), r.q.op # "untheme", UNCHANGED <<site, astray>> PROVE PicksInv'
    BY <1>0, <1>1, Others, PicksStay
  <1>2. ASSUME UNCHANGED <<site, astray>>, \A x \in live : x.q.op = "untheme" => x \in live' PROVE PicksInv'
    BY <1>0, <1>2, LikeItself, PicksStay
  <1>3. ASSUME NEW r \in live, TaskStep(r) PROVE PicksInv'
    BY <1>0, <1>1, <1>3, TasksStep DEF TaskOps
  <1>4. ASSUME NEW r \in live, SiteStep(r) PROVE PicksInv'
    BY <1>0, <1>4, PicksSite
  <1>5. ASSUME NEW r \in live, AlarmStep(r) \/ ((RealtimeStep(r) \/ ReaderStep(r)) /\ UNCHANGED astray) PROVE PicksInv'
    <2>1. Plain(r) /\ UNCHANGED <<tables, astray>> /\ r.q.op \in SocketOps \cup AlarmOps \cup ReaderOps
      BY <1>0, <1>5, SocketsStep, AlarmsStep, ReadersStep
    <2>. QED BY <1>1, <1>5, <2>1 DEF Steps, tables, SocketOps, AlarmOps, ReaderOps
  <1>6. ASSUME NEW r \in live, Change(r), UNCHANGED astray PROVE PicksInv'
    BY <1>1, <1>6, ChangesStep DEF Steps, ChangeOps
  <1>7. ASSUME NEW r \in live, MaintenanceStep(r) PROVE PicksInv'
    <2>1. CASE update_tsdb_retention(r)
      <3>1. CASE Plain(r)
        BY <1>0, <1>1, <2>1, <3>1, RetentionSet DEF Steps, tables
      <3>2. CASE ~Plain(r)
        BY <1>0, <1>2, <2>1, <3>2, RetentionSet DEF tables, Updating, At
      <3>. QED BY <3>1, <3>2
    <2>2. CASE Restart(r)
      <3>1. UNCHANGED site /\ astray' = astray \cup {x.q.theme : x \in {x \in live : x.q.op = "untheme" /\ x.at \in Pages}}
        BY <2>2, Restarts DEF tables
      <3>2. \A page \in Pages : Followed(page, site[page]) => site[page] \in astray'
        BY <3>1 DEF Followed, Pages
      <3>. QED BY <1>0, <3>1, <3>2 DEF PicksInv, IsTheme
    <2>3. CASE set_tsdb_retention_days(r)
      <3>1. Steps(r) /\ r.q.op = "retention" /\ UNCHANGED astray /\ site' = [site EXCEPT !["retention"] = r.q.k]
        BY <1>0, <1>7, <2>3, StoreStep DEF set_tsdb_retention_days, set_raw_setting, At, update_tsdb_retention, Restart
      <3>2. site'.themes = site.themes /\ site'["public"] = site["public"] /\ site'["dashboard"] = site["dashboard"]
        BY <1>0, <3>1 DEF SiteKept, SiteKeys
      <3>. QED BY <1>0, <3>1, <3>2, Others, PicksStay
    <2>4. CASE apply_sqlite_restore(r)
      <3>1. PICK b \in r.todo : site' = b.site /\ astray' = astray \cup Missing(b.site)
        BY <2>4 DEF apply_sqlite_restore
      <3>2. \A page \in Pages : site'[page] = Nothing \/ site'[page] \in astray' \/ site'[page] \in ThemesOf(site')
        BY <3>1 DEF Missing, Picks
      <3>. QED BY <3>2 DEF PicksInv, ThemesOf, IsTheme
    <2>5. CASE WriteBegins(r) \/ download_archive(r) \/ ArchiveExports(r) \/ validate_restore_candidate(r)
      <3>1. r.q.op \in StoreOps /\ UNCHANGED <<tables, astray>> /\ ~update_tsdb_retention(r) /\ ~Restart(r)
        BY <2>5 DEF WriteBegins, download_archive, ArchiveExports, validate_restore_candidate, ReadsTasks, Reads, StoreOps, At, update_tsdb_retention, Restart
      <3>. QED BY <1>0, <1>1, <1>7, <3>1, StoreStep DEF tables, StoreOps
    <2>6. CASE write(r) \/ compact_tsdb(r) \/ RetentionDropped(r) \/ download_backup(r) \/ RestoreFails(r) \/ DayPasses(r)
      <3>1. r.q.op \in StoreOps /\ UnlessMetrics(r)
        BY <2>6 DEF write, compact_tsdb, RetentionDropped, download_backup, RestoreFails, DayPasses, StoreOps, At
      <3>. QED BY <1>1, <3>1, UnlessStep DEF Steps, tables, StoreOps
    <2>. QED BY <1>7, <2>1, <2>2, <2>3, <2>4, <2>5, <2>6 DEF MaintenanceStep
  <1>8. CASE CacheExpires /\ UNCHANGED astray
    BY <1>2, <1>8 DEF CacheExpires, tables
  <1>9. CASE run_tsdb_compaction \/ UNCHANGED vars
    BY <1>2, <1>9 DEF run_tsdb_compaction, vars, taskVars, readers, tables
  <1>10. ASSUME TasksNext PROVE PicksInv'
    BY <1>3, <1>4, <1>5, <1>6, <1>8, <1>10 DEF TasksNext, ReadersNext
  <1>. QED BY <1>7, <1>9, <1>10 DEF Next

\* Requests that overlap leave the tasks and the choice of themes as asked for (api/v1/tasks.rs,
\* api/v1/themes.rs): an update that met no other is kept, none brings a deleted task back, no
\* stored task has a forbidden target, and a chosen theme exists unless it is astray.
THEOREM Stored == Spec => []StoredIsAsAsked
  <1>1. StoredInv => StoredIsAsAsked
    <2> SUFFICES ASSUME StoredInv PROVE StoredIsAsAsked
      OBVIOUS
    <2>1. TasksAreAsAsked /\ StoredTasksAreValid
      BY DEF StoredInv, CoreInv, BaseInv, TablesInv, AskedInv, IsTable, StoredTasksAreValid, StoredTasks
    <2>2. PickedExists
      BY DEF StoredInv, PicksInv, PickedExists, Followed, Pages
    <2>. QED BY <2>1, <2>2 DEF StoredIsAsAsked
  <1>. QED BY <1>1, StoredInit, StoredNext, PTL DEF Spec

-----------------------------------------------------------------------------
(* The store of samples. *)

SamplesInv ==
    /\ today \in Nat /\ retention \in 1..MaxDays /\ shortest \in Nat /\ shortest <= retention
    /\ DOMAIN series = Agents /\ DOMAIN written = Agents
    /\ \A a \in Agents : series[a] \subseteq written[a] /\ written[a] \subseteq Nat /\ IsFiniteSet(written[a])
    /\ \A x \in live : At(x, "sample", "lock") => x.n \in 0..today
    /\ SamplesAreKept

\* An update of the retention that another one has overlapped says so, and so do all others then.
RetentionInv ==
    /\ apart \in BOOLEAN
    /\ \A x \in Updating : IF x.n = 1 THEN apart ELSE retention = x.q.k
    /\ \A x, y \in Updating : x.n = 1 => y.n = 1
    /\ RetentionIsStored

\* What may be missing of the samples W, of which S are there.
Given(W, S, cutoff) == \A d \in W \ S : d < cutoff \/ Cardinality({e \in W : e > d}) >= MaxSamples

LEMMA CutoffNat == ASSUME NEW d \in Nat, NEW k \in Nat PROVE cutoff_for_retention(d, k) \in Nat
  BY DEF cutoff_for_retention

LEMMA CutoffGrows ==
    ASSUME NEW d \in Nat, NEW e \in Nat, d <= e, NEW k \in Nat, NEW l \in Nat, l <= k
    PROVE  cutoff_for_retention(d, k) <= cutoff_for_retention(e, l)
  BY DEF cutoff_for_retention

LEMMA NewerGrow ==
    ASSUME NEW W, NEW V, W \subseteq V, V \subseteq Nat, IsFiniteSet(V), NEW d
    PROVE  /\ Cardinality({e \in W : e > d}) \in Nat /\ Cardinality({e \in V : e > d}) \in Nat
           /\ Cardinality({e \in W : e > d}) <= Cardinality({e \in V : e > d})
  <1> DEFINE A == {e \in W : e > d}  B == {e \in V : e > d}
  <1>1. A \subseteq B /\ B \subseteq V
    OBVIOUS
  <1>2. IsFiniteSet(B) /\ IsFiniteSet(A)
    BY <1>1, FS_Subset
  <1>3. Cardinality(A) <= Cardinality(B)
    BY <1>1, <1>2, FS_Subset
  <1>. QED BY <1>2, <1>3, FS_CardinalityType

\* A compaction takes only what may be missing.
LEMMA Compacted ==
    ASSUME NEW W, W \subseteq Nat, IsFiniteSet(W), NEW S, S \subseteq W, NEW c \in Nat, NEW C \in Nat, c <= C, Given(W, S, C)
    PROVE  compact_series(S, c) \subseteq W /\ Given(W, compact_series(S, c), C)
  <1> DEFINE kept == {d \in S : d >= c}  K == compact_series(S, c)
  <1>1. K = {d \in kept : Cardinality({e \in kept : e > d}) < MaxSamples}
    BY DEF compact_series
  <1> HIDE DEF K
  <1>2. K \subseteq W
    BY <1>1
  <1>3. ASSUME NEW d \in W \ K PROVE d < C \/ Cardinality({e \in W : e > d}) >= MaxSamples
    <2>1. CASE d \notin S
      BY <2>1 DEF Given
    <2>2. CASE d \in S /\ d < c
      BY <2>2
    <2>3. CASE d \in kept
      <3>1. ~(Cardinality({e \in kept : e > d}) < MaxSamples)
        BY <1>1, <2>3
      <3>2. kept \subseteq W
        OBVIOUS
      <3> HIDE DEF kept
      <3>3. /\ Cardinality({e \in kept : e > d}) \in Nat /\ Cardinality({e \in W : e > d}) \in Nat
            /\ Cardinality({e \in kept : e > d}) <= Cardinality({e \in W : e > d})
        BY <3>2, NewerGrow
      <3>. QED BY <3>1, <3>3, MaintenanceAssumption
    <2>. QED BY <2>1, <2>2, <2>3
  <1>. QED BY <1>2, <1>3 DEF Given, K

\* What may be missing may be missing later on.
LEMMA GivenGrows ==
    ASSUME NEW W, NEW V, V \subseteq Nat, IsFiniteSet(V), NEW S, NEW T, W \subseteq V, V \ T \subseteq W \ S,
           NEW c \in Nat, NEW C \in Nat, c <= C, Given(W, S, c)
    PROVE  Given(V, T, C)
  <1> SUFFICES ASSUME NEW d \in V \ T PROVE d < C \/ Cardinality({e \in V : e > d}) >= MaxSamples
    BY DEF Given
  <1>1. d \in Nat /\ d \in W \ S
    OBVIOUS
  <1>2. d < c \/ Cardinality({e \in W : e > d}) >= MaxSamples
    BY <1>1 DEF Given
  <1>3. /\ Cardinality({e \in W : e > d}) \in Nat /\ Cardinality({e \in V : e > d}) \in Nat
        /\ Cardinality({e \in W : e > d}) <= Cardinality({e \in V : e > d})
    BY NewerGrow
  <1>. QED BY <1>1, <1>2, <1>3, MaintenanceAssumption

LEMMA SamplesStay ==
    ASSUME SamplesInv, UNCHANGED <<today, retention, shortest, series, written>>,
           \A y \in live' : At(y, "sample", "lock") => \E x \in live : Like(y, x)
    PROVE  SamplesInv'
  <1>1. \A y \in live' : At(y, "sample", "lock") => y.n \in 0..today
    BY DEF SamplesInv, Like, At
  <1>. QED BY <1>1 DEF SamplesInv, SamplesAreKept

\* All samples are compacted with one cutoff.
LEMMA SamplesCompacted ==
    ASSUME SamplesInv, NEW c \in Nat, series' = compact_all(c), UNCHANGED <<today, written>>,
           retention' \in 1..MaxDays, shortest' \in Nat, shortest' <= retention', shortest' <= shortest,
           c <= cutoff_for_retention(today, shortest'),
           \A y \in live' : At(y, "sample", "lock") => \E x \in live : Like(y, x)
    PROVE  SamplesInv'
  <1> DEFINE C == cutoff_for_retention(today, shortest)  D == cutoff_for_retention(today, shortest')
  <1>0. today \in Nat /\ shortest \in Nat
    BY DEF SamplesInv
  <1>1. C \in Nat /\ D \in Nat /\ C <= D /\ c <= D
    <2>1. C \in Nat /\ D \in Nat
      BY <1>0, CutoffNat
    <2>2. today <= today
      BY <1>0
    <2>3. C <= D
      BY <1>0, <2>2, CutoffGrows
    <2>. QED BY <2>1, <2>3
  <1> HIDE DEF C, D
  <1>2. ASSUME NEW a \in Agents PROVE series'[a] \subseteq written[a] /\ Given(written[a], series'[a], D)
    <2>1. series[a] \subseteq written[a] /\ written[a] \subseteq Nat /\ IsFiniteSet(written[a])
      BY DEF SamplesInv
    <2>2. Given(written[a], series[a], C)
      BY DEF SamplesInv, SamplesAreKept, Given, C
    <2>3. Given(written[a], series[a], D)
      BY <1>1, <2>1, <2>2, GivenGrows
    <2>4. series'[a] = compact_series(series[a], c)
      BY DEF compact_all
    <2>5. compact_series(series[a], c) \subseteq written[a] /\ Given(written[a], compact_series(series[a], c), D)
      BY <1>1, <2>1, <2>3, Compacted
    <2>. QED BY <2>4, <2>5
  <1>3. SamplesAreKept'
    BY <1>2 DEF SamplesAreKept, Given, D
  <1>4. \A y \in live' : At(y, "sample", "lock") => y.n \in 0..today
    BY DEF SamplesInv, Like, At
  <1>. QED BY <1>2, <1>3, <1>4 DEF SamplesInv, compact_all

LEMMA SampleWritten ==
    ASSUME NEW r \in live, BaseInv, SamplesInv, write(r)
    PROVE  SamplesInv'
  <1> DEFINE a == r.q.agent  c == cutoff_for_retention(r.n, retention)  C == cutoff_for_retention(today, shortest)
             V == written[a] \cup {r.n}  S == series[a] \cup {r.n}
  <1>0. /\ today \in Nat /\ shortest \in Nat /\ retention \in 1..MaxDays /\ shortest <= retention /\ MaxDays \in Nat
        /\ DOMAIN series = Agents /\ DOMAIN written = Agents
    BY MaintenanceAssumption DEF SamplesInv
  <1>1. a \in Agents /\ r.n \in 0..today
    BY DEF write, At, BaseInv, Asks, SamplesInv
  <1>2. /\ live' = live \ {r} /\ series' = [series EXCEPT ![a] = compact_series(S, c)] /\ written' = [written EXCEPT ![a] = V]
        /\ UNCHANGED <<today, retention, shortest>>
    BY DEF write, UnlessMetrics, Refuse
  <1>3. c \in Nat /\ C \in Nat /\ c <= C
    BY <1>0, <1>1 DEF cutoff_for_retention
  <1>4. \A b \in Agents : series[b] \subseteq written[b] /\ written[b] \subseteq Nat /\ IsFiniteSet(written[b]) /\ Given(written[b], series[b], C)
    BY DEF SamplesInv, SamplesAreKept, Given
  <1> HIDE DEF c, C
  <1>5. V \subseteq Nat /\ IsFiniteSet(V) /\ S \subseteq V /\ V \ S \subseteq written[a] \ series[a]
    <2>1. series[a] \subseteq written[a] /\ written[a] \subseteq Nat /\ IsFiniteSet(written[a]) /\ r.n \in Nat
      BY <1>0, <1>1, <1>4
    <2>2. IsFiniteSet(V)
      BY <2>1, FS_AddElement
    <2>. QED BY <2>1, <2>2
  <1>6. Given(V, S, C)
    BY <1>1, <1>3, <1>4, <1>5, GivenGrows
  <1> HIDE DEF V, S
  <1>7. compact_series(S, c) \subseteq V /\ Given(V, compact_series(S, c), C)
    BY <1>3, <1>5, <1>6, Compacted
  <1>8. ASSUME NEW b \in Agents
        PROVE  series'[b] \subseteq written'[b] /\ written'[b] \subseteq Nat /\ IsFiniteSet(written'[b]) /\ Given(written'[b], series'[b], C)
    BY <1>0, <1>1, <1>2, <1>4, <1>5, <1>7
  <1>9. SamplesAreKept'
    BY <1>2, <1>8 DEF SamplesAreKept, Given, C
  <1>. QED BY <1>2, <1>8, <1>9 DEF SamplesInv

LEMMA DayOlder ==
    ASSUME SamplesInv, today' = today + 1, UNCHANGED <<retention, shortest, series, written>>, live' \subseteq live
    PROVE  SamplesInv'
  <1>0. today \in Nat /\ shortest \in Nat
    BY DEF SamplesInv
  <1> DEFINE C == cutoff_for_retention(today, shortest)  D == cutoff_for_retention(today + 1, shortest)
  <1>1. C \in Nat /\ D \in Nat /\ C <= D
    BY <1>0, CutoffNat, CutoffGrows
  <1> HIDE DEF C, D
  <1>2. ASSUME NEW a \in Agents PROVE Given(written[a], series[a], D)
    <2>1. written[a] \subseteq Nat /\ IsFiniteSet(written[a]) /\ Given(written[a], series[a], C)
      BY DEF SamplesInv, SamplesAreKept, Given, C
    <2>. QED BY <1>1, <2>1, GivenGrows
  <1>3. SamplesAreKept'
    BY <1>2 DEF SamplesAreKept, Given, D
  <1>4. \A y \in live' : At(y, "sample", "lock") => y.n \in 0..today'
    BY <1>0 DEF SamplesInv
  <1>. QED BY <1>0, <1>3, <1>4 DEF SamplesInv

-----------------------------------------------------------------------------
(* The retention in force and the one that is stored. *)

LEMMA OthersLike ==
    ASSUME NEW r \in live, \A x \in live : Shaped(x), Steps(r), NEW y \in live', y.q.op # r.q.op
    PROVE  \E x \in live \ {r} : Like(y, x)
  BY Follow DEF Kin, Like

LEMMA Gone ==
    ASSUME NEW r \in live, \A x \in live : Shaped(x), live' = live \ {r} \/ live' = {Noted(x) : x \in live \ {r}}, NEW y \in live'
    PROVE  \E x \in live \ {r} : Like(y, x)
  BY NotedAlike, LikeItself

LEMMA SiteRetention ==
    ASSUME NEW r \in live, Asks(r.q), Carries(r), SiteKept(site), SiteStep(r)
    PROVE  site'.retention = site.retention
  <1> USE DEF At, Edits, tables, NoWrite, Reads, set_raw_setting, SiteKept, SiteKeys
  <1>1. CASE WritesField(r)
    <2>1. r.q.op = "settings" /\ r.at = "field" /\ r.n <= Len(r.q.fields) /\ site' = [site EXCEPT ![Field(r).key] = Field(r).value]
      BY <1>1 DEF WritesField, Fielded
    <2>2. Field(r).key \in SettingKeys
      BY <2>1 DEF Carries, Asks, Field
    <2>. QED BY <2>1, <2>2 DEF SettingKeys
  <1>2. CASE set_custom_themes(r) \/ delete_theme(r)
    BY <1>2 DEF set_custom_themes, delete_theme
  <1>3. CASE ClearsChosen(r) \/ WritesChosen(r)
    BY <1>3 DEF ClearsChosen, WritesChosen, Pages
  <1>4. CASE update_settings(r) \/ ensure_geoip_ip_change_servers_active(r) \/ FieldRefused(r) \/ SettingsAnswered(r) \/ custom_themes(r)
             \/ ReadsChosen(r) \/ select_theme(r) \/ SiteDropped(r)
    BY <1>4 DEF update_settings, ensure_geoip_ip_change_servers_active, FieldRefused, SettingsAnswered, custom_themes, ReadsChosen, select_theme, SiteDropped
  <1>. QED BY <1>1, <1>2, <1>3, <1>4 DEF SiteStep

LEMMA RetentionStays ==
    ASSUME RetentionInv, UNCHANGED <<retention, apart>>, site'.retention = site.retention,
           \A y \in live' : At(y, "retention", "setting") => \E x \in live : Like(y, x),
           \A x \in live : At(x, "retention", "setting") => \E y \in live' : Like(y, x)
    PROVE  RetentionInv'
  <1>1. ASSUME NEW y \in Updating' PROVE \E x \in Updating : y.n = x.n /\ y.q = x.q
    BY DEF Updating, Like, At
  <1>2. Updating # {} => Updating' # {}
    BY DEF Updating, Like, At
  <1>3. \A x \in Updating' : IF x.n = 1 THEN apart ELSE retention = x.q.k
    BY <1>1 DEF RetentionInv
  <1>4. \A x, y \in Updating' : x.n = 1 => y.n = 1
    BY <1>1 DEF RetentionInv
  <1>5. RetentionIsStored'
    BY <1>2 DEF RetentionInv, RetentionIsStored, tsdb_retention_days
  <1>. QED BY <1>3, <1>4, <1>5 DEF RetentionInv

LEMMA ZeroIsNotOne == 0 # 1
  OBVIOUS

LEMMA RetentionUpdated ==
    ASSUME NEW r \in live, BaseInv, RetentionInv, retention' = r.q.k, apart' = (apart \/ Updating # {}), r.q.op = "retention",
           live' = (live \ (Updating \cup {r})) \cup {[x EXCEPT !.n = 1] : x \in Updating}
                   \cup {[r EXCEPT !.at = "setting", !.n = IF Updating = {} THEN 0 ELSE 1]}
    PROVE  RetentionInv'
  <1>0. \A x \in live : Shaped(x)
    BY DEF BaseInv
  <1> DEFINE z == [r EXCEPT !.at = "setting", !.n = IF Updating = {} THEN 0 ELSE 1]
  <1>1. z \in live' /\ z.q = r.q /\ z.at = "setting" /\ z.n = IF Updating = {} THEN 0 ELSE 1
    BY <1>0 DEF Shaped, Fields
  <1>2. ASSUME NEW x \in Updating PROVE [x EXCEPT !.n = 1].n = 1
    BY <1>0 DEF Updating, Shaped, Fields
  <1>3. z \in Updating'
    BY <1>1 DEF Updating, At
  <1>4. ASSUME NEW y \in Updating' PROVE y = z \/ (Updating # {} /\ y.n = 1)
    <2>1. y \in live' /\ y.q.op = "retention" /\ y.at = "setting"
      BY DEF Updating, At
    <2>2. y \notin live \ Updating
      BY <2>1 DEF Updating, At
    <2> HIDE DEF z
    <2>3. y = z \/ \E x \in Updating : y = [x EXCEPT !.n = 1]
      BY <2>1, <2>2 DEF z
    <2>. QED BY <1>2, <2>3
  <1> HIDE DEF z
  <1>5. ASSUME NEW y \in Updating' PROVE IF y.n = 1 THEN apart' ELSE retention' = y.q.k
    <2>1. CASE y.n = 1
      <3>1. ASSUME Updating = {} PROVE FALSE
        <4>1. y = z /\ z.n = 0
          BY <1>1, <1>4, <3>1
        <4>2. y.n = 0
          BY <4>1
        <4>. QED BY <2>1, <4>2, ZeroIsNotOne
      <3>2. apart'
        BY <3>1
      <3>. QED BY <2>1, <3>2
    <2>2. CASE y.n # 1
      BY <1>1, <1>4, <2>2
    <2>. QED BY <2>1, <2>2
  <1>6. \A x, y \in Updating' : x.n = 1 => y.n = 1
    BY <1>1, <1>4
  <1>. QED BY <1>3, <1>5, <1>6 DEF RetentionInv, RetentionIsStored

LEMMA RetentionWritten ==
    ASSUME NEW r \in live, CoreInv, RetentionInv, set_tsdb_retention_days(r)
    PROVE  RetentionInv'
  <1>0. Carries(r) /\ SiteKept(site) /\ \A x \in live : Shaped(x)
    BY DEF CoreInv, BaseInv, TablesInv
  <1>1. /\ r \in Updating /\ r.q.op = "retention" /\ r.at = "setting" /\ site' = [site EXCEPT !["retention"] = r.q.k] /\ retention' = retention
        /\ apart' = (apart /\ r.n = 1) /\ live' = {Noted(x) : x \in live \ {r}}
    BY DEF set_tsdb_retention_days, set_raw_setting, Updating, At
  <1>2. r.q.k \in 1..MaxDays /\ Nothing \notin 1..MaxDays
    BY <1>0, <1>1, MaintenanceAssumption DEF Carries, At
  <1>3. tsdb_retention_days' = r.q.k
    BY <1>0, <1>1, <1>2 DEF tsdb_retention_days, SiteKept, SiteKeys
  <1>4. ASSUME NEW y \in Updating' PROVE \E x \in Updating : y.n = x.n /\ y.q = x.q
    BY <1>0, <1>1, Gone DEF Updating, Like, At
  <1>5. \A y \in Updating' : y.n = 1 <=> r.n = 1
    BY <1>1, <1>4 DEF RetentionInv
  <1>6. \A y \in Updating' : IF y.n = 1 THEN apart' ELSE retention' = y.q.k
    BY <1>1, <1>4, <1>5 DEF RetentionInv
  <1>7. RetentionIsStored'
    BY <1>1, <1>3 DEF RetentionInv, RetentionIsStored
  <1>. QED BY <1>1, <1>5, <1>6, <1>7 DEF RetentionInv

\* A request has ended, or the tables were replaced, with the two apart.
LEMMA RetentionApart ==
    ASSUME NEW r \in live, BaseInv, RetentionInv, live' = live \ {r} \/ live' = {Noted(x) : x \in live \ {r}}, apart' = TRUE, retention' = retention
    PROVE  RetentionInv'
  <1>1. ASSUME NEW y \in Updating' PROVE \E x \in Updating : y.n = x.n /\ y.q = x.q
    BY Gone DEF Updating, Like, At, BaseInv
  <1>. QED BY <1>1 DEF RetentionInv, RetentionIsStored

-----------------------------------------------------------------------------
(* The two together. *)

MetricsInv == CoreInv /\ SamplesInv /\ RetentionInv

LEMMA RetentionInRange == ASSUME SiteKept(site) PROVE tsdb_retention_days \in 1..MaxDays
  BY MaintenanceAssumption DEF SiteKept, tsdb_retention_days

LEMMA MetricsInit == Init => MetricsInv
  <1> SUFFICES ASSUME Init PROVE MetricsInv
    OBVIOUS
  <1>1. CoreInv /\ SiteKept(site)
    BY CoreInit DEF CoreInv, BaseInv, TablesInv
  <1>2. retention \in 1..MaxDays /\ shortest = retention /\ retention = tsdb_retention_days /\ MaxDays \in Nat
    BY <1>1, RetentionInRange, MaintenanceAssumption DEF Init
  <1>3. \A x \in live : x.at = "start"
    <2>1. PICK w \in Workloads : live = {Request(q) : q \in w}
      BY DEF Init, TasksInit, ReadersInit
    <2>. QED BY <2>1 DEF Request
  <1>4. SamplesInv
    BY <1>2, <1>3, FS_EmptySet DEF Init, SamplesInv, NoSamples, SamplesAreKept, At
  <1>5. RetentionInv
    BY <1>2, <1>3 DEF Init, RetentionInv, Updating, At, RetentionIsStored
  <1>. QED BY <1>1, <1>4, <1>5 DEF MetricsInv

\* Neither samples nor the retention are the step's business.
LEMMA MetricsAside ==
    ASSUME NEW r \in live, MetricsInv, Steps(r), r.q.op \notin {"sample", "retention"}, site'.retention = site.retention,
           UNCHANGED <<today, retention, shortest, series, written, apart>>
    PROVE  SamplesInv' /\ RetentionInv'
  <1>0. SamplesInv /\ RetentionInv /\ \A x \in live : Shaped(x)
    BY DEF MetricsInv, CoreInv, BaseInv
  <1>1. \A y \in live' : At(y, "sample", "lock") \/ At(y, "retention", "setting") => \E x \in live : Like(y, x)
    BY <1>0, OthersLike DEF At
  <1>2. \A x \in live : At(x, "retention", "setting") => \E y \in live' : Like(y, x)
    BY <1>0, Remain DEF At
  <1>3. SamplesInv'
    BY <1>0, <1>1, SamplesStay
  <1>4. RetentionInv'
    BY <1>0, <1>1, <1>2, RetentionStays
  <1>. QED BY <1>3, <1>4

LEMMA MetricsMaintained ==
    ASSUME NEW r \in live, MetricsInv, MaintenanceStep(r)
    PROVE  SamplesInv' /\ RetentionInv'
  <1> USE DEF At, metrics, maintenance
  <1>0. /\ CoreInv /\ BaseInv /\ AskedInv /\ SamplesInv /\ RetentionInv /\ Shaped(r) /\ Asks(r.q) /\ Carries(r) /\ SiteKept(site)
        /\ \A x \in live : Shaped(x)
    BY DEF MetricsInv, CoreInv, BaseInv, TablesInv
  <1>n. today \in Nat /\ shortest \in Nat /\ retention \in 1..MaxDays /\ retention \in Nat /\ shortest <= retention /\ MaxDays \in Nat
    BY <1>0, MaintenanceAssumption DEF SamplesInv
  \* A request has ended: none is new.
  <1>a. ASSUME UnlessMetrics(r)
        PROVE  /\ live' = live \ {r} /\ UNCHANGED site
               /\ \A y \in live' : \E x \in live : Like(y, x)
               /\ \A x \in live : x # r => \E y \in live' : Like(y, x)
    BY <1>0, <1>a, LikeItself DEF UnlessMetrics, Refuse, tables
  <1>1. CASE WriteBegins(r)
    <2> DEFINE z == [r EXCEPT !.at = "lock", !.n = today]
    <2>1. /\ r.q.op = "sample" /\ live' = (live \ {r}) \cup {z} /\ UNCHANGED <<site, today, retention, shortest, series, written, apart>>
      BY <1>1 DEF WriteBegins, Goto, ReadsTasks, Reads, tables
    <2>2. z.q = r.q /\ z.n \in 0..today
      BY <1>0, <1>n DEF Shaped, Fields
    <2> HIDE DEF z
    <2>3. \A y \in live' : y.q.op = "sample" /\ y.at = "lock" => y.n \in 0..today'
      BY <1>0, <2>1, <2>2 DEF SamplesInv
    <2>4. SamplesInv'
      BY <1>0, <2>1, <2>3 DEF SamplesInv, SamplesAreKept
    <2>5. RetentionInv'
      BY <1>0, <2>1, <2>2, LikeItself, RetentionStays
    <2>. QED BY <2>4, <2>5
  <1>2. CASE write(r)
    <2>1. SamplesInv'
      BY <1>0, <1>2, SampleWritten
    <2>2. RetentionInv'
      BY <1>0, <1>2, <1>a, RetentionStays DEF write
    <2>. QED BY <2>1, <2>2
  <1>3. CASE compact_tsdb(r)
    <2>0. r.q.op = "compact" /\ UnlessMetrics(r) /\ UNCHANGED <<retention, written, shortest, apart, today>>
      BY <1>3 DEF compact_tsdb
    <2>1. RetentionInv'
      BY <1>0, <1>a, <2>0, RetentionStays
    <2>2. CASE series' = series
      BY <1>0, <1>a, <2>0, <2>1, <2>2, SamplesStay
    <2>3. CASE series' = compact_all(cutoff_for_retention(today, retention))
      <3> DEFINE c == cutoff_for_retention(today, retention)
      <3>1. c \in Nat /\ c <= cutoff_for_retention(today, shortest)
        BY <1>n, CutoffNat, CutoffGrows
      <3> HIDE DEF c
      <3>2. series' = compact_all(c) /\ shortest' <= shortest
        BY <1>n, <2>0, <2>3 DEF c
      <3>3. SamplesInv'
        BY <1>0, <1>a, <1>n, <2>0, <3>1, <3>2, SamplesCompacted
      <3>. QED BY <2>1, <3>3
    <2>. QED BY <1>3, <2>2, <2>3 DEF compact_tsdb
  <1>4. CASE set_tsdb_retention_days(r)
    <2>1. RetentionInv'
      BY <1>0, <1>4, RetentionWritten
    <2>2. live' = {Noted(x) : x \in live \ {r}} /\ UNCHANGED <<today, retention, shortest, series, written>>
      BY <1>4 DEF set_tsdb_retention_days, set_raw_setting
    <2>3. SamplesInv'
      BY <1>0, <2>2, Gone, SamplesStay
    <2>. QED BY <2>1, <2>3
  <1>5. CASE RetentionDropped(r)
    <2>1. RetentionInv'
      BY <1>0, <1>5, <1>a, RetentionApart DEF RetentionDropped
    <2>2. SamplesInv'
      BY <1>0, <1>5, <1>a, SamplesStay DEF RetentionDropped
    <2>. QED BY <2>1, <2>2
  <1>6. CASE download_backup(r) \/ RestoreFails(r)
    <2>1. r.q.op \in {"backup", "restore"} /\ UnlessMetrics(r) /\ UNCHANGED <<metrics, today>>
      BY <1>6 DEF download_backup, RestoreFails
    <2>2. SamplesInv'
      BY <1>0, <1>a, <2>1, SamplesStay
    <2>3. RetentionInv'
      BY <1>0, <1>a, <2>1, RetentionStays
    <2>. QED BY <2>2, <2>3
  <1>7. CASE download_archive(r) \/ ArchiveExports(r) \/ validate_restore_candidate(r)
    <2>1. r.q.op \in {"archive", "restore"} /\ UNCHANGED <<metrics, today, site>> /\ ~update_tsdb_retention(r) /\ ~Restart(r)
      BY <1>7 DEF download_archive, ArchiveExports, validate_restore_candidate, ReadsTasks, Reads, tables, update_tsdb_retention, Restart
    <2>2. Steps(r)
      BY <1>0, <2>1, StoreStep
    <2>. QED BY <2>1, <2>2, MetricsAside
  <1>8. CASE apply_sqlite_restore(r)
    <2>1. live' = {Noted(x) : x \in live \ {r}} /\ UNCHANGED <<today, retention, shortest, series, written>> /\ apart' = TRUE
      BY <1>8 DEF apply_sqlite_restore
    <2>2. SamplesInv'
      BY <1>0, <2>1, Gone, SamplesStay
    <2>. QED BY <1>0, <2>1, <2>2, RetentionApart
  <1>9. CASE DayPasses(r)
    <2>1. r.q.op = "day" /\ today' = today + 1 /\ UnlessMetrics(r) /\ UNCHANGED metrics
      BY <1>9 DEF DayPasses
    <2>2. SamplesInv'
      BY <1>0, <1>a, <2>1, DayOlder
    <2>3. RetentionInv'
      BY <1>0, <1>a, <2>1, RetentionStays
    <2>. QED BY <2>2, <2>3
  <1>10. CASE update_tsdb_retention(r)
    <2>1. CASE Refuse(r) /\ r.at = "start" /\ UNCHANGED <<retention, shortest, series, apart>>
      <3>1. live' = live \ {r} /\ UNCHANGED <<site, today, written>>
        BY <1>0, <1>10, <2>1, RetentionSet DEF Refuse, tables
      <3>2. SamplesInv'
        BY <1>0, <2>1, <3>1, LikeItself, SamplesStay
      <3>3. RetentionInv'
        BY <1>0, <2>1, <3>1, LikeItself, RetentionStays
      <3>. QED BY <3>2, <3>3
    <2>2. CASE ~(Refuse(r) /\ r.at = "start" /\ UNCHANGED <<retention, shortest, series, apart>>)
      <3>1. /\ r.q.op = "retention" /\ UNCHANGED <<written, today>>
            /\ r.q.k \in 1..MaxDays /\ retention' = r.q.k /\ shortest' = Least(shortest, r.q.k)
            /\ series' = compact_all(cutoff_for_retention(today, r.q.k)) /\ apart' = (apart \/ Updating # {})
            /\ live' = (live \ (Updating \cup {r})) \cup {[x EXCEPT !.n = 1] : x \in Updating}
                       \cup {[r EXCEPT !.at = "setting", !.n = IF Updating = {} THEN 0 ELSE 1]}
        BY <1>0, <1>10, <2>2, RetentionSet
      <3>2. RetentionInv'
        BY <1>0, <3>1, RetentionUpdated
      <3>3. \A y \in live' : y.q.op = "sample" /\ y.at = "lock" => \E x \in live : Like(y, x)
        BY <1>0, <3>1, AfterSet, LikeItself
      <3> DEFINE c == cutoff_for_retention(today, r.q.k)
      <3>k. r.q.k \in Nat /\ today <= today
        <4>1. r.q.k \in 1..MaxDays
          BY <3>1
        <4>. QED BY <1>n, <4>1
      <3>l. shortest' = IF shortest < r.q.k THEN shortest ELSE r.q.k
        BY <3>1 DEF Least
      <3>4. shortest' \in Nat /\ shortest' <= shortest /\ shortest' <= r.q.k
        BY <1>n, <3>k, <3>l
      <3>5. c \in Nat /\ c <= cutoff_for_retention(today, shortest')
        <4>1. c \in Nat
          BY <1>n, <3>k, CutoffNat
        <4>2. c <= cutoff_for_retention(today, shortest')
          BY <1>n, <3>k, <3>4, CutoffGrows
        <4>. QED BY <4>1, <4>2
      <3> HIDE DEF c
      <3>6. series' = compact_all(c)
        BY <3>1 DEF c
      <3>7. SamplesInv'
        BY <1>0, <3>1, <3>3, <3>4, <3>5, <3>6, <3>k, SamplesCompacted
      <3>. QED BY <3>2, <3>7
    <2>. QED BY <2>1, <2>2
  <1>11. CASE Restart(r)
    <2>1. /\ \A x \in live' : x.at = "start"
          /\ UNCHANGED <<site, today>> /\ series' = NoSamples /\ written' = NoSamples /\ retention' = tsdb_retention_days /\ shortest' = retention' /\ apart' = FALSE
      BY <1>11, Restarts DEF tables
    <2>2. retention' \in 1..MaxDays
      BY <1>0, <2>1, RetentionInRange
    <2>3. SamplesInv'
      BY <1>n, <2>1, <2>2, FS_EmptySet DEF SamplesInv, NoSamples, SamplesAreKept
    <2>4. RetentionInv'
      BY <2>1 DEF RetentionInv, Updating, RetentionIsStored, tsdb_retention_days
    <2>. QED BY <2>3, <2>4
  <1>. QED BY <1>1, <1>2, <1>3, <1>4, <1>5, <1>6, <1>7, <1>8, <1>9, <1>10, <1>11 DEF MaintenanceStep

LEMMA MetricsNext == MetricsInv /\ [Next]_vars => MetricsInv'
  <1> SUFFICES ASSUME MetricsInv, [Next]_vars PROVE SamplesInv' /\ RetentionInv'
    BY CoreNext DEF MetricsInv
  <1>0. /\ CoreInv /\ BaseInv /\ AskedInv /\ SamplesInv /\ RetentionInv /\ SiteKept(site) /\ IsTable(tasks)
        /\ \A x \in live : Shaped(x) /\ Asks(x.q) /\ Carries(x)
    BY DEF MetricsInv, CoreInv, BaseInv, TablesInv
  <1> USE DEF maintenance, metrics
  <1>1. ASSUME NEW r \in live, TaskStep(r), UNCHANGED maintenance PROVE SamplesInv' /\ RetentionInv'
    <2>1. Steps(r) /\ r.q.op \in TaskOps /\ UNCHANGED site
      BY <1>0, <1>1, TasksStep
    <2>. QED BY <1>1, <2>1, MetricsAside DEF TaskOps
  <1>2. ASSUME NEW r \in live, SiteStep(r), UNCHANGED maintenance PROVE SamplesInv' /\ RetentionInv'
    <2>1. Steps(r) /\ r.q.op \in SiteOps /\ site'.retention = site.retention
      BY <1>0, <1>2, SitesStep, SiteRetention
    <2>. QED BY <1>2, <2>1, MetricsAside DEF SiteOps, Edits
  <1>3. ASSUME NEW r \in live, RealtimeStep(r) \/ AlarmStep(r) \/ ReaderStep(r), UNCHANGED maintenance PROVE SamplesInv' /\ RetentionInv'
    <2>1. Plain(r) /\ UNCHANGED tables /\ r.q.op \in SocketOps \cup AlarmOps \cup ReaderOps
      BY <1>0, <1>3, SocketsStep, AlarmsStep, ReadersStep
    <2>. QED BY <1>3, <2>1, MetricsAside DEF Steps, tables, SocketOps, AlarmOps, ReaderOps
  <1>4. ASSUME NEW r \in live, Change(r), UNCHANGED maintenance PROVE SamplesInv' /\ RetentionInv'
    <2>1. Written(r) /\ r.q.op \in ChangeOps /\ UNCHANGED site
      BY <1>4, ChangesStep
    <2>. QED BY <1>4, <2>1, MetricsAside DEF Steps, ChangeOps
  <1>5. ASSUME UNCHANGED <<live, site, maintenance>> PROVE SamplesInv' /\ RetentionInv'
    BY <1>0, <1>5, LikeItself, SamplesStay, RetentionStays
  <1>6. CASE TasksNext /\ UNCHANGED maintenance
    BY <1>1, <1>2, <1>3, <1>4, <1>5, <1>6 DEF TasksNext, ReadersNext, CacheExpires, tables
  <1>7. CASE UNCHANGED vars
    BY <1>5, <1>7 DEF vars, taskVars, readers, tables
  <1>8. CASE run_tsdb_compaction
    <2> DEFINE c == cutoff_for_retention(today, retention)
    <2>0. today \in Nat /\ shortest \in Nat /\ retention \in 1..MaxDays /\ retention \in Nat /\ shortest <= retention /\ shortest <= shortest /\ today <= today
      BY <1>0, MaintenanceAssumption DEF SamplesInv
    <2>1. c \in Nat /\ c <= cutoff_for_retention(today, shortest)
      BY <2>0, CutoffNat, CutoffGrows
    <2>2. series' = compact_all(c) /\ UNCHANGED <<live, site, retention, written, shortest, apart, today>>
      BY <1>8 DEF run_tsdb_compaction, taskVars, readers, tables
    <2> HIDE DEF c
    <2>3. SamplesInv'
      BY <1>0, <2>0, <2>1, <2>2, LikeItself, SamplesCompacted
    <2>4. RetentionInv'
      BY <1>0, <2>2, LikeItself, RetentionStays
    <2>. QED BY <2>3, <2>4
  <1>. QED BY <1>6, <1>7, <1>8, MetricsMaintained DEF Next

\* The metric store (crates/tsdb, api/v1/maintenance.rs) gives up a sample only when it is older
\* than the shortest retention there was or when there are as many newer ones as it keeps,
\* whatever the cutoffs that are read before the lock; and the retention in force is the stored one.
THEOREM Metrics == Spec => []MetricsAreKept
  <1>1. MetricsInv => MetricsAreKept
    BY DEF MetricsInv, SamplesInv, RetentionInv, MetricsAreKept
  <1>. QED BY <1>1, MetricsInit, MetricsNext, PTL DEF Spec

-----------------------------------------------------------------------------
(* Sockets: what was published, and what a dashboard has of it. *)

\* Reports that are in the cache and not yet in the channel.
InFlight(a) == {p \in live : p.q.op = "publish" /\ p.q.agent = a /\ p.at # "start"}
Reports == [agent : Agents, n : Nat]

\* The last report of a in the channel is m.
IsLast(a, m) ==
    \E i \in 1..Len(channel) : channel[i].agent = a /\ channel[i].n = m /\ \A j \in (i + 1)..Len(channel) : channel[j].agent # a

HubInv ==
    /\ latest \in [Agents -> Nat] /\ channel \in Seq(Reports) /\ reports \in Nat
    /\ \A p \in live : p.q.op = "publish" /\ p.at # "start" => p.at = "send" /\ p.n \in Nat
    /\ \A a \in Agents : latest[a] # 0 => IF InFlight(a) = {} THEN IsLast(a, latest[a]) ELSE \A p \in InFlight(a) : p.n = latest[a]

\* The reports that a socket has yet to look at, and what it shows if there is none of an Agent.
From(x) == IF x.at = "check" THEN x.n ELSE x.n + 1
Unread(x, a) == \E i \in From(x)..Len(channel) : channel[i].agent = a
Shown(x) ==
    \A a \in x.always \cap Agents : latest[a] # 0 /\ InFlight(a) = {} /\ ~Unread(x, a) => x.view[a] = latest[a]

Listens(x) ==
    /\ x.at \in {"start", "subscribe", "snapshot", "recv", "check"}
    /\ x.always \subseteq Sees(x.q) /\ x.view \in [Agents -> Nat]
    /\ x.at \in {"subscribe", "snapshot"} => x.always \cap Agents \subseteq x.ids
    /\ x.at \in {"snapshot", "recv", "check"} => x.n \in 0..Len(channel)
    /\ x.at = "check" => x.n # 0
    /\ x.at \in {"recv", "check"} => Shown(x)

ListensInv == \A x \in live : x.q.op = "ws" => Listens(x)
SocketsInv == CoreInv /\ HubInv /\ ListensInv

LEMMA WsSees ==
    ASSUME NEW q, q.op = "ws", q.user # Nothing, NEW a \in Agents
    PROVE  a \in Sees(q) <=> /\ q.scope # Nothing => a \in q.scope
                             /\ q.user \in Admins \/ agents[a].owner = q.user
                             /\ ~agents[a].revoked
  BY ReadersAssumption DEF Sees

LEMMA WsSeesSame == ASSUME NEW q, q.op = "ws", UNCHANGED <<agents, site>> PROVE Sees(q)' = Sees(q)
  BY DEF Sees

LEMMA WsListed ==
    ASSUME NEW q, q.op = "ws", q.user # Nothing PROVE Sees(q) \cap Agents \subseteq LiveIds(q)
  <1> SUFFICES ASSUME NEW a \in Agents, a \in Sees(q) PROVE a \in LiveIds(q)
    OBVIOUS
  <1>1. /\ q.scope # Nothing => a \in q.scope
        /\ q.user \in Admins \/ agents[a].owner = q.user
        /\ ~agents[a].revoked
    BY WsSees
  <1>. QED BY <1>1 DEF LiveIds, ListedRows, agent_visible, list_with_state, list_with_state_by_owner, list_with_state_by_server_ids

\* Other requests step: a socket is as it was, and what it could see all the time is no more.
WsFrame ==
    \A y \in live' : y.q.op = "ws" =>
        \E x \in live : Like(y, x) /\ y.always \subseteq Sees(y.q)' /\ (x.at # "start" => y.always \subseteq x.always)
PubFrame ==
    /\ \A y \in live' : y.q.op = "publish" => \E x \in live : Like(y, x)
    /\ \A x \in live : x.q.op = "publish" => \E y \in live' : Like(y, x)

LEMMA StepFrames ==
    ASSUME NEW r \in live, SocketsInv, Steps(r), r.q.op \notin SocketOps
    PROVE  WsFrame /\ PubFrame
  <1>0. \A x \in live : Shaped(x) /\ (x.q.op = "ws" => x.always \subseteq Sees(x.q))
    BY DEF SocketsInv, CoreInv, BaseInv, ListensInv, Listens
  <1>1. PubFrame
    BY <1>0, OthersLike, Remain DEF PubFrame, SocketOps
  <1>2. ASSUME NEW y \in live', y.q.op = "ws"
        PROVE  \E x \in live : Like(y, x) /\ y.always \subseteq Sees(y.q)' /\ (x.at # "start" => y.always \subseteq x.always)
    <2>1. CASE Plain(r) /\ UNCHANGED <<agents, site>>
      <3>1. y \in live
        BY <1>2, <2>1 DEF Plain, Kin, SocketOps
      <3>2. y.always \subseteq Sees(y.q)'
        BY <1>0, <1>2, <2>1, <3>1, WsSeesSame
      <3>. QED BY <1>0, <3>1, <3>2, LikeItself
    <2>2. CASE Written(r)
      <3>1. PICK S : (\A s \in S : Kin(r, s)) /\ live' = {Noted(x) : x \in (live \ {r}) \cup S}
        BY <2>2 DEF Written
      <3>2. PICK x \in (live \ {r}) \cup S : y = Noted(x)
        BY <3>1
      <3>3. Shaped(x) /\ (x \in S => x.q.op = r.q.op)
        BY <1>0, <3>1, <3>2 DEF Kin
      <3>4. Like(y, x) /\ y.always \subseteq Sees(x.q)' /\ (x.at # "start" => y.always \subseteq x.always)
        BY <3>2, <3>3, NotedAlike
      <3>5. y.q = x.q /\ x \in live
        BY <1>2, <3>2, <3>3, <3>4 DEF Like, SocketOps
      <3>. QED BY <3>4, <3>5
    <2>. QED BY <2>1, <2>2 DEF Steps
  <1>. QED BY <1>1, <1>2 DEF WsFrame

LEMMA InFlightSame ==
    ASSUME PubFrame, NEW a
    PROVE  /\ InFlight(a)' = {} <=> InFlight(a) = {}
           /\ \A p \in InFlight(a)' : \E x \in InFlight(a) : x.n = p.n
  <1>1. ASSUME NEW p \in InFlight(a)' PROVE \E x \in InFlight(a) : x.n = p.n
    <2>1. p \in live' /\ p.q.op = "publish" /\ p.q.agent = a /\ p.at # "start"
      BY DEF InFlight
    <2>2. PICK x \in live : Like(p, x)
      BY <2>1 DEF PubFrame
    <2>3. x \in InFlight(a) /\ x.n = p.n
      BY <2>1, <2>2 DEF InFlight, Like
    <2>. QED BY <2>3
  <1>2. ASSUME NEW x \in InFlight(a) PROVE InFlight(a)' # {}
    <2>1. x \in live /\ x.q.op = "publish" /\ x.q.agent = a /\ x.at # "start"
      BY DEF InFlight
    <2>2. PICK y \in live' : Like(y, x)
      BY <2>1 DEF PubFrame
    <2>3. y \in InFlight(a)'
      BY <2>1, <2>2 DEF InFlight, Like
    <2>. QED BY <2>3
  <1>. QED BY <1>1, <1>2

LEMMA HubStays ==
    ASSUME HubInv, UNCHANGED <<latest, channel, reports>>, PubFrame
    PROVE  HubInv'
  <1>1. ASSUME NEW p \in live', p.q.op = "publish", p.at # "start" PROVE p.at = "send" /\ p.n \in Nat
    <2>1. PICK x \in live : Like(p, x)
      BY <1>1 DEF PubFrame
    <2>. QED BY <1>1, <2>1 DEF HubInv, Like
  <1>2. ASSUME NEW a \in Agents, latest[a] # 0
        PROVE  IF InFlight(a)' = {} THEN IsLast(a, latest[a]) ELSE \A p \in InFlight(a)' : p.n = latest[a]
    BY <1>2, InFlightSame DEF HubInv
  <1>3. ASSUME NEW a, NEW m PROVE IsLast(a, m)' <=> IsLast(a, m)
    BY DEF IsLast
  <1>4. ASSUME NEW a \in Agents, latest'[a] # 0
        PROVE  IF InFlight(a)' = {} THEN IsLast(a, latest[a])' ELSE \A p \in InFlight(a)' : p.n = latest'[a]
    <2>1. latest[a] # 0
      BY <1>4
    <2>2. IsLast(a, latest[a])' <=> IsLast(a, latest[a])
      BY DEF IsLast
    <2>. QED BY <1>2, <2>1, <2>2
  <1>. QED BY <1>1, <1>4 DEF HubInv

\* A socket that is as it was, while the cache and the channel are.
LEMMA SocketStays ==
    ASSUME UNCHANGED <<latest, channel>>, PubFrame,
           NEW x, Listens(x), NEW y, Like(y, x), y.always \subseteq Sees(y.q)', x.at # "start" => y.always \subseteq x.always
    PROVE  Listens(y)'
  <1>1. /\ y.at = x.at /\ y.n = x.n /\ y.view = x.view /\ y.ids = x.ids
    BY DEF Like
  <1>2. ASSUME x.at \in {"recv", "check"} PROVE Shown(y)'
    <2>1. Shown(x) /\ y.always \subseteq x.always
      BY <1>2 DEF Listens
    <2>2. SUFFICES ASSUME NEW a \in y.always \cap Agents, latest'[a] # 0, InFlight(a)' = {}, ~Unread(y, a)' PROVE y.view[a] = latest'[a]
      BY DEF Shown
    <2>3. InFlight(a) = {} /\ ~Unread(x, a)
      BY <1>1, <2>2, InFlightSame DEF Unread, From
    <2>. QED BY <1>1, <2>1, <2>2, <2>3 DEF Shown
  <1>. QED BY <1>1, <1>2 DEF Listens

LEMMA SocketsStay ==
    ASSUME HubInv, ListensInv, UNCHANGED <<latest, channel, reports>>, WsFrame, PubFrame
    PROVE  HubInv' /\ ListensInv'
  <1>1. ASSUME NEW y \in live', y.q.op = "ws" PROVE Listens(y)'
    <2>1. PICK x \in live : Like(y, x) /\ y.always \subseteq Sees(y.q)' /\ (x.at # "start" => y.always \subseteq x.always)
      BY <1>1 DEF WsFrame
    <2>2. Listens(x)
      BY <1>1, <2>1 DEF ListensInv, Like
    <2>. QED BY <2>1, <2>2, SocketStays
  <1>. QED BY <1>1, HubStays DEF ListensInv

\* A step of one socket, while the cache and the channel stay.
LEMMA SocketMoves ==
    ASSUME SocketsInv, UNCHANGED <<latest, channel, reports, agents, site>>, NEW r \in live, r.q.op = "ws",
           \A y \in live' : y \in live \/ (y.q.op = "ws" /\ Listens(y)'),
           \A x \in live : x # r => x \in live'
    PROVE  HubInv' /\ ListensInv'
  <1>0. HubInv /\ ListensInv /\ \A x \in live : Shaped(x)
    BY DEF SocketsInv, CoreInv, BaseInv
  <1>1. PubFrame
    BY <1>0, LikeItself DEF PubFrame
  <1>2. ASSUME NEW y \in live', y.q.op = "ws" PROVE Listens(y)'
    <2>1. CASE y \in live
      <3>1. Listens(y) /\ Like(y, y)
        BY <1>0, <1>2, <2>1, LikeItself DEF ListensInv
      <3>2. y.always \subseteq Sees(y.q)'
        BY <1>2, <3>1, WsSeesSame DEF Listens
      <3>. QED BY <1>1, <3>1, <3>2, SocketStays
    <2>. QED BY <1>2, <2>1
  <1>. QED BY <1>0, <1>1, <1>2, HubStays DEF ListensInv

\* What a socket shows does not depend on how others step, while cache and channel stay.
LEMMA ShownSame ==
    ASSUME UNCHANGED <<latest, channel>>, PubFrame, NEW x, NEW y, x.always = y.always, x.view = y.view, From(x) = From(y), Shown(x)
    PROVE  Shown(y)'
  <1> SUFFICES ASSUME NEW a \in y.always \cap Agents, latest'[a] # 0, InFlight(a)' = {}, ~Unread(y, a)' PROVE y.view[a] = latest'[a]
    BY DEF Shown
  <1>1. From(y)' = From(y)
    BY DEF From
  <1>2. ~Unread(x, a) /\ InFlight(a) = {}
    BY <1>1, InFlightSame DEF Unread
  <1>. QED BY <1>2 DEF Shown

LEMMA SocketsMove ==
    ASSUME SocketsInv, NEW r \in live, ws_servers(r) \/ subscribe(r) \/ SendsSnapshot(r) \/ Receives(r) \/ Lagged(r) \/ SocketCloses(r)
    PROVE  HubInv' /\ ListensInv'
  <1> USE DEF At, hub, tables, frames
  <1>0. r.q.op = "ws" /\ UNCHANGED <<latest, channel, reports, agents, site>>
    BY DEF ws_servers, subscribe, SendsSnapshot, Receives, Lagged, SocketCloses
  <1>1. Shaped(r) /\ r.q.user # Nothing /\ Listens(r) /\ channel \in Seq(Reports) /\ Len(channel) \in Nat
    BY <1>0 DEF SocketsInv, CoreInv, BaseInv, Asks, ListensInv, HubInv
  <1>2. Sees(r.q)' = Sees(r.q) /\ Sees(r.q) \cap Agents \subseteq LiveIds(r.q)
    BY <1>0, <1>1, WsSeesSame, WsListed
  <1>3. ASSUME NEW z, live' = (live \ {r}) \cup {z}, z.q = r.q, Listens(z)' PROVE HubInv' /\ ListensInv'
    BY <1>0, <1>3, SocketMoves
  <1>4. CASE ws_servers(r)
    <2>0. PICK z : z = [r EXCEPT !.at = "subscribe", !.ids = LiveIds(r.q)]
      OBVIOUS
    <2>1. live' = (live \ {r}) \cup {z}
      BY <2>0, <1>4 DEF ws_servers, Goto
    <2>2. z.q = r.q /\ z.at = "subscribe" /\ z.ids = LiveIds(r.q) /\ z.always = r.always /\ z.view = r.view
      BY <2>0, <1>1 DEF Shaped, Fields
    <2>3. Listens(z)'
      BY <1>1, <1>2, <2>2 DEF Listens
    <2>. QED BY <1>3, <2>1, <2>2, <2>3
  <1>5. CASE subscribe(r)
    <2>0. PICK z : z = [r EXCEPT !.at = "snapshot", !.n = Len(channel)]
      OBVIOUS
    <2>1. live' = (live \ {r}) \cup {z} /\ r.at = "subscribe"
      BY <2>0, <1>5 DEF subscribe, Goto
    <2>2. z.q = r.q /\ z.at = "snapshot" /\ z.ids = r.ids /\ z.n = Len(channel) /\ z.always = r.always /\ z.view = r.view
      BY <2>0, <1>1 DEF Shaped, Fields
    <2>3. Listens(z)'
      BY <1>0, <1>1, <1>2, <2>1, <2>2 DEF Listens
    <2>. QED BY <1>3, <2>1, <2>2, <2>3
  <1>6. CASE SendsSnapshot(r)
    <2>0. PICK z : z = [r EXCEPT !.at = "recv", !.view = Snapshot(r), !.ever = {}]
      OBVIOUS
    <2>1. live' = (live \ {r}) \cup {z} /\ r.at = "snapshot"
      BY <2>0, <1>6 DEF SendsSnapshot
    <2>2. z.q = r.q /\ z.at = "recv" /\ z.n = r.n /\ z.always = r.always /\ z.view = Snapshot(r)
      BY <2>0, <1>1 DEF Shaped, Fields
    <2>3. Snapshot(r) \in [Agents -> Nat] /\ \A a \in r.always \cap Agents : latest[a] # 0 => Snapshot(r)[a] = latest[a]
      BY <1>1, <2>1 DEF Snapshot, Listens, SocketsInv, HubInv
    <2>4. Shown(z)'
      BY <1>0, <2>2, <2>3 DEF Shown
    <2>5. Listens(z)'
      BY <1>0, <1>1, <1>2, <2>1, <2>2, <2>3, <2>4 DEF Listens
    <2>. QED BY <1>3, <2>1, <2>2, <2>5
  <1>7. CASE Receives(r)
    <2>0. PICK z : z = [r EXCEPT !.at = "check", !.n = r.n + 1, !.ever = Sees(r.q)]
      OBVIOUS
    <2>1. live' = (live \ {r}) \cup {z} /\ r.at = "recv" /\ r.n < Len(channel)
      BY <2>0, <1>7 DEF Receives, Goto
    <2>2. z.q = r.q /\ z.at = "check" /\ z.n = r.n + 1 /\ z.always = r.always /\ z.view = r.view
      BY <2>0, <1>1 DEF Shaped, Fields
    <2>3. r.n \in 0..Len(channel) /\ Shown(r)
      BY <1>1, <2>1 DEF Listens
    <2>4. PubFrame
      BY <1>0, <2>1, <2>2, LikeItself DEF PubFrame, SocketsInv, CoreInv, BaseInv
    <2>5. From(z) = From(r)
      BY <2>1, <2>2 DEF From
    <2>6. Shown(z)'
      BY <1>0, <2>2, <2>3, <2>4, <2>5, ShownSame
    <2>7. Listens(z)'
      BY <1>0, <1>1, <1>2, <2>1, <2>2, <2>3, <2>6 DEF Listens
    <2>. QED BY <1>3, <2>1, <2>2, <2>7
  <1>8. CASE Lagged(r)
    <2>0. PICK z : z = [r EXCEPT !.at = "snapshot", !.n = Len(channel) - Capacity, !.ids = LiveIds(r.q), !.ever = Sees(r.q)]
      OBVIOUS
    <2>1. live' = (live \ {r}) \cup {z} /\ r.at = "recv" /\ Len(channel) - r.n > Capacity
      BY <2>0, <1>8 DEF Lagged, Goto
    <2>2. z.q = r.q /\ z.at = "snapshot" /\ z.ids = LiveIds(r.q) /\ z.n = Len(channel) - Capacity /\ z.always = r.always /\ z.view = r.view
      BY <2>0, <1>1 DEF Shaped, Fields
    <2>3. z.n \in 0..Len(channel)
      BY <1>1, <2>1, <2>2, RealtimeAssumption DEF Listens
    <2>4. Listens(z)'
      BY <1>0, <1>1, <1>2, <2>1, <2>2, <2>3 DEF Listens
    <2>. QED BY <1>3, <2>1, <2>2, <2>4
  <1>9. CASE SocketCloses(r)
    BY <1>0, <1>9, SocketMoves DEF SocketCloses, Refuse
  <1>. QED BY <1>4, <1>5, <1>6, <1>7, <1>8, <1>9

\* publish: the report is in the cache, and on its way to the channel.
LEMMA Published ==
    ASSUME SocketsInv, NEW r \in live, publish(r)
    PROVE  HubInv' /\ ListensInv'
  <1> DEFINE a == r.q.agent
  <1>0. PICK z : z = [r EXCEPT !.at = "send", !.n = reports + 1]
    OBVIOUS
  <1>1. /\ r.q.op = "publish" /\ r.at = "start" /\ live' = (live \ {r}) \cup {z} /\ UNCHANGED <<agents, site, channel>>
        /\ \A p \in live : p.q.op = "publish" /\ p.q.agent = a => p.at = "start"
        /\ reports' = reports + 1
        /\ latest' = [b \in Agents |-> IF b = a THEN reports + 1 ELSE IF b \in Evicted(a) THEN 0 ELSE latest[b]]
    BY <1>0 DEF publish, At, Goto, Publishing, tables
  <1>2. /\ a \in Agents /\ Shaped(r) /\ HubInv /\ reports \in Nat /\ latest \in [Agents -> Nat] /\ channel \in Seq(Reports)
        /\ \A x \in live : x.q.op = "ws" => Listens(x)
    BY <1>1 DEF SocketsInv, CoreInv, BaseInv, Asks, HubInv, ListensInv
  <1>3. z.q = r.q /\ z.at = "send" /\ z.n = reports + 1
    BY <1>0, <1>2 DEF Shaped, Fields
  <1> HIDE DEF a
  <1>4. InFlight(a)' = {z}
    BY <1>1, <1>3 DEF InFlight, a
  <1>5. ASSUME NEW b, b # a PROVE InFlight(b)' = InFlight(b)
    BY <1>1, <1>3, <1>5 DEF InFlight, a
  <1>6. latest' \in [Agents -> Nat] /\ latest'[a] = reports + 1 /\ \A b \in Agents : b # a => latest'[b] = 0 \/ latest'[b] = latest[b]
    BY <1>1, <1>2
  <1>7. ASSUME NEW b \in Agents, latest'[b] # 0
        PROVE  IF InFlight(b)' = {} THEN IsLast(b, latest[b])' ELSE \A p \in InFlight(b)' : p.n = latest'[b]
    <2>1. CASE b = a
      BY <1>3, <1>4, <1>6, <2>1
    <2>2. CASE b # a
      <3>1. latest'[b] = latest[b] /\ InFlight(b)' = InFlight(b)
        BY <1>5, <1>6, <1>7, <2>2
      <3>2. IF InFlight(b) = {} THEN IsLast(b, latest[b]) ELSE \A p \in InFlight(b) : p.n = latest[b]
        BY <1>2, <1>7, <3>1 DEF HubInv
      <3>3. IsLast(b, latest[b]) => IsLast(b, latest[b])'
        BY <1>1, <3>1 DEF IsLast
      <3>. QED BY <3>1, <3>2, <3>3
    <2>. QED BY <2>1, <2>2
  <1>8. \A p \in live' : p.q.op = "publish" /\ p.at # "start" => p.at = "send" /\ p.n \in Nat
    BY <1>1, <1>2, <1>3 DEF HubInv
  <1>9. HubInv'
    BY <1>1, <1>2, <1>6, <1>7, <1>8 DEF HubInv
  <1>10. ASSUME NEW x \in live', x.q.op = "ws" PROVE Listens(x)'
    <2>1. x \in live /\ Listens(x)
      BY <1>1, <1>2, <1>3, <1>10
    <2>2. Sees(x.q)' = Sees(x.q)
      BY <1>1, <1>10, WsSeesSame
    <2>3. ASSUME Shown(x) PROVE Shown(x)'
      <3> SUFFICES ASSUME NEW b \in x.always \cap Agents, latest'[b] # 0, InFlight(b)' = {}, ~Unread(x, b)' PROVE x.view[b] = latest'[b]
        BY DEF Shown
      <3>1. b # a
        BY <1>4
      <3>2. latest'[b] = latest[b] /\ InFlight(b) = {}
        BY <1>5, <1>6, <3>1
      <3>3. ~Unread(x, b)
        BY <1>1 DEF Unread, From
      <3>. QED BY <2>3, <3>2, <3>3 DEF Shown
    <2>. QED BY <1>1, <2>1, <2>2, <2>3 DEF Listens
  <1>. QED BY <1>9, <1>10 DEF ListensInv

\* Sends: the report that was in the cache is the last of its Agent in the channel.
LEMMA Sent ==
    ASSUME SocketsInv, NEW r \in live, Sends(r)
    PROVE  HubInv' /\ ListensInv'
  <1> DEFINE a == r.q.agent
             e == [agent |-> a, n |-> r.n]
  <1>1. /\ r.q.op = "publish" /\ r.at = "send" /\ live' = live \ {r} /\ UNCHANGED <<agents, site, latest, reports>>
        /\ channel' = Append(channel, e)
    BY DEF Sends, At, Refuse, tables
  <1>2. /\ a \in Agents /\ HubInv /\ reports \in Nat /\ latest \in [Agents -> Nat] /\ channel \in Seq(Reports) /\ r.n \in Nat
        /\ \A x \in live : x.q.op = "ws" => Listens(x)
    BY <1>1 DEF SocketsInv, CoreInv, BaseInv, Asks, HubInv, ListensInv
  <1>3. e \in Reports /\ e.agent = a /\ e.n = r.n
    BY <1>2 DEF Reports
  <1> HIDE DEF e
  <1>4. /\ channel' \in Seq(Reports) /\ Len(channel) \in Nat /\ Len(channel') = Len(channel) + 1 /\ channel'[Len(channel) + 1] = e
        /\ \A i \in 1..Len(channel) : channel'[i] = channel[i]
    BY <1>1, <1>2, <1>3
  <1> HIDE DEF a
  <1>5. r \in InFlight(a) /\ InFlight(a)' \subseteq InFlight(a) /\ \A b : b # a => InFlight(b)' = InFlight(b)
    BY <1>1 DEF InFlight, a
  <1>6. ASSUME NEW b \in Agents, latest[b] # 0
        PROVE  IF InFlight(b)' = {} THEN IsLast(b, latest[b])' ELSE \A p \in InFlight(b)' : p.n = latest[b]
    <2>1. CASE b = a
      <3>1. r.n = latest[a] /\ \A p \in InFlight(a)' : p.n = latest[a]
        BY <1>2, <1>5, <1>6, <2>1 DEF HubInv
      <3>2. \A j \in (Len(channel) + 1 + 1)..Len(channel') : channel'[j].agent # a
        BY <1>4
      <3>3. Len(channel) + 1 \in 1..Len(channel')
        BY <1>4
      <3>4. IsLast(a, latest[a])'
        BY <1>1, <1>3, <1>4, <3>1, <3>2, <3>3 DEF IsLast
      <3>. QED BY <2>1, <3>1, <3>4
    <2>2. CASE b # a
      <3>1. IF InFlight(b) = {} THEN IsLast(b, latest[b]) ELSE \A p \in InFlight(b) : p.n = latest[b]
        BY <1>2, <1>6 DEF HubInv
      <3>2. ASSUME IsLast(b, latest[b]) PROVE IsLast(b, latest[b])'
        <4>1. PICK i \in 1..Len(channel) : channel[i].agent = b /\ channel[i].n = latest[b] /\ \A j \in (i + 1)..Len(channel) : channel[j].agent # b
          BY <3>2 DEF IsLast
        <4>2. i \in 1..Len(channel') /\ channel'[i].agent = b /\ channel'[i].n = latest'[b]
          BY <1>1, <1>4, <4>1
        <4>3. \A j \in (i + 1)..Len(channel') : channel'[j].agent # b
          BY <1>3, <1>4, <2>2, <4>1
        <4>. QED BY <4>2, <4>3 DEF IsLast
      <3>. QED BY <1>5, <2>2, <3>1, <3>2
    <2>. QED BY <2>1, <2>2
  <1>7. HubInv'
    BY <1>1, <1>2, <1>4, <1>6 DEF HubInv
  <1>8. ASSUME NEW x \in live', x.q.op = "ws" PROVE Listens(x)'
    <2>1. x \in live /\ Listens(x)
      BY <1>1, <1>2, <1>8
    <2>2. Sees(x.q)' = Sees(x.q)
      BY <1>1, <1>8, WsSeesSame
    <2>3. ASSUME Shown(x), x.n \in 0..Len(channel) PROVE Shown(x)'
      <3> SUFFICES ASSUME NEW b \in x.always \cap Agents, latest'[b] # 0, InFlight(b)' = {}, ~Unread(x, b)' PROVE x.view[b] = latest'[b]
        BY DEF Shown
      <3>1. From(x)' = From(x) /\ From(x) \in 0..(Len(channel) + 1)
        BY <1>4, <2>3 DEF From
      <3>2. b # a
        BY <1>3, <1>4, <3>1 DEF Unread
      <3>3. Unread(x, b) => Unread(x, b)'
        BY <1>4, <2>1, <2>3, <3>1 DEF Unread, From, Listens
      <3>. QED BY <1>1, <1>5, <2>3, <3>2, <3>3 DEF Shown
    <2>4. 0..Len(channel) \subseteq 0..Len(channel')
      BY <1>4
    <2>. QED BY <1>1, <2>1, <2>2, <2>3, <2>4 DEF Listens
  <1>. QED BY <1>7, <1>8 DEF ListensInv

\* A socket has looked at the report at its position and waits for the next one: what it shows is
\* right if it is for the Agent of that report.
LEMMA Looked ==
    ASSUME HubInv, NEW r, Listens(r), r.at = "check", NEW z, z.at = "recv", z.n = r.n, z.always \subseteq r.always,
           NEW a, a = channel[r.n].agent,
           \A b \in Agents : b # a => z.view[b] = r.view[b],
           a \in z.always \cap Agents => z.view[a] = channel[r.n].n
    PROVE  Shown(z)
  <1>1. r.n \in 1..Len(channel) /\ Shown(r) /\ channel \in Seq(Reports)
    BY DEF Listens, HubInv
  <1> SUFFICES ASSUME NEW b \in z.always \cap Agents, latest[b] # 0, InFlight(b) = {}, ~Unread(z, b) PROVE z.view[b] = latest[b]
    BY DEF Shown
  <1>2. \A i \in (r.n + 1)..Len(channel) : channel[i].agent # b
    BY DEF Unread, From
  <1>3. CASE b = a
    <2>1. PICK i \in 1..Len(channel) : channel[i].agent = b /\ channel[i].n = latest[b] /\ \A j \in (i + 1)..Len(channel) : channel[j].agent # b
      BY DEF HubInv, IsLast
    <2>2. i = r.n
      BY <1>1, <1>2, <1>3, <2>1
    <2>. QED BY <1>3, <2>1, <2>2
  <1>4. CASE b # a
    <2>1. ~Unread(r, b)
      BY <1>1, <1>2, <1>4 DEF Unread, From
    <2>. QED BY <1>1, <1>4, <2>1 DEF Shown
  <1>. QED BY <1>3, <1>4

\* The cache loses a revoked Agent, or stays, and the channel stays.
LEMMA CacheShrinks ==
    ASSUME SocketsInv, NEW r \in live, r.q.op = "ws", NEW z, z.q = r.q, z.at = "recv", z.n = r.n, r.at = "check",
           live' = (live \ {r}) \cup {z}, UNCHANGED <<agents, site, channel, reports>>,
           latest' \in [Agents -> Nat], \A b \in Agents : latest'[b] = 0 \/ latest'[b] = latest[b],
           z.always \subseteq r.always, z.view \in [Agents -> Nat], Shown(z)
    PROVE  HubInv' /\ ListensInv'
  <1>0. HubInv /\ Listens(r) /\ \A x \in live : Shaped(x) /\ (x.q.op = "ws" => Listens(x))
    BY DEF SocketsInv, CoreInv, BaseInv, ListensInv
  <1>1. \A b : InFlight(b)' = InFlight(b)
    BY DEF InFlight
  <1>2. \A p \in live' : p.q.op = "publish" /\ p.at # "start" => p.at = "send" /\ p.n \in Nat
    BY <1>0 DEF HubInv
  <1>3. ASSUME NEW b \in Agents, latest'[b] # 0
        PROVE  IF InFlight(b)' = {} THEN IsLast(b, latest[b])' ELSE \A p \in InFlight(b)' : p.n = latest'[b]
    <2>1. latest'[b] = latest[b] /\ InFlight(b)' = InFlight(b)
      BY <1>1, <1>3
    <2>2. IF InFlight(b) = {} THEN IsLast(b, latest[b]) ELSE \A p \in InFlight(b) : p.n = latest[b]
      BY <1>0, <1>3, <2>1 DEF HubInv
    <2>3. IsLast(b, latest[b]) => IsLast(b, latest[b])'
      BY <2>1 DEF IsLast
    <2>. QED BY <2>1, <2>2, <2>3
  <1>4. HubInv'
    BY <1>0, <1>2, <1>3 DEF HubInv
  <1>5. ASSUME NEW x, Shown(x) PROVE Shown(x)'
    <2> SUFFICES ASSUME NEW b \in x.always \cap Agents, latest'[b] # 0, InFlight(b)' = {}, ~Unread(x, b)' PROVE x.view[b] = latest'[b]
      BY DEF Shown
    <2>1. latest'[b] = latest[b] /\ InFlight(b) = {}
      BY <1>1
    <2>2. ~Unread(x, b)
      BY DEF Unread, From
    <2>. QED BY <1>5, <2>1, <2>2 DEF Shown
  <1>6. ASSUME NEW x \in live', x.q.op = "ws" PROVE Listens(x)'
    <2>1. Sees(x.q)' = Sees(x.q)
      BY <1>6, WsSeesSame
    <2>2. CASE x \in live
      BY <1>0, <1>5, <1>6, <2>1, <2>2 DEF Listens
    <2>3. CASE x = z
      BY <1>0, <1>5, <2>1, <2>3 DEF Listens
    <2>. QED BY <2>2, <2>3
  <1>. QED BY <1>4, <1>6 DEF ListensInv

LEMMA EventForwarded ==
    ASSUME SocketsInv, NEW r \in live, ForwardsEvent(r)
    PROVE  HubInv' /\ ListensInv'
  <1> DEFINE e == channel[r.n]
             a == e.agent
  <1>0. PICK y, z : /\ y = [r EXCEPT !.at = "recv", !.ids = @ \cup {a}, !.view[a] = e.n, !.ever = {}]
                    /\ z = [r EXCEPT !.at = "recv", !.ids = @ \ {a}, !.ever = {}]
    OBVIOUS
  <1>1. /\ r.q.op = "ws" /\ r.at = "check" /\ UNCHANGED <<agents, site, channel, reports>>
        /\ \/ realtime_event_visible(r, a) /\ live' = (live \ {r}) \cup {y}
           \/ ~realtime_event_visible(r, a) /\ live' = (live \ {r}) \cup {z}
        /\ latest' = latest \/ latest' = [latest EXCEPT ![a] = 0]
    BY <1>0 DEF ForwardsEvent, At, Goto, tables
  <1>2. /\ Shaped(r) /\ r.q.user # Nothing /\ Listens(r) /\ HubInv /\ channel \in Seq(Reports) /\ latest \in [Agents -> Nat]
        /\ r.view \in [Agents -> Nat] /\ r.n \in 1..Len(channel)
    BY <1>1 DEF SocketsInv, CoreInv, BaseInv, Asks, ListensInv, HubInv, Listens
  <1>3. e \in Reports /\ a \in Agents /\ e.n \in Nat
    <2>1. e \in Reports
      BY <1>2
    <2> HIDE DEF e
    <2>. QED BY <2>1 DEF Reports
  <1>4. /\ y.q = r.q /\ y.at = "recv" /\ y.n = r.n /\ y.always = r.always /\ y.view = [r.view EXCEPT ![a] = e.n]
        /\ z.q = r.q /\ z.at = "recv" /\ z.n = r.n /\ z.always = r.always /\ z.view = r.view
    BY <1>0, <1>2 DEF Shaped, Fields
  <1>5. ~realtime_event_visible(r, a) => a \notin r.always
    BY <1>1, <1>2, <1>3, WsSees DEF realtime_event_visible, agent_visible, Listens
  <1>b. latest' = latest \/ latest' = [latest EXCEPT ![a] = 0]
    BY <1>1
  <1> HIDE DEF a, e
  <1>6. latest' \in [Agents -> Nat] /\ \A b \in Agents : latest'[b] = 0 \/ latest'[b] = latest[b]
    BY <1>2, <1>3, <1>b
  <1>7. y.view \in [Agents -> Nat] /\ y.view[a] = e.n /\ \A b \in Agents : b # a => y.view[b] = r.view[b]
    BY <1>2, <1>3, <1>4
  <1>8. a = channel[r.n].agent /\ e.n = channel[r.n].n
    BY DEF a, e
  <1>9. CASE realtime_event_visible(r, a)
    <2>0. y.at = "recv" /\ y.n = r.n /\ y.view[a] = channel[r.n].n /\ y.always \subseteq r.always /\ HubInv /\ Listens(r) /\ r.at = "check"
      BY <1>1, <1>2, <1>4, <1>7, <1>8
    <2>a. \A b \in Agents : b # a => y.view[b] = r.view[b]
      BY <1>7
    <2>1. Shown(y)
      BY <1>8, <2>0, <2>a, Looked
    <2>. QED BY <1>1, <1>4, <1>6, <1>7, <1>9, <2>1, CacheShrinks
  <1>10. CASE ~realtime_event_visible(r, a)
    <2>1. Shown(z)
      BY <1>1, <1>2, <1>4, <1>5, <1>8, <1>10, Looked
    <2>. QED BY <1>1, <1>2, <1>4, <1>6, <1>10, <2>1, CacheShrinks
  <1>. QED BY <1>9, <1>10

LEMMA CheckFailed ==
    ASSUME SocketsInv, NEW r \in live, CheckFails(r)
    PROVE  HubInv' /\ ListensInv'
  <1> DEFINE a == channel[r.n].agent
  <1>0. PICK z : z = [r EXCEPT !.at = "recv", !.ids = @ \ {a}, !.always = @ \ {a}, !.ever = {}]
    OBVIOUS
  <1>1. r.q.op = "ws" /\ r.at = "check" /\ live' = (live \ {r}) \cup {z} /\ UNCHANGED <<agents, site, latest, channel, reports>>
    BY <1>0 DEF CheckFails, At, Goto, tables
  <1>2. Shaped(r) /\ Listens(r) /\ HubInv /\ latest \in [Agents -> Nat] /\ r.view \in [Agents -> Nat]
    BY <1>1 DEF SocketsInv, CoreInv, BaseInv, ListensInv, HubInv, Listens
  <1>3. z.q = r.q /\ z.at = "recv" /\ z.n = r.n /\ z.always = r.always \ {a} /\ z.view = r.view
    BY <1>0, <1>2 DEF Shaped, Fields
  <1>4. Shown(z)
    BY <1>1, <1>2, <1>3, Looked
  <1>. QED BY <1>1, <1>2, <1>3, <1>4, CacheShrinks

LEMMA SocketsInit == Init => SocketsInv
  <1> SUFFICES ASSUME Init PROVE HubInv /\ ListensInv
    BY CoreInit DEF SocketsInv
  <1>1. /\ \A x \in live : \E q : x = Request(q)
        /\ latest = [a \in Agents |-> 0] /\ channel = <<>> /\ reports = 0
    BY DEF Init, TasksInit, RealtimeInit, ReadersInit
  <1>2. ASSUME NEW x \in live PROVE x.at = "start" /\ x.always = Sees(x.q) /\ x.view = [a \in Agents |-> 0]
    BY <1>1 DEF Request
  <1>3. HubInv
    BY <1>1, <1>2 DEF HubInv
  <1>4. ListensInv
    BY <1>2 DEF ListensInv, Listens
  <1>. QED BY <1>3, <1>4

LEMMA SocketsNext == SocketsInv /\ [Next]_vars => SocketsInv'
  <1> SUFFICES ASSUME SocketsInv, [Next]_vars PROVE HubInv' /\ ListensInv'
    BY CoreNext DEF SocketsInv
  <1>0. /\ CoreInv /\ BaseInv /\ AskedInv /\ HubInv /\ ListensInv /\ SiteKept(site) /\ IsTable(tasks)
        /\ \A x \in live : Shaped(x) /\ Asks(x.q) /\ Carries(x)
    BY DEF SocketsInv, CoreInv, BaseInv, TablesInv
  <1> USE DEF hub
  <1>1. ASSUME NEW r \in live, Steps(r), r.q.op \notin SocketOps, UNCHANGED hub PROVE HubInv' /\ ListensInv'
    BY <1>0, <1>1, StepFrames, SocketsStay
  \* The sockets and the publications are the same.
  <1>2. ASSUME UNCHANGED <<hub, agents, site>>, \A y \in live' : y.q.op \in SocketOps => y \in live,
               \A x \in live : x.q.op = "publish" => x \in live'
        PROVE  HubInv' /\ ListensInv'
    <2>1. PubFrame
      BY <1>0, <1>2, LikeItself DEF PubFrame, SocketOps
    <2>2. ASSUME NEW y \in live', y.q.op = "ws" PROVE y \in live /\ Like(y, y) /\ y.always \subseteq Sees(y.q)'
      BY <1>0, <1>2, <2>2, LikeItself, WsSeesSame DEF SocketOps, ListensInv, Listens
    <2>3. WsFrame
      BY <2>2 DEF WsFrame
    <2>. QED BY <1>0, <1>2, <2>1, <2>3, SocketsStay
  <1>3. ASSUME NEW r \in live, TaskStep(r) PROVE HubInv' /\ ListensInv'
    BY <1>0, <1>1, <1>3, TasksStep DEF TaskOps, SocketOps
  <1>4. ASSUME NEW r \in live, SiteStep(r) PROVE HubInv' /\ ListensInv'
    BY <1>0, <1>1, <1>4, SitesStep DEF SiteOps, Edits, SocketOps
  <1>5. ASSUME NEW r \in live, AlarmStep(r) \/ (ReaderStep(r) /\ UNCHANGED hub) PROVE HubInv' /\ ListensInv'
    <2>1. Plain(r) /\ UNCHANGED <<tables, hub>> /\ r.q.op \in AlarmOps \cup ReaderOps
      BY <1>0, <1>5, AlarmsStep, ReadersStep
    <2>. QED BY <1>1, <2>1 DEF Steps, tables, SocketOps, AlarmOps, ReaderOps
  <1>6. ASSUME NEW r \in live, Change(r), UNCHANGED hub PROVE HubInv' /\ ListensInv'
    BY <1>1, <1>6, ChangesStep DEF Steps, ChangeOps, SocketOps
  <1>7. ASSUME NEW r \in live, RealtimeStep(r) PROVE HubInv' /\ ListensInv'
    BY <1>7, Published, Sent, SocketsMove, EventForwarded, CheckFailed DEF RealtimeStep
  <1>8. ASSUME NEW r \in live, MaintenanceStep(r) PROVE HubInv' /\ ListensInv'
    <2>1. CASE update_tsdb_retention(r)
      <3>1. CASE Plain(r)
        BY <1>0, <1>1, <2>1, <3>1, RetentionSet DEF Steps, tables, SocketOps
      <3>2. CASE ~Plain(r)
        <4>1. \A y \in live' : y \in live \/ y.q.op = "retention"
          BY <1>0, <2>1, <3>2, RetentionSet, AfterSet
        <4>2. \A x \in live : x.q.op = "publish" => x \in live'
          BY <1>0, <2>1, <3>2, RetentionSet DEF Updating, At
        <4>. QED BY <1>0, <1>2, <2>1, <4>1, <4>2, RetentionSet DEF tables, SocketOps
      <3>. QED BY <3>1, <3>2
    <2>2. CASE Restart(r)
      <3>1. live' = {x \in live \ {r} : x.at = "start"} /\ UNCHANGED <<agents, site, reports>> /\ latest' = [a \in Agents |-> 0] /\ channel' = <<>>
        BY <2>2, Restarts DEF tables
      <3>2. HubInv'
        BY <1>0, <3>1 DEF HubInv
      <3>3. ASSUME NEW x \in live', x.q.op = "ws" PROVE Listens(x)'
        BY <1>0, <3>1, <3>3, WsSeesSame DEF ListensInv, Listens
      <3>. QED BY <3>2, <3>3 DEF ListensInv
    <2>3. CASE ~update_tsdb_retention(r) /\ ~Restart(r)
      BY <1>0, <1>1, <1>8, <2>3, StoreStep DEF StoreOps, SocketOps
    <2>. QED BY <2>1, <2>2, <2>3
  <1>9. CASE CacheExpires /\ UNCHANGED hub
    BY <1>2, <1>9 DEF CacheExpires, tables
  <1>10. CASE run_tsdb_compaction \/ UNCHANGED vars
    BY <1>2, <1>10 DEF run_tsdb_compaction, vars, taskVars, readers, tables
  <1>11. ASSUME TasksNext PROVE HubInv' /\ ListensInv'
    BY <1>3, <1>4, <1>5, <1>6, <1>7, <1>9, <1>11 DEF TasksNext, ReadersNext
  <1>. QED BY <1>8, <1>10, <1>11 DEF Next

\* The broadcast of reports (realtime/mod.rs, realtime/ws.rs): a dashboard that has received all
\* there is in the channel shows the newest report of each Agent it could see all the time,
\* however publications, its own subscription, copies of the cache and lags interleave.
THEOREM Sockets == Spec => []CaughtUp
  <1>1. SocketsInv => CaughtUp
    <2> SUFFICES ASSUME SocketsInv, NEW r \in live, At(r, "ws", "recv"), r.n = Len(channel), NEW a \in r.always \cap Agents,
                        latest[a] # 0, \A p \in Publishing(a) : p.at = "start"
                 PROVE  r.view[a] = latest[a]
      BY DEF CaughtUp
    <2>1. Shown(r) /\ r.n \in Nat
      BY DEF SocketsInv, ListensInv, Listens, At, HubInv
    <2>2. InFlight(a) = {}
      BY DEF InFlight, Publishing
    <2>3. ~Unread(r, a)
      BY <2>1 DEF Unread, From, At
    <2>. QED BY <2>1, <2>2, <2>3 DEF Shown
  <1>. QED BY <1>1, SocketsInit, SocketsNext, PTL DEF Spec
=============================================================================

------------------------------ MODULE Readers --------------------------------
(***************************************************************************)
(* What readers are shown: the dashboard's lists of Agents, groups and     *)
(* services (api/v1/servers.rs, services.rs, service_history.rs) and the   *)
(* public status page and its MJPEG stream (api/v1/public.rs).  Site has   *)
(* the settings and themes the page reads, Tasks the tasks' readers.       *)
(*                                                                         *)
(* A reader decides what it may show from one read and fetches it with     *)
(* others, and rows, owners, revocations and the site's switches change in *)
(* between.  A request carries what it has put into its answer and, as     *)
(* history, what its asker could see at some moment since it was made.     *)
(***************************************************************************)
EXTENDS Integers, FiniteSets, Sequences, SequencesExt

CONSTANTS
    Agents, Users, Admins, Services, Tasks, Channels,
    Themes, Builtins, \* theme ids; those that come with the server, and what they are for
    Rules,      \* alert rules: owner, and the Agents, services and tasks they name
    Nothing,    \* no value; as a user: a guest
    Rows,       \* tables the server may start with
    Workloads,  \* sets of requests that are made
    MaxServers, \* SERVICE_MAX_SERVER_IDS
    MaxRows,    \* PUBLIC_STATUS_SERVER_LIMIT and PUBLIC_STATUS_SERVICE_LIMIT
    MaxStreams, \* PUBLIC_MJPEG_CONNECTIONS
    MaxFrames,  \* bound on the frames of a stream
    Order,      \* the Agents, the newest first
    Batch,      \* PUBLIC_POSTGRES_SCAN_BATCH; on SQLite there is one batch
    MaxScan     \* PUBLIC_POSTGRES_MAX_SCAN_CANDIDATES

ASSUME ReadersAssumption ==
    /\ Admins \subseteq Users /\ DOMAIN Builtins \subseteq Themes /\ Nothing \notin Users \cup Agents \cup Themes
    /\ {<<"site">>, <<"details">>} \cap Agents = {}
    /\ MaxServers \in Nat /\ MaxRows \in Nat /\ MaxStreams \in Nat
    /\ MaxFrames \in Nat /\ MaxScan \in Nat /\ Batch \in Nat \ {0}
    /\ ToSet(Order) = Agents

VARIABLES
    agents,   \* agents: owner, revoked, shown to the public, tags
    service,  \* services: owner, enabled, cover mode, exclusions, Agent of older versions
    assigned, \* service_servers
    results,  \* service_results: service and Agent
    members,  \* members of each user's group
    notices,  \* channels in each user's notification group
    tasks,    \* tasks; Nothing: no such row
    runs,     \* task_runs: task and Agent
    site,     \* system_settings
    cache,    \* PublicMjpegFrameCache: what its frame shows, Nothing without a fresh one
    builder,  \* the stream that holds the cache's lock
    live,     \* requests, streams and changes still to come
    answer    \* the last thing that was shown

tables == <<agents, service, assigned, results, members, notices, tasks, runs, site>>
frames == <<cache, builder>>
readers == <<tables, frames, live, answer>>

ReadersTypeOK ==
    /\ \A a \in Agents : agents[a].owner \in Users /\ {agents[a].revoked, agents[a].public} \subseteq BOOLEAN
    /\ service \in [Services -> [owner : Users, enabled : BOOLEAN, cover : {"specific", "all"},
                                 exclude : BOOLEAN, legacy : Agents \cup {Nothing}]]
    /\ assigned \in [Services -> SUBSET Agents] /\ results \subseteq Services \X Agents
    /\ members \in [Users -> SUBSET Agents] /\ notices \in [Users -> SUBSET Channels] /\ runs \subseteq Tasks \X Agents
    /\ cache = Nothing \/ cache \subseteq Agents
    /\ Cardinality({r \in live : r.q.op = "mjpeg" /\ r.at # "start"}) <= MaxStreams

\* The themes there are: those that come with the server and those of the catalogue.
IsTheme(t) == t \in DOMAIN Builtins \/ site.themes[t] # Nothing
TargetOf(t) == IF t \in DOMAIN Builtins THEN Builtins[t] ELSE site.themes[t]

\* A task as its owner, or a token for some Agents only, may see it: ensure_task_visible_to_auth.
task_visible_to_auth(q, row) ==
    q.scope # Nothing =>
        /\ row.cover = "specific" /\ row.ids # {} /\ row.ids \subseteq q.scope
        /\ ~row.source /\ row.group = Nothing /\ row.tags = {} /\ row.exclude = {}

StoredTasks == {t \in Tasks : tasks[t] # Nothing}
OwnTasks(q) == {t \in StoredTasks : tasks[t].owner = q.user /\ task_visible_to_auth(q, tasks[t])}

\* What a request of the tasks, of the public page or of the settings rests on.
TaskFacts(q) ==
    {<<"task", t>> : t \in OwnTasks(q)}
    \cup {<<"run", x>> : x \in {x \in runs : q.scope # Nothing => x[2] \in q.scope}}
RunFacts ==
    {<<"owned", a, agents[a].owner>> : a \in {a \in Agents : ~agents[a].revoked}}
    \cup UNION {{<<"member", a, u>> : a \in members[u]} : u \in Users}
    \cup UNION {{<<"channel", c, u>> : c \in notices[u]} : u \in Users}
    \cup {<<"stored", t>> : t \in StoredTasks}
    \cup {<<"enabled", t>> : t \in {t \in StoredTasks : tasks[t].enabled}}
PageFacts ==
    {<<"picked", site.public>>}
    \cup {<<"theme", t>> : t \in {t \in Themes : IsTheme(t) /\ TargetOf(t) # "dashboard"}}
RuleFacts(q) ==
    {<<"rule", x>> : x \in {x \in DOMAIN Rules : q.user \in Admins \/ Rules[x].owner = q.user}}
    \cup {<<"in", a>> : a \in IF q.scope = Nothing THEN Agents ELSE q.scope}
SettingFacts == {<<"active", a>> : a \in {a \in Agents : ~agents[a].revoked}}

\* What an asker may see, or rely on, now.
Sees(q) ==
    {a \in Agents :
        IF q.user = Nothing THEN agents[a].public /\ ~agents[a].revoked
        ELSE /\ q.scope # Nothing => a \in q.scope
             /\ q.user \in Admins \/ agents[a].owner = q.user
             /\ q.op = "ws" => ~agents[a].revoked}
    \cup (IF site.open THEN {<<"site">>} ELSE {}) \cup (IF site.details THEN {<<"details">>} ELSE {})
    \cup (IF q.op = "status" THEN PageFacts
          ELSE IF q.op = "settings" THEN SettingFacts
          ELSE IF q.op = "rules" THEN RuleFacts(q) \cup TaskFacts(q) \cup SettingFacts
          ELSE IF q.op = "events" THEN RuleFacts(q)
          ELSE IF q.op \in {"tasks", "task", "triggers", "runs"} THEN TaskFacts(q)
          ELSE IF q.op \in {"create", "edit", "run", "trigger", "scan", "noticegroups"} THEN RunFacts ELSE {})

Request(q) == [q |-> q, at |-> "start", ids |-> {}, todo |-> {}, show |-> {}, ever |-> Sees(q), always |-> Sees(q),
               n |-> 0, view |-> [a \in Agents |-> 0]]

ReadersInit ==
    /\ \E x \in Rows : /\ agents = x.agents /\ service = x.service /\ assigned = x.assigned
                       /\ results = x.results /\ members = x.members /\ site = x.site
                       /\ tasks = x.tasks /\ runs = x.runs /\ notices = x.notices
    /\ cache = Nothing /\ builder = Nothing
    /\ live \in {{Request(q) : q \in w} : w \in Workloads}
    /\ answer = [items |-> {}, ever |-> {}]

\* A request goes on, or shows what it has and ends.
Goto(r, x) == live' = (live \ {r}) \cup {x} /\ UNCHANGED answer
Show(r, more) ==
    /\ live' = live \ {r}
    /\ answer' = [items |-> r.show \cup more, ever |-> r.ever]
Refuse(r) == live' = live \ {r} /\ UNCHANGED answer
At(r, op, at) == r.q.op = op /\ r.at = at
Reads == UNCHANGED <<tables, frames>>

-----------------------------------------------------------------------------
(* The dashboard: Agents and groups. *)

agent_visible(q, a) ==
    /\ q.scope # Nothing => a \in q.scope
    /\ q.user \in Admins \/ agents[a].owner = q.user

\* The three queries of the list.
list_with_state == Agents
list_with_state_by_owner(u) == {a \in Agents : agents[a].owner = u}
list_with_state_by_server_ids(q) == {a \in q.scope : q.user \in Admins \/ agents[a].owner = q.user}

ListedRows(q) ==
    IF q.scope # Nothing THEN list_with_state_by_server_ids(q)
    ELSE IF q.user \in Admins THEN list_with_state
    ELSE list_with_state_by_owner(q.user)

list_servers(r) ==
    /\ At(r, "servers", "start")
    /\ Goto(r, [r EXCEPT !.at = "geo", !.show = {a \in ListedRows(r.q) : agent_visible(r.q, a)}])
    /\ Reads

\* get_server and get_server_metrics: the row, and then its place or its series.
get_server(r) ==
    /\ r.q.op \in {"server", "metrics"} /\ r.at = "start"
    /\ IF agent_visible(r.q, r.q.agent)
       THEN Goto(r, [r EXCEPT !.at = "geo", !.show = {r.q.agent}])
       ELSE Refuse(r)
    /\ Reads

\* lookup_agent_geo_locations or the metrics store: about the Agents that were picked.
AddsDetails(r) == r.q.op \in {"servers", "server", "metrics"} /\ r.at = "geo" /\ Show(r, {}) /\ Reads

\* load_server_groups finds the asker's groups, and then their members.
list_server_groups(r) ==
    /\ At(r, "groups", "start")
    /\ Goto(r, [r EXCEPT !.at = "members"])
    /\ Reads

load_server_group_members(r) ==
    /\ At(r, "groups", "members")
    /\ Show(r, {a \in members[r.q.user] : /\ agents[a].owner = r.q.user
                                          /\ r.q.scope # Nothing => a \in r.q.scope})
    /\ Reads

-----------------------------------------------------------------------------
(* The dashboard: services. *)

\* auth_has_global_service_visibility
Global(q) == q.user \in Admins /\ q.scope = Nothing

visible_server_ids_for_auth(q) ==
    IF Global(q) THEN {}
    ELSE {a \in Agents : /\ q.user \in Admins \/ agents[a].owner = q.user
                         /\ q.scope # Nothing => a \in q.scope}

\* A service's Agents: those assigned or, without any, the one of older versions.
Effective(as, legacy) == IF as # {} THEN as ELSE {legacy} \ {Nothing}

\* VISIBLE_SERVICE_FILTER_SQL
VisibleServices(ids) ==
    {s \in Services : LET as == Effective(assigned[s], service[s].legacy) IN as # {} /\ as \subseteq ids}

\* fetch_visible_service_count and fetch_visible_service_rows.
FetchedServices(r) == IF Global(r.q) THEN Services ELSE VisibleServices(r.ids)

\* list_services_for_auth: the Agents first, and then the services they make visible.
ListServicesIds(r) ==
    /\ At(r, "services", "start")
    /\ LET ids == visible_server_ids_for_auth(r.q) IN
       IF ~Global(r.q) /\ ids = {} THEN Show(r, {})
       ELSE Goto(r, [r EXCEPT !.at = "rows", !.ids = ids])
    /\ Reads

\* A row as read: its Agents are still to be attached.
RowOf(s) == [s |-> s, legacy |-> service[s].legacy, as |-> Nothing]

ListServicesRows(r) ==
    /\ At(r, "services", "rows")
    /\ LET ss == FetchedServices(r) IN
       Goto(r, [r EXCEPT !.at = "attach", !.todo = {RowOf(s) : s \in ss},
                         !.show = UNION {Effective(assigned[s], service[s].legacy) : s \in ss}])
    /\ Reads

load_service(r) ==
    /\ At(r, "service", "start")
    /\ Goto(r, [r EXCEPT !.at = "attach", !.todo = {RowOf(r.q.service)}])
    /\ Reads

\* The Agents as they are assigned now: a list may name one that was assigned after its
\* service was found visible, which r.show, the rows and results shown, leaves out.
attach_service_server_ids(r) ==
    /\ r.q.op \in {"service", "services"} /\ r.at = "attach"
    /\ \/ \E x \in r.todo : /\ x.as = Nothing
                            /\ Goto(r, [r EXCEPT !.todo = (@ \ {x}) \cup
                                          {[x EXCEPT !.as = Effective(assigned[x.s], x.legacy)]}])
       \/ /\ \A x \in r.todo : x.as # Nothing
          /\ Goto(r, IF r.q.op = "services" THEN [r EXCEPT !.at = "refresh"]
                     ELSE [r EXCEPT !.at = "visible", !.ids = UNION {x.as : x \in r.todo}])
    /\ Reads

\* Each Agent of the service is read by itself; a service without any is nobody's.
service_visible_to_auth(r) ==
    /\ At(r, "service", "visible")
    /\ \/ /\ Global(r.q) \/ (r.ids = {} /\ r.show # {})
          /\ Goto(r, [r EXCEPT !.at = "refresh"])
       \/ /\ ~Global(r.q) /\ r.ids = {} /\ r.show = {}
          /\ Refuse(r)
       \/ /\ ~Global(r.q)
          /\ \E a \in r.ids :
                IF agent_visible(r.q, a)
                THEN Goto(r, [r EXCEPT !.ids = @ \ {a}, !.show = @ \cup {a}])
                ELSE Refuse(r)
    /\ Reads

\* apply_visible_latest_results reads the asker's Agents again.
apply_visible_latest_results(r) ==
    /\ r.q.op \in {"service", "services"} /\ r.at = "refresh"
    /\ Goto(r, [r EXCEPT !.at = "latest", !.ids = visible_server_ids_for_auth(r.q)])
    /\ Reads

\* Variant: the newest result, whichever of the service's Agents it is from.
LatestServers_Any(r, x) == {a \in x.as : <<x.s, a>> \in results}

\* load_latest_service_result_for_servers, of the service's Agents that are visible.
LatestServers(r, x) == {a \in x.as \cap r.ids : <<x.s, a>> \in results}

\* One query per service; a session that sees everything has had the result with the row.
LatestResult(r) ==
    /\ r.q.op \in {"service", "services"} /\ r.at = "latest"
    /\ \E x \in r.todo :
          Goto(r, [r EXCEPT !.todo = @ \ {x},
                            !.show = @ \cup (IF Global(r.q) THEN {} ELSE LatestServers(r, x))])
    /\ Reads

ServicesAnswered(r) ==
    /\ r.q.op \in {"service", "services"} /\ r.at = "latest" /\ r.todo = {}
    /\ IF r.q.op = "services" /\ r.q.history
       THEN Goto(r, [r EXCEPT !.at = "history", !.ids = visible_server_ids_for_auth(r.q)])
       ELSE Show(r, {})
    /\ Reads

\* fetch_service_history_batch: results of the listed services and of visible Agents.
attach_service_history(r) ==
    /\ At(r, "services", "history")
    /\ Show(r, {a \in Agents : /\ \E s \in Services : <<s, a>> \in results
                               /\ Global(r.q) \/ a \in r.ids})
    /\ Reads

-----------------------------------------------------------------------------
(* Service history and uptime. *)

\* The row and the assignments that ensure_service_history_visible_to_auth checks.
load_service_security_meta(r) ==
    /\ At(r, "uptime", "start")
    /\ LET s == r.q.service
           all == assigned[s] \cup ({service[s].legacy} \ {Nothing})
       IN IF /\ Cardinality(assigned[s]) <= MaxServers
             /\ Global(r.q) \/
                /\ r.q.user \in Admins \/ service[s].owner = r.q.user
                /\ service[s].cover = "specific" /\ ~service[s].exclude /\ all # {}
          THEN Goto(r, [r EXCEPT !.at = "check", !.ids = all, !.todo = all])
          ELSE Refuse(r)
    /\ Reads

\* The Agents one after the other: visible to the asker and not revoked.
ensure_service_history_visible_to_auth(r) ==
    /\ At(r, "uptime", "check")
    /\ \/ /\ Global(r.q) \/ r.todo = {}
          /\ Goto(r, [r EXCEPT !.at = "request"])
       \/ /\ ~Global(r.q)
          /\ \E a \in r.todo :
                IF agent_visible(r.q, a) /\ ~agents[a].revoked
                THEN Goto(r, [r EXCEPT !.todo = @ \ {a}, !.show = @ \cup {a}])
                ELSE Refuse(r)
    /\ Reads

\* A server that is asked for by name is looked at by itself.
ensure_requested_server_visible_to_auth(r) ==
    /\ At(r, "uptime", "request")
    /\ IF r.q.agent = Nothing \/ (agent_visible(r.q, r.q.agent) /\ ~agents[r.q.agent].revoked)
       THEN Goto(r, [r EXCEPT !.at = "ids"]) ELSE Refuse(r)
    /\ Reads

\* Of the service's Agents, those that are visible now, or the one that was asked for.
resolve_query_server_ids(r) ==
    /\ At(r, "uptime", "ids")
    /\ LET allowed == r.ids \cap visible_server_ids_for_auth(r.q)
           asked == IF r.q.agent = Nothing THEN Agents ELSE {r.q.agent}
       IN IF Global(r.q) THEN Goto(r, [r EXCEPT !.at = "results", !.ids = asked])
          ELSE IF r.q.agent \notin allowed \cup {Nothing} THEN Refuse(r)
          ELSE Goto(r, [r EXCEPT !.at = "results", !.ids = allowed \cap asked])
    /\ Reads

\* The results of those Agents, or how many of them were good.
service_uptime_for_auth(r) ==
    /\ At(r, "uptime", "results") /\ ~r.q.history
    /\ Show(r, {a \in r.ids : <<r.q.service, a>> \in results})
    /\ Reads

list_service_history_for_auth(r) ==
    /\ At(r, "uptime", "results") /\ r.q.history
    /\ Show(r, {a \in r.ids : <<r.q.service, a>> \in results})
    /\ Reads

-----------------------------------------------------------------------------
(* The public page. *)

\* agent_visible_to_public
Public(a) == agents[a].public /\ ~agents[a].revoked

ensure_public_site_enabled == site.open

PublicStarts(r) ==
    /\ r.q.op \in {"status", "detail"} /\ r.at = "start"
    /\ IF ensure_public_site_enabled
       THEN Goto(r, [r EXCEPT !.at = IF r.q.op = "status" THEN "agents" ELSE "details", !.show = {<<"site">>}])
       ELSE Refuse(r)
    /\ Reads

Smaller(m, n) == IF m < n THEN m ELSE n

\* public_postgres_scan_batch_limit: how many rows the next batch may have.
ScanLimit(offset, returned) ==
    IF returned >= MaxRows \/ offset >= MaxScan THEN 0 ELSE Smaller(MaxScan - offset, Batch)

\* public_agent_rows: batches of rows that are not revoked, of which the public ones are kept.
public_agent_rows(r) ==
    LET page == SelectSeq(Order, LAMBDA a : ~agents[a].revoked)
        limit == ScanLimit(r.n, Cardinality(r.ids))
        batch == SubSeq(page, r.n + 1, Smaller(r.n + limit, Len(page)))
        kept == SelectSeq(batch, Public)
        room == MaxRows - Cardinality(r.ids)
    IN
    /\ r.q.op = "status" /\ r.at \in {"agents", "ids"}
    /\ IF limit = 0 \/ batch = <<>> \/ Len(batch) < limit
       THEN Goto(r, [r EXCEPT !.at = IF r.at = "agents" THEN "details" ELSE "services", !.n = 0,
                              !.ids = @ \cup ToSet(SubSeq(kept, 1, Smaller(Len(kept), room)))])
       ELSE Goto(r, [r EXCEPT !.n = @ + Len(batch),
                              !.ids = @ \cup ToSet(SubSeq(kept, 1, Smaller(Len(kept), room)))])
    /\ Reads

\* public_servers_with_metric_option: the Agents, with their load if the site shows it;
\* then public_server_id_set starts to scan them again, for the services.
PublicDetails(r) ==
    /\ At(r, "status", "details")
    /\ Goto(r, [r EXCEPT !.at = "ids", !.ids = {},
                         !.show = @ \cup r.ids \cup (IF site.details THEN {<<"details">>} ELSE {})])
    /\ Reads

\* public_services: the enabled ones, with their Agents still to be read.
public_services(r) ==
    /\ At(r, "status", "services")
    /\ \E ss \in SUBSET {s \in Services : service[s].enabled} :
          /\ Cardinality(ss) = Smaller(MaxRows, Cardinality({s \in Services : service[s].enabled}))
          /\ Goto(r, [r EXCEPT !.at = "service", !.todo = {RowOf(s) : s \in ss}])
    /\ Reads

visible_public_service_server_ids(r, as, legacy) == Effective(as, legacy) \cap r.ids

\* public_service_server_ids; a service with too many Agents is left out.
PublicServiceServers(r) ==
    /\ At(r, "status", "service")
    /\ \E x \in r.todo :
          /\ x.as = Nothing
          /\ LET as == IF Cardinality(assigned[x.s]) > MaxServers THEN {}
                       ELSE visible_public_service_server_ids(r, assigned[x.s], x.legacy)
             IN Goto(r, [r EXCEPT !.show = @ \cup as,
                                  !.todo = (@ \ {x}) \cup (IF as = {} THEN {} ELSE {[x EXCEPT !.as = as]})])
    /\ Reads

\* public_service_history of the Agents that were kept.
PublicServiceHistory(r) ==
    /\ At(r, "status", "service")
    /\ \E x \in r.todo :
          /\ x.as # Nothing
          /\ Goto(r, [r EXCEPT !.todo = @ \ {x}, !.show = @ \cup {a \in x.as : <<x.s, a>> \in results}])
    /\ Reads

\* public_status_theme: the chosen id, and then the theme of that id, if there is one and
\* it is one for the public page.
selected_public_theme_id(r) ==
    /\ At(r, "status", "service") /\ r.todo = {}
    /\ Goto(r, [r EXCEPT !.at = "theme", !.todo = {site.public}])
    /\ Reads

sanitize_public_theme(t) == IsTheme(t) /\ TargetOf(t) # "dashboard"

public_status(r) ==
    /\ At(r, "status", "theme")
    /\ LET ts == {t \in r.todo \cap Themes : sanitize_public_theme(t)} IN
       Show(r, {<<"picked", t>> : t \in ts} \cup {<<"theme", t>> : t \in ts})
    /\ Reads

\* public_server_detail: whether load is shown, and then the row.
DetailSetting(r) ==
    /\ At(r, "detail", "details")
    /\ Goto(r, [r EXCEPT !.at = "row", !.show = @ \cup (IF site.details THEN {<<"details">>} ELSE {})])
    /\ Reads

public_server_detail(r) ==
    /\ At(r, "detail", "row")
    /\ IF Public(r.q.agent) THEN Show(r, {r.q.agent}) ELSE Refuse(r)
    /\ Reads

-----------------------------------------------------------------------------
(* The MJPEG stream; its frames show how many Agents and services there are. *)

Streaming == {r \in live : r.q.op = "mjpeg" /\ r.at # "start"}

acquire_public_mjpeg_permit == Cardinality(Streaming) < MaxStreams

public_status_mjpeg(r) ==
    /\ At(r, "mjpeg", "start")
    /\ IF ensure_public_site_enabled /\ acquire_public_mjpeg_permit
       THEN Goto(r, [r EXCEPT !.at = "frame"]) ELSE Refuse(r)
    /\ Reads

\* The next frame: what could be seen before does not count for it.
FrameLock(r) ==
    /\ At(r, "mjpeg", "frame") /\ r.n < MaxFrames /\ builder = Nothing
    /\ builder' = r.q
    /\ Goto(r, [r EXCEPT !.at = "locked", !.ever = Sees(r.q), !.n = @ + 1])
    /\ UNCHANGED <<tables, cache>>

\* cached_public_status_mjpeg_frame up to the cache: a private site ends the stream.
FrameCached(r) ==
    /\ At(r, "mjpeg", "locked")
    /\ IF ~ensure_public_site_enabled THEN Refuse(r) /\ builder' = Nothing
       ELSE IF cache # Nothing
       THEN /\ live' = (live \ {r}) \cup {[r EXCEPT !.at = "frame"]} /\ builder' = Nothing
            /\ answer' = [items |-> {<<"site">>}, ever |-> r.ever]
       ELSE Goto(r, [r EXCEPT !.at = "build"]) /\ UNCHANGED builder
    /\ UNCHANGED <<tables, cache>>

\* build_public_status_mjpeg_frame reads the page's tables, for some time.
FrameBuilt(r) ==
    /\ At(r, "mjpeg", "build")
    /\ Goto(r, [r EXCEPT !.at = "store", !.ids = {a \in Agents : Public(a)}])
    /\ Reads

\* A site that went private meanwhile gets no frame into the cache.
FrameStored(r) ==
    /\ At(r, "mjpeg", "store") /\ builder' = Nothing
    /\ IF ensure_public_site_enabled
       THEN /\ cache' = r.ids
            /\ live' = (live \ {r}) \cup {[r EXCEPT !.at = "frame", !.ids = {}]}
            /\ answer' = [items |-> {<<"site">>}, ever |-> r.ever]
       ELSE Refuse(r) /\ UNCHANGED cache
    /\ UNCHANGED tables

\* The client goes, and with it the permit and the lock.
StreamDropped(r) ==
    /\ r \in Streaming /\ Refuse(r)
    /\ builder' = IF builder = r.q THEN Nothing ELSE builder
    /\ UNCHANGED <<tables, cache>>

CacheExpires == cache # Nothing /\ cache' = Nothing /\ UNCHANGED <<tables, builder, live, answer>>

-----------------------------------------------------------------------------
(* What changes around the readers; Fleet and ServiceMonitor have the requests. *)

\* A request's write is done: every other asker could then see something else; it goes on
\* as the requests in then, or is over.
Noted(x) ==
    IF x.at = "start" THEN [x EXCEPT !.ever = Sees(x.q)', !.always = Sees(x.q)']
    ELSE [x EXCEPT !.ever = @ \cup Sees(x.q)', !.always = @ \cap Sees(x.q)']
Happens(r, then) ==
    /\ live' = {Noted(x) : x \in (live \ {r}) \cup then}
    /\ UNCHANGED <<frames, answer>>

SetAgents(new) == agents' = new /\ UNCHANGED <<service, assigned, results, members, notices, tasks, runs, site>>

OwnerChanges(r) ==
    /\ At(r, "owner", "start") /\ SetAgents([agents EXCEPT ![r.q.agent].owner = r.q.user]) /\ Happens(r, {})
AgentRevoked(r) ==
    /\ At(r, "revoke", "start") /\ SetAgents([agents EXCEPT ![r.q.agent].revoked = TRUE]) /\ Happens(r, {})
VisibilityChanges(r) ==
    /\ At(r, "visibility", "start") /\ SetAgents([agents EXCEPT ![r.q.agent].public = ~@]) /\ Happens(r, {})
Regrouped(r) ==
    /\ At(r, "regroup", "start") /\ members' = [members EXCEPT ![r.q.user] = r.q.scope]
    /\ UNCHANGED <<agents, service, assigned, results, notices, tasks, runs, site>> /\ Happens(r, {})
Rechannelled(r) ==
    /\ At(r, "rechannel", "start") /\ notices' = [notices EXCEPT ![r.q.user] = r.q.scope]
    /\ UNCHANGED <<agents, service, assigned, results, members, tasks, runs, site>> /\ Happens(r, {})
Reassigned(r) ==
    /\ At(r, "assign", "start") /\ assigned' = [assigned EXCEPT ![r.q.service] = r.q.scope]
    /\ UNCHANGED <<agents, service, results, members, notices, tasks, runs, site>> /\ Happens(r, {})
ResultSaved(r) ==
    /\ At(r, "result", "start") /\ results' = results \cup {<<r.q.service, r.q.agent>>}
    /\ UNCHANGED <<agents, service, assigned, members, notices, tasks, runs, site>> /\ Happens(r, {})

Change(r) ==
    \/ OwnerChanges(r) \/ AgentRevoked(r) \/ VisibilityChanges(r) \/ Regrouped(r) \/ Rechannelled(r)
    \/ Reassigned(r) \/ ResultSaved(r)

ReaderStep(r) ==
    \/ list_servers(r) \/ get_server(r) \/ AddsDetails(r) \/ list_server_groups(r) \/ load_server_group_members(r)
    \/ ListServicesIds(r) \/ ListServicesRows(r) \/ load_service(r) \/ attach_service_server_ids(r)
    \/ service_visible_to_auth(r) \/ apply_visible_latest_results(r) \/ LatestResult(r) \/ ServicesAnswered(r)
    \/ attach_service_history(r) \/ load_service_security_meta(r) \/ ensure_service_history_visible_to_auth(r)
    \/ ensure_requested_server_visible_to_auth(r) \/ resolve_query_server_ids(r) \/ service_uptime_for_auth(r) \/ list_service_history_for_auth(r)
    \/ PublicStarts(r) \/ public_agent_rows(r) \/ PublicDetails(r) \/ public_services(r)
    \/ PublicServiceServers(r) \/ PublicServiceHistory(r) \/ selected_public_theme_id(r) \/ public_status(r) \/ DetailSetting(r)
    \/ public_server_detail(r) \/ public_status_mjpeg(r) \/ FrameLock(r) \/ FrameCached(r) \/ FrameBuilt(r)
    \/ FrameStored(r) \/ StreamDropped(r)

ReadersNext == (\E r \in live : ReaderStep(r) \/ Change(r)) \/ CacheExpires

-----------------------------------------------------------------------------
(* Properties. *)

\* Whatever a request shows, writes or starts rests on what held at some moment since it was
\* made, however many reads the handler put together and whatever changed between them: an
\* answer shows only rows and results of Agents, services over Agents, tasks, rules, load and
\* a page that its asker could see; a stored task or setting names Agents that were the
\* asker's and in service; a task is run on Agents, and told to channels, that were its
\* owner's while it was enabled.  (The ids a listed service carries are not held to this:
\* attach_service_server_ids reads them last.)
AnswerWasVisible == answer.items \subseteq answer.ever
=============================================================================

------------------------------ MODULE Addresses ------------------------------
(***************************************************************************)
(* The addresses of the Agents: dynamic DNS (ddns/manager.rs, api/v1/      *)
(* ddns.rs), the record of address changes and its notifications, and the  *)
(* cache of locations over the installed GeoIP database (api/v1/geoip.rs). *)
(*                                                                         *)
(* A check of the manager walks over the configurations it has listed; a   *)
(* report of an Agent does the same for its own ones and then looks for a  *)
(* change.  Checks, reports, reloads and the requests of Fleet, which move *)
(* and remove the Agents, interleave at their accesses.  The DNS records   *)
(* are external: a service does what it is told, refuses or declines it,   *)
(* or does it and the answer is lost.                                      *)
(***************************************************************************)
EXTENDS Fleet

CONSTANTS
    Configs, Ips,
    Versions,      \* GeoIP databases there are to install
    Channels,
    ChannelOwner,  \* whose notification channel it is
    StoredConfigs, \* ddns_configs the server may start with
    Settings,      \* settings the server may run under
    MaxCached      \* GEOIP_LOCATION_CACHE_MAX_ENTRIES

\* The provider "dummy", which tells no one and is for tests, is left out.
Kinds == {"cloudflare", "he", "tencent_cloud", "webhook"}

\* A row of ddns_configs.
ConfigRow == [owner : Users, agent : Agents \cup {Nothing}, applied : Ips \cup {Nothing}, enabled : BOOLEAN, kind : Kinds]

\* What a request names and carries.
AddressRequest(q) ==
    /\ q.op \in {"ddns", "undns", "history"} => q.config \in Configs
    /\ q.op = "ddns" => q.user \in Users /\ q.agent \in Agents \cup {Nothing} /\ q.enabled \in BOOLEAN /\ q.kind \in Kinds
    /\ q.op \in {"report", "state"} => q.agent \in Agents /\ q.ip \in Ips

ASSUME AddressesAssumption ==
    /\ IsFiniteSet(Configs) /\ Nothing \notin Ips /\ {Nothing, Deleted} \cap ConfigRow = {}
    /\ StoredConfigs \subseteq [Configs -> ConfigRow \cup {Nothing, Deleted}]
    /\ \A w \in Workloads : \A q \in w : AddressRequest(q)
    /\ ChannelOwner \in [Channels -> Users] /\ MaxCached \in Nat \ {0}
    /\ \A s \in Settings : /\ s.provider \in {"mmdb", "web"} /\ s.resolver \in BOOLEAN /\ s.notify \in BOOLEAN
                           /\ s.servers \subseteq Agents
                           /\ s.group = Nothing \/ s.group \in [owner : Users, members : SUBSET Channels]

VARIABLES
    configs,  \* ddns_configs
    loaded,   \* configurations DdnsManager::providers has a provider for
    history,  \* ddns_history: configuration, address, success
    dns,      \* external: what each configuration's record has held
    states,   \* agents.last_state_json: primary_ip
    events,   \* agent_ip_events: the new address of each
    geodb,    \* the installed database
    cache,    \* GEOIP_LOCATION_CACHE
    settings,
    told,     \* the last thing that was sent or answered, and what it rests on
    doubt,    \* history: configurations whose record was written to at once, or without a clear answer
    ever      \* history: what has been true since a request began

addresses == <<configs, loaded, history, dns, states, events, geodb, cache, settings, told, doubt>>
addressVars == <<fleetVars, addresses, ever>>

AddressOps == {"ddns", "undns", "configs", "history", "reload", "check", "report", "state", "lookup", "install"}

IsStored(c) == configs[c] \notin {Nothing, Deleted}
Held(c) == Last(dns[c])
LatestIp(a) == IF Exists(a) /\ events[a] # <<>> THEN Last(events[a]) ELSE Nothing

AddressesTypeOK ==
    /\ FleetTypeOK
    /\ configs \in [Configs -> ConfigRow \cup {Nothing, Deleted}]
    /\ loaded \subseteq Configs /\ doubt \subseteq Configs
    /\ \A h \in history : IsStored(h[1])
    /\ dns \in [Configs -> Seq(Ips \cup {Nothing})] /\ events \in [Agents -> Seq(Ips)]
    /\ states \in [Agents -> Ips \cup {Nothing}] /\ geodb \in Versions \cup {Nothing}
    /\ Cardinality({ip \in Ips : cache[ip] # Nothing}) <= MaxCached

AddressesInit ==
    /\ FleetInit
    /\ configs \in StoredConfigs /\ settings \in Settings
    /\ loaded = {c \in Configs : IsStored(c) /\ configs[c].enabled}
    /\ history = {<<c, configs[c].applied, TRUE>> : c \in {c \in Configs : IsStored(c) /\ configs[c].applied # Nothing}}
    /\ dns = [c \in Configs |-> <<IF IsStored(c) THEN configs[c].applied ELSE Nothing>>]
    /\ states = [a \in Agents |-> Nothing] /\ events = [a \in Agents |-> <<>>]
    /\ geodb = Nothing /\ cache = [ip \in Ips |-> Nothing]
    /\ told = [q |-> Nothing, needs |-> {}] /\ doubt = {}
    /\ ever = [q \in {r.q : r \in {r \in live : r.q.op \in AddressOps}} |-> {}]

Tell(r, needs) == told' = [q |-> r.q, needs |-> needs]

-----------------------------------------------------------------------------
(* Configurations and providers. *)

\* require_ddns_scope and ddns_config_visible_to_auth: an API token sees the configurations of its Agents.
config_visible(q, c) ==
    /\ q.user \in Admins
    /\ q.scope = Nothing \/ configs[c].agent \in q.scope

ensure_ddns_agent_active_owner(q) ==
    q.agent # Nothing => Active(q.agent) /\ agents[q.agent].owner = q.user

CreateConfigChecks(r) ==
    /\ At(r, "ddns", "start")
    /\ IF AdminSession(r.q) /\ ensure_ddns_agent_active_owner(r.q)
       THEN Goto(r, "insert", Nothing) ELSE Answer(r)
    /\ UNCHANGED <<faults, addresses>>

\* The manager's providers stay as they are until the next reload.
create_ddns_config(r) ==
    /\ At(r, "ddns", "insert") /\ configs[r.q.config] = Nothing /\ Answer(r)
    /\ configs' = [configs EXCEPT ![r.q.config] =
                      [owner |-> r.q.user, agent |-> r.q.agent, applied |-> Nothing, enabled |-> r.q.enabled, kind |-> r.q.kind]]
    /\ UNCHANGED <<faults, loaded, history, dns, states, events, geodb, cache, settings, told, doubt>>

DeleteConfigLoads(r) ==
    /\ At(r, "undns", "start")
    /\ IF AdminSession(r.q) /\ IsStored(r.q.config) THEN Goto(r, "write", Nothing) ELSE Answer(r)
    /\ UNCHANGED <<faults, addresses>>

\* The history goes with the row, the provider stays loaded.
delete_ddns_config(r) ==
    /\ At(r, "undns", "write") /\ Answer(r)
    /\ configs' = [configs EXCEPT ![r.q.config] = Deleted]
    /\ history' = {h \in history : h[1] # r.q.config}
    /\ UNCHANGED <<faults, loaded, dns, states, events, geodb, cache, settings, told, doubt>>

\* The configurations a caller of list_enabled gets.
list_enabled == {c \in Configs : IsStored(c) /\ configs[c].enabled}

list_ddns_configs(r) ==
    /\ At(r, "configs", "start") /\ Answer(r)
    /\ Tell(r, {<<"readable", c>> : c \in {c \in list_enabled : config_visible(r.q, c)}})
    /\ UNCHANGED <<faults, configs, loaded, history, dns, states, events, geodb, cache, settings, doubt>>

HistoryLoadsConfig(r) ==
    /\ At(r, "history", "start")
    /\ IF IsStored(r.q.config) /\ config_visible(r.q, r.q.config) THEN Goto(r, "list", Nothing) ELSE Answer(r)
    /\ UNCHANGED <<faults, addresses>>

list_ddns_history(r) ==
    /\ At(r, "history", "list") /\ Answer(r)
    /\ Tell(r, {<<"readable", h[1]>> : h \in {h \in history : h[1] = r.q.config}})
    /\ UNCHANGED <<faults, configs, loaded, history, dns, states, events, geodb, cache, settings, doubt>>

ReloadLists(r) ==
    /\ At(r, "reload", "start")
    /\ IF AdminSession(r.q) THEN Goto(r, "swap", list_enabled) ELSE Answer(r)
    /\ UNCHANGED <<faults, addresses>>

\* apply_update holds the providers for reading from where it looks its own up to its end.
Holding == {r \in live : r.at \in {"call", "record", "note"} /\ r.q.op \in {"check", "report"} /\ ~r.saw.resolved}

load_providers(r) ==
    /\ At(r, "reload", "swap") /\ Holding = {} /\ Answer(r)
    /\ loaded' = r.saw
    /\ UNCHANGED <<faults, configs, history, dns, states, events, geodb, cache, settings, told, doubt>>

-----------------------------------------------------------------------------
(* Checks and reports. *)

\* A configuration as it was listed.
RowOf(c) == LET row == configs[c] IN
            [id |-> c, owner |-> row.owner, agent |-> row.agent, applied |-> row.applied, kind |-> row.kind]
Current(r) == r.saw.rows[r.i]

\* On to the next configuration that was listed; a report then looks at the change.
NextConfig(r) ==
    IF r.i < Len(r.saw.rows)
    THEN live' = (live \ {r}) \cup {[r EXCEPT !.i = @ + 1, !.at = "agent", !.saw.resolved = FALSE, !.saw.ip = Nothing]}
    ELSE IF r.q.op = "report" THEN Goto(r, "latest", Nothing) ELSE Answer(r)

Walk(cs) == [rows |-> SetToSeq({RowOf(c) : c \in cs}), ip |-> Nothing, resolved |-> FALSE]

\* The timer's check has no user, an administrator's needs a session.
check_all_agents(r) ==
    /\ At(r, "check", "start")
    /\ IF (r.q.user = Nothing \/ AdminSession(r.q)) /\ list_enabled # {}
       THEN Goto(r, "agent", Walk(list_enabled)) ELSE Answer(r)
    /\ UNCHANGED <<faults, addresses>>

check_agent_ip_report(r) ==
    LET own == {c \in list_enabled : configs[c].agent = r.q.agent} IN
    /\ At(r, "report", "start")
    /\ IF own # {} THEN Goto(r, "agent", Walk(own)) ELSE Goto(r, "latest", Nothing)
    /\ UNCHANGED <<faults, addresses>>

\* The Agent of a configuration is there, in service, and still of the configuration's owner.
validated_config_agent(row) ==
    row.agent # Nothing /\ Active(row.agent) /\ agents[row.agent].owner = row.owner

\* One read gives the Agent and, to a check, the address in its last state; what was
\* applied is known from the list.
ConfigReadsAgent(r) ==
    LET row == Current(r)
        ip == IF r.q.op = "report" THEN r.q.ip ELSE states[row.agent]
        next == IF r.q.op = "check" /\ settings.resolver THEN "resolve" ELSE "provider"
    IN
    /\ r.q.op \in {"check", "report"} /\ r.at = "agent"
    /\ IF validated_config_agent(row) /\ ip \notin {Nothing, row.applied}
       THEN Goto(r, next, [r.saw EXCEPT !.ip = ip])
       ELSE NextConfig(r)
    /\ UNCHANGED <<faults, addresses>>

\* External: a resolver may remember what the record held before.
resolver_contains_ip(r) ==
    LET c == Current(r).id IN
    /\ At(r, "check", "resolve") /\ r.saw.ip \in ToSet(dns[c])
    /\ Goto(r, "record", [r.saw EXCEPT !.resolved = TRUE])
    /\ doubt' = IF Held(c) # r.saw.ip THEN doubt \cup {c} ELSE doubt
    /\ UNCHANGED <<faults, configs, loaded, history, dns, states, events, geodb, cache, settings, told>>

\* It does not find the address, or does not answer.
ResolverDoesNotConfirm(r) ==
    /\ At(r, "check", "resolve") /\ Goto(r, "provider", r.saw)
    /\ UNCHANGED <<faults, addresses>>

\* apply_update takes the lock; without a provider there is nothing to do.
FindsProvider(r) ==
    /\ r.at = "provider"
    /\ IF Current(r).id \in loaded THEN Goto(r, "call", r.saw) ELSE NextConfig(r)
    /\ UNCHANGED <<faults, addresses>>

\* Others that have told the record of c something and not yet noted it.
Unnoted(r, c) == {o \in live \ {r} : o.q.op \in {"check", "report"} /\ o.at \in {"record", "note"} /\ Current(o).id = c}

ConfigNeeds(row, ip) ==
    {<<"stored", row.id>>, <<"owned", row.agent, row.owner>>, <<"active", row.agent>>, <<"at", row.agent, ip>>}

\* What a provider makes of the outcome: all see an HTTP error and a lost answer, but only
\* two look whether the answer says that nothing was done.
CloudflareProvider(outcome) == outcome \in {"done", "declined"}
HeProvider(outcome) == outcome = "done"
TencentCloudProvider(outcome) == outcome = "done"
WebhookProvider(outcome) == outcome \in {"done", "declined"}

update_ip(kind, outcome) ==
    CASE kind = "cloudflare" -> CloudflareProvider(outcome)
      [] kind = "he" -> HeProvider(outcome)
      [] kind = "tencent_cloud" -> TencentCloudProvider(outcome)
      [] kind = "webhook" -> WebhookProvider(outcome)

\* External: what the service does with the request, and whether it says so.
Outcomes == {"done", "refused", "declined", "lost"}

\* Variant: a failure is noted as well.
AfterFailure_Noted(r) == Goto(r, "note", r.saw)

\* A failure goes to the history, and nothing is noted.
AfterFailure(r) == NextConfig(r)

CallProvider(r, outcome) ==
    LET row == Current(r)  c == row.id  ok == update_ip(row.kind, outcome) IN
    /\ r.at = "call"
    /\ faults' = IF outcome = "done" THEN faults ELSE faults + 1
    /\ faults' <= MaxFaults
    /\ IF ok THEN Goto(r, "record", r.saw) ELSE AfterFailure(r)
    /\ dns' = IF outcome \in {"done", "lost"} THEN [dns EXCEPT ![c] = Append(@, r.saw.ip)] ELSE dns
    /\ doubt' = IF Unnoted(r, c) # {} \/ outcome = "lost" \/ (ok /\ outcome # "done") THEN doubt \cup {c} ELSE doubt
    /\ Tell(r, ConfigNeeds(row, r.saw.ip))
    /\ history' = IF ~ok /\ IsStored(c) THEN history \cup {<<c, r.saw.ip, FALSE>>} ELSE history
    /\ UNCHANGED <<configs, loaded, states, events, geodb, cache, settings>>

\* The foreign key refuses the history of a deleted configuration: apply_update logs
\* that, a check that came from the resolver ends with it.
record_history(r) ==
    LET c == Current(r).id IN
    /\ r.at = "record"
    /\ history' = IF IsStored(c) THEN history \cup {<<c, r.saw.ip, TRUE>>} ELSE history
    /\ IF r.saw.resolved /\ ~IsStored(c) THEN Answer(r) ELSE Goto(r, "note", r.saw)
    /\ UNCHANGED <<faults, configs, loaded, dns, states, events, geodb, cache, settings, told, doubt>>

update_after_apply(r) ==
    LET c == Current(r).id IN
    /\ r.at = "note" /\ NextConfig(r)
    /\ configs' = IF IsStored(c) THEN [configs EXCEPT ![c].applied = r.saw.ip] ELSE configs
    /\ UNCHANGED <<faults, loaded, history, dns, states, events, geodb, cache, settings, told, doubt>>

\* A statement of apply_update fails, which is logged: the walk goes on with the next step.
WriteFails(r) ==
    LET c == Current(r).id IN
    /\ r.at \in {"record", "note"} /\ ~r.saw.resolved /\ faults < MaxFaults /\ faults' = faults + 1
    /\ IF r.at = "record" THEN Goto(r, "note", r.saw) ELSE NextConfig(r)
    /\ doubt' = doubt \cup {c}
    /\ UNCHANGED <<configs, loaded, history, dns, states, events, geodb, cache, settings, told>>

\* A read fails, or the request is dropped: the check ends there, a report still looks for a change.
WalkEnds(r) ==
    /\ r.q.op \in {"check", "report"} /\ r.at \in {"agent", "provider", "record", "note"}
    /\ faults < MaxFaults /\ faults' = faults + 1
    /\ IF r.q.op = "report" /\ r.at = "agent" THEN Goto(r, "latest", Nothing) ELSE Answer(r)
    /\ doubt' = IF r.at \in {"record", "note"} THEN doubt \cup {Current(r).id} ELSE doubt
    /\ UNCHANGED <<configs, loaded, history, dns, states, events, geodb, cache, settings, told>>

update_last_state(r) ==
    /\ At(r, "state", "start") /\ Answer(r)
    /\ states' = IF Exists(r.q.agent) THEN [states EXCEPT ![r.q.agent] = r.q.ip] ELSE states
    /\ UNCHANGED <<faults, configs, loaded, history, dns, events, geodb, cache, settings, told, doubt>>

-----------------------------------------------------------------------------
(* Address changes. *)

\* handle_agent_ip_report: nothing is written when the last event has the same address.
ReportReadsLatest(r) ==
    LET before == LatestIp(r.q.agent) IN
    /\ At(r, "report", "latest")
    /\ IF before = r.q.ip THEN Answer(r) ELSE Goto(r, "event", before)
    /\ UNCHANGED <<faults, addresses>>

\* The first address is an event, and nothing to tell; the foreign key refuses an Agent that is gone.
insert_agent_ip_event(r) ==
    LET a == r.q.agent IN
    /\ At(r, "report", "event")
    /\ events' = IF Exists(a) THEN [events EXCEPT ![a] = Append(@, r.q.ip)] ELSE events
    /\ IF Exists(a) /\ r.saw # Nothing THEN Goto(r, "notify", Nothing) ELSE Answer(r)
    /\ UNCHANGED <<faults, configs, loaded, history, dns, states, geodb, cache, settings, told, doubt>>

\* notify_agent_ip_change up to the owner.
NotifyReadsOwner(r) ==
    LET a == r.q.agent IN
    /\ At(r, "report", "notify")
    /\ IF settings.notify /\ Exists(a) /\ (settings.servers = {} \/ a \in settings.servers)
       THEN Goto(r, "send", agents[a].owner) ELSE Answer(r)
    /\ UNCHANGED <<faults, addresses>>

list_notification_channels_for_owner(u) == {ch \in Channels : ChannelOwner[ch] = u}

\* The group and its channels must be the owner's.
list_notification_channels_for_group(u, g) ==
    {ch \in g.members : g.owner = u /\ ChannelOwner[ch] = u}

notify_agent_ip_change(r) ==
    LET u == r.saw
        channels == IF settings.group # Nothing THEN list_notification_channels_for_group(u, settings.group)
                    ELSE list_notification_channels_for_owner(u)
    IN
    /\ At(r, "report", "send") /\ Answer(r)
    /\ Tell(r, {<<"owned", r.q.agent, ChannelOwner[ch]>> : ch \in channels})
    /\ UNCHANGED <<faults, configs, loaded, history, dns, states, events, geodb, cache, settings, doubt>>

-----------------------------------------------------------------------------
(* Locations. *)

\* lookup_agent_geo_locations: the last address of each Agent that has one.
latest_agent_ips(r) ==
    LET ips == {LatestIp(a) : a \in r.q.agents} \ {Nothing} IN
    /\ At(r, "lookup", "start")
    /\ IF ips # {} THEN Goto(r, "cached", [ips |-> ips, db |-> Nothing]) ELSE Answer(r)
    /\ UNCHANGED <<faults, addresses>>

read_cached_geo_location(r) ==
    LET missing == {ip \in r.saw.ips : cache[ip] = Nothing} IN
    /\ At(r, "lookup", "cached")
    /\ IF missing # {} THEN Goto(r, "open", [r.saw EXCEPT !.ips = missing]) ELSE Answer(r)
    /\ UNCHANGED <<faults, addresses>>

\* The database, or the web service, answers; no database is an answer too.
GeoLookup(r) ==
    /\ At(r, "lookup", "open")
    /\ Goto(r, "store", [r.saw EXCEPT !.db = IF settings.provider = "mmdb" THEN geodb ELSE Nothing])
    /\ UNCHANGED <<faults, addresses>>

\* A full cache is emptied.
Room == IF Cardinality({ip \in Ips : cache[ip] # Nothing}) >= MaxCached THEN [ip \in Ips |-> Nothing] ELSE cache

cache_geo_location(r, ip) ==
    /\ At(r, "lookup", "store") /\ ip \in r.saw.ips
    /\ cache' = [Room EXCEPT ![ip] = [db |-> r.saw.db, late |-> settings.provider = "mmdb" /\ r.saw.db # geodb]]
    /\ IF r.saw.ips = {ip} THEN Answer(r) ELSE Goto(r, "store", [r.saw EXCEPT !.ips = @ \ {ip}])
    /\ UNCHANGED <<faults, configs, loaded, history, dns, states, events, geodb, settings, told, doubt>>

CacheExpires(ip) ==
    /\ cache[ip] # Nothing /\ cache' = [cache EXCEPT ![ip] = Nothing]
    /\ UNCHANGED <<live, faults, configs, loaded, history, dns, states, events, geodb, settings, told, doubt>>

\* update_geoip_database and upload_geoip_database get the bytes; what is no database is refused.
InstallReadsBytes(r) ==
    /\ At(r, "install", "start")
    /\ IF AdminSession(r.q) /\ r.q.version \in Versions THEN Goto(r, "rename", Nothing) ELSE Answer(r)
    /\ UNCHANGED <<faults, addresses>>

install_mmdb_bytes(r) ==
    /\ At(r, "install", "rename") /\ Goto(r, "clear", Nothing)
    /\ geodb' = r.q.version
    /\ UNCHANGED <<faults, configs, loaded, history, dns, states, events, cache, settings, told, doubt>>

InstallClearsCache(r) ==
    /\ At(r, "install", "clear") /\ Answer(r)
    /\ cache' = [ip \in Ips |-> Nothing]
    /\ UNCHANGED <<faults, configs, loaded, history, dns, states, events, geodb, settings, told, doubt>>

-----------------------------------------------------------------------------
(* The specification. *)

ConfigStep(r) ==
    \/ CreateConfigChecks(r) \/ create_ddns_config(r) \/ DeleteConfigLoads(r) \/ delete_ddns_config(r)
    \/ list_ddns_configs(r) \/ HistoryLoadsConfig(r) \/ list_ddns_history(r) \/ ReloadLists(r) \/ load_providers(r)

WalkStep(r) ==
    \/ check_all_agents(r) \/ check_agent_ip_report(r) \/ ConfigReadsAgent(r)
    \/ resolver_contains_ip(r) \/ ResolverDoesNotConfirm(r) \/ FindsProvider(r)
    \/ \E outcome \in Outcomes : CallProvider(r, outcome)
    \/ record_history(r) \/ update_after_apply(r) \/ WriteFails(r) \/ WalkEnds(r) \/ update_last_state(r)

ChangeStep(r) ==
    \/ ReportReadsLatest(r) \/ insert_agent_ip_event(r) \/ NotifyReadsOwner(r) \/ notify_agent_ip_change(r)

GeoStep(r) ==
    \/ latest_agent_ips(r) \/ read_cached_geo_location(r) \/ GeoLookup(r)
    \/ \E ip \in Ips : cache_geo_location(r, ip)
    \/ InstallReadsBytes(r) \/ install_mmdb_bytes(r) \/ InstallClearsCache(r)

\* What is so for a request: the configurations, their readers, the Agents and their addresses.
Facts(q) ==
    {<<"stored", c>> : c \in list_enabled}
    \cup {<<"readable", c>> : c \in {c \in Configs : IsStored(c) /\ config_visible(q, c)}}
    \cup {<<"owned", a, agents[a].owner>> : a \in {a \in Agents : Exists(a)}}
    \cup {<<"active", a>> : a \in {a \in Agents : Active(a)}}
    \cup {<<"at", a, states[a]>> : a \in Agents}
    \cup IF q.op = "report" THEN {<<"at", q.agent, q.ip>>} ELSE {}

\* A request that has not begun remembers nothing yet.
Remembers ==
    ever' = [q \in DOMAIN ever |-> (IF Request(q) \in live THEN {} ELSE ever[q]) \cup Facts(q)']

AddressesNext ==
    \/ \E r \in live : /\ r.q.op \in AddressOps
                       /\ ConfigStep(r) \/ WalkStep(r) \/ ChangeStep(r) \/ GeoStep(r)
                       /\ UNCHANGED <<enrolment, fleet>> /\ Remembers
    \/ \E ip \in Ips : CacheExpires(ip) /\ UNCHANGED <<enrolment, fleet, ever>>
    \/ \E r \in live : r.q.op \notin AddressOps /\ FleetStep(r) /\ UNCHANGED addresses /\ Remembers
    \/ Expiry /\ UNCHANGED <<fleet, addresses, ever>>

AddressesSpec == AddressesInit /\ [][AddressesNext]_addressVars

-----------------------------------------------------------------------------
(* Properties. *)

\* A DNS record is only told the address of an Agent that was in service, at that address
\* and of the configuration's owner while the check ran, although Agents are moved, revoked
\* and removed during the walk; an address change is told to channels of its owner only; and
\* a listing shows configurations the caller's token reaches.
AddressesAreEntitled == told.q # Nothing => told.needs \subseteq ever[told.q]

\* Unless two checks worked on a configuration at once, an answer or a write got lost, or a
\* provider took a refusal for success, last_applied_ip is what the DNS record holds: the next check may skip it.
RecordIsTrue ==
    \A c \in Configs \ doubt :
        IsStored(c) /\ {r \in live : r.q.op \in {"check", "report"} /\ r.at \in {"record", "note"} /\ Current(r).id = c} = {}
            => configs[c].applied = Held(c)

\* What is noted as applied is in the history as a success, at every moment: the history
\* is written first, by both ways that lead to the note.
AppliedIsInHistory ==
    \A c \in Configs \ doubt :
        IsStored(c) /\ configs[c].applied # Nothing => <<c, configs[c].applied, TRUE>> \in history

\* Once an installation is over, the cache gives no location from an earlier database, but
\* for a lookup that had opened the earlier one and stored what it found afterwards.
LocationIsCurrent ==
    settings.provider = "mmdb" /\ {r \in live : At(r, "install", "clear")} = {} =>
        \A ip \in Ips : cache[ip] # Nothing /\ ~cache[ip].late => cache[ip].db = geodb

\* What the address part of the server tells, notes, keeps in its history and caches is
\* entitled and true: ddns/manager.rs, api/v1/ddns.rs and api/v1/geoip.rs together.
AddressesAreTrue == AddressesAreEntitled /\ RecordIsTrue /\ AppliedIsInHistory /\ LocationIsCurrent
=============================================================================

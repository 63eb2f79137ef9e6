----------------------------- MODULE Maintenance -----------------------------
(***************************************************************************)
(* The store of metric samples (crates/tsdb) and what an administrator     *)
(* does to the server as a whole (api/v1/maintenance.rs): retention,       *)
(* compaction, backup, archive and restore, beside the requests of Tasks,  *)
(* Site, Alarms and Readers; and the server's restart.                     *)
(*                                                                         *)
(* Samples are in memory, the retention is in memory and in the settings,  *)
(* and a restore replaces every table under the requests in flight.  A     *)
(* sample is the day on which it was made: what it holds is left out.      *)
(***************************************************************************)
EXTENDS Tasks

CONSTANTS
    Default,    \* the retention without a setting: 30 days
    MaxDays,    \* TSDB_RETENTION_MAX_DAYS
    MaxSamples  \* MAX_SAMPLES_PER_AGENT

ASSUME MaintenanceAssumption ==
    /\ Default \in 1..MaxDays /\ MaxDays \in Nat /\ MaxSamples \in Nat \ {0} /\ Nothing \notin 1..MaxDays

-----------------------------------------------------------------------------
(* What the server starts with, and what the requests name. *)

IsSaved(s) == SiteOK(s) /\ s.retention \in (1..MaxDays) \cup {Nothing}
Picks(s) == {s[p] : p \in Pages} \ {Nothing}
ThemesOf(s) == DOMAIN Builtins \cup {t \in Themes : s.themes[t] # Nothing}
IsTable(ts) == ts \in [Tasks -> TaskRows \cup {Nothing}] /\ \A t \in Tasks : ts[t] # Nothing => validate_task_target_and_payload(ts[t])

ASSUME RowsAssumption ==
    \A x \in Rows : IsSaved(x.site) /\ Picks(x.site) \subseteq ThemesOf(x.site) /\ IsTable(x.tasks)

ASSUME WorkloadsAssumption ==
    \A w \in Workloads : \A q \in w :
        /\ "op" \in DOMAIN q
        /\ q.op \in {"publish", "sample"} => q.agent \in Agents
        /\ q.op = "ws" => q.user # Nothing
        /\ q.op = "settings" => \A i \in 1..Len(q.fields) : q.fields[i].key \in SettingKeys
        /\ q.op \in Edits \cup {"choose"} => q.theme \in Themes
        /\ q.op \in {"import", "retheme", "choose"} => q.target \in Uses
        /\ q.op \in {"create", "edit", "remove"} => q.task \in Tasks
        /\ q.op = "create" => q.new \in TaskRows
        /\ q.op = "edit" => IsPart(q.new)

VARIABLES
    today,     \* the clock
    series,    \* the samples of each Agent
    retention, \* InMemoryState.retention
    backups,   \* files that backup and archive requests were answered with
    written,   \* the samples that were stored since the server started
    shortest,  \* the shortest retention since then
    apart      \* whether retention and setting may differ: see RetentionIsStored

metrics == <<series, retention, written, shortest, apart>>
maintenance == <<metrics, today, backups>>
vars == <<taskVars, maintenance>>

TypeOK ==
    /\ TasksTypeOK /\ today \in Nat /\ retention \in 1..MaxDays /\ IsSaved(site)
    /\ \A a \in Agents : series[a] \subseteq written[a] /\ Cardinality(series[a]) <= MaxSamples

\* tsdb_retention_days
tsdb_retention_days == IF site.retention = Nothing THEN Default ELSE site.retention

NoSamples == [a \in Agents |-> {}]

Init ==
    /\ TasksInit /\ today = 0 /\ backups = {}
    /\ series = NoSamples /\ written = NoSamples
    /\ retention = tsdb_retention_days /\ shortest = retention /\ apart = FALSE

-----------------------------------------------------------------------------
(* The store.  Each operation is one hold of its lock. *)

cutoff_for_retention(day, days) == IF day > days THEN day - days ELSE 0

\* Variant: what is too much goes from the new end.
compact_series_Newest(days, cutoff) ==
    LET kept == {d \in days : d >= cutoff} IN
    {d \in kept : Cardinality({e \in kept : e < d}) < MaxSamples}

\* What is older than the cutoff goes, and of the rest the oldest that are too many.
compact_series(days, cutoff) ==
    LET kept == {d \in days : d >= cutoff} IN
    {d \in kept : Cardinality({e \in kept : e > d}) < MaxSamples}

compact_all(cutoff) == [a \in Agents |-> compact_series(series[a], cutoff)]

UnlessMetrics(r) == Refuse(r) /\ UNCHANGED <<tables, frames, hub, astray, alarms, history>>

\* The clock is read before the lock is waited for: the sample's day and the cutoff's.
WriteBegins(r) ==
    /\ At(r, "sample", "start") /\ Goto(r, [r EXCEPT !.at = "lock", !.n = today])
    /\ ReadsTasks /\ UNCHANGED <<alarms, maintenance>>

write(r) ==
    LET a == r.q.agent
        days == compact_series(series[a] \cup {r.n}, cutoff_for_retention(r.n, retention))
    IN
    /\ At(r, "sample", "lock") /\ UnlessMetrics(r)
    /\ series' = [series EXCEPT ![a] = days] /\ written' = [written EXCEPT ![a] = @ \cup {r.n}]
    /\ UNCHANGED <<retention, shortest, apart, today, backups>>

\* compact_tsdb, for an administrator.
compact_tsdb(r) ==
    /\ At(r, "compact", "start") /\ UnlessMetrics(r)
    /\ series' = IF require_admin_cookie_session(r.q)
                 THEN compact_all(cutoff_for_retention(today, retention)) ELSE series
    /\ UNCHANGED <<retention, written, shortest, apart, today, backups>>

\* run_tsdb_compaction, of its own accord, is the same at any time.
run_tsdb_compaction ==
    LET kept == compact_all(cutoff_for_retention(today, retention)) IN
    /\ series # kept /\ series' = kept
    /\ UNCHANGED <<taskVars, retention, written, shortest, apart, today, backups>>

-----------------------------------------------------------------------------
(* Retention: in memory first, where it takes effect, and then in the settings. *)

normalize_tsdb_retention_days(days) == days \in 1..MaxDays
Least(m, n) == IF m < n THEN m ELSE n

\* Requests between the two; n is 1 once another has come in between: the last to write the
\* one is then not always the last to write the other.
Updating == {x \in live : At(x, "retention", "setting")}

update_tsdb_retention(r) ==
    /\ At(r, "retention", "start") /\ UNCHANGED <<tables, frames, hub, astray, alarms, history, written, today, backups>>
    /\ IF require_admin_cookie_session(r.q) /\ normalize_tsdb_retention_days(r.q.k)
       THEN /\ live' = (live \ (Updating \cup {r})) \cup {[x EXCEPT !.n = 1] : x \in Updating}
                       \cup {[r EXCEPT !.at = "setting", !.n = IF Updating = {} THEN 0 ELSE 1]}
            /\ UNCHANGED answer
            /\ retention' = r.q.k /\ shortest' = Least(shortest, r.q.k)
            /\ series' = compact_all(cutoff_for_retention(today, r.q.k))
            /\ apart' = (apart \/ Updating # {})
       ELSE Refuse(r) /\ UNCHANGED <<retention, shortest, series, apart>>

set_tsdb_retention_days(r) ==
    /\ At(r, "retention", "setting")
    /\ set_raw_setting(r, "retention", r.q.k, {}) /\ UNCHANGED <<answer, astray, alarms, history>>
    /\ apart' = (apart /\ r.n = 1)
    /\ UNCHANGED <<series, retention, written, shortest, today, backups>>

\* The client goes, or the setting is not written.
RetentionDropped(r) ==
    /\ At(r, "retention", "setting") /\ UnlessMetrics(r)
    /\ apart' = TRUE
    /\ UNCHANGED <<series, retention, written, shortest, today, backups>>

-----------------------------------------------------------------------------
(* Backup and restore, on SQLite. *)

\* VACUUM INTO: all tables as they are at one moment.
sqlite_backup_bytes ==
    [agents |-> agents, service |-> service, assigned |-> assigned, results |-> results, members |-> members,
     notices |-> notices, tasks |-> tasks, runs |-> runs, site |-> site, stored |-> stored, events |-> events]

download_backup(r) ==
    /\ At(r, "backup", "start") /\ UnlessMetrics(r) /\ UNCHANGED <<metrics, today>>
    /\ backups' = IF require_admin_cookie_session(r.q) THEN backups \cup {sqlite_backup_bytes} ELSE backups

\* download_archive adds the samples, as they are at a later one.
download_archive(r) ==
    /\ At(r, "archive", "start")
    /\ IF require_admin_cookie_session(r.q)
       THEN /\ backups' = backups \cup {sqlite_backup_bytes} /\ Goto(r, [r EXCEPT !.at = "export"])
       ELSE Refuse(r) /\ UNCHANGED backups
    /\ ReadsTasks /\ UNCHANGED <<alarms, metrics, today>>

\* Of every Agent, what has not expired.
export_samples ==
    UNION {{<<"sample", a, d>> : d \in {d \in series[a] : d >= cutoff_for_retention(today, retention)}} : a \in Agents}

ArchiveExports(r) ==
    /\ At(r, "archive", "export")
    /\ live' = live \ {r} /\ answer' = [items |-> export_samples, ever |-> export_samples]
    /\ ReadsTasks /\ UNCHANGED <<alarms, maintenance>>

\* validate_restore_candidate: a file that is no database, or one of another schema, is
\* refused; a dry run ends here.
validate_restore_candidate(r) ==
    /\ At(r, "restore", "start")
    /\ IF require_admin_cookie_session(r.q)
       THEN \E b \in backups : Goto(r, [r EXCEPT !.at = "apply", !.todo = {b}]) \/ Refuse(r)
       ELSE Refuse(r)
    /\ ReadsTasks /\ UNCHANGED <<alarms, maintenance>>

\* Themes that the restored settings name and do not have; Tasks and Site start anew from it.
Missing(s) == Picks(s) \ ThemesOf(s)

\* One transaction deletes every table's rows and copies the file's.  Nothing in memory changes.
apply_sqlite_restore(r) ==
    /\ At(r, "restore", "apply")
    /\ \E b \in r.todo :
          /\ agents' = b.agents /\ service' = b.service /\ assigned' = b.assigned /\ results' = b.results
          /\ members' = b.members /\ notices' = b.notices /\ tasks' = b.tasks /\ runs' = b.runs /\ site' = b.site
          /\ stored' = b.stored /\ events' = b.events
          /\ asked' = b.tasks /\ astray' = astray \cup Missing(b.site)
    /\ live' = {Noted(x) : x \in live \ {r}}
    /\ apart' = TRUE
    /\ UNCHANGED <<frames, answer, hub, mixed, series, retention, written, shortest, today, backups>>

\* A step fails and the transaction is rolled back.
RestoreFails(r) ==
    /\ At(r, "restore", "apply") /\ UnlessMetrics(r) /\ UNCHANGED maintenance

-----------------------------------------------------------------------------
(* The server stops and starts: requests end, what is in memory is new. *)

\* main: tsdb_retention_days, and set_retention with it.
StartRetention == tsdb_retention_days

Restart(r) ==
    /\ At(r, "restart", "start")
    /\ live' = {x \in live \ {r} : x.at = "start"}
    /\ cache' = Nothing /\ builder' = Nothing
    /\ latest' = [a \in Agents |-> 0] /\ channel' = <<>>
    /\ astray' = astray \cup {x.q.theme : x \in {x \in live : x.q.op = "untheme" /\ x.at \in Pages}}
    /\ series' = NoSamples /\ written' = NoSamples
    /\ retention' = StartRetention /\ shortest' = retention' /\ apart' = FALSE
    /\ UNCHANGED <<tables, answer, reports, fails, alarms, history, today, backups>>

\* A day goes by.
DayPasses(r) == At(r, "day", "start") /\ today' = today + 1 /\ UnlessMetrics(r) /\ UNCHANGED <<metrics, backups>>

MaintenanceStep(r) ==
    \/ WriteBegins(r) \/ write(r) \/ compact_tsdb(r) \/ update_tsdb_retention(r) \/ set_tsdb_retention_days(r)
    \/ RetentionDropped(r) \/ download_backup(r) \/ download_archive(r) \/ ArchiveExports(r)
    \/ validate_restore_candidate(r) \/ apply_sqlite_restore(r) \/ RestoreFails(r) \/ Restart(r) \/ DayPasses(r)

Next ==
    \/ TasksNext /\ UNCHANGED maintenance
    \/ \E r \in live : MaintenanceStep(r)
    \/ run_tsdb_compaction

Spec == Init /\ [][Next]_vars

-----------------------------------------------------------------------------
(* Properties. *)

\* A sample is only given up when it is older than the shortest retention there was, or when
\* there are as many newer ones of its Agent as the store keeps: neither a compaction with a
\* cutoff from before the lock nor a change of the retention takes one that is due to stay.
SamplesAreKept ==
    \A a \in Agents : \A d \in written[a] \ series[a] :
        \/ d < cutoff_for_retention(today, shortest)
        \/ Cardinality({e \in written[a] : e > d}) >= MaxSamples

\* The retention in force is the one that is stored, after a restart too.  They differ while an
\* update is between the two, after updates that overlapped or one that ended in between, and
\* after a restore, which leaves the store as it was.
RetentionIsStored == retention = tsdb_retention_days \/ apart \/ Updating # {}

\* The metric store keeps what it was asked to keep, for as long as it was asked to.
MetricsAreKept == SamplesAreKept /\ RetentionIsStored
=============================================================================

-------------------------------- MODULE Site ---------------------------------
(***************************************************************************)
(* The system settings (api/v1/settings.rs) and the themes                 *)
(* (api/v1/themes.rs): one table of keys and values that the public page   *)
(* of Readers is served from.                                              *)
(*                                                                         *)
(* Every key is read and written by a statement of its own.  An update of  *)
(* the settings writes one field after the other, and ends at the first    *)
(* that is refused; the catalogue of themes is read, changed and written   *)
(* back as a whole; the theme of a page is chosen by its id.               *)
(* An administrator's second factor is the subject of Accounts.            *)
(***************************************************************************)
EXTENDS Realtime

CONSTANTS
    Invalid,  \* a value of a field that is refused
    MaxThemes \* THEME_MAX_CUSTOM_THEMES

ASSUME SiteAssumption == MaxThemes \in Nat /\ Nothing \notin {"public", "dashboard", "both"}

VARIABLE
    astray    \* themes that a page may name although they are gone, and why: see PickedExists

\* The keys that an update of the settings writes, and all of them.
SettingKeys == {"open", "details", "servers", "group", "text"}
SiteKeys == SettingKeys \cup {"themes", "public", "dashboard", "retention"}
Uses == {"public", "dashboard", "both"}

SiteOK(s) ==
    /\ DOMAIN s = SiteKeys
    /\ {s.open, s.details} \subseteq BOOLEAN /\ s.servers \subseteq Agents
    /\ s.group \in Users \cup {Nothing} /\ s.text # Invalid
    /\ s.themes \in [Themes -> Uses \cup {Nothing}]
    /\ {s.public, s.dashboard} \subseteq Themes \cup {Nothing}

SiteTypeOK == SiteOK(site) /\ astray \subseteq Themes

SiteInit == astray = {}

-----------------------------------------------------------------------------
(* Settings. *)

require_admin_cookie_session(q) == q.user \in Admins /\ ~q.pat

\* set_raw_setting: one key; then the other requests see another site.
set_raw_setting(r, key, value, then) ==
    /\ site' = [site EXCEPT ![key] = value]
    /\ UNCHANGED <<agents, service, assigned, results, members, notices, tasks, runs, hub>>
    /\ live' = {Noted(x) : x \in (live \ {r}) \cup then}
    /\ UNCHANGED frames

NoWrite == Reads /\ UNCHANGED <<hub, astray>>

update_settings(r) ==
    /\ At(r, "settings", "start")
    /\ IF require_admin_cookie_session(r.q) THEN Goto(r, [r EXCEPT !.at = "field", !.n = 1]) ELSE Refuse(r)
    /\ NoWrite

Field(r) == r.q.fields[r.n]
Fielded(r) == At(r, "settings", "field") /\ r.n <= Len(r.q.fields)

\* The Agents of geoip_ip_change_server_ids, one after the other.
ensure_geoip_ip_change_servers_active(r) ==
    /\ Fielded(r) /\ Field(r).key = "servers"
    /\ \E a \in Field(r).value \ r.ids :
          IF ~agents[a].revoked THEN Goto(r, [r EXCEPT !.ids = @ \cup {a}]) ELSE Refuse(r)
    /\ NoWrite

\* A field that does not pass ends the request; the fields before it stay written.
\* ensure_notification_group_owned_by: the group is the administrator's own.
FieldRefused(r) ==
    /\ Fielded(r)
    /\ Field(r).value = Invalid \/ (Field(r).key = "group" /\ Field(r).value \notin {r.q.user, Nothing})
    /\ Refuse(r) /\ NoWrite

WritesField(r) ==
    LET f == Field(r) IN
    /\ Fielded(r) /\ f.value # Invalid
    /\ f.key = "servers" => r.ids = f.value
    /\ f.key = "group" => f.value \in {r.q.user, Nothing}
    /\ set_raw_setting(r, f.key, f.value, {[r EXCEPT !.n = @ + 1, !.ids = {}]})
    /\ answer' = [items |-> IF f.key = "servers" THEN {<<"active", a>> : a \in f.value} ELSE {}, ever |-> r.ever]
    /\ UNCHANGED astray

\* system_settings_response
SettingsAnswered(r) ==
    /\ At(r, "settings", "field") /\ r.n > Len(r.q.fields)
    /\ Refuse(r) /\ NoWrite

-----------------------------------------------------------------------------
(* Themes.  A request keeps the catalogue it has read in todo. *)

Edits == {"import", "retheme", "untheme"}

\* custom_themes; a builtin theme is neither edited nor deleted, nor replaced by an import.
custom_themes(r) ==
    /\ r.q.op \in Edits /\ r.at = "start"
    /\ IF /\ require_admin_cookie_session(r.q) /\ r.q.theme \notin DOMAIN Builtins
          /\ r.q.op # "import" => site.themes[r.q.theme] # Nothing
       THEN Goto(r, [r EXCEPT !.at = "catalogue", !.todo = {site.themes}]) ELSE Refuse(r)
    /\ NoWrite

Custom(themes) == {t \in Themes : themes[t] # Nothing}

\* The catalogue as it is written back, without what was changed since it was read.
Edited(r) ==
    LET themes == CHOOSE x \in r.todo : TRUE IN
    [themes EXCEPT ![r.q.theme] = IF r.q.op = "untheme" THEN Nothing ELSE r.q.target]

\* Themes that others have written and this write takes away again.
Undone(r) == Custom(site.themes) \ (Custom(Edited(r)) \cup {r.q.theme})

\* upsert_custom_theme and update_theme; a full catalogue takes no new theme.
set_custom_themes(r) ==
    /\ r.q.op \in {"import", "retheme"} /\ r.at = "catalogue"
    /\ IF Cardinality(Custom(Edited(r))) <= MaxThemes
       THEN /\ set_raw_setting(r, "themes", Edited(r), {})
            /\ astray' = astray \cup Undone(r) /\ UNCHANGED answer
       ELSE Refuse(r) /\ NoWrite

delete_theme(r) ==
    /\ At(r, "untheme", "catalogue")
    /\ set_raw_setting(r, "themes", Edited(r), {[r EXCEPT !.at = "public", !.todo = {}]})
    /\ astray' = astray \cup Undone(r) /\ UNCHANGED answer

Pages == {"public", "dashboard"}
Following(r) == IF r.at = "public" THEN {[r EXCEPT !.at = "dashboard", !.ids = {}]} ELSE {}

\* The ids of the chosen themes, one after the other: one that names the deleted theme is cleared.
ReadsChosen(r) ==
    /\ r.q.op = "untheme" /\ r.at \in Pages /\ r.ids = {}
    /\ IF site[r.at] = r.q.theme THEN Goto(r, [r EXCEPT !.ids = {r.q.theme}])
       ELSE live' = (live \ {r}) \cup Following(r) /\ UNCHANGED answer
    /\ NoWrite

ClearsChosen(r) ==
    /\ r.q.op = "untheme" /\ r.at \in Pages /\ r.ids # {}
    /\ set_raw_setting(r, r.at, Nothing, Following(r))
    /\ UNCHANGED <<astray, answer>>

\* The theme is one of those there are, and one for the page or pages it is chosen for.
select_theme(r) ==
    /\ At(r, "choose", "start")
    /\ IF /\ require_admin_cookie_session(r.q) /\ IsTheme(r.q.theme)
          /\ TargetOf(r.q.theme) \in {"both", r.q.target}
       THEN Goto(r, [r EXCEPT !.at = IF r.q.target = "dashboard" THEN "dashboard" ELSE "public"]) ELSE Refuse(r)
    /\ NoWrite

WritesChosen(r) ==
    /\ r.q.op = "choose" /\ r.at \in Pages
    /\ set_raw_setting(r, r.at, r.q.theme, IF r.q.target = "both" THEN Following(r) ELSE {})
    /\ astray' = IF IsTheme(r.q.theme) THEN astray ELSE astray \cup {r.q.theme}
    /\ UNCHANGED answer

\* The client goes, or a statement fails: what is written stays written.
SiteDropped(r) ==
    /\ r.q.op \in Edits \cup {"choose", "settings"} /\ r.at # "start" /\ Refuse(r)
    /\ astray' = IF r.q.op = "untheme" /\ r.at \in Pages THEN astray \cup {r.q.theme} ELSE astray
    /\ Reads /\ UNCHANGED hub

SiteStep(r) ==
    \/ update_settings(r) \/ ensure_geoip_ip_change_servers_active(r) \/ FieldRefused(r) \/ WritesField(r)
    \/ SettingsAnswered(r) \/ custom_themes(r) \/ set_custom_themes(r) \/ delete_theme(r) \/ ReadsChosen(r)
    \/ ClearsChosen(r) \/ select_theme(r) \/ WritesChosen(r) \/ SiteDropped(r)

-----------------------------------------------------------------------------
(* Properties. *)

\* A page's chosen theme exists, or is being deleted.  It can be missing in three ways only:
\* the request that deleted it was dropped before it cleared the choice, it was chosen by a
\* request that had found it before it was deleted, or a catalogue written back took it away.
PickedExists ==
    \A page \in Pages :
        LET t == site[page] IN
        \/ t = Nothing \/ IsTheme(t) \/ t \in astray
        \/ \E r \in live : r.q.op = "untheme" /\ r.q.theme = t /\ r.at \in Pages
=============================================================================

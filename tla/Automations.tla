---------------------------- MODULE Automations ----------------------------
(***************************************************************************)
(* The pages for scheduled runs: the list with its pause buttons           *)
(* (AutomationsList.tsx) and the editor (AutomationEditor.tsx) with its    *)
(* trigger, repository and model menus.  The editor takes its fields from  *)
(* the cached list when it is opened, and writes all of them back; the     *)
(* model it shows follows what the options say once they are loaded.       *)
(***************************************************************************)
EXTENDS Integers, FiniteSets

CONSTANTS
    Ids,        \* schedules
    Presets,    \* CRON_PRESETS
    Daily,      \* the preset that a custom trigger starts from
    Others,     \* other cron expressions
    Repos,      \* repositories
    Supported,  \* <<model, effort>>: what the options offer
    Retired,    \* pairs they offered once
    Null,       \* null
    First,      \* the first model with its default effort
    MaxClicks   \* bound on what the user does

VARIABLES
    server,     \* external: the schedules
    list,       \* cached: ["agent-schedules"]
    listAsked,  \* answers on their way to requests for the list
    options,    \* the model options are loaded
    profileDefault, teamDefault, \* pairs, or Null
    page,       \* "list", "new" or "edit"
    editing,    \* the schedule that is edited, or Null
    form,       \* the fields of the editor
    menu,       \* the menu that is open: "none", "trigger", "repo" or "model"
    query,      \* RepoSelector: the text searched for matches no repository
    calls,      \* mutations on their way
    off,        \* ghost: a save had another outcome than was shown
    clicks

data == <<server, list, listAsked>>
prefs == <<options, profileDefault, teamDefault>>
vars == <<data, prefs, page, editing, form, menu, query, calls, off, clicks>>

Empty == "" \* the custom expression, when its box was emptied
Absent == [on |-> FALSE, text |-> 0, cron |-> Daily, repo |-> Null, enabled |-> TRUE, model |-> Null]
Records == [on : {TRUE}, text : {1}, cron : Presets \cup Others, repo : Repos \cup {Null}, enabled : {TRUE}, model : Supported \cup Retired]
One == CHOOSE id \in Ids : TRUE

(* presetForCron                                                            *)
IsCustom(cron) == cron \notin Presets

(* The state of an editor that is opened for a record, or for none.  The    *)
(* text stands for the name and the prompt, 0 if one of them is empty.      *)
FormOf(rec) ==
    [text |-> rec.text, cron |-> IF rec.on THEN rec.cron ELSE Null, customMode |-> rec.on /\ IsCustom(rec.cron),
     repo |-> rec.repo, enabled |-> rec.enabled, override |-> Null]

Init ==
    /\ \E r \in Records : server = [i \in Ids |-> IF i = One THEN r ELSE Absent]
    /\ list = server /\ listAsked = {}
    /\ options = FALSE /\ profileDefault \in Retired \cup {Null} /\ teamDefault \in Retired \cup Supported
    /\ page = "list" /\ editing = Null /\ form = FormOf(Absent) /\ menu = "none" /\ query = FALSE
    /\ calls = {} /\ off = FALSE /\ clicks = 0

Click == clicks < MaxClicks /\ clicks' = clicks + 1

----------------------------------------------------------------------------
(* useModelOptions                                                          *)
toSupportedSelection(pair) == IF options /\ pair \in Supported THEN pair ELSE Null
Or(a, b) == IF a # Null THEN a ELSE b
defaultSelection ==
    IF options THEN Or(toSupportedSelection(profileDefault), Or(toSupportedSelection(teamDefault), First)) ELSE Null

(* Mutant: the schedule's model is taken without a look at the options.     *)
MutScheduleToSelection(rec) == IF options THEN rec.model ELSE Null
scheduleToSelection(rec) == IF options /\ rec.model \in Supported THEN rec.model ELSE Null

Record == IF editing = Null THEN Absent ELSE list[editing]
activeSelection == Or(form.override, Or(scheduleToSelection(Record), defaultSelection))
combos == IF options THEN Supported ELSE {}

OptionsLoaded ==
    /\ ~options /\ options' = TRUE
    /\ UNCHANGED <<data, profileDefault, teamDefault, page, editing, form, menu, query, calls, off, clicks>>

(* A fetch of the list is answered.                                         *)
ListAnswer(l) ==
    /\ l \in listAsked
    /\ list' = l /\ listAsked' = {}
    /\ UNCHANGED <<server, prefs, page, editing, form, menu, query, calls, off, clicks>>

----------------------------------------------------------------------------
(* Navigation: the editor is mounted anew with the fields of the cached     *)
(* record, or the page says that the automation could not be found.         *)
GoTo(p, id) == page' = p /\ editing' = id /\ form' = FormOf(IF id = Null THEN Absent ELSE list[id]) /\ menu' = "none" /\ query' = FALSE
Shown == page = "new" \/ (page = "edit" /\ list[editing].on)

OpenNew == Click /\ page = "list" /\ GoTo("new", Null) /\ UNCHANGED <<data, prefs, calls, off>>
OpenRow(id) == Click /\ page = "list" /\ list[id].on /\ GoTo("edit", id) /\ UNCHANGED <<data, prefs, calls, off>>
(* An editor that is left hears no more of its calls.                       *)
Leave ==
    /\ Click /\ page # "list" /\ GoTo("list", Null)
    /\ calls' = {[c EXCEPT !.here = FALSE] : c \in calls}
    /\ UNCHANGED <<data, prefs, off>>

(* The fields.                                                              *)
Edit(f) == form' = f /\ UNCHANGED <<data, prefs, page, editing, calls, off>>

TypeText(t) == Click /\ Shown /\ t # form.text /\ Edit([form EXCEPT !.text = t]) /\ UNCHANGED <<menu, query>>
Switch == Click /\ Shown /\ Edit([form EXCEPT !.enabled = ~@]) /\ UNCHANGED <<menu, query>>

(* The menus: a click on one's button is outside of the others, which close.*)
Toggle(m) ==
    /\ Click /\ Shown /\ (m = "model" => combos # {})
    /\ menu' = IF menu = m THEN "none" ELSE m
    /\ UNCHANGED <<data, prefs, page, editing, form, query, calls, off>>

Search(none) ==
    /\ Click /\ Shown /\ menu = "repo" /\ query' = none /\ none # query
    /\ UNCHANGED <<data, prefs, page, editing, form, menu, calls, off>>

filteredRepos == IF query THEN {} ELSE Repos
PickRepo(r) ==
    /\ Click /\ Shown /\ menu = "repo" /\ r \in filteredRepos \cup {Null}
    /\ Edit([form EXCEPT !.repo = r]) /\ menu' = "none" /\ query' = FALSE

PickModel(pair) ==
    /\ Click /\ Shown /\ menu = "model" /\ pair \in combos
    /\ Edit([form EXCEPT !.override = pair]) /\ menu' = "none" /\ UNCHANGED query

(* Mutant: a custom trigger keeps what was there, also if nothing was.      *)
MutOnPickTrigger(value) ==
    IF value = Null THEN [form EXCEPT !.customMode = TRUE]
    ELSE [form EXCEPT !.customMode = FALSE, !.cron = value]

onPickTrigger(value) ==
    IF value = Null THEN [form EXCEPT !.customMode = TRUE, !.cron = IF @ = Null THEN Daily ELSE @]
    ELSE [form EXCEPT !.customMode = FALSE, !.cron = value]

PickTrigger(value) ==
    /\ Click /\ Shown /\ menu = "trigger"
    /\ Edit(onPickTrigger(value)) /\ menu' = "none" /\ UNCHANGED query

(* The row of the trigger is there for a cron that is not empty.            *)
HasTrigger == form.cron \notin {Null, Empty}
TypeCron(cron) ==
    /\ Click /\ Shown /\ HasTrigger /\ form.customMode
    /\ Edit([form EXCEPT !.cron = cron]) /\ UNCHANGED <<menu, query>>
RemoveTrigger ==
    /\ Click /\ Shown /\ HasTrigger
    /\ Edit([form EXCEPT !.cron = Null, !.customMode = FALSE]) /\ UNCHANGED <<menu, query>>

----------------------------------------------------------------------------
canSave == form.text # 0 /\ HasTrigger
modelIsReal == options /\ activeSelection # Null /\ \E pair \in Supported : pair[1] = activeSelection[1]
isPending(kind) == \E c \in calls : c.kind = kind /\ c.id = editing /\ c.here
Mutate(c) == calls' = calls \cup {c}
Body(kind, id, repo, enabled) ==
    [kind |-> kind, id |-> id, text |-> form.text, cron |-> form.cron, repo |-> repo, enabled |-> enabled,
     model |-> IF modelIsReal THEN activeSelection ELSE Null, shown |-> form, here |-> TRUE]

(* Mutant: no repository is sent as null, which leaves it as it is.         *)
MutHandleSave ==
    /\ Click /\ Shown /\ canSave /\ ~isPending("create") /\ ~isPending("update")
    /\ Mutate(IF page = "new" THEN Body("create", Null, form.repo, TRUE)
              ELSE Body("update", editing, form.repo, form.enabled))
    /\ UNCHANGED <<data, prefs, page, editing, form, menu, query, off>>

(* A new schedule is sent without the state of the switch; no repository is *)
(* sent as null for a new schedule and as "" for another.                   *)
handleSave ==
    /\ Click /\ Shown /\ canSave /\ ~isPending("create") /\ ~isPending("update")
    /\ Mutate(IF page = "new" THEN Body("create", Null, form.repo, TRUE)
              ELSE Body("update", editing, IF form.repo = Null THEN Empty ELSE form.repo, form.enabled))
    /\ UNCHANGED <<data, prefs, page, editing, form, menu, query, off>>

handleDelete ==
    /\ Click /\ Shown /\ page = "edit" /\ ~isPending("delete")
    /\ Mutate(Body("delete", editing, Null, form.enabled))
    /\ UNCHANGED <<data, prefs, page, editing, form, menu, query, off>>

(* The pause button of a row sends the opposite of what the row shows.      *)
isToggling(id) == \E c \in calls : c.kind = "toggle" /\ c.id = id
onToggle(id) ==
    /\ Click /\ page = "list" /\ list[id].on /\ ~isToggling(id)
    /\ Mutate(Body("toggle", id, Null, ~list[id].enabled))
    /\ UNCHANGED <<data, prefs, page, editing, form, menu, query, off>>

----------------------------------------------------------------------------
(* What the server does (external): a field that is null is left alone.     *)
Patched(rec, c) ==
    IF c.kind = "toggle" THEN [rec EXCEPT !.enabled = c.enabled]
    ELSE [rec EXCEPT !.text = c.text, !.cron = c.cron, !.enabled = c.enabled, !.model = IF c.model = Null THEN @ ELSE c.model,
                     !.repo = IF c.repo = Null THEN @ ELSE IF c.repo = Empty THEN Null ELSE c.repo]
Profile == Or(profileDefault, First)
Served(c, id) ==
    [server EXCEPT ![id] = CASE c.kind = "create" -> [Patched(Absent, c) EXCEPT !.on = TRUE, !.model = Or(c.model, Profile)]
                             [] c.kind = "delete" -> Absent
                             [] OTHER -> Patched(@, c)]

Matches(rec, f) == rec.cron = f.cron /\ rec.repo = f.repo /\ rec.text = f.text

(* A call is answered: the list is fetched again, and the editor that sent  *)
(* it, if it is still open, gives way to the list.                          *)
Answered(c, id) ==
    /\ c \in calls /\ IF c.kind = "create" THEN ~server[id].on ELSE id = c.id /\ server[id].on
    /\ calls' = calls \ {c}
    /\ server' = Served(c, id) /\ listAsked' = {server'}
    /\ off' = (off \/ (c.kind \in {"create", "update"} /\ ~Matches(server'[id], c.shown))
                   \/ (c.kind = "update" /\ server'[id].enabled # c.shown.enabled))
    /\ IF c.kind # "toggle" /\ c.here THEN GoTo("list", Null) ELSE UNCHANGED <<page, editing, form, menu, query>>
    /\ UNCHANGED <<list, prefs, clicks>>

Fails(c) ==
    /\ c \in calls /\ calls' = calls \ {c}
    /\ UNCHANGED <<data, prefs, page, editing, form, menu, query, off, clicks>>

Next ==
    \/ OptionsLoaded \/ OpenNew \/ Leave \/ Switch \/ RemoveTrigger \/ handleSave \/ handleDelete
    \/ \E l \in listAsked : ListAnswer(l)
    \/ \E id \in Ids : OpenRow(id) \/ onToggle(id)
    \/ \E t \in 0..1 : TypeText(t)
    \/ \E m \in {"trigger", "repo", "model"} : Toggle(m)
    \/ \E none \in BOOLEAN : Search(none)
    \/ \E r \in Repos \cup {Null} : PickRepo(r)
    \/ \E pair \in combos : PickModel(pair)
    \/ \E value \in Presets \cup {Null} : PickTrigger(value)
    \/ \E cron \in Others \cup {Empty} : TypeCron(cron)
    \/ \E c \in calls : Fails(c) \/ \E id \in Ids : Answered(c, id)

Spec == Init /\ [][Next]_vars

----------------------------------------------------------------------------
(* The types.                                                               *)
TypeOK ==
    /\ page \in {"list", "new", "edit"} /\ menu \in {"none", "trigger", "repo", "model"}
    /\ editing \in Ids \cup {Null} /\ clicks \in 0..MaxClicks

(* A trigger that is described in words is a preset, and one that is typed  *)
(* has a box, on whatever way through the menu, the box and the button that *)
(* removes it.  The exception is a text that was emptied in the box: row,   *)
(* box and button are gone, and picking the custom trigger again keeps the  *)
(* empty text, so that only a preset brings them back.                      *)
TriggerEditable ==
    /\ HasTrigger => form.cron \in Presets \/ form.customMode
    /\ form.customMode => HasTrigger \/ form.cron = Empty

(* What is saved is what the editor showed: the trigger, the repository, or *)
(* that there is none any more, the texts and, for a schedule that existed, *)
(* whether it is paused.                                                    *)
SavedAsShown == ~off

(* A save never sends a model with an effort the options do not offer, also *)
(* if the schedule or a default names one that is no longer offered.        *)
SavedModelSupported == \A c \in calls : c.model # Null => c.model \in Supported

----------------------------------------------------------------------------
(* Why they hold.  The fields of records, of the editor and of the calls    *)
(* that are on their way; the editor of a schedule knows which.             *)
Crons == Presets \cup Others
Schedules == [on : BOOLEAN, text : 0..1, cron : Crons, repo : Repos \cup {Null}, enabled : BOOLEAN,
    model : Supported \cup Retired \cup {Null}]
Forms == [text : 0..1, cron : Crons \cup {Null, Empty}, customMode : BOOLEAN, repo : Repos \cup {Null},
    enabled : BOOLEAN, override : Supported \cup {Null}]
Calls == [kind : {"create", "update", "delete", "toggle"}, id : Ids \cup {Null}, text : 0..1,
    cron : Crons \cup {Null, Empty}, repo : Repos \cup {Null, Empty}, enabled : BOOLEAN,
    model : Supported \cup {Null}, shown : Forms, here : BOOLEAN]

Fields == form \in Forms /\ calls \subseteq Calls
Listed == server \in [Ids -> Schedules] /\ list \in [Ids -> Schedules] /\ listAsked \subseteq [Ids -> Schedules]
Defaults == options \in BOOLEAN /\ profileDefault \in Retired \cup {Null} /\ teamDefault \in Retired \cup Supported
Opened == IF page = "edit" THEN editing \in Ids ELSE editing = Null

(* A save that is on its way says what its editor showed.                   *)
SaysWhatWasShown ==
    \A c \in calls : c.kind \in {"create", "update"} =>
        /\ c.text = c.shown.text /\ c.cron = c.shown.cron /\ c.cron \in Crons
        /\ c.repo = IF c.shown.repo = Null /\ c.kind = "update" THEN Empty ELSE c.shown.repo
        /\ c.kind = "update" => c.enabled = c.shown.enabled

Inv ==
    /\ TypeOK /\ Fields /\ Listed /\ Defaults /\ Opened /\ SaysWhatWasShown
    /\ TriggerEditable /\ SavedAsShown /\ SavedModelSupported
=============================================================================

----------------------------- MODULE TeamSettings -----------------------------
(***************************************************************************)
(* The team's defaults on the administration page (routes/admin.tsx):      *)
(* a model and an effort for each role, and a default repository.  Every   *)
(* save sends the whole cached settings with one change.  A RolePicker     *)
(* shows a copy of its own, which it sets before the save is answered and  *)
(* gives up only when the saved values change.                             *)
(***************************************************************************)
EXTENDS Integers

CONSTANTS
    Roles,
    MaxClicks   \* bound on changes, of this page and of other administrators

Models == {"large", "small"}
Efforts == [large |-> {"low", "high"}, small |-> {"low"}]
DefaultEffort == [large |-> "high", small |-> "low"]
Pair(m, e) == [model |-> m, effort |-> e]
PairsThat == {Pair("large", "low"), Pair("large", "high"), Pair("small", "low")}

VARIABLES
    stored,     \* the API's settings: [pair, repo]
    cache,      \* settings.data
    loaded,
    models,     \* the options are there
    shown,      \* localModel and localEffort of each picker
    draft,      \* defaultRepoDraft
    saving,     \* the save on its way: its body
    pending,    \* save.isPending
    error,
    failed,     \* ghost: a save failed since the page last agreed with the cache
    clicks

vars == <<stored, cache, loaded, models, shown, draft, saving, pending, error, failed, clicks>>

Init ==
    /\ stored = [pair |-> [r \in Roles |-> Pair("small", "low")], repo |-> 0]
    /\ cache = stored /\ loaded = FALSE /\ models = FALSE
    /\ shown = [r \in Roles |-> Pair("unset", "unset")]
    /\ draft = 0
    /\ saving = stored /\ pending = FALSE
    /\ error = FALSE /\ failed = FALSE /\ clicks = 0

Click == clicks < MaxClicks /\ clicks' = clicks + 1

----------------------------------------------------------------------------
(* Mutant: a picker keeps its copy for good.                                *)
MutResync(new) ==
    /\ shown' = [r \in Roles |-> IF ~loaded THEN new.pair[r] ELSE shown[r]]
    /\ draft' = IF ~loaded \/ new.repo # cache.repo THEN new.repo ELSE draft

(* The effects on [model, effort] of each picker and on the default_repo:   *)
(* copies follow the settings when these have changed.                      *)
Resync(new) ==
    /\ shown' = [r \in Roles |-> IF ~loaded \/ new.pair[r] # cache.pair[r] THEN new.pair[r] ELSE shown[r]]
    /\ draft' = IF ~loaded \/ new.repo # cache.repo THEN new.repo ELSE draft

LoadSettings ==
    /\ ~pending
    /\ cache' = stored /\ loaded' = TRUE
    /\ Resync(stored)
    /\ UNCHANGED <<stored, models, saving, pending, error, failed, clicks>>

LoadModels ==
    /\ models' = TRUE
    /\ UNCHANGED <<stored, cache, loaded, shown, draft, saving, pending, error, failed, clicks>>

(* save.mutate, by controls that are disabled without settings or while a   *)
(* save is on its way.                                                      *)
Enabled == loaded /\ ~pending
Save(body) ==
    /\ saving' = body /\ pending' = TRUE

(* The selects of a picker, which need the models.                          *)
Picker == Enabled /\ models

(* Mutant: the effort is kept whatever the new model has.                   *)
MutHandleModelChange(r, m) ==
    LET next == shown[r].effort IN
    /\ Click /\ Picker
    /\ shown' = [shown EXCEPT ![r] = Pair(m, next)]
    /\ Save([cache EXCEPT !.pair[r] = Pair(m, next)])
    /\ UNCHANGED <<stored, cache, loaded, models, draft, error, failed>>

handleModelChange(r, m) ==
    LET next == IF shown[r].effort \in Efforts[m] THEN shown[r].effort ELSE DefaultEffort[m] IN
    /\ Click /\ Picker
    /\ shown' = [shown EXCEPT ![r] = Pair(m, next)]
    /\ Save([cache EXCEPT !.pair[r] = Pair(m, next)])
    /\ UNCHANGED <<stored, cache, loaded, models, draft, error, failed>>

handleEffortChange(r, e) ==
    /\ Click /\ Picker /\ e \in Efforts[shown[r].model]
    /\ shown' = [shown EXCEPT ![r].effort = e]
    /\ Save([cache EXCEPT !.pair[r] = Pair(shown[r].model, e)])
    /\ UNCHANGED <<stored, cache, loaded, models, draft, error, failed>>

TypeRepo(n) ==
    /\ Click /\ Enabled
    /\ draft' = n
    /\ UNCHANGED <<stored, cache, loaded, models, shown, saving, pending, error, failed>>

BlurRepo ==
    /\ Click /\ Enabled
    /\ Save([cache EXCEPT !.repo = draft])
    /\ UNCHANGED <<stored, cache, loaded, models, shown, draft, error, failed>>

Saved ==
    /\ pending /\ pending' = FALSE
    /\ stored' = saving /\ cache' = saving
    /\ Resync(saving)
    /\ error' = FALSE
    /\ UNCHANGED <<loaded, models, saving, failed, clicks>>

SaveFails ==
    /\ pending /\ pending' = FALSE
    /\ error' = TRUE /\ failed' = TRUE
    /\ UNCHANGED <<stored, cache, loaded, models, shown, draft, saving, clicks>>

(* Another administrator's save.                                            *)
OtherSaves(r, p) ==
    /\ Click
    /\ stored' = [stored EXCEPT !.pair[r] = p]
    /\ UNCHANGED <<cache, loaded, models, shown, draft, saving, pending, error, failed>>

Next ==
    \/ LoadSettings \/ LoadModels \/ BlurRepo \/ Saved \/ SaveFails
    \/ \E n \in 0..1 : TypeRepo(n)
    \/ \E r \in Roles :
        \/ \E m \in Models : handleModelChange(r, m)
        \/ \E e \in {"low", "high"} : handleEffortChange(r, e)
        \/ \E p \in PairsThat : OtherSaves(r, p)

Spec == Init /\ [][Next]_vars

----------------------------------------------------------------------------
(* The types; every stored effort is one of its model's.                    *)
TypeOK ==
    /\ {stored.pair[r] : r \in Roles} \subseteq PairsThat
    /\ {cache.pair[r] : r \in Roles} \subseteq PairsThat
    /\ {loaded, models, pending, error, failed} \subseteq BOOLEAN
    /\ draft \in 0..1 /\ clicks \in 0..MaxClicks

(* Between saves the pickers show what the settings say, through refetches  *)
(* that bring another administrator's changes and saves of other fields.    *)
(* (Only a save that failed leaves a picker with what was not saved.)       *)
PickersShowSettings == loaded /\ ~pending /\ ~failed => shown = cache.pair

----------------------------------------------------------------------------
(* Why it holds: the settings, and what a save sends, have a pair for each  *)
(* role; a save is made with settings there, and sends what is shown.       *)
Settings == [pair : [Roles -> PairsThat], repo : 0..1]
Settled ==
    /\ stored \in Settings /\ cache \in Settings /\ saving \in Settings
    /\ DOMAIN shown = Roles
    /\ loaded => shown \in [Roles -> PairsThat]
SavesWhatIsShown == pending => loaded /\ (failed \/ shown = saving.pair)

Inv == TypeOK /\ Settled /\ SavesWhatIsShown /\ PickersShowSettings

=============================================================================

----------------------------- MODULE ProfilePages -----------------------------
(***************************************************************************)
(* The two pages that edit a user's profile: routes/my-settings.tsx and    *)
(* routes/cloud-agents.tsx.  The API only takes whole profiles, so each    *)
(* save sends what the page knows of the profile with its own change on    *)
(* top (buildProfileUpdate of lib/profile.ts); the answer becomes the      *)
(* cached profile, and so does that of an earlier request for the profile  *)
(* when it comes later.  repo stands for the three text fields of the      *)
(* form.                                                                   *)
(***************************************************************************)
EXTENDS Integers, FiniteSets

CONSTANTS
    MaxClicks   \* bound on what the user does

Unset == "unset"
Roles == {"agent", "subagent"}
Models == <<"large", "small">>              \* options.data.models, in order
Efforts == [large |-> {"low", "high"}, small |-> {"low"}]
DefaultEffort == [large |-> "high", small |-> "low"]
TeamModel == "small"                        \* default_agent_model
TeamEffort == "low"
ModelIds == {"large", "small"}
EffortIds == {"low", "high"}

VARIABLES
    server,     \* the stored profile
    cache,      \* the cached profile, as in server
    loaded,     \* cache is there
    get,        \* the request for it: [stage, data]
    options,    \* the models are there
    page,       \* "none", "my-settings" or "cloud-agents"
    initialized,\* the form of cloud-agents was filled
    form,       \* its fields
    saves,      \* saves on their way
    error,
    wanted,     \* ghost: the profile that the user asked for
    failed,     \* ghost: a save failed
    crossed,    \* ghost: a save was sent that did not know the stored profile, or another save
    premature,  \* ghost: the form was saved before it was filled
    clicks

data == <<server, cache, loaded, get, options>>
ghosts == <<wanted, failed, crossed, premature>>
vars == <<data, page, initialized, form, saves, error, ghosts, clicks>>

Pairs(m, e) == [r \in Roles |-> [model |-> m, effort |-> e]]
Empty == [pair |-> Pairs(Unset, Unset), repo |-> 0, prs |-> FALSE, drafts |-> "null"]
NoGet == [stage |-> "idle", data |-> Empty]
EmptyForm == [pair |-> Pairs(Unset, Unset), repo |-> 0]

Init ==
    /\ server \in {Empty, [Empty EXCEPT !.pair = Pairs("large", "high"), !.repo = 1, !.prs = TRUE, !.drafts = "true"]}
    /\ cache = Empty /\ loaded = FALSE /\ get = NoGet /\ options = FALSE
    /\ page = "none" /\ initialized = FALSE /\ form = EmptyForm
    /\ saves = {} /\ error = FALSE
    /\ wanted = server /\ failed = FALSE /\ crossed = FALSE /\ premature = FALSE /\ clicks = 0

Click == clicks < MaxClicks /\ clicks' = clicks + 1

----------------------------------------------------------------------------
Or(a, b) == IF a = Unset THEN b ELSE a
fallbackModel == IF options THEN TeamModel ELSE Unset
fallbackEffort == IF options THEN TeamEffort ELSE Unset

(* Mutant: a field is forgotten and falls back to its default.              *)
MutBuildProfileUpdate ==
    [pair |-> [r \in Roles |->
        [model |-> Or(cache.pair[r].model, Or(cache.pair["agent"].model, fallbackModel)),
         effort |-> Or(cache.pair[r].effort, Or(cache.pair["agent"].effort, fallbackEffort))]],
     repo |-> cache.repo, prs |-> FALSE, drafts |-> cache.drafts]

(* buildProfileUpdate before the patch: the cached profile, if there is     *)
(* one, else the defaults.                                                  *)
buildProfileUpdate ==
    [pair |-> [r \in Roles |->
        [model |-> Or(cache.pair[r].model, Or(cache.pair["agent"].model, fallbackModel)),
         effort |-> Or(cache.pair[r].effort, Or(cache.pair["agent"].effort, fallbackEffort))]],
     repo |-> cache.repo, prs |-> cache.prs, drafts |-> cache.drafts]

(* The form takes the profile's values once there is a model for it.        *)
Filled(c, o) ==
    LET first == IF o THEN TeamModel ELSE Unset
        effort == IF o THEN TeamEffort ELSE Unset
    IN [pair |-> [r \in Roles |->
          [model |-> Or(c.pair[r].model, Or(c.pair["agent"].model, first)),
           effort |-> Or(c.pair[r].effort, Or(c.pair["agent"].effort, effort))]],
        repo |-> c.repo]
MayFill(c, l, o) == l /\ (c.pair["agent"].model # Unset \/ o)

(* currentModel and currentSubagentModel: the chosen model, or the first.   *)
currentModel(f, r) == IF f.pair[r].model = Unset THEN Models[1] ELSE f.pair[r].model

(* Mutant: the effort is kept when the model changes.                       *)
MutSnap(f, o) == f

(* The effects that give up an effort which the current model has not.      *)
Snap(f, o) ==
    IF ~o THEN f
    ELSE [f EXCEPT !.pair = [r \in Roles |->
            IF f.pair[r].effort \in Efforts[currentModel(f, r)] THEN f.pair[r]
            ELSE [f.pair[r] EXCEPT !.effort = DefaultEffort[currentModel(f, r)]]]]

(* The effects of the cloud-agents page after any change.                   *)
Effects(f, c, l, o) ==
    /\ initialized' = (initialized \/ MayFill(c, l, o))
    /\ form' = Snap(IF ~initialized /\ MayFill(c, l, o) THEN Filled(c, o) ELSE f, o)
Elsewhere == UNCHANGED <<initialized, form>>
EffectsIfThere(c, l, o) == IF page = "cloud-agents" THEN Effects(form, c, l, o) ELSE Elsewhere

----------------------------------------------------------------------------
(* The query for the profile asks when a page is mounted and what is cached *)
(* is old; a save does not cancel it.                                       *)
AskProfile ==
    /\ page # "none" /\ get.stage = "idle"
    /\ get' = [get EXCEPT !.stage = "asked"]
    /\ UNCHANGED <<server, cache, loaded, options, page, initialized, form, saves, error, ghosts, clicks>>

AnswerProfile ==
    /\ get.stage = "asked"
    /\ get' \in {[stage |-> "answered", data |-> server], NoGet}
    /\ UNCHANGED <<server, cache, loaded, options, page, initialized, form, saves, error, ghosts, clicks>>

LoadProfile ==
    /\ get.stage = "answered" /\ get' = NoGet
    /\ cache' = get.data /\ loaded' = TRUE
    /\ EffectsIfThere(get.data, TRUE, options)
    /\ UNCHANGED <<server, options, page, saves, error, ghosts, clicks>>

LoadOptions ==
    /\ ~options /\ options' = TRUE
    /\ EffectsIfThere(cache, loaded, TRUE)
    /\ UNCHANGED <<server, cache, loaded, get, page, saves, error, ghosts, clicks>>

Visit(p) ==
    /\ Click /\ page # p
    /\ page' = p
    /\ IF p = "cloud-agents"
         THEN /\ initialized' = MayFill(cache, loaded, options)
              /\ form' = Snap(IF MayFill(cache, loaded, options) THEN Filled(cache, options) ELSE EmptyForm, options)
         ELSE initialized' = FALSE /\ form' = EmptyForm
    /\ error' = FALSE
    /\ saves' = {[s EXCEPT !.here = FALSE] : s \in saves}
    /\ UNCHANGED <<data, ghosts>>

(* save.isPending: that of the page's own last save.                        *)
Pending == \E s \in saves : s.here /\ s.last

(* A save is sent, of what the page knows and of the fields it changes.     *)
Send(body, want) ==
    /\ Cardinality(saves) < 2
    /\ saves' = {[s EXCEPT !.last = FALSE] : s \in saves}
                \cup {[body |-> body, here |-> TRUE, last |-> TRUE, stored |-> FALSE, n |-> clicks]}
    /\ wanted' = want
    /\ crossed' = (crossed \/ saves # {} \/ ~loaded \/ cache # server)
    /\ error' = FALSE /\ UNCHANGED failed

(* toChoice and fromChoice: review_draft_prs is null, true or false.        *)
Choices == {"team_default", "always_on", "always_off"}
fromChoice(c) == IF c = "always_on" THEN "true" ELSE IF c = "always_off" THEN "false" ELSE "null"
toChoice(v) == IF v = "true" THEN "always_on" ELSE IF v = "false" THEN "always_off" ELSE "team_default"

(* The select of my-settings.                                               *)
handleDraftChoiceChange(c) ==
    /\ Click /\ page = "my-settings" /\ loaded /\ ~Pending
    /\ c # toChoice(cache.drafts)
    /\ Send([buildProfileUpdate EXCEPT !.drafts = fromChoice(c)], [wanted EXCEPT !.drafts = fromChoice(c)])
    /\ UNCHANGED <<data, page, initialized, form, premature>>

(* The switch of cloud-agents, which is never disabled.                     *)
SwitchPrs ==
    /\ Click /\ page = "cloud-agents"
    /\ LET on == ~(loaded /\ cache.prs) IN
       Send([buildProfileUpdate EXCEPT !.prs = on], [wanted EXCEPT !.prs = on])
    /\ UNCHANGED <<data, page, initialized, form, premature>>

(* The form: its selects offer the models and the current model's efforts.  *)
PickModel(r, m) ==
    /\ Click /\ page = "cloud-agents" /\ options
    /\ Effects([form EXCEPT !.pair[r].model = m], cache, loaded, options)
    /\ UNCHANGED <<data, page, saves, error, ghosts>>

PickEffort(r, e) ==
    /\ Click /\ page = "cloud-agents" /\ options /\ e \in Efforts[currentModel(form, r)]
    /\ Effects([form EXCEPT !.pair[r].effort = e], cache, loaded, options)
    /\ UNCHANGED <<data, page, saves, error, ghosts>>

TypeRepo(n) ==
    /\ Click /\ page = "cloud-agents"
    /\ Effects([form EXCEPT !.repo = n], cache, loaded, options)
    /\ UNCHANGED <<data, page, saves, error, ghosts>>

persistDefaults ==
    /\ Click /\ page = "cloud-agents" /\ ~Pending
    /\ Send([buildProfileUpdate EXCEPT !.pair = form.pair, !.repo = form.repo],
            [wanted EXCEPT !.pair = form.pair, !.repo = form.repo])
    /\ premature' = (premature \/ ~initialized)
    /\ UNCHANGED <<data, page, initialized, form>>

(* The API stores the profile, and its answer becomes the cached one; or    *)
(* the request fails, or only its answer gets lost.                         *)
Store(s) ==
    /\ s \in saves /\ ~s.stored
    /\ server' = s.body
    /\ saves' = (saves \ {s}) \cup {[s EXCEPT !.stored = TRUE]}
    /\ UNCHANGED <<cache, loaded, get, options, page, initialized, form, error, ghosts, clicks>>

Saved(s) ==
    /\ s \in saves /\ s.stored
    /\ cache' = s.body /\ loaded' = TRUE
    /\ saves' = saves \ {s}
    /\ EffectsIfThere(s.body, TRUE, options)
    /\ UNCHANGED <<server, get, options, page, error, ghosts, clicks>>

SaveFails(s) ==
    /\ s \in saves
    /\ saves' = saves \ {s}
    /\ error' = s.here
    /\ failed' = TRUE
    /\ UNCHANGED <<data, page, initialized, form, wanted, crossed, premature, clicks>>

Next ==
    \/ AskProfile \/ AnswerProfile \/ LoadProfile \/ LoadOptions \/ SwitchPrs \/ persistDefaults
    \/ \E p \in {"my-settings", "cloud-agents"} : Visit(p)
    \/ (\E c \in Choices : handleDraftChoiceChange(c)) \/ \E n \in 0..1 : TypeRepo(n)
    \/ \E r \in Roles : (\E m \in ModelIds : PickModel(r, m)) \/ (\E e \in EffortIds : PickEffort(r, e))
    \/ \E s \in saves : Store(s) \/ Saved(s) \/ SaveFails(s)

Spec == Init /\ [][Next]_vars

----------------------------------------------------------------------------
TypeOK ==
    /\ page \in {"none", "my-settings", "cloud-agents"}
    /\ \A x \in {server, cache, form} : DOMAIN x.pair = Roles
    /\ {loaded, options, initialized, error, failed, crossed, premature} \subseteq BOOLEAN
    /\ Cardinality(saves) <= 2 /\ clicks \in 0..MaxClicks

(* What the user chose is stored, on whichever page, if no save failed.     *)
Keeps(x) ==
    /\ x.prs = wanted.prs /\ x.drafts = wanted.drafts /\ x.repo = wanted.repo
    /\ \A r \in Roles : wanted.pair[r].model # Unset => x.pair[r] = wanted.pair[r]

(* "Individual pages can mutate one field without losing values managed by  *)
(* other pages": once all saves are answered, the stored profile has every  *)
(* value that the user chose, on either page.                               *)
FieldsKept == saves = {} /\ ~failed => Keeps(server)

(* It does for saves that are made one after another by a page that knows   *)
(* the stored profile, of a form that was filled: nothing is lost between   *)
(* the two pages, the form, its effects and what the API answered before,   *)
(* however late.                                                            *)
SerialKeeps == ~crossed /\ ~premature => FieldsKept

(* A profile whose form was only saved when filled never stores an effort   *)
(* that its model does not have, although models, efforts and the options   *)
(* change under each other's effects, saves overlap or fail and late        *)
(* answers put an older profile back into the cache.                        *)
EffortFits ==
    ~premature => \A s \in saves : \A r \in Roles :
        s.body.pair[r].model # Unset => s.body.pair[r].effort \in Efforts[s.body.pair[r].model]

----------------------------------------------------------------------------
(* Why they hold.  Profiles, the form and the saves that are on their way.  *)
Pair == [model : ModelIds \cup {Unset}, effort : EffortIds \cup {Unset}]
Profiles == [pair : [Roles -> Pair], repo : 0..1, prs : BOOLEAN, drafts : {"null", "true", "false"}]
FormFields == [pair : [Roles -> Pair], repo : 0..1]
Saves == [body : Profiles, here : BOOLEAN, last : BOOLEAN, stored : BOOLEAN, n : Nat]
Fields ==
    /\ server \in Profiles /\ cache \in Profiles /\ wanted \in Profiles
    /\ get \in [stage : {"idle", "asked", "answered"}, data : Profiles]
    /\ form \in FormFields
    /\ saves \subseteq Saves

(* A form that was filled names its models; one that was not, names nothing *)
(* before the options are there and is filled with the profile after.       *)
FormNames ==
    /\ initialized => page = "cloud-agents" /\ \A r \in Roles : form.pair[r].model # Unset
    /\ ~initialized /\ ~options => form.pair = EmptyForm.pair
    /\ page = "cloud-agents" /\ loaded /\ options => initialized

(* An effort is one of its model's, and there is none without a model.      *)
FitsPair(p) == IF p.model = Unset THEN p.effort = Unset ELSE p.effort \in Efforts[p.model]
Fits(x) == \A r \in Roles : FitsPair(x.pair[r])
AllFit ==
    ~premature =>
        /\ Fits(server) /\ Fits(cache) /\ Fits(get.data) /\ \A s \in saves : Fits(s.body)
        /\ \A r \in Roles : form.pair[r].model # Unset => FitsPair(form.pair[r])

(* While no saves cross or fail, there is one at a time, and it carries     *)
(* what the user wants.                                                     *)
OneSave ==
    ~crossed /\ ~failed /\ ~premature =>
        /\ \A s, t \in saves : s = t
        /\ saves = {} => Keeps(server)
        /\ \A s \in saves : Keeps(s.body) /\ (s.stored => server = s.body)

SavesFinite == IsFiniteSet(saves)
Inv == TypeOK /\ SavesFinite /\ Fields /\ FormNames /\ AllFit /\ OneSave
=============================================================================

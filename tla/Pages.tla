------------------------------- MODULE Pages -------------------------------
(***************************************************************************)
(* The parts of the dashboard around the threads, which share no state:    *)
(* panels, settings pages, editors, the transcript and the prompt bar of a *)
(* thread, and the desktop's. A behaviour exercises one of them, so that   *)
(* their states add up instead of multiplying; the others rest in an       *)
(* initial state.                                                          *)
(***************************************************************************)
EXTENDS Integers, Sequences, FiniteSets

CONSTANTS
    Null, NoPath,                                   \* null of a selection
    TreePaths,                                      \* FileTree
    PullThreads, Edits, PrFiles,                    \* GitPanel
    MinWidth, MaxWidth, DefaultWidth, MaxDrag,      \* PanelLayout
    TeamRoles, Providers, MaxRepos, PageSize,       \* TeamSettings, TeamAccess
    Projects, Periods, MaxMoves,                    \* AzurePages
    PromptRepos, NoRepo, Prompts,                   \* RepoPrompts
    Ids, Presets, Daily, Others, Repos, Supported, Retired, First,  \* Automations
    Queued, MaxDrafts, MaxImages,                   \* Composer
    Sessions, ProjectOf, NoFolder, Commands, FileCount, MaxRequests,   \* PromptBar
    Tools, Outcomes, MaxMessages, MaxCalls,         \* Transcript
    MaxClicks, MaxLoginClicks, MaxBarClicks         \* bounds on what the user does

(* Widths are whole numbers of pixels, in the order of the constants of the *)
(* two panels.                                                              *)
ASSUME WidthAssumption ==
    /\ MinWidth \in Int /\ MaxWidth \in Int /\ DefaultWidth \in MinWidth..MaxWidth
    /\ MaxDrag \in Nat

(* A path has at least one name.                                            *)
IsPath(p) == p \in Seq({p[i] : i \in DOMAIN p}) /\ p # <<>>
ASSUME PathAssumption == \A p \in PrFiles \cup UNION Edits : IsPath(p)

(* A changed file of the ported panel has a path of names, which are        *)
(* numbers; there are finitely many.                                        *)
ASSUME TreeAssumption == IsFiniteSet(TreePaths) /\ \A p \in TreePaths : p \in Seq(Int) /\ p # <<>>

(* Names of projects are strings.                                           *)
ASSUME ProjectAssumption == Projects \in Seq(STRING)

(* A page of repositories has room for one.                                 *)
ASSUME PageAssumption == MaxRepos \in Nat /\ PageSize \in Nat \ {0}

(* No repository is called null.                                            *)
ASSUME RepoAssumption == NoRepo \notin PromptRepos

(* Follow-ups that were queued before are none of the drafts.               *)
ASSUME QueuedAssumption ==
    /\ \A q \in Queued : q[1] \in Int /\ q[1] < 0
    /\ MaxDrafts \in Nat /\ MaxImages \in Nat

(* The default trigger is a preset and the first model is offered; null and *)
(* the empty expression are no trigger, repository or model.                *)
ASSUME AutomationAssumption ==
    /\ Daily \in Presets /\ First \in Supported
    /\ Null \notin Presets \cup Others \cup Repos /\ Null \notin Supported /\ Null \notin Ids
    /\ "" \notin Presets \cup Others \cup Repos \cup {Null}

(* The bounds are numbers.                                                  *)
ASSUME BoundAssumption ==
    /\ MaxMoves \in Nat /\ MaxClicks \in Nat /\ MaxLoginClicks \in Nat /\ MaxBarClicks \in Nat
    /\ MaxCalls \in Nat

VARIABLES
    focus,
    diffs, listed, explorer, selected, expanded, folded, toggled,
    thread, pr, edits, prDiff, prSeen, collapsed, fullScreen, tabs, selectedTreePath, closed, news,
    side, mobile, width, layoutCollapsed, storedWidth, storedCollapsed, drag,
    server, cache, loaded, get, options, page, initialized, form, saves, error, wanted, saveFailed, crossed,
    premature, clicks,
    stored, teamCache, teamLoaded, models, shown, draft, saving, pending, teamError, failed, teamClicks,
    connected, accessCache, typed, requests, settled, total, accessPage, enabled, shownEnabled, toggling,
    switched, accessClicks,
    azurePage, projects, project, history, answers, refused, wentBack, moves,
    cookie, session, fetch, token, route, open, leaving, loginStored, systemDark, theme, dark, out, crossing,
    revived, missed, loginClicks,
    panel, reposServer, list, detail, listAsked, asked, reposSelected, reposDraft, addRepo, seen, calls,
    origin, behind, reposClicks,
    autoServer, autoList, autoListAsked, autoOptions, profileDefault, teamDefault, autoPage, editing,
    autoForm, menu, query, autoCalls, off, autoClicks,
    value, composerTyped, images, reading, pointer, composerLeaving, dragDepth, isDragOver, queuedMenuOpen,
    actions, sends, run, queue, stopping, before, kept, resumed, sent, raced, composerClicks,
    barSession, drafts, commandSelectedIndex, fileSelectedIndex, projectFiles, filesLoading, listing,
    barPending, barAsked, approvalSelectedIndex, barMenu, permissionMode, decided, moved, barClicks,
    messages, assembled, results, artifacts, subagent

Tree == INSTANCE FileTree WITH Paths <- TreePaths
Git == INSTANCE GitPanel WITH Threads <- PullThreads
Layout == INSTANCE PanelLayout WITH Min <- MinWidth, Max <- MaxWidth, Default <- DefaultWidth,
    collapsed <- layoutCollapsed
Profile == INSTANCE ProfilePages WITH failed <- saveFailed
Team == INSTANCE TeamSettings WITH Roles <- TeamRoles, cache <- teamCache, loaded <- teamLoaded,
    error <- teamError, clicks <- teamClicks
Access == INSTANCE TeamAccess WITH cache <- accessCache, page <- accessPage, clicks <- accessClicks
Azure == INSTANCE AzurePages WITH page <- azurePage
Login == INSTANCE Session WITH MaxClicks <- MaxLoginClicks, stored <- loginStored, clicks <- loginClicks
RepoEditors == INSTANCE RepoPrompts WITH Repos <- PromptRepos, server <- reposServer,
    selected <- reposSelected, draft <- reposDraft, clicks <- reposClicks
Automation == INSTANCE Automations WITH server <- autoServer, list <- autoList, listAsked <- autoListAsked,
    options <- autoOptions, page <- autoPage, form <- autoForm, calls <- autoCalls, clicks <- autoClicks
Compose == INSTANCE Composer WITH typed <- composerTyped, leaving <- composerLeaving, clicks <- composerClicks
Bar == INSTANCE PromptBar WITH MaxClicks <- MaxBarClicks, session <- barSession, pending <- barPending,
    asked <- barAsked, menu <- barMenu, clicks <- barClicks
Turns == INSTANCE Transcript

treeVars == <<diffs, listed, explorer, selected, expanded, folded, toggled>>
gitVars == <<thread, pr, edits, prDiff, prSeen, collapsed, fullScreen, tabs, selectedTreePath, closed, news>>
layoutVars == <<side, mobile, width, layoutCollapsed, storedWidth, storedCollapsed, drag>>
profileVars == <<server, cache, loaded, get, options, page, initialized, form, saves, error, wanted,
    saveFailed, crossed, premature, clicks>>
teamVars == <<stored, teamCache, teamLoaded, models, shown, draft, saving, pending, teamError, failed,
    teamClicks>>
accessVars == <<connected, accessCache, typed, requests, settled, total, accessPage, enabled, shownEnabled,
    toggling, switched, accessClicks>>
azureVars == <<azurePage, projects, project, history, answers, refused, wentBack, moves>>
loginVars == <<cookie, session, fetch, token, route, open, leaving, loginStored, systemDark, theme, dark, out,
    crossing, revived, missed, loginClicks>>
reposVars == <<panel, reposServer, list, detail, listAsked, asked, reposSelected, reposDraft, addRepo, seen,
    calls, origin, behind, reposClicks>>
autoVars == <<autoServer, autoList, autoListAsked, autoOptions, profileDefault, teamDefault, autoPage,
    editing, autoForm, menu, query, autoCalls, off, autoClicks>>
composerVars == <<value, composerTyped, images, reading, pointer, composerLeaving, dragDepth, isDragOver,
    queuedMenuOpen, actions, sends, run, queue, stopping, before, kept, resumed, sent, raced, composerClicks>>
barVars == <<barSession, drafts, commandSelectedIndex, fileSelectedIndex, projectFiles, filesLoading, listing,
    barPending, barAsked, approvalSelectedIndex, barMenu, permissionMode, decided, moved, barClicks>>
transcriptVars == <<messages, assembled, results, artifacts, subagent>>
vars == <<focus, treeVars, gitVars, layoutVars, profileVars, teamVars, accessVars, azureVars, loginVars,
    reposVars, autoVars, composerVars, barVars, transcriptVars>>

Init ==
    /\ focus \in {"tree", "git", "layout", "profile", "team", "access", "azure", "login", "repos", "auto",
        "composer", "bar", "transcript"}
    /\ Tree!Init
    /\ Git!Init /\ (focus # "git" => thread = (CHOOSE t \in PullThreads : TRUE) /\ pr = {})
    /\ Layout!Init /\ (focus # "layout" => side = 1 /\ ~mobile /\ storedWidth = Layout!NaN)
    /\ Profile!Init /\ (focus # "profile" => server = Profile!Empty)
    /\ Team!Init
    /\ Access!Init /\ (focus # "access" => connected = {} /\ total = 0)
    /\ Azure!Init /\ (focus # "azure" => azurePage = "review")
    /\ Login!Init /\ (focus # "login" => cookie = "none" /\ route = "login" /\ loginStored = "system" /\ ~systemDark)
    /\ RepoEditors!Init /\ (focus # "repos" => panel = "styles" /\ reposServer = RepoEditors!Missing)
    /\ Automation!Init /\ (focus # "auto" => profileDefault = Null /\ teamDefault = First /\ autoServer[Automation!One] = CHOOSE r \in Automation!Records : TRUE)
    /\ Compose!Init
    /\ Bar!Init /\ (focus # "bar" => barSession = CHOOSE s \in Sessions : TRUE)
    /\ Turns!Init

Next ==
    \/ focus = "tree" /\ Tree!Next /\ UNCHANGED <<focus, gitVars, layoutVars, profileVars, teamVars,
            accessVars, azureVars, loginVars, reposVars, autoVars, composerVars, barVars, transcriptVars>>
    \/ focus = "git" /\ Git!Next /\ UNCHANGED <<focus, treeVars, layoutVars, profileVars, teamVars,
            accessVars, azureVars, loginVars, reposVars, autoVars, composerVars, barVars, transcriptVars>>
    \/ focus = "layout" /\ Layout!Next /\ UNCHANGED <<focus, treeVars, gitVars, profileVars, teamVars,
            accessVars, azureVars, loginVars, reposVars, autoVars, composerVars, barVars, transcriptVars>>
    \/ focus = "profile" /\ Profile!Next /\ UNCHANGED <<focus, treeVars, gitVars, layoutVars, teamVars,
            accessVars, azureVars, loginVars, reposVars, autoVars, composerVars, barVars, transcriptVars>>
    \/ focus = "team" /\ Team!Next /\ UNCHANGED <<focus, treeVars, gitVars, layoutVars, profileVars,
            accessVars, azureVars, loginVars, reposVars, autoVars, composerVars, barVars, transcriptVars>>
    \/ focus = "access" /\ Access!Next /\ UNCHANGED <<focus, treeVars, gitVars, layoutVars, profileVars,
            teamVars, azureVars, loginVars, reposVars, autoVars, composerVars, barVars, transcriptVars>>
    \/ focus = "azure" /\ Azure!Next /\ UNCHANGED <<focus, treeVars, gitVars, layoutVars, profileVars,
            teamVars, accessVars, loginVars, reposVars, autoVars, composerVars, barVars, transcriptVars>>
    \/ focus = "login" /\ Login!Next /\ UNCHANGED <<focus, treeVars, gitVars, layoutVars, profileVars,
            teamVars, accessVars, azureVars, reposVars, autoVars, composerVars, barVars, transcriptVars>>
    \/ focus = "repos" /\ RepoEditors!Next /\ UNCHANGED <<focus, treeVars, gitVars, layoutVars, profileVars,
            teamVars, accessVars, azureVars, loginVars, autoVars, composerVars, barVars, transcriptVars>>
    \/ focus = "auto" /\ Automation!Next /\ UNCHANGED <<focus, treeVars, gitVars, layoutVars, profileVars,
            teamVars, accessVars, azureVars, loginVars, reposVars, composerVars, barVars, transcriptVars>>
    \/ focus = "composer" /\ Compose!Next /\ UNCHANGED <<focus, treeVars, gitVars, layoutVars, profileVars,
            teamVars, accessVars, azureVars, loginVars, reposVars, autoVars, barVars, transcriptVars>>
    \/ focus = "bar" /\ Bar!Next /\ UNCHANGED <<focus, treeVars, gitVars, layoutVars, profileVars, teamVars,
            accessVars, azureVars, loginVars, reposVars, autoVars, composerVars, transcriptVars>>
    \/ focus = "transcript" /\ Turns!Next /\ UNCHANGED <<focus, treeVars, gitVars, layoutVars, profileVars,
            teamVars, accessVars, azureVars, loginVars, reposVars, autoVars, composerVars, barVars>>

Spec == Init /\ [][Next]_vars

(* Every part keeps its types, and a part of the page that is not rendered  *)
(* keeps no state (folded cards and sections, expanded directories).        *)
TypeOK ==
    /\ focus = "tree" => Tree!TypeOK
    /\ focus = "git" => Git!TypeOK
    /\ focus = "layout" => Layout!TypeOK
    /\ focus = "profile" => Profile!TypeOK
    /\ focus = "team" => Team!TypeOK
    /\ focus = "access" => Access!TypeOK
    /\ focus = "azure" => Azure!TypeOK
    /\ focus = "login" => Login!TypeOK
    /\ focus = "repos" => RepoEditors!TypeOK
    /\ focus = "auto" => Automation!TypeOK
    /\ focus = "bar" => Bar!TypeOK
    /\ focus = "composer" => Compose!TypeOK
    /\ focus = "transcript" => Turns!TypeOK

(* The changed files: the panel's tree has one row for each and reveals the *)
(* selected one; the thread's panel opens by itself for a new pull request  *)
(* only, and its tree names each file once.  See FileTree and GitPanel.     *)
FilesShown ==
    /\ focus = "tree" => Tree!SelectionRevealed /\ Tree!RowsComplete
    /\ focus = "git" => Git!OpensForNews /\ Git!TreePathsDistinct

(* What localStorage holds is what the screen shows: the width of a panel,  *)
(* and the theme by the system's preference.  See PanelLayout and Session.  *)
LayoutKept ==
    /\ focus = "layout" => Layout!WidthRestored
    /\ focus = "login" => Login!ThemeShown

(* Saves that neither cross nor meet an outdated page keep what was chosen  *)
(* on either page, and an effort that is saved is one its model has, saves  *)
(* that cross or fail and late answers included: see ProfilePages.          *)
ProfileKept == focus = "profile" => Profile!SerialKeeps /\ Profile!EffortFits

(* "So individual pages can mutate one field without losing values managed  *)
(* by other pages": see ProfilePages, and MCProfileLost for the saves that  *)
(* do lose them.                                                            *)
FieldsKept == focus = "profile" => Profile!FieldsKept

(* The pickers of the team's defaults show what is saved: see TeamSettings. *)
PickersShowSettings == focus = "team" => Team!PickersShowSettings

(* A request that was alone and answered makes the page show what is stored *)
(* of the providers, whatever failed or crossed before it, and no page of   *)
(* repositories is empty: see TeamAccess.                                   *)
AccessShown == focus = "access" => Access!AccessShown /\ Access!PageNotEmpty

(* The project on display is the one the address names: see AzurePages.     *)
UrlNamesProject == focus = "azure" => Azure!UrlNamesProject

(* Only the answer to a request that was sent before the logout can undo    *)
(* it: see Session.                                                         *)
SignedOutStaysOut == focus = "login" => Login!SignedOutStaysOut

(* The draft in a prompt editor was set for the repository that is          *)
(* selected, and the prompt that is shown settles on the server's: see      *)
(* RepoPrompts.                                                             *)
PromptsOfRepo == focus = "repos" => RepoEditors!DraftIsOfRepo /\ RepoEditors!PromptConverges

(* A schedule is saved as the editor showed it, with a model that is        *)
(* offered, and its trigger can be read or typed unless its text was        *)
(* emptied: see Automations.                                                *)
SavedAsShown == focus = "auto" => Automation!SavedAsShown /\ Automation!SavedModelSupported /\ Automation!TriggerEditable

(* A draft is sent once, and the overlay for dragged files is there while   *)
(* they are dragged over the bar: see Composer.                             *)
DraftSentOnce == focus = "composer" => Compose!DraftSentOnce /\ Compose!OverlayFollowsPointer

(* Stopping a run starts none of the follow-ups that were queued: see       *)
(* Composer.                                                                *)
StopDiscards == focus = "composer" => Compose!StopDiscards

(* The files and the selected decision belong to the session on display:    *)
(* see PromptBar.                                                           *)
BarIsOfSession == focus = "bar" => Bar!FilesOfProject /\ Bar!SelectionIsOwn

(* The transcript shows everything once and in order, under distinct keys,  *)
(* and nothing as in progress that has returned: see Transcript.            *)
TranscriptComplete == focus = "transcript" => Turns!ItemsComplete /\ Turns!ItemsTellTheState

=============================================================================

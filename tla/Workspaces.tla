------------------------------ MODULE Workspaces ------------------------------
(***************************************************************************)
(* The workspace that chats are about.  The choice is kept in localStorage *)
(* and copied into the state of the sidebar (AgentsSidebar.tsx) and of the *)
(* home page (AgentsHome.tsx) of every tab: an event of the page tells     *)
(* those of the tab at once, the browser's storage event those of other    *)
(* tabs later.  Each tab loads the workspaces by a query of its own        *)
(* (profile.ts).  The home page starts runs for the chosen workspace, or   *)
(* for a repository if there is none.                                      *)
(***************************************************************************)
EXTENDS Integers, FiniteSets

CONSTANTS
    Tabs,
    Spaces,         \* ids of workspaces
    AzureSpaces,    \* those whose remote is Azure DevOps
    AllowNonAzure,  \* allow_nonazure_workspace of the session
    DefaultRepo,    \* whether the profile has a default repository
    MaxRuns,        \* bound on submissions
    MaxClicks       \* bound on what the user does

NoSpace == "none"
Off == "off"        \* the home page is not mounted

VARIABLES
    registered,     \* the server's workspaces
    stored,         \* SELECTED_WORKSPACE_STORAGE_KEY
    notice,         \* tabs whose storage event is still to come
    side,           \* selectedWorkspaceId of each sidebar
    home,           \* selectedWorkspaceId of each home page, or Off
    known,          \* the tab's cached workspaces
    loaded,         \* tabs whose query has data
    picking,        \* pickWorkspace: "idle", "pending" or "error"
    repoOverride,   \* "untouched", "none" or "repo"
    baseMode,
    composeError, submitting,
    started,        \* runs started: their configurable
    clicks

pages == <<side, home>>
form == <<repoOverride, baseMode, composeError, submitting>>
vars == <<registered, stored, notice, pages, known, loaded, picking, form, started, clicks>>

Click == clicks < MaxClicks /\ clicks' = clicks + 1

Init ==
    /\ registered \in SUBSET Spaces
    /\ stored \in Spaces \cup {NoSpace}
    /\ notice = {}
    /\ side = [w \in Tabs |-> stored] /\ home = [w \in Tabs |-> stored]
    /\ known = [w \in Tabs |-> {}] /\ loaded = {}
    /\ picking = [w \in Tabs |-> "idle"]
    /\ repoOverride = [w \in Tabs |-> "untouched"]
    /\ baseMode = [w \in Tabs |-> "integration"]
    /\ composeError = {} /\ submitting = {}
    /\ started = {} /\ clicks = 0

----------------------------------------------------------------------------
(* A home page that is mounted starts afresh from what is stored.           *)
Mounting(w, s) ==
    /\ home' = [home EXCEPT ![w] = s]
    /\ IF home[w] = Off
         THEN /\ repoOverride' = [repoOverride EXCEPT ![w] = "untouched"]
              /\ baseMode' = [baseMode EXCEPT ![w] = "integration"]
              /\ composeError' = composeError \ {w} /\ submitting' = submitting \ {w}
         ELSE UNCHANGED form

(* Mutant: the sidebar changes its own state, and tells nobody.             *)
MutChoose(w, s) ==
    /\ stored' = s
    /\ notice' = IF stored # s THEN notice \cup (Tabs \ {w}) ELSE notice
    /\ side' = [side EXCEPT ![w] = s]
    /\ Mounting(w, IF home[w] = Off THEN s ELSE home[w])

(* A choice is stored, the event tells the pages of the tab, and the link   *)
(* leads to the home page.  Other tabs hear of a value that is new.         *)
Choose(w, s) ==
    /\ stored' = s
    /\ notice' = IF stored # s THEN notice \cup (Tabs \ {w}) ELSE notice
    /\ side' = [side EXCEPT ![w] = s]
    /\ Mounting(w, s)

(* WorkspaceSection lists the workspaces; while none is known it offers to  *)
(* add one instead.                                                         *)
WorkspaceLinks(w) == IF w \in loaded THEN known[w] ELSE {}
AddButtons(w) == picking[w] # "pending"

SelectWorkspace(w, s) ==
    /\ Click
    /\ s \in WorkspaceLinks(w)
    /\ Choose(w, s)
    /\ UNCHANGED <<registered, known, loaded, picking, started>>

(* ChatScopeSection's link, which is always there, to the chats of none.    *)
ChatScope(w) == Choose(w, NoSpace)

(* clearWorkspaceSelection, of that link and of "Nuevo agente".             *)
clearWorkspaceSelection(w) ==
    /\ Click
    /\ ChatScope(w)
    /\ UNCHANGED <<registered, known, loaded, picking, started>>

(* Mutant: only the sidebar listens to the storage event.                   *)
MutSyncSelectedWorkspace(w) ==
    /\ w \in notice
    /\ notice' = notice \ {w}
    /\ side' = [side EXCEPT ![w] = stored]
    /\ UNCHANGED <<registered, stored, home, known, loaded, picking, form, started, clicks>>

(* The storage event: what is stored by now is read.                        *)
syncSelectedWorkspace(w) ==
    /\ w \in notice
    /\ notice' = notice \ {w}
    /\ side' = [side EXCEPT ![w] = stored]
    /\ home' = [home EXCEPT ![w] = IF @ = Off THEN Off ELSE stored]
    /\ UNCHANGED <<registered, stored, known, loaded, picking, form, started, clicks>>

(* A thread is opened, and the home page comes back by itself (a thread     *)
(* that is not there, or was deleted).                                      *)
OpenThread(w) ==
    /\ Click
    /\ home[w] # Off
    /\ home' = [home EXCEPT ![w] = Off]
    /\ UNCHANGED <<registered, stored, notice, side, known, loaded, picking, form, started>>

BackHome(w) ==
    /\ Click
    /\ home[w] = Off
    /\ Mounting(w, stored)
    /\ UNCHANGED <<registered, stored, notice, side, known, loaded, picking, started>>

(* useWorkspaces is answered, at first or after an invalidation.            *)
useWorkspaces(w) ==
    /\ known' = [known EXCEPT ![w] = registered] /\ loaded' = loaded \cup {w}
    /\ UNCHANGED <<registered, stored, notice, pages, picking, form, started, clicks>>

----------------------------------------------------------------------------
(* onPickWorkspace: one dialog of the server at a time for each tab.        *)
onPickWorkspace(w) ==
    /\ Click
    /\ AddButtons(w)
    /\ picking' = [picking EXCEPT ![w] = "pending"]
    /\ UNCHANGED <<registered, stored, notice, pages, known, loaded, form, started>>

Picked(w, s) ==
    /\ picking[w] = "pending"
    /\ picking' = [picking EXCEPT ![w] = "idle"]
    /\ registered' = registered \cup {s}
    /\ UNCHANGED <<stored, notice, pages, known, loaded, form, started, clicks>>

(* workspaceErrorLabel says why; the selection stays.                       *)
PickFails(w) ==
    /\ picking[w] = "pending"
    /\ picking' = [picking EXCEPT ![w] = "error"]
    /\ UNCHANGED <<registered, stored, notice, pages, known, loaded, form, started, clicks>>

----------------------------------------------------------------------------
(* The home page.                                                           *)
selectedWorkspace(w) == IF home[w] \in WorkspaceLinks(w) THEN home[w] ELSE NoSpace
isAzureRemote(s) == s \in AzureSpaces
workspaceNotAzure(w) ==
    selectedWorkspace(w) # NoSpace /\ ~AllowNonAzure /\ ~isAzureRemote(selectedWorkspace(w))
repo(w) ==
    /\ selectedWorkspace(w) = NoSpace
    /\ IF repoOverride[w] = "untouched" THEN DefaultRepo ELSE repoOverride[w] = "repo"

(* Mutant: the repository is sent with a workspace too.                     *)
MutConfigurable(w) ==
    LET space == selectedWorkspace(w) IN
    [repo |-> repoOverride[w] = "repo" \/ repo(w),
     none |-> space # NoSpace \/ repoOverride[w] = "none",
     space |-> space,
     base |-> IF space # NoSpace THEN baseMode[w] ELSE "unset"]

(* configurable: what the run is started with.                              *)
configurable(w) ==
    LET space == selectedWorkspace(w) IN
    [repo |-> repo(w),
     none |-> space # NoSpace \/ repoOverride[w] = "none",
     space |-> space,
     base |-> IF space # NoSpace THEN baseMode[w] ELSE "unset"]

(* Pickers of the repository, without a workspace, and of the base, with    *)
(* one that may be used.                                                    *)
SetRepo(w, r) ==
    /\ Click
    /\ home[w] # Off /\ selectedWorkspace(w) = NoSpace
    /\ repoOverride' = [repoOverride EXCEPT ![w] = r]
    /\ UNCHANGED <<registered, stored, notice, pages, known, loaded, picking, baseMode, composeError, submitting, started>>

SetBaseMode(w, mode) ==
    /\ Click
    /\ home[w] # Off /\ selectedWorkspace(w) # NoSpace /\ ~workspaceNotAzure(w)
    /\ baseMode' = [baseMode EXCEPT ![w] = mode]
    /\ UNCHANGED <<registered, stored, notice, pages, known, loaded, picking, repoOverride, composeError, submitting, started>>

(* handleSubmit refuses a workspace that is not Azure's, or submits.        *)
handleSubmit(w) ==
    /\ Click
    /\ home[w] # Off /\ w \notin submitting
    /\ IF workspaceNotAzure(w)
         THEN /\ composeError' = composeError \cup {w}
              /\ UNCHANGED <<submitting, started>>
         ELSE /\ Cardinality(started) < MaxRuns
              /\ started' = started \cup {configurable(w)}
              /\ composeError' = composeError \ {w} /\ submitting' = submitting \cup {w}
    /\ UNCHANGED <<registered, stored, notice, pages, known, loaded, picking, repoOverride, baseMode>>

(* The id is minted and the thread's page opened, or the run is refused.    *)
Minted(w) ==
    /\ w \in submitting /\ home[w] # Off
    /\ home' = [home EXCEPT ![w] = Off]
    /\ UNCHANGED <<registered, stored, notice, side, known, loaded, picking, form, started, clicks>>

SubmitFails(w) ==
    /\ w \in submitting
    /\ composeError' = composeError \cup {w} /\ submitting' = submitting \ {w}
    /\ UNCHANGED <<registered, stored, notice, pages, known, loaded, picking, repoOverride, baseMode, started, clicks>>

Next == \E w \in Tabs :
    \/ clearWorkspaceSelection(w) \/ syncSelectedWorkspace(w) \/ OpenThread(w) \/ BackHome(w)
    \/ useWorkspaces(w) \/ onPickWorkspace(w) \/ PickFails(w)
    \/ handleSubmit(w) \/ Minted(w) \/ SubmitFails(w)
    \/ \E s \in Spaces : SelectWorkspace(w, s) \/ Picked(w, s)
    \/ \E r \in {"none", "repo"} : SetRepo(w, r)
    \/ \E mode \in {"integration", "local_branch"} : SetBaseMode(w, mode)

Spec == Init /\ [][Next]_vars

----------------------------------------------------------------------------
TypeOK ==
    /\ registered \subseteq Spaces /\ stored \in Spaces \cup {NoSpace}
    /\ notice \subseteq Tabs /\ loaded \subseteq Tabs
    /\ side \in [Tabs -> Spaces \cup {NoSpace}] /\ home \in [Tabs -> Spaces \cup {NoSpace, Off}]
    /\ known \in [Tabs -> SUBSET Spaces]
    /\ picking \in [Tabs -> {"idle", "pending", "error"}]
    /\ repoOverride \in [Tabs -> {"untouched", "none", "repo"}]
    /\ baseMode \in [Tabs -> {"integration", "local_branch"}]
    /\ composeError \subseteq Tabs /\ submitting \subseteq Tabs
    /\ clicks \in 0..MaxClicks

(* Once a tab has heard of every change, its sidebar and its home page hold *)
(* the choice that is stored: no order of clicks in two tabs leaves a copy  *)
(* behind.                                                                  *)
ScopesAgree ==
    \A w \in Tabs : w \notin notice => side[w] = stored /\ home[w] \in {Off, stored}

(* A run started now is listed by the tab's sidebar, which shows only the   *)
(* chats of its workspace (or of none): the page that starts it and the     *)
(* sidebar are about the same one.  That needs the workspaces loaded and    *)
(* the chosen one among them; otherwise the run goes without a workspace    *)
(* and its chat is hidden.                                                  *)
RunFitsScope ==
    \A w \in Tabs :
        home[w] # Off /\ w \notin notice /\ home[w] \in WorkspaceLinks(w) \cup {NoSpace}
            => configurable(w).space = side[w]

(* Runs that were started never name a workspace and a repository, say      *)
(* "no repository" exactly when they may not have one, and use a workspace  *)
(* that is not Azure's only where the server allows it.                     *)
RunsWellFormed ==
    \A r \in started :
        /\ r.space # NoSpace => ~r.repo /\ r.none /\ r.base # "unset"
        /\ r.space # NoSpace => AllowNonAzure \/ r.space \in AzureSpaces
        /\ r.repo => ~r.none

(* RunFitsScope follows from the agreement of the copies, the others are    *)
(* kept by themselves.                                                      *)
Inv == TypeOK /\ ScopesAgree /\ RunsWellFormed
=============================================================================

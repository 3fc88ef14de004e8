------------------------------ MODULE Threads ------------------------------
(***************************************************************************)
(* The parts of the dashboard that show threads, which share no state in   *)
(* the models: the cached threads, the sidebar's groups, the chosen        *)
(* workspace and one thread's page. A behaviour exercises one of them, so  *)
(* that their states add up instead of multiplying; the others rest in an  *)
(* initial state. Fairness is that of the cached threads; the other parts  *)
(* have safety properties only.                                            *)
(***************************************************************************)
EXTENDS Integers, Sequences, FiniteSets

CONSTANTS
    CachedThreads, Existing, MaxMoves,                      \* ThreadCache
    Ids, TodayStart, SevenDaysAgo, ThirtyDaysAgo, Now,      \* ThreadGroups
    Tabs, Spaces, AzureSpaces, AllowNonAzure, DefaultRepo, MaxRuns, \* Workspaces
    ViewedThreads, First, Messages, ThreadOf, Text, NoText, MaxCalls,   \* ThreadView
    MaxClicks                                               \* bound on what the user does

(* The home page is no thread, and none is called none.                     *)
ASSUME ThreadAssumption == CachedThreads \cap {"home", "none"} = {}

(* The page is of a thread, and so is each follow-up.                       *)
ASSUME ViewAssumption == First \in ViewedThreads /\ ThreadOf \in [Messages -> ViewedThreads]

(* The day began within the week, and the week within the month; there are  *)
(* finitely many threads.                                                   *)
ASSUME TimeAssumption ==
    /\ IsFiniteSet(Ids) /\ Now \in Nat
    /\ {TodayStart, SevenDaysAgo, ThirtyDaysAgo} \subseteq Int
    /\ ThirtyDaysAgo <= SevenDaysAgo /\ SevenDaysAgo <= TodayStart

(* The bounds are numbers.                                                  *)
ASSUME BoundAssumption == MaxMoves \in Nat /\ MaxClicks \in Nat

VARIABLES
    focus,
    server, list, listFetch, detail, fresh, detailFetch, route, submit, created, completed, send, deleting,
    stopping, refreshing, left, moves,
    threads, folded, dialog, groupsDeleting, requests, remounted,
    registered, stored, notice, side, home, known, loaded, picking, repoOverride, baseMode, composeError,
    submitting, started, clicks,
    queue, committed, injecting, status, asked, thread, view, bubbles, resolved, lingering, calls, snapshot,
    sending, answers, directed, rolledBack, foreign, visits, viewClicks

Cache == INSTANCE ThreadCache WITH Threads <- CachedThreads
Groups == INSTANCE ThreadGroups WITH deleting <- groupsDeleting
Space == INSTANCE Workspaces
View == INSTANCE ThreadView WITH Threads <- ViewedThreads, clicks <- viewClicks

cacheVars == <<server, list, listFetch, detail, fresh, detailFetch, route, submit, created, completed, send,
    deleting, stopping, refreshing, left, moves>>
groupsVars == <<threads, folded, dialog, groupsDeleting, requests, remounted>>
spaceVars == <<registered, stored, notice, side, home, known, loaded, picking, repoOverride, baseMode,
    composeError, submitting, started, clicks>>
viewVars == <<queue, committed, injecting, status, asked, thread, view, bubbles, resolved, lingering, calls,
    snapshot, sending, answers, directed, rolledBack, foreign, visits, viewClicks>>
vars == <<focus, cacheVars, groupsVars, spaceVars, viewVars>>

Init ==
    /\ focus \in {"cache", "groups", "space", "view"}
    /\ Cache!Init
    /\ Groups!Init
    /\ Space!Init /\ (focus # "space" => registered = {} /\ stored = "none")
    /\ View!Init

Next ==
    \/ focus = "cache" /\ Cache!Next /\ UNCHANGED <<focus, groupsVars, spaceVars, viewVars>>
    \/ focus = "groups" /\ Groups!Next /\ UNCHANGED <<focus, cacheVars, spaceVars, viewVars>>
    \/ focus = "space" /\ Space!Next /\ UNCHANGED <<focus, cacheVars, groupsVars, viewVars>>
    \/ focus = "view" /\ View!Next /\ UNCHANGED <<focus, cacheVars, groupsVars, spaceVars>>

Spec == Init /\ [][Next]_vars /\ Cache!Fairness

(* Every part keeps its types.                                              *)
TypeOK ==
    /\ focus = "cache" => Cache!TypeOK
    /\ focus = "groups" => Groups!TypeOK
    /\ focus = "space" => Space!TypeOK
    /\ focus = "view" => View!TypeOK

(* A thread that was just created is never taken for one that does not      *)
(* exist: see ThreadCache.                                                  *)
NoBounce == focus = "cache" => Cache!NoBounce

(* The list of threads settles on the server's: see ThreadCache.            *)
ListSettles == Cache!ListSettles

(* The page of a deleted thread is left: see ThreadCache.                   *)
DeletedIsLeft == Cache!DeletedIsLeft

(* Each thread has one row in one group of the sidebar, and one dialog      *)
(* deletes it once: see ThreadGroups.                                       *)
RowsComplete == focus = "groups" => Groups!GroupsComplete /\ Groups!DeletedOnce

(* Sidebar and home page of every tab agree on the workspace once the       *)
(* events have arrived, and a run is started for the one on display: see    *)
(* Workspaces.                                                              *)
ScopeKept == focus = "space" => Space!ScopesAgree /\ Space!RunFitsScope /\ Space!RunsWellFormed

(* A directed follow-up "never vanishes from the queue into a void": see    *)
(* ThreadView, and MCThreadsVanished for the failing refresh it vanishes    *)
(* with.                                                                    *)
DirectedNeverVanishes == focus = "view" => View!DirectedNeverVanishes

(* A follow-up that was directed to the run stays on the screen until the   *)
(* transcript has it, the rows are those of the thread on display, and a    *)
(* pause of the agent is answered once: see ThreadView.                     *)
PageTellsTheThread == focus = "view" => View!DirectedStaysVisible /\ View!QueueIsOwn /\ View!AnsweredOnce

=============================================================================

------------------------------ MODULE AzurePages ------------------------------
(***************************************************************************)
(* The two pages that show an Azure DevOps project: its usage (routes/     *)
(* usage.tsx) and its pull requests (routes/review.tsx).  The project is   *)
(* state of the page; the usage page also writes it and the period to the  *)
(* URL, reads the project from there once, and the period always.          *)
(***************************************************************************)
EXTENDS Integers, Sequences, FiniteSets, Functions

CONSTANTS
    Projects,   \* their names, in the order of the list
    Periods,    \* periods that may be asked for, a wrong one too
    MaxMoves    \* bound on navigations

NoProject == "none"
NoPeriod == "unset"
Search(p, d) == [project |-> p, period |-> d]

VARIABLES
    page,       \* "usage" or "review"
    projects,   \* "loading", "there" or "refused"
    project,    \* the state of the page
    history,    \* URLs of the usage page, the current one last
    answers,    \* what was loaded, by project and period
    refused,    \* the last answer was 401 or 403
    wentBack,   \* ghost
    moves

vars == <<page, projects, project, history, answers, refused, wentBack, moves>>

search == history[Len(history)]

Init ==
    /\ page \in {"usage", "review"}
    /\ projects = "loading"
    /\ history \in IF page = "usage"
                     THEN {<<Search(p, d)>> : p \in Range(Projects) \cup {NoProject}, d \in Periods \cup {NoPeriod}}
                     ELSE {<<Search(NoProject, NoPeriod)>>}
    /\ project = search.project
    /\ answers = {} /\ refused = FALSE
    /\ wentBack = FALSE /\ moves = 0

Move == moves < MaxMoves /\ moves' = moves + 1

----------------------------------------------------------------------------
(* activePeriod: that of the URL, if it is one.                             *)
activePeriod == IF page = "usage" /\ search.period \in {"7d", "all"} THEN search.period ELSE "30d"

(* The query of the page: for its project, once there is one.               *)
key == <<project, activePeriod>>

(* Mutant: the first project takes the place of any other.                  *)
MutDefaultProject(loaded) == IF loaded THEN Projects[1] ELSE project

(* The effect that chooses the first project, if there is one, once the     *)
(* list is there.                                                           *)
DefaultProject(loaded) ==
    IF project = NoProject /\ loaded /\ Projects # <<>> THEN Projects[1] ELSE project

LoadProjects(ok) ==
    /\ projects # "there"
    /\ projects' = IF ok THEN "there" ELSE "refused"
    /\ project' = DefaultProject(ok)
    /\ UNCHANGED <<page, history, answers, refused, wentBack, moves>>

Load(ok) ==
    /\ project # NoProject /\ key \notin answers
    /\ answers' = IF ok THEN answers \cup {key} ELSE answers
    /\ refused' = ~ok
    /\ UNCHANGED <<page, projects, project, history, wentBack, moves>>

notAuthorized == projects = "refused" \/ refused

(* What both pages show unless access was refused: a select with projects.  *)
ProjectSelect == ~notAuthorized /\ projects = "there"

(* The select of the project; on the usage page it also navigates.          *)
SetProject(p) ==
    /\ Move /\ ProjectSelect
    /\ project' = p
    /\ history' = IF page = "usage" THEN Append(history, Search(p, activePeriod)) ELSE history
    /\ refused' = FALSE
    /\ UNCHANGED <<page, projects, answers, wentBack>>

(* The select of the period only navigates.                                 *)
SetPeriod(d) ==
    /\ Move /\ page = "usage" /\ ~notAuthorized
    /\ history' = Append(history, Search(project, d))
    /\ refused' = FALSE
    /\ UNCHANGED <<page, projects, project, answers, wentBack>>

(* The browser's back button.  The page stays mounted.                      *)
Back ==
    /\ Move /\ Len(history) > 1
    /\ history' = SubSeq(history, 1, Len(history) - 1)
    /\ wentBack' = TRUE /\ refused' = FALSE
    /\ UNCHANGED <<page, projects, project, answers>>

(* A reload starts from the URL.                                            *)
Reload ==
    /\ Move /\ page = "usage"
    /\ history' = <<search>> /\ project' = search.project
    /\ projects' = "loading" /\ answers' = {} /\ refused' = FALSE /\ wentBack' = FALSE
    /\ UNCHANGED page

Next ==
    \/ \E ok \in BOOLEAN : LoadProjects(ok) \/ Load(ok)
    \/ \E p \in Range(Projects) : SetProject(p)
    \/ \E d \in {"7d", "30d", "all"} : SetPeriod(d)
    \/ Back \/ Reload

Spec == Init /\ [][Next]_vars

----------------------------------------------------------------------------
TypeOK ==
    /\ page \in {"usage", "review"} /\ projects \in {"loading", "there", "refused"}
    /\ project \in Range(Projects) \cup {NoProject}
    /\ history # <<>> /\ answers \subseteq Range(Projects) \X {"7d", "30d", "all"}
    /\ moves \in 0..MaxMoves

(* The URL of the usage page names what it shows, so that a reload or a     *)
(* link shows the same: the project of the URL, if it has one, is the       *)
(* page's.  (The back button alone breaks this, as the project is read from *)
(* the URL only once.)                                                      *)
UrlNamesProject ==
    page = "usage" /\ ~wentBack /\ search.project # NoProject => project = search.project

----------------------------------------------------------------------------
(* The URLs are well-formed.                                                *)
Address == [project : Range(Projects) \cup {NoProject}, period : Periods \cup {NoPeriod, "7d", "30d", "all"}]
Urls == history \in Seq(Address)

Inv == TypeOK /\ Urls /\ UrlNamesProject

=============================================================================

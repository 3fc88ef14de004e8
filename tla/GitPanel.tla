------------------------------ MODULE GitPanel ------------------------------
(***************************************************************************)
(* The git panel beside a thread (components/agents/AgentGitPanel.tsx).    *)
(* It is not unmounted when another thread is shown: what it keeps in its  *)
(* state is of the panel, not of the thread.  It shows the files of the    *)
(* pull request once they are loaded, otherwise the files that the         *)
(* thread's tool calls changed.  A path is a sequence of names.            *)
(***************************************************************************)
EXTENDS Integers, Sequences, FiniteSets, FiniteSetsExt

CONSTANTS
    Threads,
    Edits,      \* sets of files that the messages of a thread may have changed
    PrFiles,    \* files of a pull request
    NoPath      \* the null of selectedTreePath

VARIABLES
    thread,     \* the thread that is shown
    pr,         \* threads that have a pull request
    edits,      \* files changed by each thread's tool calls
    prDiff,     \* threads whose pull request's files are in the cache
    prSeen,     \* [threadId, hadPr]
    collapsed, fullScreen,
    tabs,       \* whether topTab is "git" and tab is "diff"
    selectedTreePath,
    closed,     \* sections (FileDiffSection) that are not open
    news        \* ghost: what opened or closed the panel last

vars == <<thread, pr, edits, prDiff, prSeen, collapsed, fullScreen, tabs, selectedTreePath, closed, news>>

----------------------------------------------------------------------------
(* Mutant: a file's own name counts as a directory.                         *)
MutCommonDirPrefix(S) ==
    LET first == CHOOSE p \in S : TRUE
        shared == {n \in 0..Len(first) : \A p \in S : Len(p) >= n /\ SubSeq(p, 1, n) = SubSeq(first, 1, n)}
    IN IF S = {} THEN <<>> ELSE SubSeq(first, 1, Max(shared))

(* commonDirPrefix: the directories that all the files share with the first *)
(* of them.                                                                 *)
Shared(first, S) == {n \in 0..(Len(first) - 1) : \A p \in S : Len(p) > n /\ SubSeq(p, 1, n) = SubSeq(first, 1, n)}
commonDirPrefix(S) ==
    LET first == CHOOSE p \in S : TRUE
    IN IF S = {} THEN <<>> ELSE SubSeq(first, 1, Max(Shared(first, S)))

(* files: [filePath, treePath], of the pull request or of the messages.     *)
FilesOf(loaded, edited) ==
    IF loaded
      THEN {[filePath |-> p, treePath |-> p] : p \in PrFiles}
      ELSE LET prefix == commonDirPrefix(edited) IN
           {[filePath |-> p, treePath |-> SubSeq(p, Len(prefix) + 1, Len(p))] : p \in edited}
Files(t) == FilesOf(t \in prDiff, edits[t])

(* What the markup shows: the sections, and the tree in full screen.        *)
SectionsIf(open, tab, files) ==
    IF open /\ tab = {"git", "diff"} THEN {f.filePath : f \in files} ELSE {}
Sections == SectionsIf(~collapsed, tabs, Files(thread))
Explorer == ~collapsed /\ fullScreen /\ "git" \in tabs /\ Files(thread) # {}

(* A section that is not rendered any more forgets whether it was open.     *)
Remount ==
    closed' = closed \cap SectionsIf(~collapsed', tabs', FilesOf(thread' \in prDiff', edits'[thread']))

Init ==
    /\ thread \in Threads
    /\ pr \in SUBSET Threads
    /\ edits \in [Threads -> {{}}]
    /\ prDiff = {}
    /\ prSeen = [threadId |-> thread, hadPr |-> thread \in pr]
    /\ collapsed = TRUE /\ fullScreen = FALSE /\ tabs = {"git", "diff"}
    /\ selectedTreePath = NoPath
    /\ closed = {}
    /\ news = "closed"

(* Mutant: a pull request is compared with the one of the thread before.    *)
MutRender ==
    IF prSeen.threadId # thread'
      THEN /\ prSeen' = [threadId |-> thread', hadPr |-> prSeen.hadPr]
           /\ collapsed' = TRUE
      ELSE IF thread' \in pr' /\ ~prSeen.hadPr
             THEN prSeen' = [threadId |-> thread', hadPr |-> TRUE] /\ collapsed' = FALSE
             ELSE UNCHANGED <<prSeen, collapsed>>

(* Rendering with another thread, or with a pull request not seen before.   *)
Render ==
    IF prSeen.threadId # thread'
      THEN /\ prSeen' = [threadId |-> thread', hadPr |-> thread' \in pr']
           /\ collapsed' = TRUE
      ELSE IF thread' \in pr' /\ ~prSeen.hadPr
             THEN prSeen' = [threadId |-> thread', hadPr |-> TRUE] /\ collapsed' = FALSE
             ELSE UNCHANGED <<prSeen, collapsed>>

SwitchThread(t) ==
    /\ t # thread
    /\ thread' = t
    /\ UNCHANGED <<pr, edits, prDiff, fullScreen, tabs, selectedTreePath>>
    /\ Render
    /\ news' = "closed"
    /\ Remount

(* The thread record is refetched: a pull request has been opened.          *)
PrLands(t) ==
    /\ t \notin pr
    /\ pr' = pr \cup {t}
    /\ UNCHANGED <<thread, edits, prDiff, fullScreen, tabs, selectedTreePath>>
    /\ Render
    /\ news' = IF t = thread THEN "open" ELSE news
    /\ Remount

(* useAgentThreadPrDiff answers; it is asked for the shown thread only, and *)
(* not retried when it fails.                                               *)
PrDiffLoads ==
    /\ thread \in pr \ prDiff
    /\ prDiff' = prDiff \cup {thread}
    /\ UNCHANGED <<thread, pr, edits, prSeen, collapsed, fullScreen, tabs, selectedTreePath, news>>
    /\ Remount

(* summarizeChangedFiles: later messages change further files.              *)
Edited(S) ==
    /\ edits[thread] \subseteq S
    /\ edits' = [edits EXCEPT ![thread] = S]
    /\ UNCHANGED <<thread, pr, prDiff, prSeen, collapsed, fullScreen, tabs, selectedTreePath, news>>
    /\ Remount

Expand ==
    /\ collapsed
    /\ collapsed' = FALSE /\ news' = "open"
    /\ UNCHANGED <<thread, pr, edits, prDiff, prSeen, fullScreen, tabs, selectedTreePath>>
    /\ Remount

(* The button in the panel, which is the one way that also leaves the full  *)
(* screen: switching threads collapses the panel only.                      *)
Collapse ==
    /\ ~collapsed
    /\ collapsed' = TRUE /\ fullScreen' = FALSE /\ news' = "closed"
    /\ UNCHANGED <<thread, pr, edits, prDiff, prSeen, tabs, selectedTreePath>>
    /\ Remount

ToggleFullScreen ==
    /\ ~collapsed
    /\ fullScreen' = ~fullScreen
    /\ UNCHANGED <<thread, pr, edits, prDiff, prSeen, collapsed, tabs, selectedTreePath, news>>
    /\ Remount

(* setTopTab and setTab, the latter on the git tab only.                    *)
SetTab(x, on) ==
    /\ ~collapsed
    /\ x = "diff" => "git" \in tabs
    /\ tabs' = IF on THEN tabs \cup {x} ELSE tabs \ {x}
    /\ UNCHANGED <<thread, pr, edits, prDiff, prSeen, collapsed, fullScreen, selectedTreePath, news>>
    /\ Remount

SelectTreePath(p) ==
    /\ Explorer
    /\ p \in {f.treePath : f \in Files(thread)}
    /\ selectedTreePath' = p
    /\ UNCHANGED <<thread, pr, edits, prDiff, prSeen, collapsed, fullScreen, tabs, closed, news>>

ToggleSection(p) ==
    /\ p \in Sections
    /\ closed' = SymDiff(closed, {p})
    /\ UNCHANGED <<thread, pr, edits, prDiff, prSeen, collapsed, fullScreen, tabs, selectedTreePath, news>>

AllPaths == PrFiles \cup UNION Edits
Next ==
    \/ \E t \in Threads : SwitchThread(t) \/ PrLands(t)
    \/ \E S \in Edits : Edited(S)
    \/ PrDiffLoads \/ Expand \/ Collapse \/ ToggleFullScreen
    \/ \E x \in {"git", "diff"}, on \in BOOLEAN : SetTab(x, on)
    \/ \E p \in {f.treePath : f \in Files(thread)} : SelectTreePath(p)
    \/ \E p \in AllPaths : ToggleSection(p)

Spec == Init /\ [][Next]_vars

----------------------------------------------------------------------------
TypeOK ==
    /\ thread \in Threads /\ pr \subseteq Threads /\ prDiff \subseteq pr
    /\ edits \in [Threads -> Edits \cup {{}}]
    /\ prSeen \in [threadId : Threads, hadPr : BOOLEAN]
    /\ collapsed \in BOOLEAN /\ fullScreen \in BOOLEAN
    /\ tabs \subseteq {"git", "diff"}
    /\ closed \subseteq Sections

(* "Always start collapsed; re-collapse when switching threads, and         *)
(* uncollapse when a PR lands mid-session": the panel opens by itself only  *)
(* when the shown thread's pull request appears while it is shown, never    *)
(* for one it had when it was opened, and a switch always closes it.        *)
OpensForNews == collapsed <=> news = "closed"

(* The tree names each file once: dropping the common directories never     *)
(* makes two files the same nor leaves one without a name, so that a        *)
(* selection finds its section.                                             *)
TreePathsDistinct ==
    \A t \in Threads : \A f, g \in Files(t) :
        f.treePath # <<>> /\ (f.treePath = g.treePath => f = g)

----------------------------------------------------------------------------
(* Why the first holds: what was seen of the pull request is up to date.    *)
Seen == prSeen = [threadId |-> thread, hadPr |-> thread \in pr]

Inv == TypeOK /\ Seen /\ OpensForNews
=============================================================================

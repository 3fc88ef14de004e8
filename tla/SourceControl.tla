---------------------------- MODULE SourceControl ----------------------------
(***************************************************************************)
(* The ported git panel (components/agents/ported/SourceControlTile.tsx).  *)
(* It shows the status of the repository at the active path, which it      *)
(* learns from refreshes and from a poll that never loads diffs, and lets  *)
(* the user stage, discard, commit, push and pull through window.git.      *)
(* Every call to window.git is a promise: the host fulfils it at some      *)
(* time, in any order, with what was asked for or with success: false, or  *)
(* the promise rejects; the handler goes on later, or never, as only       *)
(* refresh, the poll and loadDiffs catch a rejection.  What the markup     *)
(* shows and disables are the guards of the user's actions.                *)
(***************************************************************************)
EXTENDS Integers, FiniteSets

CONSTANTS
    Paths,      \* projects whose path the panel may be given
    Files,      \* files of a project
    MaxCalls,   \* promises in flight
    MaxMoves    \* bound on clicks, edits, switches and failures

ASSUME BoundsAreNat == MaxCalls \in Nat \ {0} /\ MaxMoves \in Nat

VARIABLES
    path,       \* the prop projectPath
    work,       \* the repositories: status of each file ...
    sync,       \* ... and of the branch against its remote
    entries,    \* the panel's copy of the status
    syncStatus, \* its copy of the branch's state
    busy,       \* which of loading, committing, pushing, pulling are set
    menu,       \* gitActionsOpen
    dialog,     \* "none", "commit" or "branch"
    toast,      \* statusMsg: 0, or the number (1 or 2) of the message
    armed,      \* timeouts that will clear statusMsg, by message
    call,       \* the promises: what was asked, where, and the answer
    rejected,   \* of commit, push and pull, those with a promise that rejected
    moves       \* clicks, edits, switches and failures so far

Calls == 1..MaxCalls
panel == <<entries, syncStatus>>
repos == <<work, sync>>
form == <<menu, dialog>>
notice == <<toast, armed>>
vars == <<path, repos, panel, busy, form, notice, call, rejected, moves>>

Statuses == {"clean", "changed", "untracked", "staged", "conflict"}
Syncs == {"even", "ahead", "behind"}
Flags == {"loading", "committing", "pushing", "pulling"}
NoEntries == [f \in Files |-> "clean"]

(* GitStatusEntry lists, categorised as the panel does.                      *)
isUntracked(s) == s = "untracked"
isConflict(s) == s = "conflict"
With(list, S) == {f \in Files : list[f] \in S}
stagedEntries == With(entries, {"staged"})
totalUnstaged == With(entries, {"changed", "untracked"})
totalChanges == With(entries, Statuses \ {"clean"})

Ops == {"idle", "refresh", "diffs", "poll", "stageAll", "discardAll", "unstageAll",
        "commit", "push", "pull", "createPR", "createBranch"}
Answers == {"none", "ok", "failed", "rejected"}
Answered(k) == k.answer \in {"ok", "failed"}
NoCall == [op |-> "idle", path |-> CHOOSE p \in Paths : TRUE, answer |-> "none", status |-> NoEntries, sync |-> "even"]
Ask(op, p) == [op |-> op, path |-> p, answer |-> "none", status |-> NoEntries, sync |-> "even"]
InFlight(op) == \E c \in Calls : call[c].op = op
Free(c) == call[c].op = "idle" /\ \A d \in 1..(c - 1) : call[d].op # "idle"
Put(c, k) == call' = [call EXCEPT ![c] = k]

(* A click of the user; the dialogs' backdrops cover everything else.       *)
Move == moves < MaxMoves /\ moves' = moves + 1
Click(c) == Move /\ Free(c) /\ dialog = "none"
CloseMenu == menu' = FALSE /\ UNCHANGED dialog

Init ==
    /\ path \in Paths
    /\ work \in [Paths -> [Files -> {"clean", "staged"}]]
    /\ sync = [p \in Paths |-> "behind"]
    /\ entries = NoEntries /\ syncStatus = "even"
    /\ busy = {"loading"}
    /\ menu = FALSE /\ dialog = "none"
    /\ toast = 0 /\ armed = {}
    /\ call = [c \in Calls |-> IF c = 1 THEN Ask("refresh", path) ELSE NoCall]
    /\ rejected = {}
    /\ moves = 0

(* Mutant: the timeout of the previous message is left running.             *)
MutShowStatus == LET n == 3 - toast IN toast' = (IF toast = 0 THEN 1 ELSE n) /\ armed' = armed \cup {toast'}

(* showStatus: the new message, and one timeout instead of the old one.     *)
ShowStatus == LET n == 3 - toast IN toast' = (IF toast = 0 THEN 1 ELSE n) /\ armed' = {toast'}

ClearStatus(n) ==
    /\ n \in armed
    /\ armed' = armed \ {n}
    /\ toast' = 0
    /\ UNCHANGED <<path, repos, panel, busy, form, call, moves, rejected>>

----------------------------------------------------------------------------
(* The project.  Its files change under the panel, and the panel may be     *)
(* given another path; it then refreshes while rendering.                   *)
Edit(p, f, s) ==
    /\ Move
    /\ work[p][f] = "clean" /\ s \in {"changed", "untracked", "conflict"}
    /\ work' = [work EXCEPT ![p][f] = s]
    /\ UNCHANGED <<path, sync, panel, busy, form, notice, call, rejected>>

SwitchPath(c, p) ==
    /\ Move /\ Free(c) /\ p # path
    /\ path' = p
    /\ busy' = busy \cup {"loading"}
    /\ Put(c, Ask("refresh", p))
    /\ UNCHANGED <<repos, panel, form, notice, rejected>>

(* What a call does in the repository.                                      *)
Become(p, from, to) == [work EXCEPT ![p] = [f \in Files |-> IF work[p][f] \in from THEN to ELSE work[p][f]]]
Effect(op, p) ==
    CASE op = "stageAll"   -> work' = Become(p, {"changed", "untracked"}, "staged") /\ UNCHANGED sync
      [] op = "discardAll" -> work' = Become(p, {"changed", "untracked"}, "clean") /\ UNCHANGED sync
      [] op = "unstageAll" -> work' = Become(p, {"staged"}, "changed") /\ UNCHANGED sync
      [] op = "commit"     -> work' = Become(p, {"staged"}, "clean") /\ sync' = [sync EXCEPT ![p] = "ahead"]
      [] op \in {"push", "pull"} -> sync' = [sync EXCEPT ![p] = "even"] /\ UNCHANGED work
      [] OTHER             -> UNCHANGED repos

(* The host executes a call and answers ...                                 *)
Answer(c) ==
    LET k == call[c] IN
    /\ k.op \notin {"idle", "diffs"} /\ k.answer = "none"
    /\ k.op = "commit" => With(work[k.path], {"staged"}) # {}
    /\ Effect(k.op, k.path)
    /\ Put(c, [op |-> k.op, path |-> k.path, answer |-> "ok", status |-> work[k.path], sync |-> sync[k.path]])
    /\ UNCHANGED <<path, panel, busy, form, notice, moves, rejected>>

(* ... or finds that it cannot, and says so with success: false; refreshes   *)
(* and polls have no such result ...                                        *)
Fail(c) ==
    LET k == call[c] IN
    /\ k.op \notin {"idle", "refresh", "diffs", "poll"} /\ k.answer = "none"
    /\ (k.op = "commit" /\ With(work[k.path], {"staged"}) = {} /\ UNCHANGED moves) \/ Move
    /\ Put(c, [k EXCEPT !.answer = "failed"])
    /\ UNCHANGED <<path, repos, panel, busy, form, notice, rejected>>

(* ... or the promise rejects, whatever was done by then.                   *)
Reject(c) ==
    LET k == call[c] IN
    /\ k.op \notin {"idle", "diffs"} /\ k.answer = "none"
    /\ IF k.op \in {"commit", "push", "pull"} THEN UNCHANGED moves ELSE Move
    /\ Put(c, [k EXCEPT !.answer = "rejected"])
    /\ \/ (k.op = "commit" => With(work[k.path], {"staged"}) # {}) /\ Effect(k.op, k.path)
       \/ UNCHANGED repos
    /\ UNCHANGED <<path, panel, busy, form, notice, rejected>>

----------------------------------------------------------------------------
(* refresh: status and branch; its catch empties the panel.                 *)
RefreshStatus(c) ==
    LET k == call[c] IN
    /\ k.op = "refresh" /\ k.answer # "none"
    /\ IF k.answer = "ok"
         THEN /\ entries' = k.status /\ syncStatus' = k.sync
              /\ Put(c, [k EXCEPT !.op = "diffs"])
              /\ UNCHANGED busy
         ELSE /\ entries' = NoEntries /\ syncStatus' = "none"
              /\ busy' = busy \ {"loading"}
              /\ Put(c, NoCall)
    /\ UNCHANGED <<path, repos, form, notice, moves, rejected>>

(* loadDiffs never fails: a file whose diff cannot be read is skipped.  What *)
(* is then shown is module FileTree's.                                       *)
RefreshDiffs(c) ==
    LET k == call[c] IN
    /\ k.op = "diffs"
    /\ busy' = busy \ {"loading"}
    /\ Put(c, NoCall)
    /\ UNCHANGED <<path, repos, panel, form, notice, moves, rejected>>

Refresh(c) ==
    /\ Click(c)
    /\ busy' = busy \cup {"loading"}
    /\ Put(c, Ask("refresh", path))
    /\ UNCHANGED <<path, repos, panel, form, notice, rejected>>

(* The interval of three seconds, and what a poll does with its answer.     *)
Poll(c) ==
    /\ Free(c)
    /\ Put(c, Ask("poll", path))
    /\ UNCHANGED <<path, repos, panel, busy, form, notice, moves, rejected>>

(* Mutant: only a changed branch state is taken over.                       *)
MutPolled(c) ==
    LET k == call[c] IN
    /\ k.op = "poll" /\ k.answer # "none"
    /\ syncStatus' = IF k.answer = "ok" THEN k.sync ELSE syncStatus
    /\ Put(c, NoCall)
    /\ UNCHANGED <<path, repos, entries, busy, form, notice, moves, rejected>>

Polled(c) ==
    LET k == call[c] IN
    /\ k.op = "poll" /\ k.answer # "none"
    /\ IF k.answer = "ok"
         THEN entries' = k.status /\ syncStatus' = k.sync
         ELSE UNCHANGED <<entries, syncStatus>>
    /\ Put(c, NoCall)
    /\ UNCHANGED <<path, repos, busy, form, notice, moves, rejected>>

----------------------------------------------------------------------------
(* The floating action bar, there while anything is listed.                 *)
ActionBar(op) ==
    CASE op \in {"discardAll", "stageAll"} -> totalUnstaged # {}
      [] op = "unstageAll" -> totalUnstaged = {} /\ stagedEntries # {}

BarClick(c, op) ==
    /\ Click(c)
    /\ ActionBar(op)
    /\ Put(c, Ask(op, path))
    /\ UNCHANGED <<path, repos, panel, busy, form, notice, rejected>>

(* handleStageAll, handleDiscardAll, handleUnstageAll after their call: an  *)
(* error message, or a refresh of the path of the click.                    *)
BarDone(c) ==
    LET k == call[c] IN
    /\ k.op \in {"stageAll", "discardAll", "unstageAll"} /\ Answered(k)
    /\ IF k.answer = "ok"
         THEN Put(c, Ask("refresh", k.path)) /\ busy' = busy \cup {"loading"} /\ UNCHANGED notice
         ELSE Put(c, NoCall) /\ ShowStatus /\ UNCHANGED busy
    /\ UNCHANGED <<path, repos, panel, form, moves, rejected>>

(* The header: the menu opens and closes, any other click closes it.        *)
ToggleMenu ==
    /\ dialog = "none"
    /\ menu' = ~menu
    /\ UNCHANGED <<path, repos, panel, busy, dialog, notice, call, moves, rejected>>

(* Its items that open a dialog ...                                         *)
OpenDialog(d) ==
    /\ menu /\ dialog = "none"
    /\ dialog' = d /\ menu' = FALSE
    /\ UNCHANGED <<path, repos, panel, busy, notice, call, moves, rejected>>

(* Mutant: a flag that nothing else knows.                                  *)
MutFlag(op) == IF op = "push" THEN "pushing" ELSE op

Flag(op) == IF op = "push" THEN "pushing" ELSE "pulling"

(* Mutant: the item is not disabled while its call is under way.            *)
MutPushOrPull(c, op) ==
    /\ Click(c) /\ menu
    /\ busy' = busy \cup {Flag(op)}
    /\ Put(c, Ask(op, path))
    /\ UNCHANGED <<path, repos, panel, form, notice, rejected>>

(* ... and Push and Pull, which leave it open until they succeed.           *)
PushOrPull(c, op) ==
    /\ Click(c) /\ menu
    /\ Flag(op) \notin busy
    /\ busy' = busy \cup {Flag(op)}
    /\ Put(c, Ask(op, path))
    /\ UNCHANGED <<path, repos, panel, form, notice, rejected>>

PushOrPullDone(c) ==
    LET k == call[c] IN
    /\ k.op \in {"push", "pull"} /\ Answered(k)
    /\ ShowStatus
    /\ IF k.answer = "ok"
         THEN /\ busy' = (busy \ {Flag(k.op)}) \cup {"loading"}
              /\ Put(c, Ask("refresh", k.path)) /\ CloseMenu
         ELSE /\ busy' = busy \ {Flag(k.op)}
              /\ Put(c, NoCall) /\ UNCHANGED form
    /\ UNCHANGED <<path, repos, panel, moves, rejected>>

CreatePR(c) ==
    /\ Click(c) /\ menu
    /\ Put(c, Ask("createPR", path))
    /\ UNCHANGED <<path, repos, panel, busy, form, notice, rejected>>

CreatePRDone(c) ==
    /\ call[c].op = "createPR" /\ Answered(call[c])
    /\ CloseMenu /\ ShowStatus
    /\ Put(c, NoCall)
    /\ UNCHANGED <<path, repos, panel, busy, moves, rejected>>

----------------------------------------------------------------------------
(* The dialogs close with Cancel, the cross or the backdrop.  What is typed *)
(* is left out: handleCommit and handleCreateBranch do nothing when it is   *)
(* blank, so their actions are the user's with a text.                      *)
CloseDialog ==
    /\ dialog # "none"
    /\ dialog' = "none"
    /\ UNCHANGED <<path, repos, panel, busy, menu, notice, call, moves, rejected>>

CommitDialog == dialog = "commit"
BranchDialog == dialog = "branch"

(* handleCommit, by Ctrl+Enter or by the button.  The button is disabled    *)
(* while a commit is under way or nothing is staged; the key is not.        *)
Commit(c) ==
    /\ Move /\ Free(c) /\ CommitDialog
    /\ IF stagedEntries = {}
         THEN ShowStatus /\ UNCHANGED <<busy, call>>
         ELSE /\ busy' = busy \cup {"committing"}
              /\ Put(c, Ask("commit", path))
              /\ UNCHANGED notice
    /\ UNCHANGED <<path, repos, panel, form, rejected>>

(* Mutant: the flag is dropped on success only.                             *)
MutCommitDone(c) ==
    LET k == call[c] IN
    /\ k.op = "commit" /\ Answered(k)
    /\ ShowStatus
    /\ IF k.answer = "ok"
         THEN /\ busy' = (busy \ {"committing"}) \cup {"loading"}
              /\ dialog' = IF dialog = "commit" THEN "none" ELSE dialog
              /\ Put(c, Ask("refresh", k.path))
         ELSE Put(c, NoCall) /\ UNCHANGED <<busy, dialog>>
    /\ UNCHANGED <<path, repos, panel, menu, moves, rejected>>

CommitDone(c) ==
    LET k == call[c] IN
    /\ k.op = "commit" /\ Answered(k)
    /\ ShowStatus
    /\ IF k.answer = "ok"
         THEN /\ busy' = (busy \ {"committing"}) \cup {"loading"}
              /\ dialog' = IF dialog = "commit" THEN "none" ELSE dialog
              /\ Put(c, Ask("refresh", k.path))
         ELSE busy' = busy \ {"committing"} /\ Put(c, NoCall) /\ UNCHANGED dialog
    /\ UNCHANGED <<path, repos, panel, menu, moves, rejected>>

CreateBranch(c) ==
    /\ Move /\ Free(c) /\ BranchDialog
    /\ Put(c, Ask("createBranch", path))
    /\ UNCHANGED <<path, repos, panel, busy, form, notice, rejected>>

CreateBranchDone(c) ==
    LET k == call[c] IN
    /\ k.op = "createBranch" /\ Answered(k)
    /\ ShowStatus
    /\ IF k.answer = "ok"
         THEN /\ menu' = FALSE
              /\ dialog' = IF dialog = "branch" THEN "none" ELSE dialog
              /\ busy' = busy \cup {"loading"}
              /\ Put(c, Ask("refresh", k.path))
         ELSE Put(c, NoCall) /\ UNCHANGED <<busy, form>>
    /\ UNCHANGED <<path, repos, panel, moves, rejected>>

(* A handler whose promise rejected never goes on: what it had set, no      *)
(* finally takes back.                                                      *)
Abandoned(c) ==
    LET k == call[c] IN
    /\ k.op \notin {"refresh", "diffs", "poll"} /\ k.answer = "rejected"
    /\ rejected' = rejected \cup ({k.op} \cap {"commit", "push", "pull"})
    /\ Put(c, NoCall)
    /\ UNCHANGED <<path, repos, panel, busy, form, notice, moves>>

----------------------------------------------------------------------------
User(c) ==
    \/ Refresh(c) \/ CreatePR(c) \/ Commit(c) \/ CreateBranch(c)
    \/ \E op \in {"stageAll", "discardAll", "unstageAll"} : BarClick(c, op)
    \/ \E op \in {"push", "pull"} : PushOrPull(c, op)
    \/ \E p \in Paths : SwitchPath(c, p)

(* A promise goes on.                                                       *)
Resolve(c) ==
    \/ RefreshStatus(c) \/ RefreshDiffs(c) \/ Polled(c) \/ BarDone(c)
    \/ PushOrPullDone(c) \/ CreatePRDone(c) \/ CommitDone(c) \/ CreateBranchDone(c) \/ Abandoned(c)

Next ==
    \/ \E c \in Calls : User(c) \/ Resolve(c) \/ Poll(c) \/ Answer(c) \/ Fail(c) \/ Reject(c)
    \/ ToggleMenu \/ CloseDialog
    \/ \E d \in {"commit", "branch"} : OpenDialog(d)
    \/ \E n \in {1, 2} : ClearStatus(n)
    \/ \E p \in Paths, f \in Files, s \in Statuses : Edit(p, f, s)

Spec == Init /\ [][Next]_vars

(* The host answers, handlers go on and the interval keeps polling; a slot  *)
(* for the poll is found, since slots are only a bound of the model.        *)
Fairness ==
    /\ \A c \in Calls : WF_vars(Answer(c) \/ Fail(c) \/ Reject(c)) /\ WF_vars(Resolve(c))
    /\ SF_vars(\E c \in Calls : Poll(c))
    /\ \A n \in {1, 2} : WF_vars(ClearStatus(n))
FairSpec == Spec /\ Fairness

----------------------------------------------------------------------------
CallRecords == [op : Ops, path : Paths, answer : Answers, status : [Files -> Statuses], sync : Syncs]
TypeOK ==
    /\ path \in Paths
    /\ work \in [Paths -> [Files -> Statuses]] /\ sync \in [Paths -> Syncs]
    /\ entries \in [Files -> Statuses] /\ syncStatus \in Syncs \cup {"none"}
    /\ busy \subseteq Flags
    /\ menu \in BOOLEAN /\ dialog \in {"none", "commit", "branch"}
    /\ toast \in 0..2 /\ armed \subseteq 1..2
    /\ call \in [Calls -> CallRecords] /\ rejected \subseteq {"commit", "push", "pull"}
    /\ moves \in 0..MaxMoves

(* Which flag is set says which calls are under way, whatever overlaps,     *)
(* fails or is for another path, and a flag outlives its calls in one case  *)
(* only, that a promise rejected: refresh drops loading in any case; Push   *)
(* or Pull is disabled exactly while one is under way, and so never sent    *)
(* twice at a time, or for ever after one rejected; and the commit button   *)
(* until a commit sent with the key is answered.                            *)
One(op) == \A c, d \in Calls : call[c].op = op /\ call[d].op = op => c = d
FlagsHonest ==
    /\ "loading" \in busy => InFlight("refresh") \/ InFlight("diffs")
    /\ "committing" \in busy => InFlight("commit") \/ "commit" \in rejected
    /\ \A op \in {"push", "pull"} :
          /\ Flag(op) \in busy <=> InFlight(op) \/ op \in rejected
          /\ ~(InFlight(op) /\ op \in rejected) /\ One(op)

(* A message is shown for its whole time: only its own timeout takes it     *)
(* away, although messages follow one another before the first has run out. *)
ToastLasts == toast # 0 => armed = {toast}

(* However refreshes, polls and switches of the path overtook one another,  *)
(* once nothing more happens the poll brings the panel's entries in line    *)
(* with the repository at the active path, and they stay so.                *)
EntriesConverge == <>[](entries = work[path] /\ syncStatus = sync[path])
=============================================================================

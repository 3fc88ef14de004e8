----------------------------- MODULE ThreadGroups -----------------------------
(***************************************************************************)
(* The chats in the sidebar: the threads of the scope, grouped by age,     *)
(* with groups that fold and rows that can be deleted (AgentsSidebar.tsx,  *)
(* groupThreads of lib/agents/api.ts).  A row is a component under its     *)
(* group: when a refetch moves the thread to another group, or the group   *)
(* is folded, the row's state (its dialog, and that it is being deleted)   *)
(* is gone.                                                                *)
(***************************************************************************)
EXTENDS Integers, Sequences, FiniteSets, SequencesExt

CONSTANTS
    Ids,        \* threads
    TodayStart, SevenDaysAgo, ThirtyDaysAgo, Now    \* times

VARIABLES
    threads,    \* the listed threads: [at, inScope] of each, or Gone
    folded,     \* groups that are collapsed
    dialog,     \* rows with deleteOpen
    deleting,   \* rows whose deletion is pending
    requests,   \* DELETE requests on their way, by thread
    remounted   \* ghost: threads whose row was lost while it was being deleted

vars == <<threads, folded, dialog, deleting, requests, remounted>>

Groups == <<"today", "last7", "last30", "older">>
Gone == [at |-> -1, inScope |-> FALSE]     \* deleted, or of another workspace
Entries == {Gone} \cup [at : 0..Now, inScope : {TRUE}]

----------------------------------------------------------------------------
(* visibleThreads: the threads of the selected workspace, or of none.       *)
visibleThreads(ts) == {t \in Ids : ts[t].inScope}

(* Mutant: the week begins with the day.                                    *)
MutGroupOf(at) ==
    IF at >= TodayStart THEN "today"
    ELSE IF at > SevenDaysAgo THEN "last7"
    ELSE IF at < SevenDaysAgo /\ at >= ThirtyDaysAgo THEN "last30"
    ELSE "older"

GroupOf(at) ==
    IF at >= TodayStart THEN "today"
    ELSE IF at >= SevenDaysAgo THEN "last7"
    ELSE IF at >= ThirtyDaysAgo THEN "last30"
    ELSE "older"

(* The threads, the last touched first, are dealt to the groups, each of    *)
(* which is thereby sorted; threads of one time keep some order.            *)
Latest(ts, S) == CHOOSE s \in SetToSeqs(S) : \A i, j \in DOMAIN s : i < j => ts[s[i]].at >= ts[s[j]].at
groupThreads(ts) ==
    [g \in ToSet(Groups) |-> Latest(ts, {t \in visibleThreads(ts) : GroupOf(ts[t].at) = g})]

(* ThreadGroup: a group without threads is not shown, a folded one shows    *)
(* no rows.                                                                 *)
GroupShown(ts, g) == groupThreads(ts)[g] # <<>>
RowsOf(ts, fold, g) == IF g \in fold THEN <<>> ELSE groupThreads(ts)[g]
Rows(ts, fold) ==
    RowsOf(ts, fold, "today") \o RowsOf(ts, fold, "last7") \o RowsOf(ts, fold, "last30") \o RowsOf(ts, fold, "older")

(* Rows that stay mounted: shown before and after, under the same group.    *)
Kept(ts, fold) ==
    {t \in ToSet(Rows(threads, folded)) \cap ToSet(Rows(ts, fold)) : GroupOf(threads[t].at) = GroupOf(ts[t].at)}

Init ==
    /\ threads = [t \in Ids |-> Gone]
    /\ folded = {"last7", "last30"}
    /\ dialog = {} /\ deleting = {}
    /\ requests = [t \in Ids |-> 0]
    /\ remounted = {}

Shown(ts, fold) ==
    /\ threads' = ts /\ folded' = fold
    /\ dialog' = dialog \cap Kept(ts, fold) /\ deleting' = deleting \cap Kept(ts, fold)
    /\ remounted' = remounted \cup (deleting \ Kept(ts, fold))

(* The list is refetched, or another scope is chosen.                       *)
Refetch(t, entry) ==
    /\ Shown([threads EXCEPT ![t] = entry], folded)
    /\ UNCHANGED requests

ToggleGroup(g) ==
    /\ GroupShown(threads, g)
    /\ Shown(threads, IF g \in folded THEN folded \ {g} ELSE folded \cup {g})
    /\ UNCHANGED requests

(* The row's button and the item of its menu, disabled during a deletion.   *)
DeleteButtons == ToSet(Rows(threads, folded)) \ deleting

(* ThreadRow: onDelete opens the dialog.                                    *)
onDelete(t) ==
    /\ t \in DeleteButtons
    /\ dialog' = dialog \cup {t}
    /\ UNCHANGED <<threads, folded, deleting, requests, remounted>>

Cancel(t) ==
    /\ t \in dialog \ deleting
    /\ dialog' = dialog \ {t}
    /\ UNCHANGED <<threads, folded, deleting, requests, remounted>>

(* Mutant: without the look at isDeleting.                                  *)
MutOnConfirmDelete(t) ==
    /\ t \in dialog /\ requests[t] < 2
    /\ deleting' = deleting \cup {t}
    /\ requests' = [requests EXCEPT ![t] = @ + 1]
    /\ UNCHANGED <<threads, folded, dialog, remounted>>

onConfirmDelete(t) ==
    /\ t \in dialog \ deleting /\ requests[t] < 2
    /\ deleting' = deleting \cup {t}
    /\ requests' = [requests EXCEPT ![t] = @ + 1]
    /\ UNCHANGED <<threads, folded, dialog, remounted>>

(* The answer: the dialog of a row that is still mounted is closed, if the  *)
(* deletion succeeded; the list follows by a refetch.                       *)
Answered(t, ok) ==
    /\ requests[t] > 0
    /\ requests' = [requests EXCEPT ![t] = @ - 1]
    /\ deleting' = deleting \ {t}
    /\ dialog' = IF ok THEN dialog \ (deleting \cap {t}) ELSE dialog
    /\ UNCHANGED <<threads, folded, remounted>>

Next ==
    \/ \E t \in Ids, entry \in Entries : Refetch(t, entry)
    \/ \E g \in ToSet(Groups) : ToggleGroup(g)
    \/ \E t \in Ids : onDelete(t) \/ Cancel(t) \/ onConfirmDelete(t) \/ \E ok \in BOOLEAN : Answered(t, ok)

Spec == Init /\ [][Next]_vars

----------------------------------------------------------------------------
(* The types; dialogs belong to rows that are shown.                        *)
TypeOK ==
    /\ threads \in [Ids -> Entries] /\ folded \subseteq ToSet(Groups)
    /\ dialog \subseteq ToSet(Rows(threads, folded)) /\ deleting \subseteq dialog
    /\ requests \in [Ids -> 0..2]

(* Unfolding every group shows each thread of the scope exactly once, the   *)
(* last one touched first: no thread falls between two groups, also at the  *)
(* very start of the day, of the week or of the month.                      *)
GroupsComplete ==
    LET rows == Rows(threads, {}) IN
    /\ ToSet(rows) = visibleThreads(threads) /\ IsInjective(rows)
    /\ \A i, j \in DOMAIN rows : i < j => threads[rows[i]].at >= threads[rows[j]].at

(* A thread is not deleted twice at a time, as long as its row stays where  *)
(* it is: the row that knows of the request is lost when a refetch moves    *)
(* the thread to another group.                                             *)
DeletedOnce == \A t \in Ids : requests[t] > 1 => t \in remounted

(* Why it holds: but for rows that were lost, each request has a row that   *)
(* knows of it.                                                             *)
RequestsKnown == \A t \in Ids : requests[t] > (IF t \in deleting THEN 1 ELSE 0) => t \in remounted

Inv == TypeOK /\ RequestsKnown
=============================================================================

----------------------------- MODULE ThreadCache -----------------------------
(***************************************************************************)
(* The browser's copies of the threads: the list behind the sidebar and    *)
(* the record behind a thread's page (lib/agents/queries.ts), under        *)
(* everything that writes to them: refetches, the seeding of records from  *)
(* the list, the optimistic thread of the home page (AgentsHome.tsx), a    *)
(* deletion (AgentsSidebar.tsx), a follow-up (useSubmitAgentMessage.ts), a *)
(* stop (CloudPromptBar.tsx), the refresh of the changed files             *)
(* (AgentThreadView.tsx) and the events of the stream                      *)
(* (AgentThreadStreamProvider.tsx).  Of a record only the status is kept,  *)
(* an interrupted run's like that of a finished one.  Requests are answered and their        *)
(* answers applied in steps of their own; the query client keeps one       *)
(* request per key, drops it when the key is invalidated or removed, and   *)
(* asks again only for keys that are on display.                           *)
(***************************************************************************)
EXTENDS Integers, FiniteSets

CONSTANTS
    Threads,    \* ids, those of threads that will be created too
    Existing,   \* threads that are there at first
    MaxMoves    \* bound on clicks, runs and failed requests


Home == "home"
None == "none"

VARIABLES
    server,     \* the API's threads
    list,       \* the cached list: what it says of each thread
    listFetch,  \* the request for it: None, "asked" or its answer
    detail,     \* the cached records
    fresh,      \* records younger than their staleTime
    detailFetch,\* the request for the record on display
    route,      \* Home or the thread on display
    submit,     \* the run of the home page on its way: its phase and thread
    created,    \* threads whose onCreated event is still to come
    completed,  \* threads whose onCompleted event is still to come
    send,       \* a follow-up on its way: None, or the thread
    deleting,   \* the deletion on its way: None, or the thread
    stopping,   \* the stop on its way: None, or the thread
    refreshing, \* handleRefreshChanges: its thread, or None, and its step
    left,       \* ghost: threads left before the server had them
    moves

caches == <<list, listFetch, detail, fresh, detailFetch>>
events == <<created, completed>>
others == <<deleting, stopping, refreshing>>
vars == <<server, caches, route, submit, events, send, deleting, stopping, refreshing, left, moves>>

Statuses == {"running", "finished"}
Copies == Statuses \cup {"absent", "error"}
Missing(t) == server[t] \notin Statuses
Snapshot == [t \in Threads |-> IF Missing(t) THEN "absent" ELSE server[t]]
NoFetch == [thread |-> None, answer |-> None]
NoSubmit == [phase |-> None, thread |-> None]
NoRefresh == [step |-> None, thread |-> None]

Move == moves < MaxMoves /\ moves' = moves + 1

Init ==
    /\ server = [t \in Threads |-> IF t \in Existing THEN "finished" ELSE "absent"]
    /\ list = Snapshot /\ listFetch = [asked |-> FALSE, answered |-> FALSE, data |-> Snapshot]
    /\ detail = Snapshot /\ fresh = {}
    /\ detailFetch = NoFetch
    /\ route = Home
    /\ submit = NoSubmit
    /\ created = {} /\ completed = {}
    /\ send = None /\ deleting = None /\ stopping = None /\ refreshing = NoRefresh
    /\ left = {} /\ moves = 0

----------------------------------------------------------------------------
(* useSeedAgentThreadDetails: whenever the list or the thread on display    *)
(* changes, the record of every listed thread but that one becomes the      *)
(* list's, as if it were old.                                               *)
Seeded(l, active, d) == [t \in Threads |-> IF t # active /\ l[t] # "absent" THEN l[t] ELSE d[t]]
SeededFresh(l, active, f) == {t \in f : t = active \/ l[t] = "absent"}

(* A page asks for its record unless it has one that is not stale.          *)
MountFetch(t, d, f) ==
    IF t # Home /\ (d[t] = "absent" \/ t \notin f) THEN [thread |-> t, answer |-> None] ELSE NoFetch

(* Mutant: a request for the record of the last thread is not dropped.      *)
MutGo(t, d, f) ==
    /\ route' = t
    /\ completed' = {}
    /\ detailFetch' = IF MountFetch(t, d, f) = NoFetch THEN detailFetch ELSE MountFetch(t, d, f)
    /\ detail' = Seeded(list, t, d) /\ fresh' = SeededFresh(list, t, f)
    /\ left' = IF route # Home /\ server[route] = "absent" THEN left \cup {route} ELSE left

(* Going to another route; the records of others are seeded on the way, and *)
(* the stream turns to the new thread and away from the events of the last. *)
Go(t, d, f) ==
    /\ route' = t
    /\ completed' = {}
    /\ detailFetch' = MountFetch(t, d, f)
    /\ detail' = Seeded(list, t, d) /\ fresh' = SeededFresh(list, t, f)
    /\ left' = IF route # Home /\ server[route] = "absent" THEN left \cup {route} ELSE left

AskList == listFetch' = [listFetch EXCEPT !.asked = TRUE, !.answered = FALSE]

Open(t) ==
    /\ Move
    /\ t # route /\ list[t] # "absent"
    /\ Go(t, detail, fresh)
    /\ UNCHANGED <<server, list, listFetch, submit, created, send, others>>

GoHome ==
    /\ Move /\ route # Home
    /\ Go(Home, detail, fresh)
    /\ UNCHANGED <<server, list, listFetch, submit, created, send, others>>

(* The list is asked for every two seconds while it lists a running thread. *)
PollList ==
    /\ ~listFetch.asked
    /\ \E t \in Threads : list[t] = "running"
    /\ AskList
    /\ UNCHANGED <<server, list, detail, fresh, detailFetch, route, submit, events, send, others, left, moves>>

AnswerList ==
    /\ listFetch.asked /\ ~listFetch.answered
    /\ listFetch' = [asked |-> TRUE, answered |-> TRUE, data |-> Snapshot]
    /\ UNCHANGED <<server, list, detail, fresh, detailFetch, route, submit, events, send, others, left, moves>>

ApplyList ==
    /\ listFetch.answered
    /\ list' = listFetch.data
    /\ listFetch' = [asked |-> FALSE, answered |-> FALSE, data |-> Snapshot]
    /\ detail' = Seeded(list', route, detail) /\ fresh' = SeededFresh(list', route, fresh)
    /\ UNCHANGED <<server, detailFetch, route, submit, events, send, others, left, moves>>

(* The record on display: its answer, or a 404.                             *)
AnswerDetail ==
    /\ detailFetch.thread # None /\ detailFetch.answer = None
    /\ detailFetch' = [detailFetch EXCEPT !.answer = Snapshot[detailFetch.thread]]
    /\ UNCHANGED <<server, list, listFetch, detail, fresh, route, submit, events, send, others, left, moves>>

(* AgentThreadPage: a record is shown, an error leads back to the home page.*)
ApplyDetail ==
    LET t == detailFetch.thread IN
    /\ detailFetch.answer # None
    /\ IF detailFetch.answer = "absent"
         THEN /\ Go(Home, detail, fresh)
         ELSE /\ detail' = [detail EXCEPT ![t] = detailFetch.answer] /\ fresh' = fresh \cup {t}
              /\ detailFetch' = NoFetch
              /\ UNCHANGED <<route, left, completed>>
    /\ UNCHANGED <<server, list, listFetch, submit, created, send, others, moves>>

(* Thirty seconds pass.                                                     *)
Expire(t) ==
    /\ t \in fresh
    /\ fresh' = fresh \ {t}
    /\ UNCHANGED <<server, list, listFetch, detail, detailFetch, route, submit, events, send, others, left, moves>>

----------------------------------------------------------------------------
(* The home page.  handleSubmit keeps the draft and submits through the     *)
(* stream; it is disabled until that has failed or the page was left.       *)
Submit(t) ==
    /\ Move
    /\ route = Home /\ submit = NoSubmit
    /\ server[t] = "absent" /\ t \notin created \cup left /\ detail[t] = "absent"
    /\ submit' = [phase |-> "draft", thread |-> t]
    /\ UNCHANGED <<server, caches, route, events, send, others, left>>

(* Mutant: the record is seeded like one of the list, as if it were old.    *)
MutMinted ==
    LET t == submit.thread IN
    /\ submit.phase = "draft" /\ route = Home
    /\ submit' = [submit EXCEPT !.phase = "shown"]
    /\ list' = [list EXCEPT ![t] = "running"]
    /\ route' = t
    /\ detailFetch' = [thread |-> t, answer |-> None]
    /\ detail' = Seeded(list', t, [detail EXCEPT ![t] = "running"]) /\ fresh' = SeededFresh(list', t, fresh)
    /\ UNCHANGED <<server, listFetch, events, send, others, left, moves>>

(* The stream has minted the id: the effect writes the optimistic thread    *)
(* into both caches and opens its page.                                     *)
Minted ==
    LET t == submit.thread IN
    /\ submit.phase = "draft" /\ route = Home
    /\ submit' = [submit EXCEPT !.phase = "shown"]
    /\ list' = [list EXCEPT ![t] = "running"]
    /\ route' = t
    /\ detailFetch' = NoFetch
    /\ detail' = Seeded(list', t, [detail EXCEPT ![t] = "running"])
    /\ fresh' = SeededFresh(list', t, fresh \cup {t})
    /\ UNCHANGED <<server, listFetch, events, send, others, left, moves>>

(* run.start is accepted: the thread exists, and onCreated will say so.     *)
Stamped ==
    LET t == submit.thread IN
    /\ submit.phase = "shown"
    /\ server' = [server EXCEPT ![t] = "running"]
    /\ created' = created \cup {t}
    /\ submit' = NoSubmit
    /\ UNCHANGED <<caches, route, completed, send, others, left, moves>>

(* It is refused, before or after the page was opened: the record, if there *)
(* is one, says so.  The draft is dropped.                                  *)
SubmitFails ==
    LET t == submit.thread IN
    /\ Move /\ submit # NoSubmit
    /\ server' = [server EXCEPT ![t] = "gone"]
    /\ detail' = IF detail[t] # "absent" THEN [detail EXCEPT ![t] = "error"] ELSE detail
    /\ submit' = NoSubmit
    /\ UNCHANGED <<list, listFetch, fresh, detailFetch, route, events, send, others, left>>

(* Mutant: the list is left to its polling.                                 *)
MutOnCreated(t) ==
    /\ t \in created
    /\ created' = created \ {t}
    /\ UNCHANGED <<server, caches, route, submit, completed, send, others, left, moves>>

(* onCreated invalidates the list.                                          *)
OnCreated(t) ==
    /\ t \in created
    /\ created' = created \ {t}
    /\ AskList
    /\ UNCHANGED <<server, list, detail, fresh, detailFetch, route, submit, completed, send, others, left, moves>>

RunEnds(t) ==
    /\ server[t] = "running"
    /\ server' = [server EXCEPT ![t] = "finished"]
    /\ completed' = IF route = t THEN completed \cup {t} ELSE completed
    /\ UNCHANGED <<caches, route, submit, created, send, others, left, moves>>

(* onCompleted, for the thread on display by then: record and list are      *)
(* invalidated.  Continuing the queue is module MessageQueue's.             *)
OnCompleted(t) ==
    /\ t \in completed
    /\ completed' = completed \ {t}
    /\ AskList
    /\ detailFetch' = IF route # Home THEN [thread |-> route, answer |-> None] ELSE detailFetch
    /\ UNCHANGED <<server, list, detail, fresh, route, submit, created, send, others, left, moves>>

----------------------------------------------------------------------------
(* A follow-up from a thread's page ...                                     *)
Send ==
    /\ Move /\ route # Home /\ send = None /\ server[route] \in Statuses
    /\ send' = route
    /\ server' = [server EXCEPT ![route] = "running"]
    /\ UNCHANGED <<caches, route, submit, events, others, left>>

(* ... whose success marks the record as running and invalidates the list.  *)
Sent ==
    /\ send # None
    /\ detail' = IF detail[send] # "absent" THEN [detail EXCEPT ![send] = "running"] ELSE detail
    /\ fresh' = IF detail[send] # "absent" THEN fresh \cup {send} ELSE fresh
    /\ AskList
    /\ send' = None
    /\ UNCHANGED <<server, list, detailFetch, route, submit, events, others, left, moves>>

(* ThreadRow: onDelete opens the dialog and onConfirmDelete sends the       *)
(* request; buttons are disabled while one is on its way.                   *)
ConfirmDelete(t) ==
    /\ Move /\ deleting = None /\ list[t] # "absent"
    /\ deleting' = t
    /\ server' = [server EXCEPT ![t] = IF server[t] \in Statuses THEN "gone" ELSE server[t]]
    /\ UNCHANGED <<caches, route, submit, events, send, stopping, refreshing, left>>

(* Mutant: the page of the deleted thread is not left.                      *)
MutDeleted ==
    LET t == deleting IN
    /\ t # None /\ server[t] = "gone"
    /\ deleting' = None
    /\ AskList
    /\ detail' = [detail EXCEPT ![t] = "absent"] /\ fresh' = fresh \ {t}
    /\ detailFetch' = IF detailFetch.thread = t THEN NoFetch ELSE detailFetch
    /\ UNCHANGED <<server, list, route, submit, events, send, stopping, refreshing, left, moves>>

(* Its success removes the record, invalidates the list and leaves the page *)
(* of the thread.  The list still names it when leaving seeds the records.  *)
Deleted ==
    LET t == deleting
        d == [detail EXCEPT ![t] = "absent"]
        f == fresh \ {t}
    IN /\ t # None /\ server[t] = "gone"
       /\ deleting' = None
       /\ AskList
       /\ IF route = t
            THEN Go(Home, d, f)
            ELSE /\ detail' = d /\ fresh' = f
                 /\ detailFetch' = IF detailFetch.thread = t THEN NoFetch ELSE detailFetch
                 /\ UNCHANGED <<route, left, completed>>
       /\ UNCHANGED <<server, list, submit, created, send, stopping, refreshing, moves>>

(* Its failure, also for a thread that the server does not have yet.        *)
DeleteFails ==
    /\ deleting # None /\ server[deleting] # "gone"
    /\ deleting' = None
    /\ UNCHANGED <<server, caches, route, submit, events, send, stopping, refreshing, left, moves>>

(* The button of a streaming prompt bar: handleStop ends the run, which the *)
(* server does in a step of its own, before or after ...                    *)
Stop ==
    /\ Move /\ route # Home /\ stopping = None
    /\ server[route] = "running" \/ submit = [phase |-> "shown", thread |-> route]
    /\ stopping' = route
    /\ UNCHANGED <<server, caches, route, submit, events, send, deleting, refreshing, left>>

(* ... the record is marked as interrupted and the list invalidated.        *)
Stopped ==
    /\ stopping # None
    /\ detail' = IF detail[stopping] # "absent" THEN [detail EXCEPT ![stopping] = "finished"] ELSE detail
    /\ fresh' = IF detail[stopping] # "absent" THEN fresh \cup {stopping} ELSE fresh
    /\ AskList
    /\ stopping' = None
    /\ UNCHANGED <<server, list, detailFetch, route, submit, events, send, deleting, refreshing, left, moves>>

(* handleRefreshChanges: a snapshot of the workspace, which fails for a     *)
(* thread the server does not know; then the record is invalidated, and     *)
(* when its request is answered the list.                                   *)
RefreshChanges ==
    /\ Move /\ route # Home /\ refreshing = NoRefresh /\ server[route] \in Statuses
    /\ refreshing' = [step |-> "snapshot", thread |-> route]
    /\ UNCHANGED <<server, caches, route, submit, events, send, deleting, stopping, left>>

SnapshotTaken ==
    LET t == refreshing.thread IN
    /\ refreshing.step = "snapshot"
    /\ refreshing' = [refreshing EXCEPT !.step = "list"]
    /\ fresh' = fresh \ {t}
    /\ detailFetch' = IF route = t THEN [thread |-> t, answer |-> None] ELSE detailFetch
    /\ UNCHANGED <<server, list, listFetch, detail, route, submit, events, send, deleting, stopping, left, moves>>

SnapshotFails ==
    /\ refreshing.step = "snapshot"
    /\ refreshing' = NoRefresh
    /\ UNCHANGED <<server, caches, route, submit, events, send, deleting, stopping, left, moves>>

ChangesRefreshed ==
    /\ refreshing.step = "list" /\ detailFetch.thread # refreshing.thread
    /\ refreshing' = NoRefresh
    /\ AskList
    /\ UNCHANGED <<server, list, detail, fresh, detailFetch, route, submit, events, send, deleting, stopping, left, moves>>

(* Leaving the home page with the draft pending loses the effect's page.    *)
Client == PollList \/ AnswerList \/ ApplyList \/ AnswerDetail \/ ApplyDetail
          \/ Minted \/ Sent \/ Deleted \/ DeleteFails
          \/ Stopped \/ SnapshotTaken \/ ChangesRefreshed \/ \E t \in Threads : OnCreated(t) \/ OnCompleted(t)
Next ==
    \/ Client \/ GoHome \/ Stamped \/ SubmitFails \/ Send \/ Stop \/ RefreshChanges \/ SnapshotFails
    \/ \E t \in Threads : Open(t) \/ Expire(t) \/ Submit(t) \/ RunEnds(t) \/ ConfirmDelete(t)

Spec == Init /\ [][Next]_vars

(* Requests are answered and their answers applied, the list is polled,     *)
(* events arrive and runs end.  Nobody need click anything.                 *)
Fairness ==
    /\ WF_vars(PollList) /\ WF_vars(AnswerList) /\ WF_vars(ApplyList)
    /\ WF_vars(AnswerDetail) /\ WF_vars(ApplyDetail)
    /\ WF_vars(Minted) /\ WF_vars(Stamped) /\ WF_vars(Sent) /\ WF_vars(Deleted) /\ WF_vars(DeleteFails)
    /\ WF_vars(Stopped) /\ WF_vars(ChangesRefreshed)
    /\ \A t \in Threads : WF_vars(OnCreated(t)) /\ WF_vars(OnCompleted(t)) /\ WF_vars(RunEnds(t))
FairSpec == Spec /\ Fairness

----------------------------------------------------------------------------
(* The types; a request for a record is for the one on display.             *)
TypeOK ==
    /\ server \in [Threads -> Statuses \cup {"absent", "gone"}]
    /\ list \in [Threads -> Statuses \cup {"absent"}]
    /\ listFetch \in [asked : BOOLEAN, answered : BOOLEAN, data : [Threads -> Statuses \cup {"absent"}]]
    /\ detail \in [Threads -> Copies] /\ fresh \subseteq {t \in Threads : detail[t] # "absent"}
    /\ detailFetch.thread \in {None, route} /\ detailFetch.answer \in Copies \cup {None}
    /\ route \in Threads \cup {Home}
    /\ created \subseteq Threads /\ completed \subseteq Threads /\ left \subseteq Threads
    /\ send \in Threads \cup {None} /\ deleting \in Threads \cup {None} /\ stopping \in Threads \cup {None}
    /\ moves \in 0..MaxMoves

(* The page of a new thread stays open although the server does not know    *)
(* the thread yet ("an immediate refetch would 404 and bounce the route     *)
(* back to /agents"): unless the user has left it meanwhile, no request for *)
(* its record is sent before the server has it.                             *)
NoBounce ==
    route # Home /\ server[route] = "absent" /\ route \notin left => detailFetch.thread = None

(* What the sidebar shows comes to be true: once nothing more happens the   *)
(* list tells of each thread what the server does, although it is only      *)
(* polled while it names a running thread, optimistic entries are           *)
(* overwritten by answers older than they are, and answers overtake clicks. *)
ListSettles == <>[](list = Snapshot)

(* Deleting the thread on display leads away from its page, whatever else   *)
(* is on its way for it: onConfirmDelete navigates after the request.       *)
DeletedIsLeft == \A t \in Threads : (deleting = t /\ server[t] = "gone" /\ route = t) ~> (route # t)

----------------------------------------------------------------------------
(* Why it holds.  A request for a record is for the thread on display, and  *)
(* the end of a run is told on its page.  A thread that the server does not *)
(* have yet is in no answer, and is listed only while its page is open      *)
(* (except one that was left).                                              *)
Requested ==
    /\ detailFetch \in [thread : {None} \cup (Threads \cap {route}), answer : Statuses \cup {"absent", None}]
    /\ detailFetch.thread = None => detailFetch.answer = None
    /\ refreshing = NoRefresh \/ refreshing \in [step : {"snapshot", "list"}, thread : {t \in Threads : server[t] # "absent"}]
    /\ submit = NoSubmit \/ submit \in [phase : {"draft", "shown"}, thread : Threads]
EndsShown == \A t \in completed : t = route /\ server[t] # "absent"
Unknown ==
    \A t \in Threads : server[t] = "absent" =>
        /\ listFetch.data[t] = "absent"
        /\ t \notin left /\ list[t] # "absent" => route = t

Inv == TypeOK /\ Requested /\ EndsShown /\ Unknown /\ NoBounce
=============================================================================

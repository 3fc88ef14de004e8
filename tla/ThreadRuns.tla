----------------------------- MODULE ThreadRuns -----------------------------
(***************************************************************************)
(* The runs of one dashboard thread and what the thread's metadata says    *)
(* about them (agent_dashboard/thread_api.py).  The LangGraph server owns  *)
(* the run table and the thread's status; the dashboard API mirrors the    *)
(* latest run in the metadata fields latest_run_id, latest_run_status and  *)
(* last_viewed_run_id, which run.start consults as well.  Every API        *)
(* handler is a coroutine that reads, awaits and writes; the page asks for *)
(* a refresh after certain events and while it was told the thread runs.   *)
(***************************************************************************)
EXTENDS Integers, FiniteSets

CONSTANTS
    Handlers,   \* slots for concurrent API requests
    MaxRuns     \* bound on runs of the thread

ASSUME MaxRunsIsNat == MaxRuns \in Nat

VARIABLES
    calm,       \* TRUE: no call to the server fails, and no run ends before the
                \* request that made it recorded it; settled at the start
    nruns,      \* runs created so far
    runs,       \* the server's run table: status of each run
    metaRun,    \* latest_run_id; 0 when absent
    metaStatus, \* latest_run_status; "none" when absent
    viewedRun,  \* last_viewed_run_id; 0 when absent
    frame,      \* each request: where it is and what it has read
    page        \* "due": the page is about to refetch; "quiet"

meta == <<metaRun, metaStatus, viewedRun>>
server == <<calm, nruns, runs>>
vars == <<calm, nruns, runs, metaRun, metaStatus, viewedRun, frame, page>>

RunIds == 1..MaxRuns
Unfinished == {"pending", "running"}
Finished == {"ended", "interrupted"}   \* success, error, timeout: "ended"
Statuses == {"none"} \cup Unfinished \cup Finished
Refs == 0..MaxRuns
PCs == {"idle", "startUpdate", "startPost", "startRecord", "directPost", "directRecord", "list", "write", "view",
        "cancelRun", "cancelWrite"}

(* What a request remembers: the thread it read (busy, run, status, viewed) *)
(* and the latest run it was told of (run 0: none, or the call failed).     *)
Frames == [pc : PCs, busy : BOOLEAN, run : Refs, status : Statuses, viewed : Refs,
           latest : Refs, latestStatus : Statuses]
Blank(label, r) ==
    [pc |-> label, busy |-> FALSE, run |-> 0, status |-> "none", viewed |-> 0,
     latest |-> r, latestStatus |-> "none"]
Idle == Blank("idle", 0)

Ended(r) == r \in RunIds /\ runs[r] \in Finished
Busy == \E r \in RunIds : runs[r] \in Unfinished
Finish(h) == frame' = [frame EXCEPT ![h] = Idle]
Goto(h, label) == frame' = [frame EXCEPT ![h].pc = label]

Begin(h, label) == frame' = [frame EXCEPT ![h] = Blank(label, 0)]

(* The request read the thread: status and metadata in one answer.  Only    *)
(* the one that writes all of them back needs the viewed run.               *)
Snapshot(label) ==
    [pc |-> label, busy |-> Busy, run |-> metaRun, status |-> metaStatus,
     viewed |-> IF label = "startUpdate" THEN viewedRun ELSE 0, latest |-> 0, latestStatus |-> "none"]
ThreadsGet(h, label) == frame' = [frame EXCEPT ![h] = Snapshot(label)]

Init ==
    /\ calm \in BOOLEAN
    /\ nruns = 0
    /\ runs = [r \in RunIds |-> "none"]
    /\ metaRun = 0 /\ metaStatus = "none" /\ viewedRun = 0
    /\ frame = [h \in Handlers |-> Idle]
    /\ page = "quiet"

----------------------------------------------------------------------------
(* The server: runs wait for their turn, execute and end.                   *)
Schedule(r) ==
    /\ runs[r] = "pending"
    /\ \A q \in RunIds : q < r => runs[q] \notin Unfinished
    /\ runs' = [runs EXCEPT ![r] = "running"]
    /\ UNCHANGED <<calm, nruns, meta, frame, page>>

(* A run ends, and the stream calls the page's onCompleted, which           *)
(* invalidates the thread's queries.                                        *)
MayEnd(r) ==
    calm => \A h \in Handlers : ~(frame[h].pc \in {"startRecord", "directRecord"} /\ frame[h].latest = r)

EndRun(r, s) ==
    /\ runs[r] = "running" /\ MayEnd(r)
    /\ runs' = [runs EXCEPT ![r] = s]
    /\ page' = "due"
    /\ UNCHANGED <<calm, nruns, meta, frame>>

----------------------------------------------------------------------------
(* proxy_dashboard_thread_commands with run.start: refused with 409 while   *)
(* the thread or its metadata says that a run is not finished.  Choosing a  *)
(* model writes the whole metadata back as it was read.                     *)
StartGet(h) ==
    /\ frame[h].pc = "idle" /\ nruns < MaxRuns
    /\ ~Busy /\ metaStatus \notin Unfinished
    /\ ThreadsGet(h, "startUpdate") \/ Begin(h, "startPost")
    /\ UNCHANGED <<server, meta, page>>

StartUpdate(h) ==
    /\ frame[h].pc = "startUpdate"
    /\ metaRun' = IF frame[h].run = 0 THEN metaRun ELSE frame[h].run
    /\ metaStatus' = IF frame[h].status = "none" THEN metaStatus ELSE frame[h].status
    /\ viewedRun' = IF frame[h].viewed = 0 THEN viewedRun ELSE frame[h].viewed
    /\ Begin(h, "startPost")
    /\ UNCHANGED <<server, page>>

(* continue_dashboard_queued_messages and direct_dashboard_queued_message   *)
(* on an idle thread: only the thread's own status is looked at.  There is  *)
(* something queued only after a first run.                                 *)
Continue(h) ==
    /\ frame[h].pc = "idle" /\ nruns \in 1..(MaxRuns - 1)
    /\ ~Busy
    /\ Begin(h, "startPost") \/ Begin(h, "directPost")
    /\ UNCHANGED <<server, meta, page>>

CreateRun ==
    /\ nruns < MaxRuns
    /\ nruns' = nruns + 1
    /\ runs' = [runs EXCEPT ![nruns + 1] = "pending"]
    /\ UNCHANGED calm

StartPost(h) ==
    /\ frame[h].pc \in {"startPost", "directPost"}
    /\ CreateRun
    /\ frame' = [frame EXCEPT ![h] =
         Blank(IF frame[h].pc = "startPost" THEN "startRecord" ELSE "directRecord", nruns + 1)]
    /\ UNCHANGED <<meta, page>>

(* The server refuses the run; or an earlier step of the request raises.    *)
StartFails(h) ==
    /\ frame[h].pc \in {"startUpdate", "startPost", "directPost"}
    /\ Finish(h)
    /\ UNCHANGED <<server, meta, page>>

(* Mutant: the status is recorded and the run is not.                       *)
MutStartRecord(h) ==
    /\ frame[h].pc \in {"startRecord", "directRecord"}
    /\ metaRun' = nruns + 1
    /\ metaStatus' = "pending"
    /\ page' = IF frame[h].pc = "startRecord" THEN "due" ELSE page
    /\ Finish(h)
    /\ UNCHANGED <<server, viewedRun>>

(* The answer arrived: the run becomes the latest one, whatever it has      *)
(* become meanwhile.  After run.start and continue the page invalidates its *)
(* queries; after "Dirigir" it only reloads the queue.                      *)
StartRecord(h) ==
    /\ frame[h].pc \in {"startRecord", "directRecord"}
    /\ metaRun' = frame[h].latest
    /\ metaStatus' = "pending"
    /\ page' = IF frame[h].pc = "startRecord" THEN "due" ELSE page
    /\ Finish(h)
    /\ UNCHANGED <<server, viewedRun>>

(* The answer or the update was lost: the run exists, unrecorded.           *)
RecordFails(h) ==
    /\ ~calm /\ frame[h].pc \in {"startRecord", "directRecord"}
    /\ Finish(h)
    /\ UNCHANGED <<server, meta, page>>

(* resume_dashboard_interrupt: a run that nothing records.                  *)
Resume ==
    /\ nruns > 0 /\ runs[nruns] = "interrupted"
    /\ CreateRun
    /\ UNCHANGED <<meta, frame, page>>

----------------------------------------------------------------------------
(* list_dashboard_threads and get_dashboard_thread.  The page asks when it  *)
(* is due; a user may open or reload it at any time.                        *)
RefreshGet(h) ==
    /\ frame[h].pc = "idle" /\ page = "due"
    /\ ThreadsGet(h, "list")
    /\ page' = "quiet"
    /\ UNCHANGED <<server, meta>>

Reload ==
    /\ page = "quiet"
    /\ page' = "due"
    /\ UNCHANGED <<server, meta, frame>>

(* _latest_run_info: the last run created, or nothing if the call failed.   *)
Listed(f, latest) ==
    [pc |-> "write", busy |-> f.busy, run |-> f.run, status |-> f.status, viewed |-> f.viewed,
     latest |-> latest, latestStatus |-> IF latest = 0 THEN "none" ELSE runs[latest]]

RefreshList(h) ==
    /\ frame[h].pc = "list"
    /\ \E latest \in {nruns, 0} :
         /\ latest = 0 => nruns = 0 \/ ~calm
         /\ frame' = [frame EXCEPT ![h] = Listed(frame[h], latest)]
    /\ UNCHANGED <<server, meta, page>>

(* Mutant: the status is written only together with a new run id.           *)
MutUpdate(h) ==
    LET f == frame[h] IN
    /\ metaStatus' = IF f.latest \notin {0, f.run} THEN f.latestStatus ELSE metaStatus
    /\ metaRun' = IF f.latest \notin {0, f.run} THEN f.latest ELSE metaRun

(* _refresh_latest_run_metadata: write the fields that differ from what was *)
(* read; a failure is swallowed.                                            *)
Update(h) ==
    LET f == frame[h] IN
    /\ metaStatus' = IF f.latestStatus \notin {"none", f.status} THEN f.latestStatus ELSE metaStatus
    /\ metaRun' = IF f.latest \notin {0, f.run} THEN f.latest ELSE metaRun

(* _run_status_to_agent_status is "running"; the run's own status, when     *)
(* known, replaces the recorded one.                                        *)
ShownRunning(f) ==
    \/ f.busy
    \/ (IF f.latestStatus # "none" THEN f.latestStatus ELSE f.status) \in Unfinished

(* _thread_run_id                                                           *)
ShownRun(f) == IF f.latest # 0 THEN f.latest ELSE f.run

(* What get_dashboard_thread goes on with: the status and the run to show.  *)
Shown(f) ==
    [pc |-> "view", busy |-> ShownRunning(f), run |-> 0, status |-> "none", viewed |-> 0,
     latest |-> ShownRun(f), latestStatus |-> "none"]

RefreshWrite(h) ==
    /\ frame[h].pc = "write"
    /\ \/ Update(h)
       \/ ~calm /\ UNCHANGED <<metaRun, metaStatus>>
    /\ frame' = [frame EXCEPT ![h] = Shown(frame[h])]
    /\ UNCHANGED <<server, viewedRun, page>>

(* Mutant: what is marked as viewed is whatever run is the latest by now.   *)
MutMarkViewed(r) == viewedRun' = IF nruns # 0 THEN nruns ELSE viewedRun

MarkViewed(r) == viewedRun' = IF r # 0 THEN r ELSE viewedRun

(* _mark_thread_viewed, by the owner's detail request on a thread that does *)
(* not run, unless it fails; then the answer.  A page that is told the      *)
(* thread runs polls on.                                                    *)
Respond(h) ==
    /\ frame[h].pc = "view"
    /\ \/ ~frame[h].busy /\ MarkViewed(frame[h].latest)
       \/ UNCHANGED viewedRun
    /\ page' = IF frame[h].busy THEN "due" ELSE page
    /\ Finish(h)
    /\ UNCHANGED <<server, metaRun, metaStatus>>

----------------------------------------------------------------------------
(* cancel_dashboard_thread cancels the run the metadata names, and          *)
(* proxy_dashboard_thread_run_cancel the one the client names.              *)
CancelGet(h, r) ==
    /\ frame[h].pc = "idle" /\ r <= nruns
    /\ r = 0 => metaRun = 0
    /\ frame' = [frame EXCEPT ![h] = Blank("cancelRun", r)]
    /\ UNCHANGED <<server, meta, page>>

CancelRun(h) ==
    LET r == frame[h].latest IN
    /\ frame[h].pc = "cancelRun"
    /\ r = 0 \/ MayEnd(r)
    /\ \/ /\ r # 0 /\ runs[r] \in Unfinished
          /\ runs' = [runs EXCEPT ![r] = "interrupted"]
       \/ /\ r # 0 /\ runs[r] \in Unfinished => ~calm    \* the failure is swallowed
          /\ UNCHANGED runs
    /\ Begin(h, "cancelWrite")
    /\ UNCHANGED <<calm, nruns, meta, page>>

(* The status is overwritten whether or not there was a run to cancel, and  *)
(* the page's handler invalidates its queries.                              *)
CancelWrite(h) ==
    /\ frame[h].pc = "cancelWrite"
    /\ metaStatus' = "interrupted"
    /\ page' = "due"
    /\ Finish(h)
    /\ UNCHANGED <<server, metaRun, viewedRun>>

(* The proxy was refused, or the update of the metadata failed.             *)
CancelFails(h) ==
    /\ frame[h].pc \in {"cancelRun", "cancelWrite"}
    /\ ~calm \/ (frame[h].pc = "cancelRun" /\ (frame[h].latest = 0 \/ Ended(frame[h].latest)))
    /\ Finish(h)
    /\ UNCHANGED <<server, meta, page>>

HandlerStep(h) ==
    \/ StartUpdate(h) \/ StartPost(h) \/ StartFails(h) \/ StartRecord(h)
    \/ RefreshList(h) \/ RefreshWrite(h) \/ Respond(h)
    \/ CancelRun(h) \/ CancelWrite(h)

RunStep(r) == Schedule(r) \/ \E s \in Finished : EndRun(r, s)

Next ==
    \/ \E r \in RunIds : RunStep(r)
    \/ Resume \/ Reload
    \/ \E h \in Handlers :
         \/ StartGet(h) \/ Continue(h) \/ RefreshGet(h) \/ \E r \in Refs : CancelGet(h, r)
         \/ HandlerStep(h) \/ RecordFails(h) \/ CancelFails(h)

Spec == Init /\ [][Next]_vars

(* The API serves its requests, a page that is due asks (strongly, as the   *)
(* server does not run out of slots for it), and runs proceed; users need   *)
(* not do anything.                                                         *)
Fairness ==
    /\ \A r \in RunIds : WF_vars(RunStep(r))
    /\ \A h \in Handlers : WF_vars(HandlerStep(h))
    /\ SF_vars(\E h \in Handlers : RefreshGet(h))

FairSpec == Spec /\ Fairness

----------------------------------------------------------------------------
TypeOK ==
    /\ calm \in BOOLEAN
    /\ nruns \in Refs
    /\ runs \in [RunIds -> Statuses]
    /\ metaRun \in Refs
    /\ metaStatus \in Statuses
    /\ viewedRun \in Refs
    /\ frame \in [Handlers -> Frames]
    /\ page \in {"quiet", "due"}

(* A run is marked as viewed only when it is over, although thread, run     *)
(* table and mark are three requests (get_dashboard_thread: `status !=      *)
(* "running"`; test_get_dashboard_thread_does_not_mark_running_thread_viewed *)
(* is the sequential case).                                                 *)
ViewedHasEnded == viewedRun # 0 => Ended(viewedRun)

(* Whatever the metadata and a request's snapshot name exists, and a        *)
(* snapshot of a thread that was not busy names a run that is over, as does *)
(* a finished status of the run table.                                      *)
RunsKnown == \A r \in RunIds : runs[r] # "none" <=> r <= nruns

SnapshotOK(f) ==
    /\ f.run <= nruns /\ f.latest <= nruns
    /\ f.viewed # 0 => Ended(f.viewed)
    /\ ~f.busy /\ f.run # 0 /\ f.pc # "idle" => Ended(f.run)
    /\ f.pc = "view" /\ ~f.busy /\ f.latest # 0 => Ended(f.latest)
    /\ f.pc = "write" =>
         /\ f.latest = 0 <=> f.latestStatus = "none"
         /\ f.latestStatus \in Finished => Ended(f.latest)

Inv ==
    /\ TypeOK /\ RunsKnown /\ ViewedHasEnded
    /\ metaRun <= nruns
    /\ \A h \in Handlers : SnapshotOK(frame[h])

(* run.start answers "thread is already running; queue message instead" and *)
(* a follow-up "thread is idle; start a run via the stream commands         *)
(* endpoint": a thread that is in both states leaves them, for the page     *)
(* refetches until the metadata are right.  Where calls fail or a run is    *)
(* over before it is recorded nothing may refetch again.                    *)
DeadEnd == ~Busy /\ metaStatus \in Unfinished
DeadEndsEnd == calm /\ DeadEnd ~> ~DeadEnd
=============================================================================

-------------------------- MODULE ThreadRunsProofs --------------------------
(***************************************************************************)
(* Proofs about ThreadRuns for any number of requests and of runs.         *)
(***************************************************************************)
EXTENDS ThreadRuns, TLAPS

LEMMA InitInv == Init => Inv
<1> SUFFICES ASSUME Init PROVE Inv OBVIOUS
<1>1. TypeOK
  BY MaxRunsIsNat DEF Init, TypeOK, Idle, Blank, Frames, PCs, Statuses, Unfinished, Finished, Refs, RunIds
<1>2. RunsKnown BY DEF Init, RunsKnown, RunIds
<1>3. ViewedHasEnded /\ metaRun <= nruns BY DEF Init, ViewedHasEnded
<1>4. \A h \in Handlers : SnapshotOK(frame[h]) BY DEF Init, SnapshotOK, Idle, Blank
<1> QED BY <1>1, <1>2, <1>3, <1>4 DEF Inv

(* A request's step that leaves the run table alone: what it writes to the  *)
(* metadata and what it then holds have to fit.                             *)
LEMMA RequestStep ==
    ASSUME Inv, NEW h \in Handlers, NEW f \in Frames, SnapshotOK(f),
           frame' = [frame EXCEPT ![h] = f], UNCHANGED server, page' \in {"quiet", "due"},
           metaRun' \in Refs, metaRun' <= nruns, metaStatus' \in Statuses, viewedRun' \in Refs,
           viewedRun' # 0 => viewedRun' \in RunIds /\ runs[viewedRun'] \in Finished
    PROVE  Inv'
<1>1. TypeOK' BY DEF Inv, TypeOK, server
<1>2. RunsKnown' BY DEF Inv, RunsKnown, server
<1>3. ViewedHasEnded' /\ (metaRun <= nruns)' BY DEF Inv, ViewedHasEnded, Ended, server
<1>4. ASSUME NEW g \in Handlers PROVE SnapshotOK(frame[g])'
  <2>1. CASE g = h BY <2>1 DEF Inv, TypeOK, SnapshotOK, Ended, server
  <2>2. CASE g # h BY <2>2 DEF Inv, TypeOK, SnapshotOK, Ended, server
  <2> QED BY <2>1, <2>2
<1> QED BY <1>1, <1>2, <1>3, <1>4 DEF Inv

(* The same for a step that leaves the metadata alone too.                  *)
LEMMA FrameStep ==
    ASSUME Inv, NEW h \in Handlers, NEW f \in Frames, SnapshotOK(f),
           frame' = [frame EXCEPT ![h] = f], UNCHANGED <<server, meta>>,
           page' \in {"quiet", "due"}
    PROVE  Inv'
<1>1. metaRun' \in Refs /\ metaRun' <= nruns /\ metaStatus' \in Statuses /\ viewedRun' \in Refs
  BY DEF Inv, TypeOK, meta
<1>2. viewedRun' # 0 => viewedRun' \in RunIds /\ runs[viewedRun'] \in Finished
  BY DEF Inv, ViewedHasEnded, Ended, meta
<1> QED BY <1>1, <1>2, RequestStep

(* A request that ended, or that only begins, holds nothing.                *)
LEMMA BlankFits ==
    ASSUME Inv, NEW label \in PCs \ {"write", "view"}, NEW r \in Refs, r <= nruns
    PROVE  Blank(label, r) \in Frames /\ SnapshotOK(Blank(label, r))
<1>1. nruns \in Nat BY MaxRunsIsNat DEF Inv, TypeOK, Refs
<1> QED
  BY <1>1, MaxRunsIsNat DEF Blank, Frames, Statuses, Refs, SnapshotOK

LEMMA IdleFits == Inv => Idle \in Frames /\ SnapshotOK(Idle)
<1> SUFFICES ASSUME Inv PROVE Idle \in Frames /\ SnapshotOK(Idle) OBVIOUS
<1>1. "idle" \in PCs \ {"write", "view"} BY DEF PCs
<1>2. 0 \in Refs /\ 0 <= nruns BY MaxRunsIsNat DEF Inv, TypeOK, Refs
<1> QED BY <1>1, <1>2, BlankFits DEF Idle

(* A thread that is not busy names, if any, a run that is over.             *)
LEMMA SnapshotFits ==
    ASSUME Inv, NEW label \in PCs \ {"write", "view"}
    PROVE  Snapshot(label) \in Frames /\ SnapshotOK(Snapshot(label))
<1>2. Busy \in BOOLEAN BY DEF Busy
<1>3. Snapshot(label) \in Frames
  BY <1>2, MaxRunsIsNat DEF Snapshot, Frames, Inv, TypeOK, Statuses, Refs
<1>4. nruns \in Nat /\ metaRun \in Nat /\ metaRun <= nruns
  BY MaxRunsIsNat DEF Inv, TypeOK, Refs
<1>5. ~Busy /\ metaRun # 0 => Ended(metaRun)
  <2> SUFFICES ASSUME ~Busy, metaRun # 0 PROVE Ended(metaRun) OBVIOUS
  <2>1. metaRun \in RunIds BY MaxRunsIsNat DEF Inv, TypeOK, Refs, RunIds
  <2>2. runs[metaRun] # "none" BY <2>1, <1>4 DEF Inv, RunsKnown
  <2>3. runs[metaRun] \in Statuses BY <2>1 DEF Inv, TypeOK
  <2> QED BY <2>1, <2>2, <2>3 DEF Busy, Statuses, Ended
<1>6. viewedRun # 0 => Ended(viewedRun) BY DEF Inv, ViewedHasEnded
<1>7. SnapshotOK(Snapshot(label)) BY <1>4, <1>5, <1>6 DEF SnapshotOK, Snapshot
<1> QED BY <1>3, <1>7

(* The server's steps: the requests' snapshots stay right because a run     *)
(* that is over stays over.                                                 *)
LEMMA RunStepInv ==
    ASSUME Inv, NEW q \in RunIds, RunStep(q)
    PROVE  Inv'
<1>0. runs' \in [RunIds -> Statuses] /\ runs'[q] # "none" /\ runs[q] \in Unfinished
  BY DEF RunStep, Schedule, EndRun, Inv, TypeOK, Statuses, Unfinished, Finished
<1>1. \A r \in RunIds : r # q => runs'[r] = runs[r]
  BY DEF RunStep, Schedule, EndRun, Inv, TypeOK
<1>2. UNCHANGED <<calm, nruns, metaRun, metaStatus, viewedRun, frame>> /\ page' \in {"quiet", "due"}
  BY DEF RunStep, Schedule, EndRun, Inv, TypeOK, meta
<1>3. TypeOK' BY <1>0, <1>2 DEF Inv, TypeOK
<1>4. RunsKnown' BY <1>0, <1>1, <1>2 DEF Inv, RunsKnown, Unfinished
<1>5. \A r \in RunIds : runs[r] \in Finished => runs'[r] \in Finished
  BY <1>0, <1>1 DEF Unfinished, Finished
<1>6. ViewedHasEnded' /\ (metaRun <= nruns)' BY <1>2, <1>5 DEF Inv, ViewedHasEnded, Ended
<1>7. \A h \in Handlers : SnapshotOK(frame[h])' BY <1>2, <1>5 DEF Inv, SnapshotOK, Ended
<1> QED BY <1>3, <1>4, <1>6, <1>7 DEF Inv

(* A new run: nothing that was known before is disturbed.                   *)
LEMMA CreateRunInv ==
    ASSUME Inv, CreateRun, UNCHANGED meta, page' \in {"quiet", "due"},
           \/ UNCHANGED frame
           \/ \E h \in Handlers, label \in {"startRecord", "directRecord"} :
                 frame' = [frame EXCEPT ![h] = Blank(label, nruns + 1)]
    PROVE  Inv'
<1>0. nruns \in Nat /\ nruns < MaxRuns /\ nruns' = nruns + 1 /\ nruns' \in Refs /\ nruns + 1 \in RunIds
  BY MaxRunsIsNat DEF CreateRun, Inv, TypeOK, Refs, RunIds
<1>1. runs' = [runs EXCEPT ![nruns + 1] = "pending"] /\ runs \in [RunIds -> Statuses]
  BY DEF CreateRun, Inv, TypeOK
<1>2. runs' \in [RunIds -> Statuses] BY <1>0, <1>1 DEF Statuses, Unfinished
<1>3. RunsKnown' BY <1>0, <1>1 DEF Inv, RunsKnown, RunIds
<1>4. \A r \in RunIds : runs[r] \in Finished => runs'[r] \in Finished
  BY <1>0, <1>1 DEF Inv, RunsKnown, RunIds, Finished
<1>5. ViewedHasEnded' BY <1>4 DEF Inv, ViewedHasEnded, Ended, meta
<1>6. (metaRun <= nruns)' BY <1>0, MaxRunsIsNat DEF Inv, TypeOK, Refs, meta
<1>7. \A label \in {"startRecord", "directRecord"} : Blank(label, nruns + 1) \in Frames
  BY <1>0, MaxRunsIsNat DEF Blank, Frames, PCs, Statuses, Refs
<1>8. frame' \in [Handlers -> Frames] BY <1>7 DEF Inv, TypeOK
<1>9. TypeOK' BY <1>0, <1>2, <1>8 DEF Inv, TypeOK, meta, CreateRun
<1>10. ASSUME NEW g \in Handlers PROVE SnapshotOK(frame[g])'
  <2>1. frame[g].run \in Nat /\ frame[g].latest \in Nat
    BY MaxRunsIsNat DEF Inv, TypeOK, Frames, Refs
  <2>2. CASE frame'[g] = frame[g] BY <1>0, <1>4, <2>1, <2>2 DEF Inv, SnapshotOK, Ended
  <2>3. ASSUME NEW label \in {"startRecord", "directRecord"}, frame'[g] = Blank(label, nruns + 1)
        PROVE  SnapshotOK(frame[g])'
    BY <1>0, <2>3 DEF SnapshotOK, Blank, Ended
  <2> QED BY <2>2, <2>3 DEF Inv, TypeOK
<1> QED BY <1>3, <1>5, <1>6, <1>9, <1>10 DEF Inv

(* Every step of a request.                                                 *)
LEMMA HandlerStepInv ==
    ASSUME Inv, NEW h \in Handlers, HandlerStep(h)
    PROVE  Inv'
<1> DEFINE f == frame[h]
<1>0. f \in Frames /\ SnapshotOK(f) BY DEF Inv, TypeOK
<1>a. metaRun \in Refs /\ metaRun <= nruns /\ metaStatus \in Statuses /\ viewedRun \in Refs
      /\ page \in {"quiet", "due"}
  BY DEF Inv, TypeOK
<1>b. viewedRun # 0 => viewedRun \in RunIds /\ runs[viewedRun] \in Finished
  BY DEF Inv, ViewedHasEnded, Ended
<1>c. Idle \in Frames /\ SnapshotOK(Idle) BY IdleFits
<1>d. Blank("startPost", 0) \in Frames /\ SnapshotOK(Blank("startPost", 0))
  <2>1. "startPost" \in PCs \ {"write", "view"} /\ 0 \in Refs /\ 0 <= nruns
    BY MaxRunsIsNat DEF PCs, Refs, Inv, TypeOK
  <2> QED BY <2>1, BlankFits
<1>e. f.run \in Refs /\ f.run <= nruns /\ f.status \in Statuses /\ f.viewed \in Refs
      /\ f.latest \in Refs /\ f.latest <= nruns /\ f.latestStatus \in Statuses
  BY <1>0 DEF Frames, SnapshotOK
<1>f. f.viewed # 0 => f.viewed \in RunIds /\ runs[f.viewed] \in Finished
  BY <1>0 DEF SnapshotOK, Ended
<1>1. CASE StartUpdate(h)
  BY <1>1, <1>a, <1>b, <1>d, <1>e, <1>f, RequestStep DEF StartUpdate, Begin
<1>2. CASE StartPost(h)
  BY <1>2, <1>a, CreateRunInv DEF StartPost
<1>3. CASE StartFails(h)
  BY <1>3, <1>a, <1>c, FrameStep DEF StartFails, Finish
<1>4. CASE StartRecord(h)
  <2>1. "pending" \in Statuses BY DEF Statuses, Unfinished
  <2> QED BY <1>4, <2>1, <1>a, <1>b, <1>c, <1>e, RequestStep DEF StartRecord, Finish
<1>5. CASE RefreshList(h)
  <2>1. PICK latest \in {nruns, 0} : frame' = [frame EXCEPT ![h] = Listed(frame[h], latest)]
    BY <1>5 DEF RefreshList
  <2>2. latest \in Refs /\ latest <= nruns
    BY MaxRunsIsNat DEF Inv, TypeOK, Refs
  <2>3. latest # 0 => latest \in RunIds /\ runs[latest] \in Statuses /\ runs[latest] # "none"
    <3> SUFFICES ASSUME latest # 0 PROVE latest \in RunIds /\ runs[latest] \in Statuses /\ runs[latest] # "none"
      OBVIOUS
    <3>1. latest \in RunIds BY <2>2, MaxRunsIsNat DEF Refs, RunIds
    <3> QED BY <3>1, <2>2 DEF Inv, TypeOK, RunsKnown
  <2>4. Listed(f, latest) \in Frames
    <3>1. (IF latest = 0 THEN "none" ELSE runs[latest]) \in Statuses BY <2>3 DEF Statuses
    <3>2. "write" \in PCs BY DEF PCs
    <3> QED BY <1>0, <3>1, <3>2, <2>2 DEF Listed, Frames
  <2>5. SnapshotOK(Listed(f, latest))
    <3>1. f.pc = "list" BY <1>5 DEF RefreshList
    <3> QED BY <1>0, <1>e, <2>2, <2>3, <3>1 DEF Listed, SnapshotOK, Ended, Finished
  <2> HIDE DEF f
  <2> QED BY <1>5, <2>1, <2>4, <2>5, <1>a, FrameStep DEF RefreshList, f
<1>6. CASE RefreshWrite(h)
  <2>0. f.pc = "write" BY <1>6 DEF RefreshWrite
  <2>1. ~ShownRunning(f) /\ ShownRun(f) # 0 => Ended(ShownRun(f))
    <3> SUFFICES ASSUME ~ShownRunning(f), ShownRun(f) # 0 PROVE Ended(ShownRun(f))
      OBVIOUS
    <3>2. CASE f.latest # 0
      BY <1>0, <1>e, <2>0, <3>2 DEF ShownRunning, ShownRun, SnapshotOK, Statuses
    <3>3. CASE f.latest = 0
      BY <1>0, <1>e, <2>0, <3>3 DEF ShownRunning, ShownRun, SnapshotOK
    <3> QED BY <3>2, <3>3
  <2>2. ShownRun(f) \in Refs /\ ShownRun(f) <= nruns BY <1>e DEF ShownRun
  <2>3. ShownRunning(f) \in BOOLEAN BY <1>0 DEF ShownRunning, Frames
  <2>4. Shown(f) \in Frames
    BY <2>2, <2>3, MaxRunsIsNat DEF Shown, Frames, PCs, Statuses, Refs
  <2>5. SnapshotOK(Shown(f))
    <3>1. 0 <= nruns BY MaxRunsIsNat DEF Inv, TypeOK, Refs
    <3> QED BY <2>1, <2>2, <3>1 DEF Shown, SnapshotOK
  <2>6. metaRun' \in Refs /\ metaRun' <= nruns /\ metaStatus' \in Statuses
    BY <1>6, <1>a, <1>e DEF RefreshWrite, Update
  <2> QED BY <1>6, <2>4, <2>5, <2>6, <1>a, <1>b, RequestStep DEF RefreshWrite
<1>7. CASE Respond(h)
  <2>1. ~f.busy /\ f.latest # 0 => f.latest \in RunIds /\ runs[f.latest] \in Finished
    BY <1>7, <1>0 DEF Respond, SnapshotOK, Ended
  <2>2. viewedRun' \in Refs /\ (viewedRun' # 0 => viewedRun' \in RunIds /\ runs[viewedRun'] \in Finished)
    BY <1>7, <2>1, <1>a, <1>b, <1>e DEF Respond, MarkViewed
  <2> QED BY <1>7, <2>2, <1>a, <1>c, RequestStep DEF Respond, Finish
<1>9. CASE CancelWrite(h)
  <2>1. "interrupted" \in Statuses BY DEF Statuses, Finished
  <2> QED BY <1>9, <2>1, <1>a, <1>b, <1>c, RequestStep DEF CancelWrite, Finish
<1>8. CASE CancelRun(h)
  <2> DEFINE r == frame[h].latest
  <2>1. CASE r # 0 /\ runs[r] \in Unfinished /\ runs' = [runs EXCEPT ![r] = "interrupted"]
    <3>1. r \in RunIds BY <1>e, <2>1, MaxRunsIsNat DEF Refs, RunIds
    <3>2. runs' = [runs EXCEPT ![r] = "interrupted"] BY <2>1
    <3>3. runs' \in [RunIds -> Statuses] BY <3>2 DEF Inv, TypeOK, Statuses, Finished
    <3>4. UNCHANGED <<calm, nruns, metaRun, metaStatus, viewedRun, page>> BY <1>8 DEF CancelRun, meta
    <3>5. \A q \in RunIds : runs[q] \in Finished => runs'[q] \in Finished
      BY <3>2 DEF Inv, TypeOK, Finished
    <3>6. "cancelWrite" \in PCs \ {"write", "view"} /\ 0 \in Refs /\ 0 <= nruns
      BY MaxRunsIsNat DEF PCs, Refs, Inv, TypeOK
    <3>7. Blank("cancelWrite", 0) \in Frames /\ SnapshotOK(Blank("cancelWrite", 0))
      BY <3>6, BlankFits
    <3>8. frame' = [frame EXCEPT ![h] = Blank("cancelWrite", 0)] BY <1>8 DEF CancelRun, Begin
    <3>9. TypeOK' BY <3>3, <3>4, <3>7, <3>8 DEF Inv, TypeOK
    <3>10. RunsKnown' BY <3>1, <3>2, <3>4, <2>1 DEF Inv, TypeOK, RunsKnown, Unfinished
    <3>11. ViewedHasEnded' /\ (metaRun <= nruns)' BY <3>4, <3>5 DEF Inv, ViewedHasEnded, Ended
    <3>12. ASSUME NEW g \in Handlers PROVE SnapshotOK(frame[g])'
      <4>1. CASE g = h BY <4>1, <3>4, <3>7, <3>8 DEF Inv, TypeOK, SnapshotOK, Blank, Ended
      <4>2. CASE g # h BY <4>2, <3>4, <3>5, <3>8 DEF Inv, TypeOK, SnapshotOK, Ended
      <4> QED BY <4>1, <4>2
    <3> QED BY <3>9, <3>10, <3>11, <3>12 DEF Inv
  <2>2. CASE runs' = runs
    <3>1. "cancelWrite" \in PCs \ {"write", "view"} /\ 0 \in Refs /\ 0 <= nruns
      BY MaxRunsIsNat DEF PCs, Refs, Inv, TypeOK
    <3>2. UNCHANGED <<server, meta>> /\ UNCHANGED page BY <1>8, <2>2 DEF CancelRun, server
    <3> QED BY <1>8, <3>1, <3>2, <1>a, BlankFits, FrameStep DEF CancelRun, Begin
  <2> QED BY <1>8, <2>1, <2>2 DEF CancelRun
<1> QED
  BY <1>1, <1>2, <1>3, <1>4, <1>5, <1>6, <1>7, <1>8, <1>9 DEF HandlerStep

(* The inductive invariant: the metadata and every request's snapshot name  *)
(* existing runs, and a snapshot taken of an idle thread, or a finished     *)
(* status read from the run table, names one that is over (thread_api.py's  *)
(* refresh, start, cancel and view handlers).                               *)
THEOREM Invariance == Spec => []Inv
<1>1. Inv /\ [Next]_vars => Inv'
  <2> SUFFICES ASSUME Inv, [Next]_vars PROVE Inv' OBVIOUS
  <2>0. page \in {"quiet", "due"} BY DEF Inv, TypeOK
  <2>a. \A label \in {"startPost", "directPost", "cancelRun"} : label \in PCs \ {"write", "view"} BY DEF PCs
  <2>b. "list" \in PCs \ {"write", "view"} /\ "startUpdate" \in PCs \ {"write", "view"} BY DEF PCs
  <2>c. 0 \in Refs /\ 0 <= nruns BY MaxRunsIsNat DEF Refs, Inv, TypeOK
  <2>1. ASSUME NEW r \in RunIds, RunStep(r) PROVE Inv' BY <2>1, RunStepInv
  <2>2. CASE Resume BY <2>2, <2>0, CreateRunInv DEF Resume
  <2>3. CASE Reload
    BY <2>3 DEF Reload, Inv, TypeOK, RunsKnown, ViewedHasEnded, SnapshotOK, Ended, server, meta
  <2>4. ASSUME NEW h \in Handlers, StartGet(h) \/ Continue(h) PROVE Inv'
    BY <2>4, <2>0, <2>a, <2>b, <2>c, BlankFits, SnapshotFits, FrameStep
       DEF StartGet, Continue, Begin, ThreadsGet
  <2>5. ASSUME NEW h \in Handlers, RefreshGet(h) PROVE Inv'
    BY <2>5, <2>b, SnapshotFits, FrameStep DEF RefreshGet, ThreadsGet
  <2>6. ASSUME NEW h \in Handlers, NEW r \in Refs, CancelGet(h, r) PROVE Inv'
    BY <2>6, <2>0, <2>a, BlankFits, FrameStep DEF CancelGet
  <2>7. ASSUME NEW h \in Handlers, HandlerStep(h) PROVE Inv' BY <2>7, HandlerStepInv
  <2>8. ASSUME NEW h \in Handlers, RecordFails(h) \/ CancelFails(h) PROVE Inv'
    BY <2>8, <2>0, IdleFits, FrameStep DEF RecordFails, CancelFails, Finish
  <2>9. CASE UNCHANGED vars
    BY <2>9 DEF vars, Inv, TypeOK, RunsKnown, ViewedHasEnded, SnapshotOK, Ended
  <2> QED BY <2>1, <2>2, <2>3, <2>4, <2>5, <2>6, <2>7, <2>8, <2>9 DEF Next
<1> QED BY InitInv, <1>1, PTL DEF Spec

(* However the requests of a thread interleave and whichever of their calls *)
(* fail, a run that last_viewed_run_id names is over (get_dashboard_thread, *)
(* _mark_thread_viewed).                                                    *)
THEOREM ViewedAlwaysEnded == Spec => []ViewedHasEnded
<1>1. Inv => ViewedHasEnded BY DEF Inv
<1> QED BY <1>1, Invariance, PTL

(* Every variable of the model keeps its type.                              *)
THEOREM TypeCorrect == Spec => []TypeOK
<1>1. Inv => TypeOK BY DEF Inv
<1> QED BY <1>1, Invariance, PTL
=============================================================================

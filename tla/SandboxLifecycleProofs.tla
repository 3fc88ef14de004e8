----------------------- MODULE SandboxLifecycleProofs -----------------------
(***************************************************************************)
(* Proofs about SandboxLifecycle, for any workers, calls, provider pool,   *)
(* timeout and set of disturbances: the invariant Inv is inductive, hence  *)
(* the sentinel always has an owner or was abandoned, and a running run    *)
(* always has a cached backend, of a sandbox the provider made. For runs   *)
(* that do not overlap, start from the metadata of their moment and are    *)
(* not cancelled, SerialInv is inductive too, hence a run starts only when *)
(* the metadata name the sandbox that its process has cached.              *)
(***************************************************************************)
EXTENDS SandboxLifecycle, TLAPS

USE ProcOfType, TimeoutIsNat, NotSandboxes

(* Ageing a timestamp keeps it an age and never makes a stale one fresh.    *)
LEMMA OlderType ==
    ASSUME NEW age \in Ages
    PROVE  Older(age) \in Ages /\ (Stale(age) => Stale(Older(age)))
BY DEF Older, Stale, Ages, NoStamp

(* Initially no call runs, and a sentinel can only be a legacy one.         *)
LEMMA InitInv == Init => Inv
<1> SUFFICES ASSUME Init PROVE Inv
  OBVIOUS
<1>1. TypeOK
  BY DEF Init, TypeOK, MetaValues, Ages, NoStamp, Handles, PCs
<1>2. KnownIds /\ \A c \in Calls : FrameOK(c)
  BY DEF Init, KnownIds, FrameOK
<1>3. SentinelOwned
  BY DEF Init, SentinelOwned
<1> QED
  BY <1>1, <1>2, <1>3 DEF Inv

(* What one metadata write leaves is well typed.                            *)
LEMMA WriteMetaType ==
    ASSUME TypeOK, NEW id \in MetaValues, NEW age \in Ages, WriteMeta(id, age)
    PROVE  metaId' \in MetaValues /\ metaAge' \in Ages /\ seen' \subseteq MetaValues /\ abandoned' = FALSE
BY DEF TypeOK, WriteMeta

(* A call whose frame is dropped at "idle" constrains nothing any more.     *)
LEMMA EndFrameType ==
    ASSUME TypeOK, NEW c \in Calls, NEW label \in PCs, EndFrame(c, label)
    PROVE  /\ pc' \in [Calls -> PCs] /\ kind' \in [Calls -> {"run", "tool"}]
           /\ local' \in [Calls -> MetaValues] /\ own' \in [Calls -> Handles]
           /\ stamp' \in [Calls -> Ages]
BY DEF TypeOK, EndFrame, Goto, MetaValues, Handles, Ages, NoStamp

(* A call lost at one of its updates: whichever way the update went.        *)
LEMMA LostUpdateMeta ==
    ASSUME Inv, NEW c \in Calls, LostUpdate(c)
    PROVE  /\ metaId' \in live \cup {None, Creating}
           /\ metaId' \in MetaValues
           /\ metaAge' \in Ages
           /\ seen' \subseteq live \cup {None, Creating}
           /\ seen' \subseteq MetaValues
           /\ abandoned' \in BOOLEAN
           /\ metaId' = Creating => abandoned' \/ \E d \in Calls \ {c} : pc[d] \in OwnerPCs
<1> USE DEF Inv, TypeOK, KnownIds, MetaValues
<1>1. CASE Abandon({c}) /\ UNCHANGED <<metaId, metaAge, seen>>
  <2>1. abandoned' = (abandoned \/ (metaId = Creating /\ pc[c] \in OwnerPCs))
    BY <1>1 DEF Abandon
  <2>2. metaId = Creating => abandoned' \/ \E d \in Calls \ {c} : pc[d] \in OwnerPCs
    BY <2>1 DEF SentinelOwned
  <2> QED
    BY <1>1, <2>1, <2>2
<1>2. CASE pc[c] \in {"reset", "release"} /\ WriteMeta(None, NoStamp)
  <2>1. NoStamp \in Ages
    BY DEF Ages, NoStamp
  <2> QED
    BY <1>2, <2>1 DEF WriteMeta
<1>3. CASE pc[c] = "persist" /\ WriteMeta(own[c], metaAge)
  BY <1>3 DEF WriteMeta, FrameOK
<1>4. CASE /\ pc[c] = "claim" /\ metaId' = Creating /\ metaAge' = stamp[c]
           /\ seen' = seen \cup {Creating} /\ abandoned' = TRUE
  BY <1>4
<1> QED
  BY <1>1, <1>2, <1>3, <1>4 DEF LostUpdate

(* ... and its frame dropped.                                               *)
LEMMA LostFrameInv ==
    ASSUME Inv, NEW c \in Calls, LostUpdate(c), EndFrame(c, "idle"), UNCHANGED <<live, cache>>
    PROVE  Inv'
<1>1. TypeOK'
  BY LostUpdateMeta, EndFrameType DEF Inv, TypeOK, PCs
<1>2. KnownIds'
  BY LostUpdateMeta DEF Inv, TypeOK, KnownIds, EndFrame
<1>3. \A d \in Calls : FrameOK(d)'
  BY DEF Inv, TypeOK, FrameOK, EndFrame, Goto
<1>4. SentinelOwned'
  BY LostUpdateMeta DEF Inv, TypeOK, SentinelOwned, EndFrame, Goto
<1> QED
  BY <1>1, <1>2, <1>3, <1>4 DEF Inv

(* A step of a call or of a starting or ending run, one action at a time.   *)
LEMMA CallInv ==
    ASSUME Inv, NEW c \in Calls,
           StartRun(c) \/ StartRecovery(c) \/ EndRun(c) \/ CallStep(c)
             \/ Raise(c) \/ UpdateFails(c)
    PROVE  Inv'
<1> USE DEF Inv, metadata, TypeOK
<1>1. CASE StartRun(c)
  <2>1. TypeOK'
    BY <1>1 DEF StartRun, Goto, PCs, Branch, Ages, NoStamp
  <2>2. KnownIds'
    BY <1>1 DEF StartRun, Goto, Branch, Active, Orphan, KnownIds, FrameOK
  <2>3. \A d \in Calls : FrameOK(d)'
    BY <1>1 DEF StartRun, Goto, Branch, Active, Orphan, KnownIds, FrameOK
  <2>4. SentinelOwned'
    BY <1>1 DEF StartRun, Goto, Branch, Active, Orphan, SentinelOwned, OwnerPCs, KnownIds, FrameOK
  <2> QED
    BY <2>1, <2>2, <2>3, <2>4
<1>2. CASE StartRecovery(c)
  <2>1. TypeOK'
    BY <1>2 DEF StartRecovery, Goto, PCs, Ages, NoStamp
  <2>2. KnownIds'
    BY <1>2 DEF StartRecovery, Goto, KnownIds, FrameOK
  <2>3. \A d \in Calls : FrameOK(d)'
    BY <1>2 DEF StartRecovery, Goto, KnownIds, FrameOK
  <2>4. SentinelOwned'
    BY <1>2 DEF StartRecovery, Goto, SentinelOwned, OwnerPCs, KnownIds, FrameOK
  <2> QED
    BY <2>1, <2>2, <2>3, <2>4
<1>3. CASE Poll(c)
  <2>1. TypeOK'
    BY <1>3 DEF Poll, Goto, PCs
  <2>2. KnownIds'
    BY <1>3 DEF Poll, Goto, KnownIds, FrameOK
  <2>3. \A d \in Calls : FrameOK(d)'
    BY <1>3 DEF Poll, Goto, KnownIds, FrameOK
  <2>4. SentinelOwned'
    BY <1>3 DEF Poll, Goto, SentinelOwned, OwnerPCs, KnownIds, FrameOK
  <2> QED
    BY <2>1, <2>2, <2>3, <2>4
<1>4. CASE ResetStale(c)
  <2>1. TypeOK'
    <3>1. None \in MetaValues /\ NoStamp \in Ages /\ 0 \in Ages
      BY DEF MetaValues, Ages, NoStamp
    <3>2. metaId' \in MetaValues /\ metaAge' \in Ages /\ seen' \subseteq MetaValues /\ abandoned' = FALSE
      BY <1>4, <3>1, WriteMetaType DEF ResetStale
    <3> QED
      BY <1>4, <3>1, <3>2 DEF ResetStale, Goto, PCs
  <2>2. KnownIds'
    BY <1>4 DEF ResetStale, WriteMeta, Goto, KnownIds, FrameOK
  <2>3. \A d \in Calls : FrameOK(d)'
    BY <1>4 DEF ResetStale, WriteMeta, Goto, KnownIds, FrameOK
  <2>4. SentinelOwned'
    BY <1>4 DEF ResetStale, WriteMeta, Goto, SentinelOwned, OwnerPCs, KnownIds, FrameOK
  <2> QED
    BY <2>1, <2>2, <2>3, <2>4
<1>5. CASE Claim(c)
  <2>1. TypeOK'
    <3>1. Creating \in MetaValues /\ stamp[c] \in Ages /\ 0 \in Ages
      BY DEF MetaValues, Ages, NoStamp
    <3>2. metaId' \in MetaValues /\ metaAge' \in Ages /\ seen' \subseteq MetaValues /\ abandoned' = FALSE
      BY <1>5, <3>1, WriteMetaType DEF Claim
    <3> QED
      BY <1>5, <3>1, <3>2 DEF Claim, Goto, PCs
  <2>2. KnownIds'
    BY <1>5 DEF Claim, WriteMeta, Goto, KnownIds, FrameOK
  <2>3. \A d \in Calls : FrameOK(d)'
    BY <1>5 DEF Claim, WriteMeta, Goto, KnownIds, FrameOK
  <2>4. SentinelOwned'
    BY <1>5 DEF Claim, WriteMeta, Goto, SentinelOwned, OwnerPCs, KnownIds, FrameOK
  <2> QED
    BY <2>1, <2>2, <2>3, <2>4
<1>6. CASE \E s \in Sandboxes : CreateOk(c, s)
  <2>1. TypeOK'
    BY <1>6 DEF CreateOk, Goto, PCs, Handles
  <2>2. KnownIds'
    BY <1>6 DEF CreateOk, Goto, KnownIds, FrameOK
  <2>3. \A d \in Calls : FrameOK(d)'
    BY <1>6 DEF CreateOk, Goto, KnownIds, FrameOK
  <2>4. SentinelOwned'
    BY <1>6 DEF CreateOk, Goto, SentinelOwned, OwnerPCs, KnownIds, FrameOK
  <2> QED
    BY <2>1, <2>2, <2>3, <2>4
<1>7. CASE CreateFail(c)
  <2>1. TypeOK'
    BY <1>7 DEF CreateFail, Goto, PCs
  <2>2. KnownIds'
    BY <1>7 DEF CreateFail, Goto, KnownIds, FrameOK
  <2>3. \A d \in Calls : FrameOK(d)'
    BY <1>7 DEF CreateFail, Goto, KnownIds, FrameOK
  <2>4. SentinelOwned'
    BY <1>7 DEF CreateFail, Goto, SentinelOwned, OwnerPCs, KnownIds, FrameOK
  <2> QED
    BY <2>1, <2>2, <2>3, <2>4
<1>8. CASE Release(c)
  <2>1. TypeOK'
    <3>1. None \in MetaValues /\ NoStamp \in Ages /\ "idle" \in PCs
      BY DEF MetaValues, Ages, NoStamp, PCs
    <3>2. metaId' \in MetaValues /\ metaAge' \in Ages /\ seen' \subseteq MetaValues /\ abandoned' = FALSE
      BY <1>8, <3>1, WriteMetaType DEF Release
    <3> QED
      BY <1>8, <3>1, <3>2, EndFrameType DEF Release
  <2>2. KnownIds'
    BY <1>8 DEF Release, WriteMeta, EndFrame, Goto, KnownIds, FrameOK
  <2>3. \A d \in Calls : FrameOK(d)'
    BY <1>8 DEF Release, WriteMeta, EndFrame, Goto, KnownIds, FrameOK
  <2>4. SentinelOwned'
    BY <1>8 DEF Release, WriteMeta, EndFrame, Goto, SentinelOwned, OwnerPCs, KnownIds, FrameOK
  <2> QED
    BY <2>1, <2>2, <2>3, <2>4
<1>9. CASE Publish(c)
  <2>1. TypeOK'
    BY <1>9 DEF Publish, WriteMeta, Goto, PCs, MetaValues, FrameOK
  <2>2. KnownIds'
    BY <1>9 DEF Publish, WriteMeta, Goto, KnownIds, FrameOK
  <2>3. \A d \in Calls : FrameOK(d)'
    BY <1>9 DEF Publish, WriteMeta, Goto, KnownIds, FrameOK
  <2>4. SentinelOwned'
    BY <1>9 DEF Publish, WriteMeta, Goto, SentinelOwned, OwnerPCs, KnownIds, FrameOK
  <2> QED
    BY <2>1, <2>2, <2>3, <2>4
<1>10. CASE Connect(c)
  <2>1. TypeOK'
    BY <1>10 DEF Connect, Goto, PCs, Ages, NoStamp, FrameOK, Handles
  <2>2. KnownIds'
    BY <1>10 DEF Connect, Goto, KnownIds, FrameOK
  <2>3. \A d \in Calls : FrameOK(d)'
    BY <1>10 DEF Connect, Goto, KnownIds, FrameOK
  <2>4. SentinelOwned'
    BY <1>10 DEF Connect, Goto, SentinelOwned, OwnerPCs, KnownIds, FrameOK
  <2> QED
    BY <2>1, <2>2, <2>3, <2>4
<1>11. CASE PingUnreachable(c)
  <2>1. TypeOK'
    BY <1>11 DEF PingUnreachable, Goto, PCs, Ages, NoStamp
  <2>2. KnownIds'
    BY <1>11 DEF PingUnreachable, Goto, KnownIds, FrameOK
  <2>3. \A d \in Calls : FrameOK(d)'
    BY <1>11 DEF PingUnreachable, Goto, KnownIds, FrameOK
  <2>4. SentinelOwned'
    BY <1>11 DEF PingUnreachable, Goto, SentinelOwned, OwnerPCs, KnownIds, FrameOK
  <2> QED
    BY <2>1, <2>2, <2>3, <2>4
<1>12. CASE Adopt(c)
  <2>1. TypeOK'
    BY <1>12 DEF Adopt, Held, Goto, PCs
  <2>2. KnownIds'
    BY <1>12 DEF Adopt, Held, Goto, KnownIds, FrameOK
  <2>3. \A d \in Calls : FrameOK(d)'
    BY <1>12 DEF Adopt, Held, Goto, KnownIds, FrameOK
  <2>4. SentinelOwned'
    BY <1>12 DEF Adopt, Held, Goto, SentinelOwned, OwnerPCs, KnownIds, FrameOK
  <2> QED
    BY <2>1, <2>2, <2>3, <2>4
<1>13. CASE Persist(c)
  <2>1. TypeOK'
    BY <1>13 DEF Persist, WriteMeta, Goto, PCs, MetaValues, FrameOK
  <2>2. KnownIds'
    BY <1>13 DEF Persist, WriteMeta, Goto, KnownIds, FrameOK
  <2>3. \A d \in Calls : FrameOK(d)'
    BY <1>13 DEF Persist, WriteMeta, Goto, KnownIds, FrameOK
  <2>4. SentinelOwned'
    BY <1>13 DEF Persist, WriteMeta, Goto, SentinelOwned, OwnerPCs, KnownIds, FrameOK
  <2> QED
    BY <2>1, <2>2, <2>3, <2>4
<1>14. CASE Identity(c)
  <2>1. TypeOK'
    BY <1>14 DEF Identity, EndFrame, Goto, PCs, Ages, NoStamp, MetaValues, Handles
  <2>2. KnownIds'
    BY <1>14 DEF Identity, EndFrame, Goto, KnownIds, FrameOK
  <2>3. \A d \in Calls : FrameOK(d)'
    BY <1>14 DEF Identity, EndFrame, Goto, KnownIds, FrameOK
  <2>4. SentinelOwned'
    BY <1>14 DEF Identity, EndFrame, Goto, SentinelOwned, OwnerPCs, KnownIds, FrameOK
  <2> QED
    BY <2>1, <2>2, <2>3, <2>4
<1>15. CASE EndRun(c)
  <2>1. TypeOK'
    BY <1>15 DEF EndRun, EndFrame, Goto, PCs, Ages, NoStamp, MetaValues, Handles
  <2>2. KnownIds'
    BY <1>15 DEF EndRun, EndFrame, Goto, Running, KnownIds, FrameOK
  <2>3. \A d \in Calls : FrameOK(d)'
    BY <1>15 DEF EndRun, EndFrame, Goto, Running, KnownIds, FrameOK
  <2>4. SentinelOwned'
    BY <1>15 DEF EndRun, EndFrame, Goto, Running, SentinelOwned, OwnerPCs, KnownIds, FrameOK
  <2> QED
    BY <2>1, <2>2, <2>3, <2>4
<1>16. CASE Raise(c)
  <2>1. TypeOK'
    BY <1>16 DEF Raise, EndFrame, Goto, PCs, Ages, NoStamp, MetaValues, Handles
  <2>2. KnownIds'
    BY <1>16 DEF Raise, EndFrame, Goto, KnownIds, FrameOK
  <2>3. \A d \in Calls : FrameOK(d)'
    BY <1>16 DEF Raise, EndFrame, Goto, KnownIds, FrameOK
  <2>4. SentinelOwned'
    BY <1>16 DEF Raise, EndFrame, Goto, SentinelOwned, OwnerPCs, KnownIds, FrameOK
  <2> QED
    BY <2>1, <2>2, <2>3, <2>4
<1>17. CASE UpdateFails(c)
  <2>1. LostUpdate(c) /\ EndFrame(c, "idle") /\ UNCHANGED <<live, cache>>
    BY <1>17 DEF UpdateFails
  <2> QED
    BY <2>1, LostFrameInv
<1> QED
  BY <1>1, <1>2, <1>3, <1>4, <1>5, <1>6, <1>7, <1>8, <1>9, <1>10, <1>11, <1>12, <1>13, <1>14, <1>15, <1>16, <1>17 DEF CallStep

(* Cancellation: the frame is dropped, or only the thread goes on.          *)
LEMMA CancelInv ==
    ASSUME Inv, NEW c \in Calls, Cancel(c)
    PROVE  Inv'
<1>1. CASE pc[c] \notin {"create", "publish", "republish"}
  <2>1. LostUpdate(c) /\ EndFrame(c, "idle") /\ UNCHANGED <<live, cache>>
    BY <1>1 DEF Cancel
  <2> QED
    BY <2>1, LostFrameInv
<1>2. CASE pc[c] \in {"create", "publish", "republish"}
  <2>1. /\ LostUpdate(c)
        /\ pc' = [pc EXCEPT ![c] = IF pc[c] = "create" THEN "orphanCreate" ELSE "orphanPublish"]
        /\ UNCHANGED <<live, cache, kind, local, own, stamp>>
    BY <1>2 DEF Cancel, Goto
  <2>2. TypeOK'
    BY <2>1, LostUpdateMeta DEF Inv, TypeOK, PCs
  <2>3. KnownIds'
    BY <2>1, LostUpdateMeta DEF Inv, KnownIds
  <2>4. \A d \in Calls : FrameOK(d)'
    BY <1>2, <2>1 DEF Inv, TypeOK, FrameOK
  <2>5. SentinelOwned'
    BY <2>1, LostUpdateMeta DEF Inv, TypeOK, SentinelOwned
  <2> QED
    BY <2>2, <2>3, <2>4, <2>5 DEF Inv
<1> QED
  BY <1>1, <1>2

(* The thread of a cancelled call.                                          *)
LEMMA OrphanInv ==
    ASSUME Inv, NEW c \in Calls, OrphanStep(c)
    PROVE  Inv'
<1> USE DEF Inv, metadata
<1>1. CASE /\ pc[c] = "orphanCreate"
           /\ \E s \in Sandboxes \ live : live' = live \cup {s} /\ own' = [own EXCEPT ![c] = s]
           /\ Goto(c, "orphanPublish")
           /\ UNCHANGED <<metadata, cache, kind, local, stamp>>
  <2>1. TypeOK'
    BY <1>1 DEF TypeOK, Goto, PCs, Handles
  <2>2. KnownIds' /\ \A d \in Calls : FrameOK(d)'
    BY <1>1 DEF TypeOK, KnownIds, FrameOK, Goto
  <2>3. SentinelOwned'
    BY <1>1 DEF TypeOK, SentinelOwned, OwnerPCs, Goto
  <2> QED
    BY <2>1, <2>2, <2>3
<1>2. CASE pc[c] = "orphanCreate" /\ EndFrame(c, "idle") /\ UNCHANGED <<metadata, live, cache>>
  <2>1. TypeOK'
    BY <1>2, EndFrameType DEF TypeOK, PCs
  <2>2. KnownIds' /\ \A d \in Calls : FrameOK(d)'
    BY <1>2 DEF TypeOK, KnownIds, FrameOK, EndFrame, Goto
  <2>3. SentinelOwned'
    BY <1>2 DEF TypeOK, SentinelOwned, OwnerPCs, EndFrame, Goto
  <2> QED
    BY <2>1, <2>2, <2>3
<1>3. CASE /\ pc[c] = "orphanPublish"
           /\ WriteMeta(own[c], metaAge) \/ UNCHANGED metadata
           /\ EndFrame(c, "idle")
           /\ UNCHANGED <<live, cache>>
  <2>1. own[c] \in live /\ own[c] \in MetaValues
    BY <1>3 DEF FrameOK, TypeOK, MetaValues
  <2>2. TypeOK'
    BY <1>3, <2>1, EndFrameType, WriteMetaType DEF TypeOK, PCs
  <2>3. KnownIds'
    BY <1>3, <2>1 DEF TypeOK, KnownIds, WriteMeta, EndFrame
  <2>4. \A d \in Calls : FrameOK(d)'
    BY <1>3 DEF TypeOK, FrameOK, EndFrame, Goto
  <2>5. SentinelOwned'
    BY <1>3, <2>1 DEF TypeOK, SentinelOwned, OwnerPCs, WriteMeta, EndFrame, Goto
  <2> QED
    BY <2>2, <2>3, <2>4, <2>5
<1> QED
  BY <1>1, <1>2, <1>3 DEF OrphanStep

(* A dying worker takes its calls and its cache with it.                    *)
LEMMA CrashInv ==
    ASSUME Inv, NEW p \in Procs, Crash(p)
    PROVE  Inv'
<1> USE DEF Inv
<1>1. TypeOK'
  <2>1. abandoned' \in BOOLEAN
    BY DEF TypeOK, Crash, Abandon
  <2> QED
    BY <2>1 DEF TypeOK, Crash, MetaValues, Handles, PCs, Ages, NoStamp
<1>2. KnownIds'
  BY DEF TypeOK, Crash, KnownIds
<1>3. \A d \in Calls : FrameOK(d)'
  BY DEF TypeOK, Crash, FrameOK
<1>4. SentinelOwned'
  BY DEF TypeOK, Crash, Abandon, SentinelOwned, OwnerPCs
<1> QED
  BY <1>1, <1>2, <1>3, <1>4

(* Time passing changes ages only.                                          *)
LEMMA TickInv ==
    ASSUME Inv, Tick
    PROVE  Inv'
<1> USE DEF Inv
<1>1. TypeOK'
  BY OlderType DEF TypeOK, Tick
<1>2. KnownIds' /\ (\A d \in Calls : FrameOK(d)') /\ SentinelOwned'
  BY DEF TypeOK, Tick, KnownIds, FrameOK, SentinelOwned
<1> QED
  BY <1>1, <1>2

(* The inductive invariant of the sandbox lifecycle.                        *)
THEOREM Invariance == Spec => []Inv
<1>1. Inv /\ [Next]_vars => Inv'
  <2> SUFFICES ASSUME Inv, [Next]_vars PROVE Inv'
    OBVIOUS
  <2>1. CASE UNCHANGED vars
    BY <2>1 DEF Inv, TypeOK, KnownIds, FrameOK, SentinelOwned, vars
  <2>2. CASE Next
    BY <2>2, CallInv, CancelInv, OrphanInv, CrashInv, TickInv DEF Next
  <2> QED
    BY <2>1, <2>2
<1> QED
  BY InitInv, <1>1, PTL DEF Spec

(* The metadata, the caches and every suspended call stay well formed       *)
(* whatever the calls of ensure_sandbox_for_thread and                      *)
(* _recreate_sandbox_for_thread interleave to.                              *)
THEOREM TypeCorrect == Spec => []TypeOK
<1>1. Inv => TypeOK
  BY DEF Inv
<1> QED
  BY Invariance, <1>1, PTL

(* The sentinel "__creating__" is never left behind by an error path: it    *)
(* has a call that will replace it, or that call was lost from outside.     *)
THEOREM SentinelAlwaysOwned == Spec => []SentinelOwned
<1>1. Inv => SentinelOwned
  BY DEF Inv
<1> QED
  BY Invariance, <1>1, PTL

(* A run that executes always finds a backend cached on its process, of a   *)
(* sandbox the provider made: _get_cached_sandbox_backend never raises.     *)
THEOREM RunningHasBackend == Spec => []BackendCached
<1>1. Inv => BackendCached
  BY DEF Inv, BackendCached, FrameOK, Running
<1> QED
  BY Invariance, <1>1, PTL

----------------------------------------------------------------------------
(* Runs that do not overlap, start from the metadata of their moment and    *)
(* are not cancelled.  While one of them is on its way, no other call is.   *)
LEMMA Alone ==
    ASSUME OneRun, NEW c \in Calls, NEW d \in Calls, Active(c), Active(d), kind[d] = "run", ~Running(d),
           kind[c] \in {"run", "tool"}
    PROVE  c = d
<1>1. CASE kind[c] = "run"
  BY <1>1 DEF OneRun
<1>2. CASE kind[c] = "tool"
  <2>1. PICK r \in Calls : Running(r)
    BY <1>2 DEF OneRun
  <2>2. Active(r) /\ kind[r] = "run"
    BY <2>1 DEF OneRun, Running, Active, Orphan
  <2> QED
    BY <2>1, <2>2 DEF OneRun
<1> QED
  BY <1>1, <1>2

(* A step of a call on its way leaves the others where they are.            *)
LEMMA SerialCall ==
    ASSUME Inv, SerialInv, Faults \cap {"overlap", "stale", "cancel"} = {}, NEW c \in Calls,
           StartRun(c) \/ StartRecovery(c) \/ EndRun(c) \/ CallStep(c) \/ Raise(c) \/ UpdateFails(c)
    PROVE  SerialInv'
<1> USE DEF Inv, TypeOK, SerialInv, metadata, Goto
<1>0. \A d \in Calls : Active(c) /\ Active(d) /\ kind[d] = "run" /\ ~Running(d) => c = d
  BY Alone
<1>1. CASE StartRun(c)
  <2>1. OneRun'
    BY <1>1 DEF OneRun, Active, Orphan, Running, StartRun, Branch
  <2>2. \A d \in Calls : InStep(d)'
    BY <1>0, <1>1 DEF InStep, FrameOK, OneRun, Active, Orphan, Running, StartRun, Branch
  <2> QED
    BY <2>1, <2>2
<1>2. CASE StartRecovery(c)
  <2>1. OneRun'
    BY <1>2 DEF OneRun, Active, Orphan, Running, StartRecovery
  <2>2. \A d \in Calls : InStep(d)'
    BY <1>0, <1>2 DEF InStep, FrameOK, OneRun, Active, Orphan, Running, StartRecovery
  <2> QED
    BY <2>1, <2>2
<1>3. CASE EndRun(c)
  <2>1. OneRun'
    BY <1>3 DEF OneRun, Active, Orphan, Running, EndRun, EndFrame
  <2>2. \A d \in Calls : InStep(d)'
    BY <1>0, <1>3 DEF InStep, FrameOK, OneRun, Active, Orphan, Running, EndRun, EndFrame
  <2> QED
    BY <2>1, <2>2
<1>4. CASE Poll(c)
  <2>1. OneRun'
    BY <1>4 DEF OneRun, Active, Orphan, Running, Poll
  <2>2. \A d \in Calls : InStep(d)'
    BY <1>0, <1>4 DEF InStep, FrameOK, OneRun, Active, Orphan, Running, Poll
  <2> QED
    BY <2>1, <2>2
<1>5. CASE ResetStale(c)
  <2>1. OneRun'
    BY <1>5 DEF OneRun, Active, Orphan, Running, ResetStale, WriteMeta
  <2>2. \A d \in Calls : InStep(d)'
    BY <1>0, <1>5 DEF InStep, FrameOK, OneRun, Active, Orphan, Running, ResetStale, WriteMeta
  <2> QED
    BY <2>1, <2>2
<1>6. CASE Claim(c)
  <2>1. OneRun'
    BY <1>6 DEF OneRun, Active, Orphan, Running, Claim, WriteMeta
  <2>2. \A d \in Calls : InStep(d)'
    BY <1>0, <1>6 DEF InStep, FrameOK, OneRun, Active, Orphan, Running, Claim, WriteMeta
  <2> QED
    BY <2>1, <2>2
<1>7. CASE \E s \in Sandboxes : CreateOk(c, s)
  <2>1. OneRun'
    BY <1>7 DEF OneRun, Active, Orphan, Running, CreateOk
  <2>2. \A d \in Calls : InStep(d)'
    BY <1>0, <1>7 DEF InStep, FrameOK, OneRun, Active, Orphan, Running, CreateOk
  <2> QED
    BY <2>1, <2>2
<1>8. CASE CreateFail(c)
  <2>1. OneRun'
    BY <1>8 DEF OneRun, Active, Orphan, Running, CreateFail
  <2>2. \A d \in Calls : InStep(d)'
    BY <1>0, <1>8 DEF InStep, FrameOK, OneRun, Active, Orphan, Running, CreateFail
  <2> QED
    BY <2>1, <2>2
<1>9. CASE Release(c)
  <2>1. OneRun'
    BY <1>9 DEF OneRun, Active, Orphan, Running, Release, WriteMeta, EndFrame
  <2>2. \A d \in Calls : InStep(d)'
    BY <1>0, <1>9 DEF InStep, FrameOK, OneRun, Active, Orphan, Running, Release, WriteMeta, EndFrame
  <2> QED
    BY <2>1, <2>2
<1>10. CASE Publish(c)
  <2>1. OneRun'
    BY <1>10 DEF OneRun, Active, Orphan, Running, Publish, WriteMeta
  <2>2. \A d \in Calls : InStep(d)'
    BY <1>0, <1>10 DEF InStep, FrameOK, OneRun, Active, Orphan, Running, Publish, WriteMeta
  <2> QED
    BY <2>1, <2>2
<1>11. CASE Connect(c)
  <2>1. OneRun'
    BY <1>11 DEF OneRun, Active, Orphan, Running, Connect
  <2>2. \A d \in Calls : InStep(d)'
    BY <1>0, <1>11 DEF InStep, FrameOK, OneRun, Active, Orphan, Running, Connect
  <2> QED
    BY <2>1, <2>2
<1>12. CASE PingUnreachable(c)
  <2>1. OneRun'
    BY <1>12 DEF OneRun, Active, Orphan, Running, PingUnreachable
  <2>2. \A d \in Calls : InStep(d)'
    BY <1>0, <1>12 DEF InStep, FrameOK, OneRun, Active, Orphan, Running, PingUnreachable
  <2> QED
    BY <2>1, <2>2
<1>13. CASE Adopt(c)
  <2>1. OneRun'
    BY <1>13 DEF OneRun, Active, Orphan, Running, Adopt, Held
  <2>2. \A d \in Calls : InStep(d)'
    BY <1>0, <1>13 DEF InStep, FrameOK, OneRun, Active, Orphan, Running, Adopt, Held
  <2> QED
    BY <2>1, <2>2
<1>14. CASE Persist(c)
  <2>1. OneRun'
    BY <1>14 DEF OneRun, Active, Orphan, Running, Persist, WriteMeta
  <2>2. \A d \in Calls : InStep(d)'
    BY <1>0, <1>14 DEF InStep, FrameOK, OneRun, Active, Orphan, Running, Persist, WriteMeta
  <2> QED
    BY <2>1, <2>2
<1>15. CASE Identity(c)
  <2>1. OneRun'
    BY <1>15 DEF OneRun, Active, Orphan, Running, Identity, EndFrame
  <2>2. \A d \in Calls : InStep(d)'
    BY <1>0, <1>15 DEF InStep, FrameOK, OneRun, Active, Orphan, Running, Identity, EndFrame
  <2> QED
    BY <2>1, <2>2
<1>16. CASE Raise(c)
  <2>1. OneRun'
    BY <1>16 DEF OneRun, Active, Orphan, Running, Raise, EndFrame
  <2>2. \A d \in Calls : InStep(d)'
    BY <1>0, <1>16 DEF InStep, FrameOK, OneRun, Active, Orphan, Running, Raise, EndFrame
  <2> QED
    BY <2>1, <2>2
<1>17. CASE UpdateFails(c)
  <2>1. OneRun'
    BY <1>17 DEF OneRun, Active, Orphan, Running, UpdateFails, EndFrame
  <2>2. \A d \in Calls : InStep(d)'
    BY <1>0, <1>17 DEF InStep, FrameOK, OneRun, Active, Orphan, Running, UpdateFails, EndFrame
  <2> QED
    BY <2>1, <2>2
<1> QED
  BY <1>1, <1>2, <1>3, <1>4, <1>5, <1>6, <1>7, <1>8, <1>9, <1>10, <1>11, <1>12, <1>13, <1>14, <1>15, <1>16, <1>17 DEF CallStep

(* A dying worker takes all calls of its process, and the run of a tool     *)
(* call is on the same one.                                                 *)
LEMMA SerialCrash ==
    ASSUME Inv, SerialInv, NEW p \in Procs, Crash(p)
    PROVE  SerialInv'
<1> USE DEF Inv, TypeOK, SerialInv, Crash
<1>1. OneRun'
  BY DEF OneRun, Active, Orphan, Running
<1>2. \A c \in Calls : InStep(c)'
  BY DEF InStep, FrameOK
<1> QED
  BY <1>1, <1>2

(* Only the git identity, done for a run, lets it execute.                  *)
LEMMA OnlyIdentityRuns ==
    ASSUME Inv, Next, NEW c \in Calls, ~Running(c), Running(c)'
    PROVE  Identity(c)
<1> USE DEF Inv, TypeOK, Running, Goto, EndFrame
<1>1. ASSUME NEW d \in Calls, StartRun(d) \/ StartRecovery(d) \/ EndRun(d) PROVE FALSE
  BY <1>1 DEF StartRun, Branch, StartRecovery, EndRun
<1>2. ASSUME NEW d \in Calls, Poll(d) \/ ResetStale(d) \/ Claim(d) \/ CreateFail(d) \/ Release(d) PROVE FALSE
  BY <1>2 DEF Poll, ResetStale, Claim, CreateFail, Release
<1>3. ASSUME NEW d \in Calls, NEW s \in Sandboxes, CreateOk(d, s) PROVE FALSE
  BY <1>3 DEF CreateOk
<1>4. ASSUME NEW d \in Calls, Publish(d) \/ Connect(d) \/ PingUnreachable(d) \/ Adopt(d) \/ Persist(d) PROVE FALSE
  BY <1>4 DEF Publish, Connect, PingUnreachable, Adopt, Persist
<1>5. ASSUME NEW d \in Calls, Raise(d) \/ UpdateFails(d) \/ OrphanStep(d) PROVE FALSE
  BY <1>5 DEF Raise, UpdateFails, OrphanStep
<1>6. ASSUME NEW d \in Calls, Cancel(d) PROVE FALSE
  BY <1>6 DEF Cancel
<1>7. ASSUME NEW p \in Procs, Crash(p) PROVE FALSE
  BY <1>7 DEF Crash
<1>8. CASE Tick
  BY <1>8 DEF Tick
<1>9. ASSUME NEW d \in Calls, Identity(d) PROVE Identity(c)
  BY <1>9 DEF Identity
<1> QED
  BY <1>1, <1>2, <1>3, <1>4, <1>5, <1>6, <1>7, <1>8, <1>9 DEF Next, CallStep

(* When runs do not overlap, start from the metadata of their moment and    *)
(* are not cancelled, a run executes only once the metadata name the        *)
(* sandbox that its process has cached, also when workers die and updates   *)
(* get lost.                                                                *)
THEOREM SandboxIdPersisted ==
    ASSUME Faults \cap {"overlap", "stale", "cancel"} = {}
    PROVE  Spec => PersistsSandboxId
<1>1. Init => SerialInv
  BY DEF Init, SerialInv, OneRun, InStep, Active, Orphan
<1>2. Inv /\ SerialInv /\ [Next]_vars => SerialInv'
  <2> SUFFICES ASSUME Inv, SerialInv, [Next]_vars PROVE SerialInv'
    OBVIOUS
  <2>1. ASSUME NEW c \in Calls, Cancel(c) PROVE SerialInv'
    BY <2>1 DEF Cancel
  <2>2. ASSUME NEW c \in Calls, OrphanStep(c) PROVE SerialInv'
    BY <2>2 DEF OrphanStep, SerialInv, OneRun, Orphan
  <2>3. CASE Tick
    BY <2>3 DEF Tick, SerialInv, OneRun, InStep, Active, Orphan, Running
  <2>4. CASE UNCHANGED vars
    BY <2>4 DEF vars, SerialInv, OneRun, InStep, Active, Orphan, Running
  <2> QED
    BY <2>1, <2>2, <2>3, <2>4, SerialCall, SerialCrash DEF Next
<1>3. Inv /\ SerialInv /\ [Next]_vars
        => [\A c \in Calls : ~Running(c) /\ Running(c)' => metaId = cache[ProcOf[c]]]_vars
  <2> SUFFICES ASSUME Inv, SerialInv, Next, NEW c \in Calls, ~Running(c), Running(c)'
               PROVE  metaId = cache[ProcOf[c]]
    OBVIOUS
  <2>1. Identity(c)
    BY OnlyIdentityRuns
  <2> QED
    BY <2>1 DEF Identity, EndFrame, Goto, Running, Inv, TypeOK, SerialInv, InStep
<1> QED
  BY Invariance, <1>1, <1>2, <1>3, PTL DEF Spec, PersistsSandboxId
=============================================================================

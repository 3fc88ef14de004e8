-------------------------- MODULE SandboxLifecycle --------------------------
(***************************************************************************)
(* The get-or-create lifecycle of one thread's sandbox, as run by the      *)
(* workers of the agent (agent/composition/sandbox_resolution.py, with the *)
(* LangSmith provider of agent_integrations/langsmith.py).                 *)
(*                                                                         *)
(* Shared by every worker: the thread's metadata, whose field sandbox_id   *)
(* is None, the sentinel "__creating__" or a sandbox id, and the           *)
(* sandbox_creating_at timestamp written with the sentinel.  Private to a  *)
(* worker process: the cached backend proxy of the thread.  A call is one  *)
(* coroutine: either a run going through ensure_sandbox_for_thread and     *)
(* then executing, or a tool call of a run that hit a SandboxClientError   *)
(* and is inside the injected _recreate_sandbox_for_thread.  Every await   *)
(* of those coroutines is a point where other calls may take steps.        *)
(***************************************************************************)
EXTENDS Integers, FiniteSets

CONSTANTS
    Procs,      \* worker processes
    Calls,      \* slots for concurrent calls on this thread
    ProcOf,     \* the process each slot belongs to
    Sandboxes,  \* ids the provider can hand out; a used-up pool refuses
    None,       \* Python's None
    Creating,   \* SANDBOX_CREATING
    Timeout,    \* SANDBOX_CREATION_TIMEOUT, in clock ticks
    Faults      \* which disturbances the environment may cause

ASSUME ProcOfType == ProcOf \in [Calls -> Procs]
ASSUME TimeoutIsNat == Timeout \in Nat
ASSUME NotSandboxes == None \notin Sandboxes /\ Creating \notin Sandboxes /\ None # Creating
ASSUME FaultKinds == Faults \subseteq {"overlap", "stale", "cancel", "crash", "drop"}

VARIABLES
    metaId,     \* thread metadata: sandbox_id
    metaAge,    \* how long ago sandbox_creating_at was taken, or NoStamp
    live,       \* sandboxes the provider has made
    cache,      \* SANDBOX_BACKENDS[thread]: what each process' proxy targets
    pc,         \* where each call is suspended
    kind,       \* "run" or "tool"
    local,      \* the call's variable sandbox_id
    own,        \* the call's raw backend; None while it holds the proxy
    stamp,      \* age of the timestamp in the call's pending claim
    seen,       \* values sandbox_id has had (what a stale run config may hold)
    abandoned   \* history: the writer of the current sentinel was lost

metadata == <<metaId, metaAge, seen, abandoned>>
frame == <<pc, kind, local, own, stamp>>
vars == <<metaId, metaAge, live, cache, pc, kind, local, own, stamp, seen, abandoned>>

NoStamp == -1
Ages == NoStamp .. (Timeout + 1)
MetaValues == Sandboxes \cup {None, Creating}
Handles == Sandboxes \cup {None}
PCs == {"idle", "poll", "reset", "claim", "create", "publish", "adopt", "release",
        "connect", "republish", "ping", "persist", "identity", "running",
        "orphanCreate", "orphanPublish"}

\* Suspended inside a coroutine or executing the run; an orphan is only a thread.
Orphan(c) == pc[c] \in {"orphanCreate", "orphanPublish"}
Active(c) == pc[c] # "idle" /\ ~Orphan(c)
Running(c) == pc[c] = "running"

(* time.time() - creating_at, compared with the timeout; ages saturate just  *)
(* above it, since nothing distinguishes older ones.                         *)
Stale(age) == age = NoStamp \/ age > Timeout
Older(age) == IF Stale(age) THEN age ELSE age + 1

Init ==
    /\ \/ metaId = None
       \/ metaId = Creating          \* a sentinel written before timestamps existed
    /\ metaAge = NoStamp
    /\ live = {}
    /\ cache = [p \in Procs |-> None]
    /\ pc = [c \in Calls |-> "idle"]
    /\ kind = [c \in Calls |-> "run"]
    /\ local = [c \in Calls |-> None]
    /\ own = [c \in Calls |-> None]
    /\ stamp = [c \in Calls |-> 0]
    /\ seen = {metaId}
    /\ abandoned = (metaId = Creating)

(* client.threads.update: one atomic write on the server, some time after   *)
(* its arguments were evaluated.                                            *)
WriteMeta(id, age) ==
    /\ metaId' = id
    /\ metaAge' = age
    /\ seen' = seen \cup {id}
    /\ abandoned' = FALSE

Goto(c, label) == pc' = [pc EXCEPT ![c] = label]

(* The call's frame is gone: it returned or raised.                         *)
EndFrame(c, label) ==
    /\ Goto(c, label)
    /\ kind' = [kind EXCEPT ![c] = "run"]
    /\ local' = [local EXCEPT ![c] = None]
    /\ own' = [own EXCEPT ![c] = None]
    /\ stamp' = [stamp EXCEPT ![c] = 0]

(* A call that wrote the sentinel and still has to replace it.              *)
OwnerPCs == {"create", "publish", "adopt", "persist", "release"}

(* An owner is lost: the sentinel, if it is there, has nobody left.         *)
Abandon(cs) == abandoned' = (abandoned \/ (metaId = Creating /\ \E c \in cs : pc[c] \in OwnerPCs))

----------------------------------------------------------------------------
(* Mutant: the sentinel is taken for a sandbox id.                          *)
MutBranch(c, sid) ==
    CASE cache[ProcOf[c]] # None -> "ping"
      [] cache[ProcOf[c]] = None /\ sid = None -> "claim"
      [] OTHER -> "connect"

(* ensure_sandbox_for_thread up to its first await: the cached backend, the *)
(* sandbox_id of the run's configuration (which is the metadata of the      *)
(* moment the run was created, possibly an older one), and the branch.      *)
Branch(c, sid) ==
    CASE cache[ProcOf[c]] # None -> "ping"
      [] cache[ProcOf[c]] = None /\ sid = Creating -> "poll"
      [] cache[ProcOf[c]] = None /\ sid = None -> "claim"
      [] OTHER -> "connect"

StartRun(c) ==
    /\ pc[c] = "idle"
    /\ "overlap" \in Faults \/ \A d \in Calls : ~Active(d)
    /\ \E sid \in (IF "stale" \in Faults THEN seen ELSE {metaId}) :
         /\ local' = [local EXCEPT ![c] = sid]
         /\ Goto(c, Branch(c, sid))
    /\ stamp' = [stamp EXCEPT ![c] = 0]
    /\ UNCHANGED <<metadata, live, cache, kind, own>>

(* A tool call of a run on the same process met SandboxClientError and      *)
(* entered _recreate_sandbox_for_thread.                                    *)
StartRecovery(c) ==
    /\ pc[c] = "idle"
    /\ \E r \in Calls : Running(r) /\ ProcOf[r] = ProcOf[c]
    /\ Goto(c, "claim")
    /\ kind' = [kind EXCEPT ![c] = "tool"]
    /\ stamp' = [stamp EXCEPT ![c] = 0]
    /\ UNCHANGED <<metadata, live, cache, local, own>>

(* Mutant: a stale sentinel is waited on like a fresh one.                  *)
MutPoll(c) ==
    /\ pc[c] = "poll"
    /\ metaId # Creating
    /\ local' = [local EXCEPT ![c] = metaId]
    /\ Goto(c, IF metaId = None THEN "claim" ELSE "connect")
    /\ UNCHANGED <<metadata, live, cache, kind, own, stamp>>

(* _resolve_creating_sentinel: one round of the loop that does not sleep.   *)
Poll(c) ==
    /\ pc[c] = "poll"
    /\ \/ /\ metaId # Creating
          /\ local' = [local EXCEPT ![c] = metaId]
          /\ Goto(c, IF metaId = None THEN "claim" ELSE "connect")
       \/ /\ metaId = Creating
          /\ Stale(metaAge)
          /\ Goto(c, "reset")
          /\ UNCHANGED local
    /\ UNCHANGED <<metadata, live, cache, kind, own, stamp>>

ResetStale(c) ==
    /\ pc[c] = "reset"
    /\ WriteMeta(None, NoStamp)
    /\ local' = [local EXCEPT ![c] = None]
    /\ stamp' = [stamp EXCEPT ![c] = 0]
    /\ Goto(c, "claim")
    /\ UNCHANGED <<live, cache, kind, own>>

(* The write of _creating_metadata(), in _recreate_sandbox and in the two   *)
(* creating branches of ensure_sandbox_for_thread.                          *)
Claim(c) ==
    /\ pc[c] = "claim"
    /\ WriteMeta(Creating, stamp[c])
    /\ stamp' = [stamp EXCEPT ![c] = 0]
    /\ Goto(c, "create")
    /\ UNCHANGED <<live, cache, kind, local, own>>

(* _create_sandbox_backend in its thread: the provider makes a sandbox no   *)
(* one has seen, or refuses.                                                *)
CreateOk(c, s) ==
    /\ pc[c] = "create"
    /\ s \in Sandboxes \ live
    /\ live' = live \cup {s}
    /\ own' = [own EXCEPT ![c] = s]
    /\ Goto(c, "publish")
    /\ UNCHANGED <<metadata, cache, kind, local, stamp>>

(* Mutant: the failure leaves without resetting the metadata.               *)
MutCreateFail(c) ==
    /\ pc[c] = "create"
    /\ EndFrame(c, "idle")
    /\ UNCHANGED <<metadata, live, cache>>

CreateFail(c) ==
    /\ pc[c] = "create"
    /\ Goto(c, "release")
    /\ UNCHANGED <<metadata, live, cache, kind, local, own, stamp>>

(* The except branches: write _RESET_METADATA, then raise.                  *)
Release(c) ==
    /\ pc[c] = "release"
    /\ WriteMeta(None, NoStamp)
    /\ EndFrame(c, "idle")
    /\ UNCHANGED <<live, cache>>

(* _update_thread_sandbox_metadata, called by the provider's factory before *)
(* it returns, for a new sandbox and for a reconnected one; its errors are  *)
(* swallowed.                                                               *)
Publish(c) ==
    /\ pc[c] \in {"publish", "republish"}
    /\ \/ WriteMeta(own[c], metaAge)
       \/ "drop" \in Faults /\ UNCHANGED metadata
    /\ Goto(c, IF pc[c] = "publish" THEN "adopt" ELSE "ping")
    /\ UNCHANGED <<live, cache, kind, local, own, stamp>>

(* create_sandbox(sandbox_id): reconnect, or fall back to a new sandbox.    *)
Connect(c) ==
    /\ pc[c] = "connect"
    /\ \/ /\ own' = [own EXCEPT ![c] = local[c]]
          /\ Goto(c, "republish")
          /\ UNCHANGED stamp
       \/ /\ Goto(c, "claim")
          /\ stamp' = [stamp EXCEPT ![c] = 0]
          /\ UNCHANGED own
    /\ UNCHANGED <<metadata, live, cache, kind, local>>

(* check_or_recreate_sandbox found the sandbox unreachable.                 *)
PingUnreachable(c) ==
    /\ pc[c] = "ping"
    /\ Goto(c, "claim")
    /\ stamp' = [stamp EXCEPT ![c] = 0]
    /\ UNCHANGED <<metadata, live, cache, kind, local, own>>

(* The backend the call now holds: its own raw one, or the process' proxy.  *)
Held(c) == IF own[c] = None THEN cache[ProcOf[c]] ELSE own[c]

(* Mutant: the backend is never put into SANDBOX_BACKENDS.                  *)
MutAdoptUncached(c) ==
    /\ pc[c] \in {"adopt", "ping"}
    /\ own' = [own EXCEPT ![c] = Held(c)]
    /\ Goto(c, IF kind[c] = "tool" \/ local[c] # Held(c) THEN "persist" ELSE "identity")
    /\ UNCHANGED <<metadata, live, cache, kind, local, stamp>>

(* Mutant: only a call that made the sandbox itself persists the id.        *)
MutAdoptUnpersisted(c) ==
    /\ pc[c] \in {"adopt", "ping"}
    /\ cache' = [cache EXCEPT ![ProcOf[c]] = Held(c)]
    /\ own' = [own EXCEPT ![c] = Held(c)]
    /\ Goto(c, IF pc[c] = "adopt" THEN "persist" ELSE "identity")
    /\ UNCHANGED <<metadata, live, kind, local, stamp>>

(* After a new sandbox or a good ping: set_sandbox_backend, and the decision *)
(* whether the metadata must be updated.  For a tool call the update is     *)
(* unconditional.                                                           *)
Adopt(c) ==
    /\ pc[c] \in {"adopt", "ping"}
    /\ cache' = [cache EXCEPT ![ProcOf[c]] = Held(c)]
    /\ own' = [own EXCEPT ![c] = Held(c)]
    /\ Goto(c, IF kind[c] = "tool" \/ local[c] # Held(c) THEN "persist" ELSE "identity")
    /\ UNCHANGED <<metadata, live, kind, local, stamp>>

Persist(c) ==
    /\ pc[c] = "persist"
    /\ WriteMeta(own[c], metaAge)
    /\ Goto(c, "identity")
    /\ UNCHANGED <<live, cache, kind, local, own, stamp>>

(* _configure_git_identity, then (for a run) _bind_local_worktree_sandbox,  *)
(* which leaves a remote sandbox alone, and the run executes.               *)
Identity(c) ==
    /\ pc[c] = "identity"
    /\ EndFrame(c, IF kind[c] = "run" THEN "running" ELSE "idle")
    /\ UNCHANGED <<metadata, live, cache>>

(* A run ends once its tool calls have.                                     *)
EndRun(c) ==
    /\ Running(c)
    /\ \A d \in Calls : kind[d] = "tool" /\ Active(d) /\ ProcOf[d] = ProcOf[c] =>
         \E r \in Calls \ {c} : Running(r) /\ ProcOf[r] = ProcOf[c]
    /\ EndFrame(c, "idle")
    /\ UNCHANGED <<metadata, live, cache>>

(* An exception where the code has no handler that touches the metadata:    *)
(* reading the thread, a ping that fails otherwise, git identity, binding a *)
(* workspace to a remote sandbox.                                           *)
Raise(c) ==
    /\ pc[c] \in {"poll", "ping", "identity"}
    /\ EndFrame(c, "idle")
    /\ UNCHANGED <<metadata, live, cache>>

(* The call stops at one of its updates: the request never arrived, or it   *)
(* was applied and only its answer was lost.                                *)
LostUpdate(c) ==
    \/ Abandon({c}) /\ UNCHANGED <<metaId, metaAge, seen>>
    \/ pc[c] \in {"reset", "release"} /\ WriteMeta(None, NoStamp)
    \/ pc[c] = "persist" /\ WriteMeta(own[c], metaAge)
    \/ /\ pc[c] = "claim"
       /\ metaId' = Creating
       /\ metaAge' = stamp[c]
       /\ seen' = seen \cup {Creating}
       /\ abandoned' = TRUE

(* client.threads.update raises, and the exception leaves the call.         *)
UpdateFails(c) ==
    /\ "drop" \in Faults
    /\ pc[c] \in {"reset", "claim", "release", "persist"}
    /\ LostUpdate(c)
    /\ EndFrame(c, "idle")
    /\ UNCHANGED <<live, cache>>

(* The run is cancelled: CancelledError passes every `except Exception`, so *)
(* nothing is released, and the thread that asyncio.to_thread started goes  *)
(* on without its coroutine.                                                *)
Cancel(c) ==
    /\ "cancel" \in Faults
    /\ Active(c)
    /\ LostUpdate(c)
    /\ CASE pc[c] = "create" ->
              Goto(c, "orphanCreate") /\ UNCHANGED <<kind, local, own, stamp>>
         [] pc[c] \in {"publish", "republish"} ->
              Goto(c, "orphanPublish") /\ UNCHANGED <<kind, local, own, stamp>>
         [] OTHER -> EndFrame(c, "idle")
    /\ UNCHANGED <<live, cache>>

(* What such a thread still does: create the sandbox, write its id, end.    *)
OrphanStep(c) ==
    \/ /\ pc[c] = "orphanCreate"
       /\ \E s \in Sandboxes \ live : live' = live \cup {s} /\ own' = [own EXCEPT ![c] = s]
       /\ Goto(c, "orphanPublish")
       /\ UNCHANGED <<metadata, cache, kind, local, stamp>>
    \/ /\ pc[c] = "orphanCreate"
       /\ EndFrame(c, "idle")
       /\ UNCHANGED <<metadata, live, cache>>
    \/ /\ pc[c] = "orphanPublish"
       /\ \/ WriteMeta(own[c], metaAge)
          \/ "drop" \in Faults /\ UNCHANGED metadata
       /\ EndFrame(c, "idle")
       /\ UNCHANGED <<live, cache>>

(* A worker dies: its coroutines, its threads and its cache are gone.       *)
Crash(p) ==
    LET dead == {c \in Calls : ProcOf[c] = p} IN
    /\ "crash" \in Faults
    /\ cache' = [cache EXCEPT ![p] = None]
    /\ Abandon(dead)
    /\ pc' = [c \in Calls |-> IF c \in dead THEN "idle" ELSE pc[c]]
    /\ kind' = [c \in Calls |-> IF c \in dead THEN "run" ELSE kind[c]]
    /\ local' = [c \in Calls |-> IF c \in dead THEN None ELSE local[c]]
    /\ own' = [c \in Calls |-> IF c \in dead THEN None ELSE own[c]]
    /\ stamp' = [c \in Calls |-> IF c \in dead THEN 0 ELSE stamp[c]]
    /\ UNCHANGED <<metaId, metaAge, seen, live>>

Tick ==
    /\ metaAge' = Older(metaAge)
    /\ stamp' = [c \in Calls |-> IF pc[c] = "claim" THEN Older(stamp[c]) ELSE stamp[c]]
    /\ UNCHANGED <<metaId, seen, abandoned, live, cache, pc, kind, local, own>>

CallStep(c) ==
    \/ Poll(c) \/ ResetStale(c) \/ Claim(c)
    \/ \E s \in Sandboxes : CreateOk(c, s)
    \/ CreateFail(c) \/ Release(c) \/ Publish(c) \/ Connect(c)
    \/ PingUnreachable(c) \/ Adopt(c) \/ Persist(c) \/ Identity(c)

Next ==
    \/ \E c \in Calls : \/ StartRun(c) \/ StartRecovery(c) \/ EndRun(c) \/ CallStep(c)
                        \/ Raise(c) \/ UpdateFails(c) \/ Cancel(c) \/ OrphanStep(c)
    \/ \E p \in Procs : Crash(p)
    \/ Tick

Spec == Init /\ [][Next]_vars

(* A live worker keeps executing its coroutines and the clock advances;     *)
(* nothing obliges a user to start runs or the environment to disturb them, *)
(* and no call is rescued from waiting by an error.                         *)
Fairness == WF_vars(Tick) /\ \A c \in Calls : WF_vars(CallStep(c))
FairSpec == Spec /\ Fairness

----------------------------------------------------------------------------
TypeOK ==
    /\ metaId \in MetaValues
    /\ metaAge \in Ages
    /\ live \subseteq Sandboxes
    /\ cache \in [Procs -> Handles]
    /\ pc \in [Calls -> PCs]
    /\ kind \in [Calls -> {"run", "tool"}]
    /\ local \in [Calls -> MetaValues]
    /\ own \in [Calls -> Handles]
    /\ stamp \in [Calls -> Ages]
    /\ seen \subseteq MetaValues
    /\ abandoned \in BOOLEAN

(* No error path of the creating code forgets the sentinel: while the       *)
(* metadata says "__creating__", some call is still on its way to replace   *)
(* it, unless that call was killed, cancelled or cut off from the server    *)
(* (sandbox_resolution.py: the except branches of _recreate_sandbox and of  *)
(* ensure_sandbox_for_thread, and the comparison `sandbox_id !=             *)
(* sandbox_backend.id` that decides whether the id is written at all).      *)
SentinelOwned ==
    metaId = Creating => abandoned \/ \E c \in Calls : pc[c] \in OwnerPCs

(* While a run executes, backend_factory finds a cached backend on its      *)
(* process, of a sandbox the provider made (_get_cached_sandbox_backend     *)
(* raises if there is none), whatever the other calls, failed recreations   *)
(* included, do to the proxy.                                               *)
BackendCached ==
    \A c \in Calls : Running(c) => cache[ProcOf[c]] \in live

(* The strengthening that makes the two inductive.  Every id that is        *)
(* remembered anywhere is of a sandbox the provider made ...                *)
KnownIds ==
    /\ metaId \in live \cup {None, Creating}
    /\ seen \subseteq live \cup {None, Creating}
    /\ \A p \in Procs : cache[p] \in live \cup {None}
    /\ \A c \in Calls : local[c] \in live \cup {None, Creating} /\ own[c] \in live \cup {None}

(* ... and what a call holds fits the place where it is suspended: a new    *)
(* sandbox differs from the id the call started from, so it is persisted.   *)
FrameOK(c) ==
    /\ pc[c] = "connect" => local[c] \in live
    /\ pc[c] \in {"publish", "adopt", "republish", "persist", "orphanPublish"} => own[c] \in live
    /\ pc[c] \in {"publish", "adopt"} => own[c] # local[c]
    /\ pc[c] = "ping" /\ own[c] = None => cache[ProcOf[c]] \in live
    /\ pc[c] \in {"persist", "identity", "running"} => cache[ProcOf[c]] \in live

Inv == TypeOK /\ KnownIds /\ (\A c \in Calls : FrameOK(c)) /\ SentinelOwned

(* A run leaves ensure_sandbox_for_thread only when the thread's metadata   *)
(* names the sandbox its process has cached ("Persists the resulting        *)
(* sandbox_id to thread metadata").                                         *)
PersistsSandboxId ==
    [][\A c \in Calls : ~Running(c) /\ Running(c)' => metaId = cache[ProcOf[c]]]_vars

(* Why it holds when runs do not overlap, start from the metadata of their  *)
(* moment and are not cancelled: a run that is on its way is alone, tool    *)
(* calls are of a run that executes, and what the run will compare with the *)
(* id of its backend (its sandbox_id) is what the metadata say.             *)
OneRun ==
    /\ \A c, d \in Calls : kind[c] = "run" /\ kind[d] = "run" /\ Active(c) /\ Active(d) => c = d
    /\ \A c \in Calls : kind[c] = "tool" /\ Active(c) => \E r \in Calls : Running(r) /\ ProcOf[r] = ProcOf[c]
    /\ \A c \in Calls : ~Orphan(c)
    /\ \A c \in Calls : pc[c] \in {"idle", "running"} => own[c] = None /\ kind[c] = "run"
InStep(c) ==
    kind[c] = "run" =>
        /\ pc[c] \in {"connect", "republish", "ping"} => local[c] = metaId
        /\ pc[c] \in {"republish", "ping"} => own[c] \in {None, local[c]}
        /\ pc[c] = "republish" => own[c] # None
        /\ pc[c] = "persist" => own[c] = cache[ProcOf[c]]
        /\ pc[c] = "identity" => metaId = cache[ProcOf[c]]
SerialInv == OneRun /\ \A c \in Calls : InStep(c)

(* Every call that enters the lifecycle leaves it: a run executes or fails, *)
(* a recovery ends.  A run that finds a sentinel nobody will replace waits  *)
(* for the timeout and goes on.                                             *)
CallSettles ==
    \A c \in Calls : Active(c) /\ ~Running(c) ~> pc[c] \in {"idle", "running"}
=============================================================================

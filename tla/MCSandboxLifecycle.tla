------------------------ MODULE MCSandboxLifecycle ------------------------
(* Small instances of SandboxLifecycle: two worker processes.              *)
EXTENDS SandboxLifecycle, TLC

CONSTANTS p1, p2, c1, c2, c3, s1, s2, s3

\* Two slots on the first worker, one on the second.
MCThreeSlots == (c1 :> p1) @@ (c2 :> p1) @@ (c3 :> p2)
\* Two slots on one worker: a run and a tool call, or two runs.
MCOneWorker == (c1 :> p1) @@ (c2 :> p1)
\* One slot on each worker.
MCTwoSlots == (c1 :> p1) @@ (c2 :> p2)

MCSandboxSymmetry == Permutations(Sandboxes)
===========================================================================

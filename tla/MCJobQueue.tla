----------------------------- MODULE MCJobQueue -----------------------------
(* JobQueue with two workers whose clocks differ by one and two jobs: one  *)
(* that any worker handles and enqueues as recurring, one that only w1     *)
(* has a handler for (w2 runs an older build).                             *)
EXTENDS JobQueue, TLC

CONSTANTS w1, w2, j1, j2

MCWorkers == {w1, w2}
MCJobs == {j1, j2}
MCRecurring == {j1}
MCHandles == (w1 :> {j1, j2}) @@ (w2 :> {j1})
MCNoSkew == (w1 :> 0) @@ (w2 :> 0)
MCSkew == (w1 :> 0) @@ (w2 :> 1)
=============================================================================

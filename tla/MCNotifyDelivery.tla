-------------------------- MODULE MCNotifyDelivery --------------------------
(* One notification and two workers that agree on the time.                *)
EXTENDS NotifyDelivery, TLC

CONSTANTS w1, w2, j1

MCWorkers == {w1, w2}
MCJobs == {j1}
MCHandles == (w1 :> {j1}) @@ (w2 :> {j1})
MCSkew == (w1 :> 0) @@ (w2 :> 0)

\* The workers have equal clocks and handlers here.
Symmetry == Permutations(MCWorkers)
=============================================================================

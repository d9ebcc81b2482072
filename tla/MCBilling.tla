------------------------------ MODULE MCBilling ------------------------------
(* Billing with one subject, who may check out twice in two tabs, and two  *)
(* provider events.                                                        *)
EXTENDS Billing, TLC

CONSTANTS u1, s1, s2, r1, r2, e1, e2

MCSubs == {s1, s2}
MCOwner == (s1 :> u1) @@ (s2 :> u1)
MCRequests == {r1, r2}
MCEvents == {e1, e2}

\* Nothing tells rows, requests or event ids apart.
Symmetry == Permutations(MCSubs) \cup Permutations(MCRequests) \cup Permutations(MCEvents)
=============================================================================

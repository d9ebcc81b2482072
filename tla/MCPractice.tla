----------------------------- MODULE MCPractice -----------------------------
(* An instance of Practice for TLC: two sessions, of one chapter or of     *)
(* two, the first with two questions; two requests at a time.              *)
EXTENDS Practice, TLC

CONSTANTS s1, s2, c1, c2, q1, q2, r1, r2

MCRequests == {r1, r2}
MCSessions == {s1, s2}
MCChapters == {c1, c2}
MCQuestions == {q1, q2}
MCQuestionsOf == [s \in MCSessions |-> IF s = s1 THEN {q1, q2} ELSE {q1}]
Symmetry == Permutations(MCRequests) \cup Permutations(MCChapters)
=============================================================================

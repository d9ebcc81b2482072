---------------------------- MODULE CorpusImport ----------------------------
(***************************************************************************)
(* The corpus importer (scripts/import-corpus.ts with shared/corpus) and   *)
(* the practice that reads its question bank meanwhile.  An import reads   *)
(* the extract and the current reserve first, plans, and writes all of it  *)
(* in one transaction later; another import may be written in between.     *)
(* One chapter, whose questions stay in it; the chapter's other tables are *)
(* reconciled with the extract in the same way and nothing refers to them. *)
(***************************************************************************)
EXTENDS Naturals, FiniteSets, FiniteSetsExt

CONSTANTS
  Importers,         \* processes that may run the importer
  Questions,         \* source ids of the questions that are eligible at times
  ShareTop, ShareOf, \* HELD_OUT_SHARE as a fraction (3 of 10 in the code)
  MinForReserve,     \* MIN_QUESTIONS_FOR_RESERVE (15 in the code)
  MaxImports,        \* bound: how many imports are planned
  MaxSittings        \* bound: how many practice sessions are drawn

ASSUME CorpusAssumption ==
  /\ Questions \subseteq Nat /\ IsFiniteSet(Questions)
  /\ ShareOf \in Nat \ {0} /\ ShareTop \in 0 .. ShareOf
  /\ MinForReserve \in Nat /\ MaxImports \in Nat /\ MaxSittings \in Nat

VARIABLES
  bank,      \* questions: "absent", or the pool that is_held_out puts it in
  import,    \* what each importer has planned
  sitting,   \* one student's practice session
  responses, \* questions that practice_responses refers to
  marked,    \* history: reserved once, and in the bank ever since
  imports, sittings  \* how many there have been

corpusVars == <<bank, import, sitting, responses, marked, imports, sittings>>

InBank == {q \in Questions : bank[q] # "absent"}
Reserved == {q \in Questions : bank[q] = "reserved"}
Practice == {q \in Questions : bank[q] = "practice"}

NoPlan == [step |-> "idle", extract |-> {}, heldOut |-> {}]
\* changed: the questions that an import has taken from practice since the draw.
NoSitting == [step |-> "none", drawn |-> {}, answered |-> {}, changed |-> {}]

CorpusTypeOK ==
  /\ bank \in [Questions -> {"absent", "practice", "reserved"}]
  /\ import \in [Importers -> [step : {"idle", "planned"}, extract : SUBSET Questions,
                               heldOut : SUBSET Questions]]
  /\ sitting \in [step : {"none", "drawn", "open"}, drawn : SUBSET Questions,
                  answered : SUBSET Questions, changed : SUBSET Questions]
  /\ responses \subseteq Questions /\ marked \subseteq Questions
  /\ imports \in 0 .. MaxImports /\ sittings \in 0 .. MaxSittings

CorpusInit ==
  /\ bank = [q \in Questions |-> "absent"]
  /\ import = [i \in Importers |-> NoPlan]
  /\ sitting = NoSitting
  /\ responses = {} /\ marked = {} /\ imports = 0 /\ sittings = 0

-----------------------------------------------------------------------------
(* chooseReserve                                                           *)

\* Math.ceil(total * HELD_OUT_SHARE).
Target(total) == (total * ShareTop + ShareOf - 1) \div ShareOf

\* slice(max(0, length - n)) of the ids in their order.
LastOf(n, ids) == {q \in ids : Cardinality({p \in ids : p > q}) < n}

Shortfall(ids, kept) ==
  LET target == Target(Cardinality(ids))
  IN IF target > Cardinality(kept) THEN target - Cardinality(kept) ELSE 0

\* Below the minimum nothing new is reserved; nothing is ever released.
ChooseReserve(ids, alreadyHeldOut) ==
  LET kept == ids \cap alreadyHeldOut
  IN IF Cardinality(ids) < MinForReserve THEN kept
     ELSE kept \cup LastOf(Shortfall(ids, kept), ids \ kept)

-----------------------------------------------------------------------------
(* importCorpus: the extract and the reserve are read outside of the       *)
(* transaction, whose plan is then fixed.                                  *)
PlanImport(i, extract) ==
  /\ import[i].step = "idle" /\ imports < MaxImports
  /\ imports' = imports + 1
  /\ import' = [import EXCEPT ![i] =
       [step |-> "planned", extract |-> extract,
        heldOut |-> ChooseReserve(extract, Reserved)]]
  /\ UNCHANGED <<bank, sitting, responses, marked, sittings>>

\* Faulty: the plan alone decides.
PlannedPool(q, heldOut) == IF q \in heldOut THEN "reserved" ELSE "practice"

\* The upsert: is_held_out = questions.is_held_out or excluded.is_held_out.
PoolAfter(q, heldOut) ==
  IF bank[q] = "reserved" \/ q \in heldOut THEN "reserved" ELSE "practice"

Written(extract, heldOut) ==
  [q \in Questions |-> IF q \in extract THEN PoolAfter(q, heldOut) ELSE "absent"]

\* The transaction: rows that are not in the extract are deleted, the others
\* inserted or updated.  A row that a response refers to cannot be deleted
\* (`restrict`): the whole import is rolled back.  Imports lock the row of their
\* chapter before they come to its questions, so their writes do not overlap.
WriteImport(i) ==
  LET plan == import[i]
      after == Written(plan.extract, plan.heldOut)
  IN /\ plan.step = "planned"
     /\ import' = [import EXCEPT ![i] = NoPlan]
     /\ IF responses \subseteq plan.extract
        THEN /\ bank' = after
             /\ marked' = (marked \cap plan.extract) \cup {q \in Questions : after[q] = "reserved"}
             /\ sitting' = [sitting EXCEPT !.changed =
                  @ \cup {q \in sitting.drawn : after[q] # "practice"}]
        ELSE UNCHANGED <<bank, marked, sitting>>
     /\ UNCHANGED <<responses, imports, sittings>>

\* The importer dies, or its connection does: nothing of it is written.
ImporterDies(i) ==
  /\ import[i].step = "planned"
  /\ import' = [import EXCEPT ![i] = NoPlan]
  /\ UNCHANGED <<bank, sitting, responses, marked, imports, sittings>>

-----------------------------------------------------------------------------
(* The practice service over the bank.                                     *)

\* findQuestions returns the first of the pool by their ids, which are hashes of
\* the source ids, up to the number that is asked for: any subset.
FoundQuestions == SUBSET Practice \ {{}}

\* startSession reads the questions ...
DrawQuestions(questions) ==
  /\ sitting.step = "none" /\ sittings < MaxSittings
  /\ sittings' = sittings + 1
  /\ sitting' = [step |-> "drawn", drawn |-> questions, answered |-> {}, changed |-> {}]
  /\ UNCHANGED <<bank, import, responses, marked, imports>>

\* ... then freezes them into the session and shows them.
OpenSession ==
  /\ sitting.step = "drawn"
  /\ sitting' = [sitting EXCEPT !.step = "open"]
  /\ UNCHANGED <<bank, import, responses, marked, imports, sittings>>

\* submitAnswer: a question that questionsOf cannot find any more is refused.
AnswerQuestion(q) ==
  /\ sitting.step = "open" /\ q \in sitting.drawn \ sitting.answered
  /\ q \in Practice
  /\ sitting' = [sitting EXCEPT !.answered = @ \cup {q}]
  /\ UNCHANGED <<bank, import, responses, marked, imports, sittings>>

\* submitSession: the responses must refer to questions that exist, or the
\* transaction fails and the session stays open.
SubmitAnswers ==
  /\ sitting.step = "open" /\ sitting.answered \subseteq InBank
  /\ responses' = responses \cup sitting.answered
  /\ sitting' = NoSitting
  /\ UNCHANGED <<bank, import, marked, imports, sittings>>

CorpusNext ==
  \/ \E i \in Importers :
       \/ \E extract \in SUBSET Questions : PlanImport(i, extract)
       \/ WriteImport(i) \/ ImporterDies(i)
  \/ \E questions \in FoundQuestions : DrawQuestions(questions)
  \/ OpenSession
  \/ \E q \in Questions : AnswerQuestion(q)
  \/ SubmitAnswers

CorpusSpec == CorpusInit /\ [][CorpusNext]_corpusVars

-----------------------------------------------------------------------------
\* The chapter has its share of reserved questions whatever order imports are
\* written in, and importing the same extract again would reserve no other.
ReserveIsFull ==
  /\ Cardinality(InBank) >= MinForReserve => Cardinality(Reserved) >= Target(Cardinality(InBank))
  /\ ChooseReserve(InBank, Reserved) = Reserved

\* A question stays reserved for as long as it stays in the bank, although an
\* import may have been planned before the reserve took it.
ReserveStands == marked \subseteq Reserved

\* A session's question that practice cannot find any more, or would not have
\* been allowed to draw, was taken by an import written since the draw.
DrawnFromPractice == sitting.drawn \subseteq Practice \cup sitting.changed

\* No import removes a question that has been answered in a submitted session,
\* not even one that was planned before the answer.
EvidenceStays == responses \subseteq InBank

\* Types, the size of the reserve, what stays in it, what practice draws, and
\* the evidence.
CorpusInv ==
  CorpusTypeOK /\ ReserveIsFull /\ ReserveStands /\ DrawnFromPractice /\ EvidenceStays

=============================================================================

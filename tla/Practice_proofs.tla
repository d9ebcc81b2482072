--------------------------- MODULE Practice_proofs ---------------------------
(***************************************************************************)
(* The rules keep their ranges; and every invariant and action property    *)
(* that the run of Practice checks holds for any number of requests,       *)
(* sessions, chapters and questions, any cap and any number of retries.    *)
(***************************************************************************)
EXTENDS Practice, FiniteSetTheorems, TLAPS

(* Rounding a fraction that is at most k stays at most k.                  *)
LEMMA RoundedBounds ==
  ASSUME NEW n \in Nat, NEW d \in Nat \ {0}, NEW k \in Nat, n =< k * d
  PROVE  Rounded(n, d) \in 0 .. k
<1> DEFINE a == 2 * n + d
           b == 2 * d
           q == a \div b
<1>1. a \in Nat /\ b \in Nat \ {0}
  OBVIOUS
<1>2. a < (k + 1) * b
  <2>1. 2 * n =< 2 * (k * d)
    OBVIOUS
  <2>2. (k + 1) * b = 2 * (k * d) + 2 * d
    BY SMT
  <2>3. k * d \in Nat
    BY SMT
  <2> QED BY <2>1, <2>2, <2>3
<1> HIDE DEF a, b
<1>3. q \in Nat /\ b * q =< a
  BY <1>1, SMT
<1> HIDE DEF q
<1>4. ASSUME q > k PROVE FALSE
  <2>1. b * q >= b * (k + 1)
    BY <1>1, <1>3, <1>4, SMT
  <2>2. b * (k + 1) = (k + 1) * b
    BY <1>1, SMT
  <2>3. b * q \in Int /\ b * (k + 1) \in Int
    BY <1>1, <1>3, SMT
  <2> QED BY <1>1, <1>2, <1>3, <2>1, <2>2, <2>3
<1> QED BY <1>3, <1>4 DEF Rounded, q, a, b

(* A score is a percentage.                                                *)
LEMMA ScoreIsPercentage ==
  ASSUME NEW correct \in Nat, NEW total \in Nat, correct =< total
  PROVE  CalculateScore(correct, total) \in 0 .. 100
<1>1. CASE total = 0
  BY <1>1 DEF CalculateScore
<1>2. CASE total # 0
  <2>1. 100 * correct \in Nat /\ 100 * correct =< 100 * total
    OBVIOUS
  <2>2. Rounded(100 * correct, total) \in 0 .. 100
    BY <1>2, <2>1, RoundedBounds
  <2> QED BY <1>2, <2>2 DEF CalculateScore
<1> QED BY <1>1, <1>2

(* XP is a natural number, and the cap leaves an award that is zero or     *)
(* fits in what is left of the day.                                        *)
LEMMA XpIsNatural ==
  ASSUME NEW correct \in Nat, NEW score \in 0 .. 100
  PROVE  CalculateXp(correct, score) \in Nat
BY DEF CalculateXp

(* What is awarded and what the day already holds fit under the cap.       *)
LEMMA AwardFits ==
  ASSUME NEW earned \in Nat, NEW already \in Nat
  PROVE  /\ ApplyDailyCap(earned, already) \in 0 .. DailyCap
         /\ \/ ApplyDailyCap(earned, already) = 0
            \/ ApplyDailyCap(earned, already) + already =< DailyCap
BY DailyCapAssumption DEF ApplyDailyCap, Lesser, Greater

(* Mastery is a level between 0 and 1, in thousandths.                     *)
LEMMA MasteryIsLevel ==
  ASSUME NEW previous \in NoScore .. 1000, NEW score \in 0 .. 100
  PROVE  NextMastery(previous, score) \in 0 .. 1000
<1>1. CASE previous = NoScore
  BY <1>1 DEF NextMastery, NoScore
<1>2. CASE previous # NoScore
  <2> DEFINE blend == 6 * previous + 40 * score
             ten == 10
             most == 1000
  <2>1. /\ blend \in Nat /\ ten \in Nat \ {0} /\ most \in Nat
        /\ blend =< most * ten
    BY <1>2 DEF NoScore
  <2>2. NextMastery(previous, score) = Rounded(blend, ten)
    BY <1>2 DEF NextMastery
  <2> HIDE DEF blend, ten, most
  <2>3. Rounded(blend, ten) \in 0 .. most
    BY <2>1, RoundedBounds
  <2> QED BY <2>2, <2>3 DEF most
<1> QED BY <1>1, <1>2

(* A review leads from one SM-2 state to another.                          *)
LEMMA ScheduleIsState ==
  ASSUME NEW state \in RetentionRows, NEW score \in 0 .. 100
  PROVE  ScheduleNextReview(state, score) \in RetentionRows
<1> DEFINE quality == ScoreToQuality(score)
           ease == NextEase(state.easeFactor, quality)
           reps == state.repetitions + 1
<1>1. quality \in 0 .. 5
  <2> DEFINE twenty == 20
             most == 5
  <2>1. /\ score \in Nat /\ twenty \in Nat \ {0} /\ most \in Nat
        /\ score =< most * twenty
    OBVIOUS
  <2> HIDE DEF twenty, most
  <2>2. Rounded(score, twenty) \in 0 .. most
    BY <2>1, RoundedBounds
  <2> QED BY <2>2 DEF ScoreToQuality, twenty, most
<1>2. ease \in Nat
  <2>1. state.easeFactor \in Nat
    BY DEF RetentionRows
  <2> HIDE DEF quality
  <2> DEFINE change == 10 - (5 - quality) * (8 + (5 - quality) * 2)
  <2>2. change \in Int
    BY <1>1, SMT
  <2>3. ease = Greater(130, state.easeFactor + change)
    <3>1. (5 - quality) * (8 + (5 - quality) * 2) \in Int
      BY <1>1, SMT
    <3> QED BY <1>1, <2>1, <3>1 DEF NextEase
  <2> HIDE DEF change
  <2> QED BY <2>1, <2>2, <2>3 DEF Greater
<1>3. reps \in Nat
  BY DEF RetentionRows
<1>4. NextInterval(state, reps, ease) \in Nat
  <2> HIDE DEF ease, reps
  <2>1. state.intervalDays * ease \in Nat
    BY <1>2, SMT DEF RetentionRows
  <2>2. Rounded(state.intervalDays * ease, 100) \in Int
    BY <2>1, SMT DEF Rounded
  <2> QED BY <1>3, <2>2 DEF NextInterval, Greater
<1> HIDE DEF quality, ease, reps
<1>5. [state EXCEPT !.intervalDays = 1, !.repetitions = 0] \in RetentionRows
  BY DEF RetentionRows
<1>6. [intervalDays |-> NextInterval(state, reps, ease), easeFactor |-> ease,
       repetitions |-> reps] \in RetentionRows
  BY <1>2, <1>3, <1>4 DEF RetentionRows
<1> QED BY <1>5, <1>6 DEF ScheduleNextReview, quality, ease, reps

-----------------------------------------------------------------------------
Submitting == {"mastery", "lock"} \cup InTransaction

(* What a request in flight has taken with it, and how far it still holds: *)
(* the award fits as long as its transaction holds the lock, and the value *)
(* it read of the mastery is current unless somebody committed.            *)
RequestOK(r) ==
  LET me == request[r]
      chapter == session[me.session].chapter
  IN  /\ me.pc # "idle" =>
           me.session \in Sessions /\ session[me.session].state # "absent"
      /\ me.pc = "save" => me.question \in Questions /\ me.answer \in Answers
      /\ me.isValid => /\ me.pc # "idle"
                       /\ Cardinality(Answered(me.seen)) =
                            Cardinality(QuestionsOf[me.session])
      /\ me.pc \in {"complete", "land"} =>
           me.awarded = 0 \/ me.awarded + xpSince[me.now] =< DailyCap
      /\ me.pc = "land" => session[me.session].state = "open"
      /\ me.pc \in Submitting =>
           me.attempt - 1 + me.base =< mastery[chapter].attempts
      /\ me.pc \in Submitting \ {"mastery"} =>
           \/ mastery[chapter].score = me.expected
           \/ me.attempt + me.base =< mastery[chapter].attempts

ChaptersChosen ==
  \A s \in Sessions : session[s].state # "absent" => session[s].chapter \in Chapters

PracticeInv ==
  /\ TypeOK
  /\ LockFollowsTransaction
  /\ \A r \in Requests : RequestOK(r)
  /\ ChaptersChosen
  /\ xpSince[MaxDay + 1] = 0
  /\ DailyCapHeld
  /\ HistoryAgrees

(* The idle request is well-typed.                                         *)
LEMMA IdleIsState == Idle \in RequestStates
<1>1. Unanswered \in AnswerMaps /\ 0 \in Days /\ 0 \in 0 .. DailyCap
  BY PracticeAssumption, DailyCapAssumption DEF Unanswered, AnswerMaps, Days
<1> QED BY <1>1, PracticeAssumption DEF Idle, RequestStates, NoScore

(* The invariant holds of empty tables.                                    *)
LEMMA InitPracticeInv == Init => PracticeInv
<1> SUFFICES ASSUME Init PROVE PracticeInv
  OBVIOUS
<1> USE PracticeAssumption, DailyCapAssumption
<1>1. TypeOK
  <2>1. Unanswered \in AnswerMaps /\ 0 \in Days /\ 0 \in 0 .. DailyCap
    BY DEF Unanswered, AnswerMaps, Days
  <2>2. NoSession \in SessionRows
    BY <2>1 DEF NoSession, SessionRows
  <2>3. Idle \in RequestStates
    BY IdleIsState
  <2>4. NoMastery \in MasteryRows /\ InitialRetention \in RetentionRows
    BY DEF NoMastery, MasteryRows, InitialRetention, RetentionRows, NoScore
  <2>5. NoRow \in NoRow .. DailyCap
    BY DEF NoRow
  <2> QED BY <2>1, <2>2, <2>3, <2>4, <2>5 DEF Init, TypeOK
<1>2. LockFollowsTransaction
  BY DEF Init, LockFollowsTransaction, InTransaction, Idle, None
<1>3. \A r \in Requests : RequestOK(r)
  BY DEF Init, RequestOK, Idle, Submitting, InTransaction
<1>4. ChaptersChosen
  BY DEF Init, ChaptersChosen, NoSession
<1>5. xpSince[MaxDay + 1] = 0 /\ DailyCapHeld
  BY DEF Init, DailyCapHeld, XpOn, Midnights, Days
<1>6. HistoryAgrees
  <2>1. \A c \in Chapters : SubmittedIn(c) = {}
    BY DEF Init, SubmittedIn, NoSession
  <2> QED BY <2>1, FS_EmptySet DEF Init, HistoryAgrees, NoSession, NoMastery
<1> QED BY <1>1, <1>2, <1>3, <1>4, <1>5, <1>6 DEF PracticeInv

(* A request that takes one step of its own and leaves the tables alone    *)
(* need only be looked at itself.                                          *)
LEMMA QuietStep ==
  ASSUME PracticeInv, UNCHANGED <<day, tables>>,
         NEW r \in Requests, NEW next \in RequestStates,
         request' = [request EXCEPT ![r] = next],
         studentLock' \in Requests \cup {None},
         LockFollowsTransaction', RequestOK(r)'
  PROVE  PracticeInv'
<1> USE DEF tables
<1>1. TypeOK'
  BY DEF PracticeInv, TypeOK
<1>2. \A q \in Requests : RequestOK(q)'
  <2> SUFFICES ASSUME NEW q \in Requests, q # r PROVE RequestOK(q)'
    OBVIOUS
  <2>1. request'[q] = request[q]
    BY DEF PracticeInv, TypeOK
  <2>2. RequestOK(q)
    BY DEF PracticeInv
  <2> QED BY <2>1, <2>2 DEF RequestOK
<1>3. /\ ChaptersChosen' /\ DailyCapHeld' /\ HistoryAgrees'
      /\ (xpSince[MaxDay + 1] = 0)'
  BY DEF PracticeInv, ChaptersChosen, DailyCapHeld, XpOn, HistoryAgrees, SubmittedIn
<1> QED BY <1>1, <1>2, <1>3 DEF PracticeInv

(* A request that ends lets go of the lock if it held it, and of nothing   *)
(* else.                                                                   *)
LEMMA EndsClean ==
  ASSUME PracticeInv, NEW r \in Requests, Ended(r), ReleaseLock(r)
  PROVE  /\ Idle \in RequestStates
         /\ studentLock' \in Requests \cup {None}
         /\ LockFollowsTransaction'
         /\ RequestOK(r)'
<1> USE PracticeAssumption, DailyCapAssumption
<1>1. Idle \in RequestStates
  BY IdleIsState
<1>2. request'[r] = Idle /\ \A q \in Requests \ {r} : request'[q] = request[q]
  BY DEF PracticeInv, TypeOK, Ended
<1>3. Idle.pc = "idle" /\ Idle.isValid = FALSE
  BY DEF Idle
<1>4. studentLock' \in Requests \cup {None}
  BY DEF PracticeInv, TypeOK, ReleaseLock
<1>5. LockFollowsTransaction'
  BY <1>2, <1>3 DEF PracticeInv, LockFollowsTransaction, ReleaseLock, InTransaction, None
<1>6. RequestOK(r)'
  BY <1>2, <1>3 DEF RequestOK, Submitting, InTransaction
<1> QED BY <1>1, <1>4, <1>5, <1>6

-----------------------------------------------------------------------------
(* The steps that leave the tables alone, one lemma each.                  *)

(* An answer takes a copy of the session it reads.                         *)
LEMMA AnswerReadKeeps ==
  ASSUME PracticeInv, NEW r \in Requests, NEW s \in Sessions, NEW q \in Questions,
         NEW a \in Answers, AnswerRead(r, s, q, a)
  PROVE  PracticeInv'
<1> USE PracticeAssumption, DailyCapAssumption
<1> DEFINE next == [Idle EXCEPT !.pc = "save", !.session = s, !.question = q,
                                !.answer = a, !.seen = session[s].answers]
<1>1. next \in RequestStates /\ next.pc = "save" /\ next.session = s
      /\ next.question = q /\ next.answer = a /\ next.isValid = FALSE
  <2>1. session[s].answers \in AnswerMaps
    BY DEF PracticeInv, TypeOK, SessionRows
  <2>2. next \in RequestStates
    <3> DEFINE n1 == [Idle EXCEPT !.pc = "save"]
               n2 == [n1 EXCEPT !.session = s]
               n3 == [n2 EXCEPT !.question = q]
               n4 == [n3 EXCEPT !.answer = a]
               n5 == [n4 EXCEPT !.seen = session[s].answers]
    <3>1. next = n5
      OBVIOUS
    <3> HIDE DEF next
    <3>2. n1 \in RequestStates
      BY IdleIsState DEF RequestStates
    <3> HIDE DEF n1
    <3>3. n2 \in RequestStates
      BY <3>2 DEF RequestStates
    <3> HIDE DEF n2
    <3>4. n3 \in RequestStates
      BY <3>3 DEF RequestStates
    <3> HIDE DEF n3
    <3>5. n4 \in RequestStates
      BY <3>4 DEF RequestStates
    <3> HIDE DEF n4
    <3> QED BY <2>1, <3>1, <3>5 DEF RequestStates
  <2>3. next.pc = "save" /\ next.session = s /\ next.question = q /\ next.answer = a
    BY IdleIsState DEF RequestStates
  <2>4. next.isValid = FALSE
    BY DEF Idle
  <2> QED BY <2>2, <2>3, <2>4
<1> HIDE DEF next
<1>2. /\ request' = [request EXCEPT ![r] = next] /\ UNCHANGED <<day, tables>>
      /\ UNCHANGED studentLock /\ request[r].pc = "idle"
  BY DEF AnswerRead, next
<1>3. request'[r] = next /\ \A p \in Requests \ {r} : request'[p] = request[p]
  BY <1>2 DEF PracticeInv, TypeOK
<1>4. LockFollowsTransaction'
  BY <1>1, <1>2, <1>3 DEF PracticeInv, LockFollowsTransaction, InTransaction
<1>5. RequestOK(r)'
  <2>1. session'[s].state # "absent"
    BY <1>2 DEF AnswerRead, tables
  <2> QED BY <1>1, <1>3, <2>1 DEF RequestOK, Submitting, InTransaction
<1> QED BY <1>1, <1>2, <1>4, <1>5, QuietStep DEF PracticeInv, TypeOK

(* A submission starts with its first attempt, no commit to account for.   *)
LEMMA SubmitReadKeeps ==
  ASSUME PracticeInv, NEW r \in Requests, NEW s \in Sessions, NEW plausible \in BOOLEAN,
         SubmitRead(r, s, plausible)
  PROVE  PracticeInv'
<1> USE PracticeAssumption, DailyCapAssumption
<1> DEFINE answers == session[s].answers
           valid == ValidAttempt(Cardinality(Answered(answers)),
                                 Cardinality(QuestionsOf[s]), plausible)
           commits == mastery[session[s].chapter].attempts
           next == [Idle EXCEPT !.pc = "mastery", !.session = s, !.attempt = 1,
                                !.seen = answers, !.now = day, !.isValid = valid,
                                !.base = commits]
<1>0. session[s].state = "open" /\ session[s].chapter \in Chapters
  BY DEF SubmitRead, PracticeInv, ChaptersChosen
<1>1. answers \in AnswerMaps /\ valid \in BOOLEAN /\ commits \in Nat /\ day \in Days
  BY <1>0 DEF PracticeInv, TypeOK, SessionRows, MasteryRows, ValidAttempt
<1>2. valid => Cardinality(Answered(answers)) = Cardinality(QuestionsOf[s])
  BY DEF ValidAttempt
<1>3. /\ request' = [request EXCEPT ![r] = next] /\ UNCHANGED <<day, tables>>
      /\ UNCHANGED studentLock /\ request[r].pc = "idle"
  BY DEF SubmitRead
<1> HIDE DEF valid
<1>4. /\ next \in RequestStates
      /\ next.pc = "mastery" /\ next.session = s /\ next.isValid = valid
      /\ next.seen = answers /\ next.attempt = 1 /\ next.base = commits
  <2>1. 1 \in 0 .. MasteryAttempts
    OBVIOUS
  <2> HIDE DEF answers, commits
  <2>2. next \in RequestStates
    <3> DEFINE n1 == [Idle EXCEPT !.pc = "mastery"]
               n2 == [n1 EXCEPT !.session = s]
               n3 == [n2 EXCEPT !.attempt = 1]
               n4 == [n3 EXCEPT !.seen = answers]
               n5 == [n4 EXCEPT !.now = day]
               n6 == [n5 EXCEPT !.isValid = valid]
               n7 == [n6 EXCEPT !.base = commits]
    <3>1. next = n7
      OBVIOUS
    <3> HIDE DEF next
    <3>2. n1 \in RequestStates
      BY IdleIsState DEF RequestStates
    <3> HIDE DEF n1
    <3>3. n2 \in RequestStates
      BY <3>2 DEF RequestStates
    <3> HIDE DEF n2
    <3>4. n3 \in RequestStates
      BY <2>1, <3>3 DEF RequestStates
    <3> HIDE DEF n3
    <3>5. n4 \in RequestStates
      BY <1>1, <3>4 DEF RequestStates
    <3> HIDE DEF n4
    <3>6. n5 \in RequestStates
      BY <1>1, <3>5 DEF RequestStates
    <3> HIDE DEF n5
    <3>7. n6 \in RequestStates
      BY <1>1, <3>6 DEF RequestStates
    <3> HIDE DEF n6
    <3> QED BY <1>1, <3>1, <3>7 DEF RequestStates
  <2>3. /\ next.pc = "mastery" /\ next.session = s /\ next.isValid = valid
        /\ next.seen = answers /\ next.attempt = 1 /\ next.base = commits
    BY IdleIsState DEF RequestStates
  <2> QED BY <2>2, <2>3
<1> HIDE DEF next
<1>5. request'[r] = next /\ \A p \in Requests \ {r} : request'[p] = request[p]
  BY <1>3 DEF PracticeInv, TypeOK
<1>6. LockFollowsTransaction'
  BY <1>3, <1>4, <1>5 DEF PracticeInv, LockFollowsTransaction, InTransaction
<1>7. RequestOK(r)'
  BY <1>0, <1>1, <1>2, <1>3, <1>4, <1>5 DEF RequestOK, Submitting, InTransaction, tables
<1> QED BY <1>3, <1>4, <1>6, <1>7, QuietStep DEF PracticeInv, TypeOK

(* A request in flight has a session with a chapter and a mastery row.     *)
LEMMA InFlight ==
  ASSUME PracticeInv, NEW r \in Requests, request[r].pc # "idle"
  PROVE  /\ request[r] \in RequestStates
         /\ request[r].session \in Sessions
         /\ session[request[r].session] \in SessionRows
         /\ session[request[r].session].state # "absent"
         /\ ChapterOf(r) \in Chapters
         /\ mastery[ChapterOf(r)] \in MasteryRows
         /\ RequestOK(r)
BY DEF PracticeInv, TypeOK, RequestOK, ChaptersChosen, ChapterOf

(* The score read is the one in force until another commit.                *)
LEMMA ReadMasteryKeeps ==
  ASSUME PracticeInv, NEW r \in Requests, ReadMastery(r)
  PROVE  PracticeInv'
<1> DEFINE score == PreviousScore(r)
           next == [request[r] EXCEPT !.pc = "lock", !.expected = score]
<1>0. request[r].pc = "mastery"
  BY DEF ReadMastery
<1>1. score \in NoScore .. 1000
  BY <1>0, InFlight DEF PreviousScore, MasteryRows
<1>2. /\ next \in RequestStates
      /\ next.pc = "lock" /\ next.session = request[r].session
      /\ next.isValid = request[r].isValid /\ next.seen = request[r].seen
      /\ next.attempt = request[r].attempt /\ next.base = request[r].base
      /\ next.expected = score
  <2>1. request[r] \in RequestStates
    BY DEF PracticeInv, TypeOK
  <2> HIDE DEF score
  <2>2. next \in RequestStates
    <3> DEFINE n1 == [request[r] EXCEPT !.pc = "lock"]
               n2 == [n1 EXCEPT !.expected = score]
    <3>1. next = n2
      OBVIOUS
    <3> HIDE DEF next
    <3>2. n1 \in RequestStates
      BY <2>1 DEF RequestStates
    <3> HIDE DEF n1
    <3> QED BY <1>1, <3>1, <3>2 DEF RequestStates
  <2> QED BY <2>1, <2>2 DEF RequestStates
<1>3. /\ request' = [request EXCEPT ![r] = next] /\ UNCHANGED <<day, tables>>
      /\ UNCHANGED studentLock
  BY DEF ReadMastery, PracticeInv, TypeOK
<1> HIDE DEF next
<1>4. request'[r] = next /\ \A p \in Requests \ {r} : request'[p] = request[p]
  BY <1>3 DEF PracticeInv, TypeOK
<1>5. LockFollowsTransaction'
  BY <1>0, <1>2, <1>3, <1>4 DEF PracticeInv, LockFollowsTransaction, InTransaction
<1>6. RequestOK(r)'
  <2>1. RequestOK(r) /\ score = mastery[session[request[r].session].chapter].score
    BY DEF PracticeInv, PreviousScore, ChapterOf
  <2> HIDE DEF score
  <2> QED BY <1>0, <1>2, <1>3, <1>4, <2>1 DEF RequestOK, Submitting, InTransaction, tables
<1> QED BY <1>2, <1>3, <1>5, <1>6, QuietStep DEF PracticeInv, TypeOK

(* The advisory lock is taken from nobody.                                 *)
LEMMA LockStudentKeeps ==
  ASSUME PracticeInv, NEW r \in Requests, LockStudent(r)
  PROVE  PracticeInv'
<1> DEFINE next == [request[r] EXCEPT !.pc = "sum"]
<1>0. request[r].pc = "lock" /\ studentLock = None /\ studentLock' = r
  BY DEF LockStudent, LockFree
<1>1. /\ next \in RequestStates
      /\ next.pc = "sum" /\ next.session = request[r].session
      /\ next.isValid = request[r].isValid /\ next.seen = request[r].seen
      /\ next.attempt = request[r].attempt /\ next.base = request[r].base
      /\ next.expected = request[r].expected
  BY <1>0, InFlight DEF RequestStates, InTransaction
<1>2. request' = [request EXCEPT ![r] = next] /\ UNCHANGED <<day, tables>>
  BY DEF LockStudent, PracticeInv, TypeOK
<1> HIDE DEF next
<1>3. request'[r] = next /\ \A p \in Requests \ {r} : request'[p] = request[p]
  BY <1>2 DEF PracticeInv, TypeOK
<1>4. LockFollowsTransaction'
  <2>1. \A p \in Requests : p # None
    BY PracticeAssumption DEF None
  <2> QED BY <1>0, <1>1, <1>3, <2>1 DEF PracticeInv, LockFollowsTransaction, InTransaction
<1>5. RequestOK(r)'
  BY <1>0, <1>1, <1>2, <1>3 DEF PracticeInv, RequestOK, Submitting, InTransaction, tables
<1> QED BY <1>0, <1>1, <1>2, <1>4, <1>5, QuietStep

(* A submission's score is a percentage and its XP a natural number.       *)
LEMMA ScoreTyped ==
  ASSUME PracticeInv, NEW r \in Requests, request[r].pc # "idle"
  PROVE  ScoreOf(r) \in 0 .. 100 /\ EarnedBy(r) \in Nat
<1> DEFINE seen == request[r].seen
           right == {q \in Questions : seen[q] = "right"}
           total == Cardinality(QuestionsOf[request[r].session])
<1>1. right \subseteq Answered(seen) /\ Answered(seen) \subseteq Questions
  BY DEF Answered, None
<1>2. IsFiniteSet(Answered(seen)) /\ IsFiniteSet(right)
  BY <1>1, FS_Subset, PracticeAssumption
<1>3. /\ Cardinality(right) \in Nat /\ Cardinality(Answered(seen)) \in Nat
      /\ Cardinality(right) =< Cardinality(Answered(seen))
  BY <1>1, <1>2, FS_Subset, FS_CardinalityType
<1>4. Correct(seen) = Cardinality(right)
  BY DEF Correct
<1>5. request[r].isValid => Cardinality(Answered(seen)) = total
  BY InFlight DEF RequestOK
<1>6. request[r].isValid => CalculateScore(Correct(seen), total) \in 0 .. 100
  <2> HIDE DEF right, seen, total
  <2> QED BY <1>3, <1>4, <1>5, ScoreIsPercentage
<1>7. ScoreOf(r) \in 0 .. 100
  BY <1>6 DEF ScoreOf
<1>8. EarnedBy(r) \in Nat
  BY <1>3, <1>4, <1>7, XpIsNatural DEF EarnedBy
<1> QED BY <1>7, <1>8

(* The award fits in the day, because the sum covers all of it.            *)
LEMMA SumXpKeeps ==
  ASSUME PracticeInv, NEW r \in Requests, SumXp(r)
  PROVE  PracticeInv'
<1> DEFINE already == xpSince[request[r].now]
           award == ApplyDailyCap(EarnedBy(r), already)
           next == [request[r] EXCEPT !.pc = "complete", !.awarded = award]
<1>0. request[r].pc = "sum" /\ request[r] \in RequestStates
  BY DEF SumXp, PracticeInv, TypeOK
<1>1. already \in Nat
  BY <1>0, PracticeAssumption DEF PracticeInv, TypeOK, RequestStates, Days, Midnights
<1>2. award \in 0 .. DailyCap /\ (award = 0 \/ award + already =< DailyCap)
  BY <1>0, <1>1, ScoreTyped, AwardFits
<1>3. next \in RequestStates
  <2> HIDE DEF award
  <2> DEFINE n1 == [request[r] EXCEPT !.pc = "complete"]
             n2 == [n1 EXCEPT !.awarded = award]
  <2>1. next = n2
    OBVIOUS
  <2> HIDE DEF next
  <2>2. n1 \in RequestStates
    BY <1>0 DEF RequestStates, InTransaction
  <2> HIDE DEF n1
  <2> QED BY <1>2, <2>1, <2>2 DEF RequestStates
<1>4. /\ next.pc = "complete" /\ next.session = request[r].session
      /\ next.isValid = request[r].isValid /\ next.seen = request[r].seen
      /\ next.attempt = request[r].attempt /\ next.base = request[r].base
      /\ next.expected = request[r].expected /\ next.now = request[r].now
      /\ next.awarded = award
  <2> HIDE DEF award
  <2> QED BY <1>0 DEF RequestStates
<1>5. /\ request' = [request EXCEPT ![r] = next] /\ UNCHANGED <<day, tables>>
      /\ UNCHANGED studentLock
  BY DEF SumXp, PracticeInv, TypeOK
<1> HIDE DEF next, award
<1>6. request'[r] = next /\ \A p \in Requests \ {r} : request'[p] = request[p]
  BY <1>5 DEF PracticeInv, TypeOK
<1>7. LockFollowsTransaction'
  BY <1>0, <1>4, <1>5, <1>6 DEF PracticeInv, LockFollowsTransaction, InTransaction
<1>8. RequestOK(r)'
  <2>1. RequestOK(r)
    BY DEF PracticeInv
  <2> QED BY <1>0, <1>2, <1>4, <1>5, <1>6, <2>1
          DEF RequestOK, Submitting, InTransaction, tables
<1> QED BY <1>3, <1>5, <1>7, <1>8, QuietStep DEF PracticeInv, TypeOK

(* Whatever ends a request without touching the tables is harmless.        *)
LEMMA EndingKeeps ==
  ASSUME PracticeInv, NEW r \in Requests, Ended(r), ReleaseLock(r),
         UNCHANGED <<day, tables>>
  PROVE  PracticeInv'
<1>1. request' = [request EXCEPT ![r] = Idle]
  BY DEF Ended
<1> QED BY <1>1, EndsClean, QuietStep

(* A failure is an ending.                                                 *)
LEMMA FailKeeps ==
  ASSUME PracticeInv, NEW r \in Requests, Fail(r)
  PROVE  PracticeInv'
BY EndingKeeps DEF Fail

(* The winner keeps its lock, the loser ends.                              *)
LEMMA CompleteSessionKeeps ==
  ASSUME PracticeInv, NEW r \in Requests, CompleteSession(r)
  PROVE  PracticeInv'
<1> DEFINE next == [request[r] EXCEPT !.pc = "land"]
<1>0. /\ request[r].pc = "complete" /\ request[r] \in RequestStates
      /\ UNCHANGED <<day, tables>>
  BY DEF CompleteSession, PracticeInv, TypeOK
<1>1. CASE session[request[r].session].state # "open"
  BY <1>0, <1>1, EndingKeeps DEF CompleteSession
<1>2. CASE session[request[r].session].state = "open"
  <2>1. /\ request' = [request EXCEPT ![r] = next] /\ UNCHANGED studentLock
    BY <1>2 DEF CompleteSession, PracticeInv, TypeOK
  <2>2. /\ next \in RequestStates
        /\ next.pc = "land" /\ next.session = request[r].session
        /\ next.isValid = request[r].isValid /\ next.seen = request[r].seen
        /\ next.attempt = request[r].attempt /\ next.base = request[r].base
        /\ next.expected = request[r].expected /\ next.now = request[r].now
        /\ next.awarded = request[r].awarded
    BY <1>0 DEF RequestStates, InTransaction
  <2> HIDE DEF next
  <2>3. request'[r] = next /\ \A p \in Requests \ {r} : request'[p] = request[p]
    BY <2>1 DEF PracticeInv, TypeOK
  <2>4. LockFollowsTransaction'
    BY <1>0, <2>1, <2>2, <2>3 DEF PracticeInv, LockFollowsTransaction, InTransaction
  <2>5. RequestOK(r)'
    BY <1>0, <1>2, <2>2, <2>3
       DEF PracticeInv, RequestOK, Submitting, InTransaction, tables
  <2> QED BY <1>0, <2>1, <2>2, <2>4, <2>5, QuietStep DEF PracticeInv, TypeOK
<1> QED BY <1>1, <1>2

(* A stale attempt was overtaken, so the next one is accounted for.        *)
LEMMA StaleMasteryKeeps ==
  ASSUME PracticeInv, NEW r \in Requests, StaleMastery(r)
  PROVE  PracticeInv'
<1> DEFINE again == request[r].attempt + 1
           next == [request[r] EXCEPT !.pc = "mastery", !.attempt = again]
<1>0. /\ request[r].pc = "land" /\ request[r] \in RequestStates
      /\ UNCHANGED <<day, tables>> /\ ReleaseLock(r)
  BY DEF StaleMastery, PracticeInv, TypeOK
<1>1. CASE ~(request[r].attempt < MasteryAttempts)
  BY <1>0, <1>1, EndingKeeps DEF StaleMastery
<1>2. CASE request[r].attempt < MasteryAttempts
  <2>1. again \in 0 .. MasteryAttempts /\ request[r].attempt \in Nat
    BY <1>0, <1>2, PracticeAssumption DEF RequestStates
  <2>2. request' = [request EXCEPT ![r] = next]
    BY <1>2 DEF StaleMastery, PracticeInv, TypeOK
  <2>3. next \in RequestStates
    <3> HIDE DEF again
    <3> DEFINE n1 == [request[r] EXCEPT !.pc = "mastery"]
               n2 == [n1 EXCEPT !.attempt = again]
    <3>1. next = n2
      OBVIOUS
    <3> HIDE DEF next
    <3>2. n1 \in RequestStates
      BY <1>0 DEF RequestStates
    <3> HIDE DEF n1
    <3> QED BY <2>1, <3>1, <3>2 DEF RequestStates
  <2>4. /\ next.pc = "mastery" /\ next.session = request[r].session
        /\ next.isValid = request[r].isValid /\ next.seen = request[r].seen
        /\ next.base = request[r].base /\ next.attempt = again
    BY <1>0 DEF RequestStates
  <2> HIDE DEF next
  <2>5. request'[r] = next /\ \A p \in Requests \ {r} : request'[p] = request[p]
    BY <2>2 DEF PracticeInv, TypeOK
  <2>6. studentLock = r /\ studentLock' = None
    BY <1>0 DEF PracticeInv, LockFollowsTransaction, InTransaction, ReleaseLock
  <2>7. LockFollowsTransaction'
    BY <2>4, <2>5, <2>6, PracticeAssumption
       DEF PracticeInv, LockFollowsTransaction, InTransaction, None
  <2>8. RequestOK(r)'
    <3>1. again - 1 + request[r].base =< mastery[ChapterOf(r)].attempts
      <4>1. request[r].attempt + request[r].base =< mastery[ChapterOf(r)].attempts
        BY <1>0, InFlight
           DEF StaleMastery, MasteryUnmoved, RequestOK, Submitting, InTransaction, ChapterOf
      <4> QED BY <1>0, <2>1, <4>1 DEF RequestStates
    <3> QED BY <1>0, <2>4, <2>5, <3>1, InFlight
            DEF RequestOK, Submitting, InTransaction, tables, ChapterOf
  <2> QED BY <1>0, <2>2, <2>3, <2>6, <2>7, <2>8, QuietStep
<1> QED BY <1>1, <1>2

-----------------------------------------------------------------------------
(* The steps that write the tables.                                        *)

(* A new session has no history.                                           *)
LEMMA StartSessionKeeps ==
  ASSUME PracticeInv, NEW s \in Sessions, NEW c \in Chapters, StartSession(s, c)
  PROVE  PracticeInv'
<1> DEFINE row == [session[s] EXCEPT !.state = "open", !.chapter = c]
<1>0. /\ session[s] \in SessionRows /\ session[s].state = "absent"
      /\ UNCHANGED <<day, responses, ledger, xpSince, mastery, retention, studentLock,
                     request>>
  BY DEF StartSession, PracticeInv, TypeOK
<1>1. session' = [session EXCEPT ![s] = row]
  BY DEF StartSession, PracticeInv, TypeOK
<1>2. row \in SessionRows
  <2> DEFINE r1 == [session[s] EXCEPT !.state = "open"]
             r2 == [r1 EXCEPT !.chapter = c]
  <2>1. row = r2
    OBVIOUS
  <2> HIDE DEF row
  <2>2. r1 \in SessionRows
    BY <1>0 DEF SessionRows
  <2> HIDE DEF r1
  <2> QED BY <2>1, <2>2 DEF SessionRows
<1>3. row.state = "open" /\ row.chapter = c
  BY <1>0 DEF SessionRows
<1> HIDE DEF row
<1>4. session'[s] = row /\ \A q \in Sessions \ {s} : session'[q] = session[q]
  BY <1>1 DEF PracticeInv, TypeOK
<1>5. TypeOK'
  BY <1>0, <1>1, <1>2 DEF PracticeInv, TypeOK
<1>6. \A r \in Requests : RequestOK(r)'
  <2> SUFFICES ASSUME NEW r \in Requests PROVE RequestOK(r)'
    OBVIOUS
  <2>1. RequestOK(r)
    BY DEF PracticeInv
  <2>2. CASE request[r].pc = "idle"
    BY <1>0, <2>1, <2>2 DEF RequestOK, Submitting, InTransaction
  <2>3. CASE request[r].pc # "idle"
    <3>1. request[r].session \in Sessions \ {s}
      BY <1>0, <2>1, <2>3 DEF RequestOK
    <3> QED BY <1>0, <1>4, <2>1, <3>1 DEF RequestOK
  <2> QED BY <2>2, <2>3
<1>7. ChaptersChosen'
  BY <1>3, <1>4 DEF PracticeInv, ChaptersChosen
<1>8. HistoryAgrees'
  <2>1. \A q \in Sessions :
          session'[q].state = "submitted" =>
            q # s /\ session'[q] = session[q]
    BY <1>3, <1>4
  <2>2. \A q \in Sessions : session[q].state = "submitted" => q # s /\ session'[q] = session[q]
    BY <1>0, <1>4
  <2>3. \A d \in Chapters : SubmittedIn(d)' = SubmittedIn(d)
    BY <2>1, <2>2 DEF SubmittedIn
  <2> QED BY <1>0, <2>1, <2>2, <2>3 DEF PracticeInv, HistoryAgrees
<1>9. LockFollowsTransaction' /\ DailyCapHeld' /\ (xpSince[MaxDay + 1] = 0)'
  BY <1>0 DEF PracticeInv, LockFollowsTransaction, DailyCapHeld, XpOn
<1> QED BY <1>5, <1>6, <1>7, <1>8, <1>9 DEF PracticeInv

(* An answer touches an open session's answers and nothing else.           *)
LEMMA AnswerSaveKeeps ==
  ASSUME PracticeInv, NEW r \in Requests, AnswerSave(r)
  PROVE  PracticeInv'
<1> DEFINE s == request[r].session
           answers == [request[r].seen EXCEPT ![request[r].question] = request[r].answer]
<1>0. /\ request[r].pc = "save" /\ request[r] \in RequestStates /\ s \in Sessions
      /\ session[s] \in SessionRows
      /\ UNCHANGED <<day, responses, ledger, xpSince, mastery, retention, studentLock>>
      /\ Ended(r)
  BY InFlight DEF AnswerSave, PracticeInv, TypeOK
<1>1. studentLock # r
  BY <1>0 DEF PracticeInv, LockFollowsTransaction, InTransaction
<1>2. ReleaseLock(r)
  BY <1>0, <1>1 DEF ReleaseLock
<1>3. CASE ~Saveable(s)
  BY <1>0, <1>2, <1>3, EndingKeeps DEF AnswerSave, tables
<1>4. CASE Saveable(s)
  <2>1. session' = [session EXCEPT ![s].answers = answers] /\ session[s].state = "open"
    BY <1>4 DEF AnswerSave, Saveable
  <2>2. answers \in AnswerMaps
    BY <1>0, InFlight DEF RequestOK, RequestStates, AnswerMaps
  <2> HIDE DEF answers
  <2> DEFINE row == [session[s] EXCEPT !.answers = answers]
  <2>3. session' = [session EXCEPT ![s] = row]
    BY <2>1 DEF PracticeInv, TypeOK
  <2>4. row \in SessionRows /\ row.state = "open" /\ row.chapter = session[s].chapter
    BY <1>0, <2>1, <2>2 DEF SessionRows
  <2> HIDE DEF row
  <2>5. \A q \in Sessions : /\ session'[q].state = session[q].state
                            /\ session'[q].chapter = session[q].chapter
                            /\ session[q].state = "submitted" => session'[q] = session[q]
    BY <1>0, <2>1, <2>3, <2>4 DEF PracticeInv, TypeOK
  <2>6. request' = [request EXCEPT ![r] = Idle]
    BY <1>0 DEF Ended
  <2>7. TypeOK'
    BY <1>0, <2>3, <2>4, <2>6, IdleIsState DEF PracticeInv, TypeOK
  <2>8. \A q \in Requests : RequestOK(q)'
    <3> SUFFICES ASSUME NEW q \in Requests PROVE RequestOK(q)'
      OBVIOUS
    <3>1. CASE q = r
      BY <1>0, <1>2, <3>1, EndsClean
    <3>2. CASE q # r
      <4>1. request'[q] = request[q] /\ RequestOK(q) /\ request[q] \in RequestStates
        BY <2>6, <3>2 DEF PracticeInv, TypeOK
      <4>2. CASE request[q].pc = "idle"
        BY <4>1, <4>2 DEF RequestOK, Submitting, InTransaction
      <4>3. CASE request[q].pc # "idle"
        BY <1>0, <2>5, <4>1, <4>3 DEF RequestOK
      <4> QED BY <4>2, <4>3
    <3> QED BY <3>1, <3>2
  <2>9. LockFollowsTransaction'
    BY <1>0, <1>2, EndsClean
  <2>10. ChaptersChosen'
    BY <2>5 DEF PracticeInv, ChaptersChosen
  <2>11. HistoryAgrees'
    <3>1. \A d \in Chapters : SubmittedIn(d)' = SubmittedIn(d)
      BY <2>5 DEF SubmittedIn
    <3> QED BY <1>0, <2>5, <3>1 DEF PracticeInv, HistoryAgrees
  <2>12. DailyCapHeld' /\ (xpSince[MaxDay + 1] = 0)'
    BY <1>0 DEF PracticeInv, DailyCapHeld, XpOn
  <2> QED BY <2>7, <2>8, <2>9, <2>10, <2>11, <2>12 DEF PracticeInv
<1> QED BY <1>3, <1>4

(* No sum depends on the clock.                                            *)
LEMMA MidnightKeeps ==
  ASSUME PracticeInv, Midnight
  PROVE  PracticeInv'
<1>1. TypeOK'
  BY PracticeAssumption DEF PracticeInv, TypeOK, Midnight, tables, Days
<1>2. \A r \in Requests : RequestOK(r)'
  BY DEF PracticeInv, Midnight, tables, RequestOK
<1>3. /\ LockFollowsTransaction' /\ ChaptersChosen' /\ DailyCapHeld' /\ HistoryAgrees'
      /\ (xpSince[MaxDay + 1] = 0)'
  BY DEF PracticeInv, Midnight, tables, LockFollowsTransaction, ChaptersChosen, DailyCapHeld,
         XpOn, HistoryAgrees, SubmittedIn
<1> QED BY <1>1, <1>2, <1>3 DEF PracticeInv

(* What a submission's commit writes.                                      *)
LEMMA LandEffect ==
  ASSUME PracticeInv, NEW r \in Requests, LandSubmission(r)
  PROVE  LET s == request[r].session
             c == ChapterOf(r)
             award == request[r].awarded
         IN  /\ s \in Sessions /\ c \in Chapters /\ award \in 0 .. DailyCap
             /\ request[r].now \in Days
             /\ session[s].state = "open" /\ session[s].chapter = c
             /\ session'[s] \in SessionRows
             /\ session'[s].state = "submitted" /\ session'[s].chapter = c
             /\ session'[s].score = ScoreOf(r) /\ session'[s].xp = award
             /\ \A q \in Sessions \ {s} : session'[q] = session[q]
             /\ session' \in [Sessions -> SessionRows]
             /\ mastery' = [mastery EXCEPT ![c] =
                  [score |-> NextMastery(mastery[c].score, ScoreOf(r)),
                   attempts |-> mastery[c].attempts + 1]]
             /\ retention' = [retention EXCEPT ![c] =
                  ScheduleNextReview(retention[c], ScoreOf(r))]
             /\ award = 0 \/ award + xpSince[request[r].now] =< DailyCap
             /\ studentLock = r
<1> DEFINE s == request[r].session
           c == ChapterOf(r)
           award == request[r].awarded
           score == ScoreOf(r)
<1>0. request[r].pc = "land"
  BY DEF LandSubmission
<1>1. /\ request[r] \in RequestStates /\ s \in Sessions /\ c \in Chapters
      /\ session[s] \in SessionRows /\ RequestOK(r) /\ score \in 0 .. 100
  BY <1>0, InFlight, ScoreTyped
<1>2. /\ award \in 0 .. DailyCap /\ request[r].now \in Days
      /\ session[s].state = "open" /\ session[s].chapter = c
      /\ award = 0 \/ award + xpSince[request[r].now] =< DailyCap
  BY <1>0, <1>1 DEF RequestStates, RequestOK, ChapterOf
<1>3. studentLock = r
  BY <1>0 DEF PracticeInv, LockFollowsTransaction, InTransaction
<1> HIDE DEF score
<1> DEFINE r1 == [session[s] EXCEPT !.state = "submitted"]
           r2 == [r1 EXCEPT !.score = score]
           row == [r2 EXCEPT !.xp = award]
<1>4. session' = [session EXCEPT ![s] = row]
  BY <1>1 DEF LandSubmission, CommitHistory, PracticeInv, TypeOK, score
<1>5. /\ row \in SessionRows /\ row.state = "submitted" /\ row.chapter = c
      /\ row.score = score /\ row.xp = award
  <2>1. r1 \in SessionRows /\ r1.state = "submitted" /\ r1.chapter = session[s].chapter
    BY <1>1 DEF SessionRows
  <2> HIDE DEF r1
  <2>2. /\ r2 \in SessionRows /\ r2.state = "submitted" /\ r2.score = score
        /\ r2.chapter = session[s].chapter
    BY <1>1, <2>1 DEF SessionRows
  <2> HIDE DEF r2
  <2> QED BY <1>2, <2>2 DEF SessionRows
<1> HIDE DEF row
<1>6. session'[s] = row /\ \A q \in Sessions \ {s} : session'[q] = session[q]
  BY <1>1, <1>4 DEF PracticeInv, TypeOK
<1>7. session' \in [Sessions -> SessionRows]
  BY <1>1, <1>4, <1>5 DEF PracticeInv, TypeOK
<1>8. request[r].expected = mastery[c].score
  BY DEF LandSubmission, MasteryUnmoved
<1>9. mastery' = [mastery EXCEPT ![c] =
        [score |-> NextMastery(mastery[c].score, score),
         attempts |-> mastery[c].attempts + 1]]
  BY <1>1, <1>8 DEF LandSubmission, score
<1>10. retention' = [retention EXCEPT ![c] = ScheduleNextReview(retention[c], score)]
  BY DEF LandSubmission, CurrentRetention, score
<1> QED BY <1>1, <1>2, <1>3, <1>5, <1>6, <1>7, <1>9, <1>10 DEF score

(* The commit adds its award to the day under the lock it holds.           *)
LEMMA LandSubmissionKeeps ==
  ASSUME PracticeInv, NEW r \in Requests, LandSubmission(r)
  PROVE  PracticeInv'
<1> DEFINE s == request[r].session
           c == ChapterOf(r)
           award == request[r].awarded
           now == request[r].now
           blended == NextMastery(mastery[c].score, ScoreOf(r))
<1> USE PracticeAssumption, DailyCapAssumption
<1>1. /\ s \in Sessions /\ c \in Chapters /\ award \in 0 .. DailyCap /\ now \in Days
      /\ session[s].state = "open" /\ session[s].chapter = c
      /\ session'[s].state = "submitted" /\ session'[s].chapter = c
      /\ session'[s].xp = award
      /\ \A q \in Sessions \ {s} : session'[q] = session[q]
      /\ session' \in [Sessions -> SessionRows]
  BY LandEffect
<1>2. /\ mastery' = [mastery EXCEPT ![c] =
           [score |-> blended, attempts |-> mastery[c].attempts + 1]]
      /\ retention' = [retention EXCEPT ![c] = ScheduleNextReview(retention[c], ScoreOf(r))]
      /\ award = 0 \/ award + xpSince[now] =< DailyCap
      /\ studentLock = r
  BY LandEffect
<1>3. /\ responses' = [responses EXCEPT ![s] = request[r].seen]
      /\ ledger' = [ledger EXCEPT ![s] = award]
      /\ xpSince' = [d \in Midnights |-> xpSince[d] + IF d =< now THEN award ELSE 0]
      /\ request' = [request EXCEPT ![r] = Idle]
      /\ UNCHANGED day /\ Ended(r) /\ ReleaseLock(r) /\ request[r].pc = "land"
  BY DEF LandSubmission, CommitHistory, Ended
<1>4. /\ request[r] \in RequestStates /\ mastery[c] \in MasteryRows
      /\ ScoreOf(r) \in 0 .. 100
  BY <1>3, InFlight, ScoreTyped
<1>5. blended \in 0 .. 1000
  <2> DEFINE old == mastery[c].score
             new == ScoreOf(r)
  <2>1. old \in NoScore .. 1000
    BY <1>4 DEF MasteryRows
  <2>2. new \in 0 .. 100
    BY <1>4
  <2>3. blended = NextMastery(old, new)
    OBVIOUS
  <2> HIDE DEF old, new, blended
  <2>4. NextMastery(old, new) \in 0 .. 1000
    BY ONLY <2>1, <2>2, MasteryIsLevel, ZenonT(30)
  <2> QED BY <2>3, <2>4
<1>6. ScheduleNextReview(retention[c], ScoreOf(r)) \in RetentionRows
  BY <1>1, <1>4, ScheduleIsState DEF PracticeInv, TypeOK
<1> HIDE DEF s, c, award, now, blended
<1>7. \A d \in Chapters : mastery'[d] \in MasteryRows /\ mastery'[d].attempts >= mastery[d].attempts
  <2> SUFFICES ASSUME NEW d \in Chapters
               PROVE  mastery'[d] \in MasteryRows /\ mastery'[d].attempts >= mastery[d].attempts
    OBVIOUS
  <2>1. CASE d = c
    BY <1>1, <1>2, <1>4, <1>5, <2>1 DEF PracticeInv, TypeOK, MasteryRows, NoScore
  <2>2. CASE d # c
    <3>1. mastery'[d] = mastery[d] /\ mastery[d] \in MasteryRows
      BY <1>2, <2>2 DEF PracticeInv, TypeOK
    <3> QED BY <3>1 DEF MasteryRows
  <2> QED BY <2>1, <2>2
<1>8. TypeOK'
  <2>1. day' \in Days /\ session' \in [Sessions -> SessionRows]
    BY <1>1, <1>3 DEF PracticeInv, TypeOK
  <2>2. responses' \in [Sessions -> AnswerMaps]
    BY <1>3, <1>4 DEF PracticeInv, TypeOK, RequestStates
  <2>3. ledger' \in [Sessions -> NoRow .. DailyCap]
    BY <1>1, <1>3 DEF PracticeInv, TypeOK, NoRow
  <2>4. xpSince' \in [Midnights -> Nat]
    <3>1. \A d \in Midnights : xpSince[d] \in Nat
      BY DEF PracticeInv, TypeOK
    <3> QED BY <1>1, <1>3, <3>1
  <2>5. mastery' \in [Chapters -> MasteryRows]
    BY <1>2, <1>7 DEF PracticeInv, TypeOK
  <2>6. retention' \in [Chapters -> RetentionRows]
    BY <1>2, <1>6 DEF PracticeInv, TypeOK
  <2>7. studentLock' \in Requests \cup {None}
    BY <1>3, EndsClean
  <2>8. request' \in [Requests -> RequestStates]
    BY <1>3, IdleIsState DEF PracticeInv, TypeOK
  <2> QED BY <2>1, <2>2, <2>3, <2>4, <2>5, <2>6, <2>7, <2>8 DEF TypeOK
<1>9. LockFollowsTransaction' /\ RequestOK(r)'
  BY <1>3, EndsClean
<1>10. ASSUME NEW q \in Requests \ {r} PROVE RequestOK(q)'
  <2> DEFINE me == request[q]
             d == session[me.session].chapter
  <2>1. request'[q] = me /\ me \in RequestStates /\ RequestOK(q)
    BY <1>3 DEF PracticeInv, TypeOK
  <2>2. me.pc \notin InTransaction
    BY <1>2 DEF PracticeInv, LockFollowsTransaction
  <2>3. CASE me.pc = "idle"
    BY <2>1, <2>3 DEF RequestOK, Submitting, InTransaction
  <2>4. CASE me.pc # "idle"
    <3>1. me.session \in Sessions /\ session[me.session].state # "absent"
      BY <2>1, <2>4 DEF RequestOK
    <3>2. session'[me.session].chapter = d /\ session'[me.session].state # "absent"
      BY <1>1, <3>1
    <3>3. d \in Chapters
      BY <3>1 DEF PracticeInv, ChaptersChosen
    <3>4. /\ mastery[d] \in MasteryRows /\ mastery'[d] \in MasteryRows
          /\ mastery'[d].attempts >= mastery[d].attempts
      BY <1>7, <3>3 DEF PracticeInv, TypeOK
    <3>5. /\ me.attempt \in Nat /\ me.base \in Nat
          /\ mastery[d].attempts \in Nat /\ mastery'[d].attempts \in Nat
      BY <2>1, <3>4 DEF RequestStates, MasteryRows
    <3>6. me.pc \in Submitting => me.attempt - 1 + me.base =< mastery'[d].attempts
      <4>1. me.pc \in Submitting => me.attempt - 1 + me.base =< mastery[d].attempts
        BY <2>1 DEF RequestOK
      <4> QED BY <3>4, <3>5, <4>1
    <3>7. me.pc \in Submitting \ {"mastery"} =>
            \/ mastery'[d].score = me.expected
            \/ me.attempt + me.base =< mastery'[d].attempts
      <4>1. CASE d = c
        <5>1. mastery'[d].attempts = mastery[d].attempts + 1
          BY <1>1, <1>2, <4>1 DEF PracticeInv, TypeOK
        <5>2. me.pc \in Submitting => me.attempt - 1 + me.base =< mastery[d].attempts
          BY <2>1 DEF RequestOK
        <5> QED BY <3>5, <5>1, <5>2
      <4>2. CASE d # c
        <5>1. mastery'[d] = mastery[d]
          BY <1>2, <3>3, <4>2 DEF PracticeInv, TypeOK
        <5> QED BY <2>1, <5>1 DEF RequestOK
      <4> QED BY <4>1, <4>2
    <3>8. me.pc \notin {"complete", "land"}
      BY <2>2 DEF InTransaction
    <3> HIDE DEF me
    <3>9. request'[q] = me /\ request[q] = me
      BY <2>1 DEF me
    <3> HIDE DEF d
    <3>10. session'[me.session].chapter = d
      BY <3>2
    <3>11. /\ me.pc = "save" => me.question \in Questions /\ me.answer \in Answers
           /\ me.isValid => /\ me.pc # "idle"
                            /\ Cardinality(Answered(me.seen)) =
                                 Cardinality(QuestionsOf[me.session])
      BY <2>1, <3>9 DEF RequestOK
    <3> QED BY <3>1, <3>2, <3>6, <3>7, <3>8, <3>9, <3>10, <3>11 DEF RequestOK
  <2> QED BY <2>3, <2>4
<1>11. ChaptersChosen'
  BY <1>1 DEF PracticeInv, ChaptersChosen
<1>12. DailyCapHeld' /\ (xpSince[MaxDay + 1] = 0)'
  <2>1. MaxDay + 1 \in Midnights /\ ~(MaxDay + 1 =< now)
    BY <1>1 DEF Midnights, Days
  <2>2. xpSince'[MaxDay + 1] = 0
    BY <1>3, <2>1 DEF PracticeInv
  <2>3. ASSUME NEW d \in Days PROVE xpSince'[d] - xpSince'[d + 1] =< DailyCap
    <3>1. d \in Midnights /\ d + 1 \in Midnights /\ d \in Int /\ now \in Int
      BY <1>1 DEF Midnights, Days
    <3>2. xpSince[d] \in Nat /\ xpSince[d + 1] \in Nat
      BY <3>1 DEF PracticeInv, TypeOK
    <3>3. xpSince[d] - xpSince[d + 1] =< DailyCap
      BY DEF PracticeInv, DailyCapHeld, XpOn
    <3>4. /\ xpSince'[d] = xpSince[d] + IF d =< now THEN award ELSE 0
          /\ xpSince'[d + 1] = xpSince[d + 1] + IF d + 1 =< now THEN award ELSE 0
      BY <1>3, <3>1
    <3>5. CASE d = now
      BY <1>1, <1>2, <3>1, <3>2, <3>3, <3>4, <3>5
    <3>6. CASE d # now
      BY <1>1, <3>1, <3>2, <3>3, <3>4, <3>6
    <3> QED BY <3>5, <3>6
  <2> QED BY <2>2, <2>3 DEF DailyCapHeld, XpOn
<1>13. HistoryAgrees'
  <2>1. ASSUME NEW q \in Sessions
        PROVE  IF session'[q].state = "submitted"
               THEN ledger'[q] = session'[q].xp
               ELSE ledger'[q] = NoRow /\ responses'[q] = Unanswered
    <3>1. CASE q = s
      BY <1>1, <1>3, <3>1 DEF PracticeInv, TypeOK
    <3>2. CASE q # s
      <4>1. session'[q] = session[q] /\ ledger'[q] = ledger[q] /\ responses'[q] = responses[q]
        BY <1>1, <1>3, <3>2 DEF PracticeInv, TypeOK
      <4> QED BY <4>1 DEF PracticeInv, HistoryAgrees
    <3> QED BY <3>1, <3>2
  <2>2. ASSUME NEW d \in Chapters
        PROVE  mastery'[d].attempts = Cardinality(SubmittedIn(d)')
    <3>1. mastery[d].attempts = Cardinality(SubmittedIn(d))
      BY DEF PracticeInv, HistoryAgrees
    <3>2. CASE d = c
      <4>1. SubmittedIn(d)' = SubmittedIn(d) \cup {s} /\ s \notin SubmittedIn(d)
        BY <1>1, <3>2 DEF SubmittedIn
      <4>2. IsFiniteSet(SubmittedIn(d))
        BY FS_Subset DEF SubmittedIn
      <4>3. Cardinality(SubmittedIn(d)') = Cardinality(SubmittedIn(d)) + 1
        BY <4>1, <4>2, FS_AddElement
      <4>4. mastery'[d].attempts = mastery[d].attempts + 1
        BY <1>1, <1>2, <3>2 DEF PracticeInv, TypeOK
      <4> QED BY <3>1, <4>3, <4>4
    <3>3. CASE d # c
      <4>1. SubmittedIn(d)' = SubmittedIn(d)
        BY <1>1, <3>3 DEF SubmittedIn
      <4>2. mastery'[d] = mastery[d]
        BY <1>2, <3>3 DEF PracticeInv, TypeOK
      <4> QED BY <3>1, <4>1, <4>2
    <3> QED BY <3>2, <3>3
  <2> QED BY <2>1, <2>2 DEF HistoryAgrees
<1> QED BY <1>8, <1>9, <1>10, <1>11, <1>12, <1>13 DEF PracticeInv

-----------------------------------------------------------------------------
(* Every step keeps the invariant.                                         *)
LEMMA NextKeepsPracticeInv == PracticeInv /\ [Next]_vars => PracticeInv'
<1> SUFFICES ASSUME PracticeInv, [Next]_vars PROVE PracticeInv'
  OBVIOUS
<1>1. ASSUME NEW s \in Sessions, NEW c \in Chapters, StartSession(s, c)
      PROVE  PracticeInv'
  BY <1>1, StartSessionKeeps
<1>2. ASSUME NEW r \in Requests, NEW s \in Sessions, NEW q \in Questions, NEW a \in Answers,
             AnswerRead(r, s, q, a)
      PROVE  PracticeInv'
  BY <1>2, AnswerReadKeeps
<1>3. ASSUME NEW r \in Requests, NEW s \in Sessions, NEW plausible \in BOOLEAN,
             SubmitRead(r, s, plausible)
      PROVE  PracticeInv'
  BY <1>3, SubmitReadKeeps
<1>4. ASSUME NEW r \in Requests, Proceed(r) PROVE PracticeInv'
  BY <1>4, AnswerSaveKeeps, ReadMasteryKeeps, LockStudentKeeps, SumXpKeeps,
     CompleteSessionKeeps, LandSubmissionKeeps, StaleMasteryKeeps DEF Proceed
<1>5. ASSUME NEW r \in Requests, Fail(r) PROVE PracticeInv'
  BY <1>5, FailKeeps
<1>6. CASE Midnight
  BY <1>6, MidnightKeeps
<1>7. CASE UNCHANGED vars
  <2>1. UNCHANGED <<day, tables, studentLock, request>>
    BY <1>7 DEF vars
  <2> QED BY <2>1 DEF PracticeInv, TypeOK, LockFollowsTransaction, RequestOK, ChaptersChosen,
                      DailyCapHeld, XpOn, HistoryAgrees, SubmittedIn, tables
<1> QED BY <1>1, <1>2, <1>3, <1>4, <1>5, <1>6, <1>7 DEF Next

(* The invariant holds of every reachable state.                           *)
LEMMA PracticeInvariant == Spec => []PracticeInv
BY InitPracticeInv, NextKeepsPracticeInv, PTL DEF Spec

(* Sessions, responses, ledger and attempt counts never disagree, every    *)
(* row holds what its column can (percentages, awards within the cap,      *)
(* mastery between 0 and 1), and the advisory lock is held by exactly the  *)
(* transaction in progress.                                                *)
THEOREM RecordsAlwaysAgree == Spec => []RecordsAgree
<1>1. PracticeInv => RecordsAgree
  BY DEF PracticeInv, RecordsAgree
<1> QED BY <1>1, PracticeInvariant, PTL

(* No day's XP exceeds the cap, for any cap, any number of submissions in  *)
(* flight and any number of midnights between their start and their        *)
(* commit.                                                                 *)
THEOREM CapIsHeld == Spec => []DailyCapHeld
<1>1. PracticeInv => DailyCapHeld
  BY DEF PracticeInv
<1> QED BY <1>1, PracticeInvariant, PTL

(* A retried submission has always been overtaken by another one.          *)
THEOREM RetriesAreEarned == Spec => []RetryNeedsACommit
<1>1. PracticeInv => RetryNeedsACommit
  <2> SUFFICES ASSUME PracticeInv, NEW r \in Requests, request[r].pc \in Submitting
               PROVE  request[r].attempt - 1 + request[r].base
                        =< mastery[ChapterOf(r)].attempts
    BY DEF RetryNeedsACommit, Submitting
  <2>1. RequestOK(r)
    BY DEF PracticeInv
  <2> QED BY <2>1 DEF RequestOK, ChapterOf
<1> QED BY <1>1, PracticeInvariant, PTL

-----------------------------------------------------------------------------
(* Only a landing submission closes a session, writes a response or the    *)
(* ledger, or moves mastery and retention.                                 *)
LEMMA OnlyLandingSubmits ==
  ASSUME PracticeInv, [Next]_vars, ~ \E r \in Requests : LandSubmission(r)
  PROVE  /\ UNCHANGED <<responses, ledger, mastery, retention>>
         /\ \A s \in Sessions : ~Submits(s)
         /\ \A s \in Sessions : session[s].state = "submitted" => session'[s] = session[s]
<1>1. ASSUME UNCHANGED tables
      PROVE  /\ UNCHANGED <<responses, ledger, mastery, retention>>
             /\ \A s \in Sessions : ~Submits(s) /\ session'[s] = session[s]
  BY <1>1 DEF tables, Submits
<1>2. ASSUME NEW s \in Sessions, NEW c \in Chapters, StartSession(s, c)
      PROVE  /\ UNCHANGED <<responses, ledger, mastery, retention>>
             /\ \A q \in Sessions : /\ ~Submits(q)
                                    /\ session[q].state = "submitted" =>
                                         session'[q] = session[q]
  <2> DEFINE row == [session[s] EXCEPT !.state = "open", !.chapter = c]
  <2>1. /\ session[s] \in SessionRows /\ session[s].state = "absent"
        /\ session' = [session EXCEPT ![s] = row]
        /\ UNCHANGED <<responses, ledger, mastery, retention>>
    BY <1>2 DEF StartSession, PracticeInv, TypeOK
  <2>2. session'[s] = row /\ \A q \in Sessions \ {s} : session'[q] = session[q]
    BY <2>1 DEF PracticeInv, TypeOK
  <2> QED BY <2>1, <2>2 DEF Submits
<1>3. ASSUME NEW r \in Requests, AnswerSave(r)
      PROVE  /\ UNCHANGED <<responses, ledger, mastery, retention>>
             /\ \A q \in Sessions : /\ ~Submits(q)
                                    /\ session[q].state = "submitted" =>
                                         session'[q] = session[q]
  <2> DEFINE s == request[r].session
             answers == [request[r].seen EXCEPT ![request[r].question] = request[r].answer]
             row == [session[s] EXCEPT !.answers = answers]
  <2>1. UNCHANGED <<responses, ledger, mastery, retention>>
    BY <1>3 DEF AnswerSave
  <2>2. CASE ~Saveable(s)
    BY <1>3, <2>1, <2>2 DEF AnswerSave, Submits
  <2>3. CASE Saveable(s)
    <3>1. s \in Sessions /\ session[s] \in SessionRows /\ session[s].state = "open"
      BY <1>3, <2>3, InFlight DEF AnswerSave, Saveable
    <3>2. session' = [session EXCEPT ![s].answers = answers]
      BY <1>3, <2>3 DEF AnswerSave
    <3> HIDE DEF answers
    <3>3. session'[s] = row /\ \A q \in Sessions \ {s} : session'[q] = session[q]
      BY <3>1, <3>2 DEF PracticeInv, TypeOK
    <3>4. row.state = "open"
      BY <3>1 DEF SessionRows
    <3> HIDE DEF row, s
    <3> QED BY <2>1, <3>1, <3>3, <3>4 DEF Submits
  <2> QED BY <2>2, <2>3
<1>4. ASSUME NEW r \in Requests,
             \/ ReadMastery(r) \/ LockStudent(r) \/ SumXp(r) \/ CompleteSession(r)
             \/ StaleMastery(r) \/ Fail(r)
      PROVE  UNCHANGED tables
  BY <1>4 DEF ReadMastery, LockStudent, SumXp, CompleteSession, StaleMastery, Fail
<1>5. CASE \/ Midnight \/ UNCHANGED vars
           \/ \E r \in Requests, s \in Sessions, q \in Questions, a \in Answers :
                AnswerRead(r, s, q, a)
           \/ \E r \in Requests, s \in Sessions, plausible \in BOOLEAN :
                SubmitRead(r, s, plausible)
  <2>1. UNCHANGED tables
    BY <1>5 DEF Midnight, vars, AnswerRead, SubmitRead
  <2> QED BY <1>1, <2>1
<1> QED BY <1>1, <1>2, <1>3, <1>4, <1>5 DEF Next, Proceed

(* A submitted session is final: nothing of it is written again.           *)
THEOREM SubmissionIsFinal == Spec => SubmittedIsFinal
<1>1. ASSUME PracticeInv, [Next]_vars, NEW s \in Sessions, session[s].state = "submitted"
      PROVE  session'[s] = session[s] /\ responses'[s] = responses[s] /\ ledger'[s] = ledger[s]
  <2>1. CASE ~ \E r \in Requests : LandSubmission(r)
    BY <1>1, <2>1, OnlyLandingSubmits
  <2>2. ASSUME NEW r \in Requests, LandSubmission(r)
        PROVE  /\ session'[s] = session[s] /\ responses'[s] = responses[s]
               /\ ledger'[s] = ledger[s]
    <3>1. s # request[r].session /\ session'[s] = session[s]
      BY <1>1, <2>2, LandEffect
    <3>2. /\ responses' = [responses EXCEPT ![request[r].session] = request[r].seen]
          /\ ledger' = [ledger EXCEPT ![request[r].session] = request[r].awarded]
      BY <2>2 DEF LandSubmission, CommitHistory
    <3> QED BY <1>1, <3>1, <3>2 DEF PracticeInv, TypeOK
  <2> QED BY <2>1, <2>2
<1>2. PracticeInv /\ [Next]_vars =>
        [\A s \in Sessions : session[s].state = "submitted" =>
           /\ session'[s] = session[s]
           /\ responses'[s] = responses[s]
           /\ ledger'[s] = ledger[s]]_vars
  BY <1>1
<1> QED BY <1>2, PracticeInvariant, PTL DEF Spec, SubmittedIsFinal

(* Each submission moves its chapter's mastery and its review schedule by  *)
(* exactly one step, from the values in force at its commit.               *)
THEOREM OneStepPerSubmission == Spec => SubmissionLandsOnce
<1> DEFINE Landed(c) == {s \in Sessions : session[s].chapter = c /\ Submits(s)}
           Once(c) == IF Landed(c) = {}
                      THEN mastery'[c] = mastery[c] /\ retention'[c] = retention[c]
                      ELSE \E s \in Landed(c) :
                             /\ Landed(c) = {s}
                             /\ mastery'[c].score =
                                  NextMastery(mastery[c].score, session'[s].score)
                             /\ retention'[c] =
                                  ScheduleNextReview(retention[c], session'[s].score)
<1>1. ASSUME PracticeInv, [Next]_vars, NEW c \in Chapters PROVE Once(c)
  <2>1. CASE ~ \E r \in Requests : LandSubmission(r)
    BY <1>1, <2>1, OnlyLandingSubmits
  <2>2. ASSUME NEW r \in Requests, LandSubmission(r) PROVE Once(c)
    <3> DEFINE s == request[r].session
               blended == NextMastery(mastery[ChapterOf(r)].score, ScoreOf(r))
               review == ScheduleNextReview(retention[ChapterOf(r)], ScoreOf(r))
    <3>1. /\ s \in Sessions /\ session[s].chapter = ChapterOf(r)
          /\ Submits(s) /\ session'[s].score = ScoreOf(r)
          /\ \A q \in Sessions \ {s} : session'[q] = session[q]
          /\ ChapterOf(r) \in Chapters
      BY <1>1, <2>2, LandEffect DEF Submits
    <3>2. /\ mastery' = [mastery EXCEPT ![ChapterOf(r)] =
               [score |-> blended, attempts |-> mastery[ChapterOf(r)].attempts + 1]]
          /\ retention' = [retention EXCEPT ![ChapterOf(r)] = review]
      BY <1>1, <2>2, LandEffect
    <3>3. \A q \in Sessions : Submits(q) => q = s
      BY <3>1 DEF Submits
    <3> HIDE DEF s, blended, review
    <3>4. CASE c = ChapterOf(r)
      <4>1. Landed(c) = {s}
        BY <3>1, <3>3, <3>4
      <4>2. mastery'[c].score = blended /\ retention'[c] = review
        BY <1>1, <3>1, <3>2, <3>4 DEF PracticeInv, TypeOK
      <4> QED BY <3>1, <3>4, <4>1, <4>2 DEF blended, review
    <3>5. CASE c # ChapterOf(r)
      <4>1. Landed(c) = {}
        BY <3>1, <3>3, <3>5
      <4>2. mastery'[c] = mastery[c] /\ retention'[c] = retention[c]
        BY <1>1, <3>2, <3>5 DEF PracticeInv, TypeOK
      <4> QED BY <4>1, <4>2
    <3> QED BY <3>4, <3>5
  <2> QED BY <2>1, <2>2
<1>2. PracticeInv /\ [Next]_vars => [\A c \in Chapters : Once(c)]_vars
  BY <1>1
<1> QED BY <1>2, PracticeInvariant, PTL DEF Spec, SubmissionLandsOnce

(* A submission lands once, and is the end of its session.                 *)
THEOREM SubmissionsCloseSessions == Spec => SubmissionsClose
<1> QED BY OneStepPerSubmission, SubmissionIsFinal DEF SubmissionsClose
=============================================================================

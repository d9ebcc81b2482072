------------------------------ MODULE Practice ------------------------------
(***************************************************************************)
(* One student's practice sessions (modules/practice with the mastery      *)
(* write of modules/learner): sessions are started, answered one question  *)
(* at a time and submitted.  Requests run concurrently (two tabs, a retry  *)
(* on a flaky connection, several API instances); a step of a request is   *)
(* one statement it sends to Postgres with the code up to the next one.    *)
(* The statements of a submission's transaction become visible at its      *)
(* commit; before it they show only as the locks they hold.                *)
(***************************************************************************)
EXTENDS PracticeRules, FiniteSets

CONSTANTS
  Requests,         \* request slots: how many requests run at a time
  Sessions, Chapters, Questions,
  QuestionsOf,      \* the questions frozen into it at its start
  MasteryAttempts,  \* tries of a submission (3 in the code)
  MaxDay            \* bound: the last day the clock reaches

ASSUME PracticeAssumption ==
  /\ QuestionsOf \in [Sessions -> (SUBSET Questions) \ {{}}]
  /\ MasteryAttempts \in Nat \ {0}
  /\ MaxDay \in Nat
  /\ IsFiniteSet(Questions) /\ IsFiniteSet(Sessions)
  /\ "none" \notin Requests \cup Sessions \cup Chapters \cup Questions

VARIABLES
  day,          \* the clock's UTC day
  session,      \* practice_sessions, by id
  responses,    \* practice_responses: the answers a session was scored on
  ledger,       \* xp_ledger: the amount of each session's row (at most one:
                \* source and source_id are unique)
  xpSince,      \* the SUM over its rows dated on or after each midnight
  mastery,      \* chapter_mastery, by chapter
  retention,    \* practice_retention, by chapter
  studentLock,  \* the request whose transaction holds the advisory lock
  request       \* the requests in flight

tables == <<session, responses, ledger, xpSince, mastery, retention>>
vars == <<day, tables, studentLock, request>>

None == "none"
NoRow == -1
Days == 0 .. MaxDay
Midnights == 0 .. MaxDay + 1
Answers == {"right", "wrong"}
AnswerMaps == [Questions -> Answers \cup {None}]
Unanswered == [q \in Questions |-> None]

NoSession == [state |-> "absent", chapter |-> None, answers |-> Unanswered,
              score |-> 0, xp |-> 0]
NoMastery == [score |-> NoScore, attempts |-> 0]
Idle == [pc |-> "idle", session |-> None, question |-> None, answer |-> None,
         seen |-> Unanswered, isValid |-> FALSE, now |-> 0, attempt |-> 0,
         expected |-> NoScore, base |-> 0, awarded |-> 0]

InTransaction == {"sum", "complete", "land"}

SessionRows ==
  [state : {"absent", "open", "submitted"}, chapter : Chapters \cup {None},
   answers : AnswerMaps, score : 0 .. 100, xp : 0 .. DailyCap]

MasteryRows == [score : NoScore .. 1000, attempts : Nat]

RetentionRows == [intervalDays : Nat, easeFactor : Nat, repetitions : Nat]

RequestStates ==
  [pc : {"idle", "save", "mastery", "lock"} \cup InTransaction,
   session : Sessions \cup {None}, question : Questions \cup {None},
   answer : Answers \cup {None}, seen : AnswerMaps, isValid : BOOLEAN,
   now : Days, attempt : 0 .. MasteryAttempts, expected : NoScore .. 1000,
   base : Nat, awarded : 0 .. DailyCap]

TypeOK ==
  /\ day \in Days
  /\ session \in [Sessions -> SessionRows]
  /\ responses \in [Sessions -> AnswerMaps]
  /\ ledger \in [Sessions -> NoRow .. DailyCap]
  /\ xpSince \in [Midnights -> Nat]
  /\ mastery \in [Chapters -> MasteryRows]
  /\ retention \in [Chapters -> RetentionRows]
  /\ studentLock \in Requests \cup {None}
  /\ request \in [Requests -> RequestStates]

Init ==
  /\ day = 0
  /\ session = [s \in Sessions |-> NoSession]
  /\ responses = [s \in Sessions |-> Unanswered]
  /\ ledger = [s \in Sessions |-> NoRow]
  /\ xpSince = [d \in Midnights |-> 0]
  /\ mastery = [c \in Chapters |-> NoMastery]
  /\ retention = [c \in Chapters |-> InitialRetention]
  /\ studentLock = None
  /\ request = [r \in Requests |-> Idle]

-----------------------------------------------------------------------------
(* What a submission decides from the session it read, before any lock.    *)

Answered(answers) == {q \in Questions : answers[q] # None}
Correct(answers) == Cardinality({q \in Questions : answers[q] = "right"})

ChapterOf(r) == session[request[r].session].chapter

ScoreOf(r) ==
  IF request[r].isValid
  THEN CalculateScore(Correct(request[r].seen),
                      Cardinality(QuestionsOf[request[r].session]))
  ELSE 0

EarnedBy(r) ==
  IF request[r].isValid
  THEN CalculateXp(Correct(request[r].seen), ScoreOf(r)) ELSE 0

(* A request ends: its response is sent, or it fails.  Ending the          *)
(* transaction, by commit or by rollback, releases the advisory lock.      *)
Ended(r) == request' = [request EXCEPT ![r] = Idle]
ReleaseLock(r) ==
  studentLock' = IF studentLock = r THEN None ELSE studentLock

(* completeSession has updated the row and its transaction is still open:  *)
(* another UPDATE of the row waits for the commit or the rollback.         *)
RowFree(s) ==
  \A r \in Requests : ~(request[r].pc = "land" /\ request[r].session = s)

-----------------------------------------------------------------------------
(* startSession: the row of a chapter the student chose, its questions     *)
(* frozen and no answer yet.                                               *)
StartSession(s, c) ==
  /\ session[s].state = "absent"
  /\ session' = [session EXCEPT ![s].state = "open", ![s].chapter = c]
  /\ UNCHANGED <<day, responses, ledger, xpSince, mastery, retention,
                     studentLock,
                 request>>

(* submitAnswer, up to saveAnswers: the session is read without a lock; a  *)
(* submitted session and a question answered already are refused (409).    *)
AnswerRead(r, s, q, a) ==
  /\ request[r].pc = "idle"
  /\ session[s].state = "open"
  /\ q \in QuestionsOf[s]
  /\ session[s].answers[q] = None
  /\ request' = [request EXCEPT ![r] =
       [Idle EXCEPT !.pc = "save", !.session = s, !.question = q,
                    !.answer = a, !.seen = session[s].answers]]
  /\ UNCHANGED <<day, tables, studentLock>>

\* Faulty: the condition is lost.
SavesAnyway(s) == TRUE

(* saveAnswers: `where submitted_at is null`.                              *)
Saveable(s) == session[s].state = "open"

(* The rest of submitAnswer: the whole map read before is written back     *)
(* with the answer added, and the response discloses the key.              *)
AnswerSave(r) ==
  LET s == request[r].session
      q == request[r].question
  IN  /\ request[r].pc = "save"
      /\ RowFree(s)
      /\ IF Saveable(s)
         THEN session' = [session EXCEPT ![s].answers =
                            [request[r].seen EXCEPT ![q] = request[r].answer]]
         ELSE UNCHANGED session
      /\ Ended(r)
      /\ UNCHANGED <<day, responses, ledger, xpSince, mastery, retention,
                     studentLock>>

-----------------------------------------------------------------------------
(* submitSession, up to the first mastery read: the answers, the verdict   *)
(* and the instant everything will be dated by are taken here.             *)
SubmitRead(r, s, plausible) ==
  /\ request[r].pc = "idle"
  /\ session[s].state = "open"
  /\ request' = [request EXCEPT ![r] =
       [Idle EXCEPT !.pc = "mastery", !.session = s, !.attempt = 1,
          !.seen = session[s].answers, !.now = day,
          !.isValid = ValidAttempt(Cardinality(Answered(session[s].answers)),
                                   Cardinality(QuestionsOf[s]), plausible),
          !.base = mastery[session[s].chapter].attempts]]
  /\ UNCHANGED <<day, tables, studentLock>>

\* Faulty: the retry computes from the value the first attempt read.
FirstReadScore(r) ==
  IF request[r].attempt > 1 THEN request[r].expected
  ELSE mastery[ChapterOf(r)].score

(* previousScore of one attempt, read on learner's own connection.         *)
PreviousScore(r) == mastery[ChapterOf(r)].score

ReadMastery(r) ==
  /\ request[r].pc = "mastery"
  /\ request' = [request EXCEPT ![r].pc = "lock",
                                ![r].expected = PreviousScore(r)]
  /\ UNCHANGED <<day, tables, studentLock>>

\* Faulty: the lock is not taken, as before D-242.
NoStudentLock == TRUE

(* pg_advisory_xact_lock waits until no other transaction holds it.        *)
LockFree == studentLock = None

LockStudent(r) ==
  /\ request[r].pc = "lock"
  /\ LockFree
  /\ studentLock' = r
  /\ request' = [request EXCEPT ![r].pc = "sum"]
  /\ UNCHANGED <<day, tables>>

(* xpSince(startOfDay(now)), and the cap: the sum counts every row from    *)
(* that midnight on, the rows of a later day included.                     *)
SumXp(r) ==
  /\ request[r].pc = "sum"
  /\ request' = [request EXCEPT ![r].pc = "complete",
       ![r].awarded = ApplyDailyCap(EarnedBy(r), xpSince[request[r].now])]
  /\ UNCHANGED <<day, tables, studentLock>>

(* completeSession, `where submitted_at is null`: the loser of a double    *)
(* submission rolls back with a 409.                                       *)
CompleteSession(r) ==
  /\ request[r].pc = "complete"
  /\ RowFree(request[r].session)
  /\ IF session[request[r].session].state = "open"
     THEN /\ request' = [request EXCEPT ![r].pc = "land"]
          /\ UNCHANGED studentLock
     ELSE Ended(r) /\ ReleaseLock(r)
  /\ UNCHANGED <<day, tables>>

\* Faulty: an unconditional upsert, as before D-241.
WritesUnconditionally(r) == TRUE

(* upsertMastery's setWhere: the row still holds what the step was         *)
(* computed from, or there was no row and there is none.                   *)
MasteryUnmoved(r) ==
  mastery[ChapterOf(r)].score = request[r].expected

(* findRetention inside the transaction.                                   *)
CurrentRetention(c) == retention[c]

(* The writes of the transaction that precede the mastery write.           *)
CommitHistory(r) ==
  LET s == request[r].session
  IN  /\ session' = [session EXCEPT ![s].state = "submitted",
                       ![s].score = ScoreOf(r), ![s].xp = request[r].awarded]
      /\ responses' = [responses EXCEPT ![s] = request[r].seen]
      /\ ledger' = [ledger EXCEPT ![s] = request[r].awarded]
      /\ xpSince' = [d \in Midnights |->
           xpSince[d] + IF d =< request[r].now THEN request[r].awarded ELSE 0]

(* writeMastery applied, the next review scheduled, and the commit.        *)
LandSubmission(r) ==
  LET c == ChapterOf(r)
  IN  /\ request[r].pc = "land"
      /\ MasteryUnmoved(r)
      /\ CommitHistory(r)
      /\ mastery' = [mastery EXCEPT ![c] =
           [score |-> NextMastery(request[r].expected, ScoreOf(r)),
            attempts |-> @.attempts + 1]]
      /\ retention' = [retention EXCEPT ![c] =
           ScheduleNextReview(CurrentRetention(c), ScoreOf(r))]
      /\ Ended(r)
      /\ ReleaseLock(r)
      /\ UNCHANGED <<day>>

\* Faulty: returning null instead of throwing commits what precedes.
StaleCommits(r) ==
  /\ request[r].pc = "land"
  /\ ~MasteryUnmoved(r)
  /\ CommitHistory(r)
  /\ Ended(r)
  /\ ReleaseLock(r)
  /\ UNCHANGED <<day, mastery, retention>>

(* StaleMasteryError: all of it is rolled back, and the attempt is made    *)
(* again from the mastery read; after the last one the request fails.      *)
StaleMastery(r) ==
  /\ request[r].pc = "land"
  /\ ~MasteryUnmoved(r)
  /\ IF request[r].attempt < MasteryAttempts
     THEN request' = [request EXCEPT ![r].pc = "mastery", ![r].attempt = @ + 1]
     ELSE Ended(r)
  /\ ReleaseLock(r)
  /\ UNCHANGED <<day, tables>>

(* The process dies, the connection drops or a statement times out: the    *)
(* transaction, when one is open, is rolled back.                          *)
Fail(r) ==
  /\ request[r].pc # "idle"
  /\ Ended(r)
  /\ ReleaseLock(r)
  /\ UNCHANGED <<day, tables>>

Midnight ==
  /\ day < MaxDay
  /\ day' = day + 1
  /\ UNCHANGED <<tables, studentLock, request>>

Proceed(r) ==
  \/ AnswerSave(r) \/ ReadMastery(r) \/ LockStudent(r) \/ SumXp(r)
  \/ CompleteSession(r) \/ LandSubmission(r) \/ StaleMastery(r)

Next ==
  \/ \E s \in Sessions, c \in Chapters : StartSession(s, c)
  \/ \E r \in Requests, s \in Sessions, q \in Questions, a \in Answers :
       AnswerRead(r, s, q, a)
  \/ \E r \in Requests, s \in Sessions, plausible \in BOOLEAN :
       SubmitRead(r, s, plausible)
  \/ \E r \in Requests : Proceed(r) \/ Fail(r)
  \/ Midnight

Spec == Init /\ [][Next]_vars

-----------------------------------------------------------------------------
(* Properties *)

XpOn(d) == xpSince[d] - xpSince[d + 1]

(* No day of the ledger holds more than the daily cap, however many        *)
(* submissions overlap and on whichever side of midnight each began        *)
(* (D-242: the lock, and the sum read under it).                           *)
DailyCapHeld == \A d \in Days : XpOn(d) =< DailyCap

(* History, ledger and mastery agree (D-056): a session is submitted if    *)
(* and only if the ledger has its row, for the XP the session shows; only  *)
(* a submitted session has responses; and a chapter counts exactly the     *)
(* sessions submitted in it.                                               *)
SubmittedIn(c) ==
  {s \in Sessions : session[s].chapter = c /\ session[s].state = "submitted"}

HistoryAgrees ==
  /\ \A s \in Sessions :
       IF session[s].state = "submitted"
       THEN ledger[s] = session[s].xp
       ELSE ledger[s] = NoRow /\ responses[s] = Unanswered
  /\ \A c \in Chapters : mastery[c].attempts = Cardinality(SubmittedIn(c))

(* The advisory lock is held by the one transaction in progress and by     *)
(* nobody else: no early return, retry or failure leaves it behind for     *)
(* the next submission to wait on.                                         *)
LockFollowsTransaction ==
  \A r \in Requests : request[r].pc \in InTransaction <=> studentLock = r

(* What a submission writes over five tables, and the lock it writes them  *)
(* under, hold together at every moment, whichever step fails.             *)
RecordsAgree == TypeOK /\ HistoryAgrees /\ LockFollowsTransaction

(* Each submission lands exactly one blending step and one review step,    *)
(* each from the value in force when it lands (D-241): two overlapping     *)
(* submissions of a chapter never count for one.  Nothing else moves       *)
(* either.                                                                 *)
Submits(s) == session[s].state = "open" /\ session'[s].state = "submitted"

SubmissionLandsOnce ==
  [][\A c \in Chapters :
       LET landed == {s \in Sessions : session[s].chapter = c /\ Submits(s)}
       IN  IF landed = {}
           THEN mastery'[c] = mastery[c] /\ retention'[c] = retention[c]
           ELSE \E s \in landed :
                  /\ landed = {s}
                  /\ mastery'[c].score =
                       NextMastery(mastery[c].score, session'[s].score)
                  /\ retention'[c] =
                       ScheduleNextReview(retention[c], session'[s].score)
    ]_vars

(* The record closes with the submission: no answer in flight reaches a    *)
(* submitted session, and its score, XP and responses stay as scored.      *)
SubmittedIsFinal ==
  [][\A s \in Sessions : session[s].state = "submitted" =>
       /\ session'[s] = session[s]
       /\ responses'[s] = responses[s]
       /\ ledger'[s] = ledger[s]
    ]_vars

(* A submission lands once, and is the end of its session.                 *)
SubmissionsClose == SubmissionLandsOnce /\ SubmittedIsFinal

(* A submission is tried again only because another one of the chapter     *)
(* committed meanwhile, as the comment on MASTERY_ATTEMPTS reasons: its    *)
(* k-th attempt has seen k - 1 of them.                                    *)
RetryNeedsACommit ==
  \A r \in Requests :
    request[r].pc \in {"mastery", "lock"} \cup InTransaction =>
      request[r].attempt - 1 + request[r].base
        =< mastery[ChapterOf(r)].attempts

(* "AN ADDITION, NEVER A REPLACEMENT" (the comment above saveAnswers in    *)
(* submitAnswer): an answer on the session, whose key the student has been *)
(* shown, is neither dropped nor changed.  The code does not hold this:    *)
(* each of two answers sent together writes back the map it read.          *)
AnswersOnlyAdded ==
  [][\A s \in Sessions, q \in Questions :
       session[s].answers[q] # None =>
         session'[s].answers[q] = session[s].answers[q]]_vars
=============================================================================

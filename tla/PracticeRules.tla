---------------------------- MODULE PracticeRules ----------------------------
(***************************************************************************)
(* The pure rules of guided practice (modules/practice/domain): how a      *)
(* session is scored, what XP it earns, how the daily cap clamps it, how   *)
(* it moves a chapter's mastery and when the chapter is due again.         *)
(* Fractions are integers: mastery in thousandths, ease in hundredths, as  *)
(* the numeric(4,3) and numeric(4,2) columns hold them.                    *)
(***************************************************************************)
EXTENDS Integers

CONSTANT DailyCap     \* the most practice XP of one day (200 in the code)

ASSUME DailyCapAssumption == DailyCap \in Nat

NoScore == -1         \* the mastery of a chapter that has no row
Lesser(a, b) == IF a < b THEN a ELSE b
Greater(a, b) == IF a < b THEN b ELSE a

(* Math.round of n / d for naturals: a half goes up. *)
Rounded(n, d) == (2 * n + d) \div (2 * d)

CalculateScore(correct, total) ==
  IF total = 0 THEN 0 ELSE Rounded(100 * correct, total)

CalculateXp(correct, scorePercent) ==
  10 * correct + (IF scorePercent >= 80 THEN 20 ELSE 0)
               + (IF scorePercent = 100 THEN 30 ELSE 0)

ApplyDailyCap(earned, alreadyToday) ==
  Lesser(earned, Greater(0, DailyCap - alreadyToday))

(* The three checks in order; `plausible` stands for the two that look at  *)
(* the clock and at the positions tapped.                                  *)
ValidAttempt(responseCount, questionCount, plausible) ==
  /\ responseCount = questionCount
  /\ responseCount = 0 \/ plausible

(* The exponential moving average: 0.6 of what was there, 0.4 of the new.  *)
NextMastery(previous, scorePercent) ==
  IF previous = NoScore THEN 10 * scorePercent
  ELSE Rounded(6 * previous + 40 * scorePercent, 10)

InitialRetention == [intervalDays |-> 0, easeFactor |-> 250, repetitions |-> 0]

ScoreToQuality(scorePercent) == Rounded(scorePercent, 20)

NextEase(easeFactor, quality) ==
  LET gap == 5 - quality
  IN  Greater(130, easeFactor + 10 - gap * (8 + gap * 2))

NextInterval(state, repetitions, easeFactor) ==
  CASE repetitions = 1 -> 1
    [] repetitions = 2 -> 6
    [] OTHER -> Greater(1, Rounded(state.intervalDays * easeFactor, 100))

(* SM-2: a failed review starts over and leaves the ease alone.            *)
ScheduleNextReview(state, scorePercent) ==
  LET quality == ScoreToQuality(scorePercent)
      ease    == NextEase(state.easeFactor, quality)
      reps    == state.repetitions + 1
  IN  IF quality < 3
      THEN [state EXCEPT !.intervalDays = 1, !.repetitions = 0]
      ELSE [intervalDays |-> NextInterval(state, reps, ease),
            easeFactor |-> ease, repetitions |-> reps]
=============================================================================

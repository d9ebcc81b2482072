------------------------------ MODULE PortGuard ------------------------------
(***************************************************************************)
(* One guarded port of a process: the concurrency limiter around, the      *)
(* retry loop within it, the circuit breaker within that, and the deadline *)
(* of each attempt innermost (platform/resilience, concurrency, retry,     *)
(* circuit-breaker, and the stream of llm/guarded-llm).  A step is what    *)
(* runs between two awaits.  Time advances in ticks; instants are kept as  *)
(* ages, so that the breaker's clock never overflows its bound.            *)
(***************************************************************************)
EXTENDS Integers, Sequences, FiniteSets

CONSTANTS
  Calls,             \* callers of the port, one call of each at a time
  MaxInFlight,       \* the limiter's max
  Retries,           \* timeout.retries: attempts after the first
  Timeout,           \* timeout.totalMs (firstTokenMs of a stream), in ticks
  FailureThreshold, FailureWindow,  \* failures, within so many ticks
  RollingWindow, RatePercent,       \* the failure-rate rule
  OpenInterval, MaxOpen,            \* openMs and its ceiling, in ticks
  HalfOpenTrials

ASSUME PortGuardAssumption ==
  /\ IsFiniteSet(Calls)
  /\ {MaxInFlight, Timeout, FailureThreshold, FailureWindow, RollingWindow,
      OpenInterval, MaxOpen, HalfOpenTrials} \subseteq Nat \ {0}
  /\ Retries \in Nat
  /\ RatePercent \in 0 .. 100
  /\ OpenInterval =< MaxOpen

VARIABLES
  active,             \* the limiter's count
  call,               \* the calls in flight
  state,              \* the breaker's state
  openFor,            \* openMs: the current open interval
  sinceOpened,        \* now - openedAt while open, 0 otherwise
  failures,           \* failureTimes: how many, by their age
  recent,             \* the last outcomes, TRUE for a failure
  halfOpenStarted, halfOpenSucceeded,
  trialsWon           \* history: trials of this half-open period that succeeded

window == <<failures, recent>>
trials == <<halfOpenStarted, halfOpenSucceeded, trialsWon>>
breaker == <<state, openFor, sinceOpened, window, trials>>
vars == <<active, call, breaker>>

Ages == 0 .. FailureWindow - 1
Resting(stage, left) ==   \* a call with no attempt in flight
  [pc |-> stage, left |-> left, age |-> 0, streams |-> FALSE, trial |-> FALSE]
Idle == Resting("idle", 0)

CallStates ==
  [pc : {"idle", "trying", "waiting", "streaming", "done"},
   left : 0 .. Retries,   \* attempts the retry loop has left
   age : 0 .. Timeout,    \* of the attempt's deadline timer
   streams : BOOLEAN,
   trial : BOOLEAN]       \* history: admitted in this half-open period

(* Every variable keeps its shape: the breaker's counters stay naturals,   *)
(* the wait between the configured interval and its ceiling, and no        *)
(* attempt outlives its deadline.                                          *)
TypeOK ==
  /\ active \in Nat
  /\ call \in [Calls -> CallStates]
  /\ state \in {"closed", "open", "half-open"}
  /\ openFor \in OpenInterval .. MaxOpen
  /\ sinceOpened \in 0 .. MaxOpen
  /\ failures \in [Ages -> Nat]
  /\ recent \in Seq(BOOLEAN) /\ Len(recent) =< RollingWindow
  /\ halfOpenStarted \in 0 .. HalfOpenTrials
  /\ halfOpenSucceeded \in Nat /\ trialsWon \in Nat

Init ==
  /\ active = 0
  /\ call = [c \in Calls |-> Idle]
  /\ state = "closed" /\ openFor = OpenInterval /\ sinceOpened = 0
  /\ failures = [a \in Ages |-> 0] /\ recent = <<>>
  /\ halfOpenStarted = 0 /\ halfOpenSucceeded = 0 /\ trialsWon = 0

At(stage) == {c \in Calls : call[c].pc = stage}
InFlight == {c \in Calls : call[c].pc # "idle"}

-----------------------------------------------------------------------------
(* Admission: maybeHalfOpen, then the test of execute.                     *)

\* Faulty: the first caller after any tick is a trial.
ElapsesAtOnce == state = "open" /\ sinceOpened >= 1

Elapsed == state = "open" /\ sinceOpened >= openFor
StateNow == IF Elapsed THEN "half-open" ELSE state
StartedNow == IF Elapsed THEN 0 ELSE halfOpenStarted

MaybeHalfOpen ==
  /\ state' = StateNow
  /\ sinceOpened' = IF Elapsed THEN 0 ELSE sinceOpened
  /\ halfOpenSucceeded' = IF Elapsed THEN 0 ELSE halfOpenSucceeded
  /\ trialsWon' = IF Elapsed THEN 0 ELSE trialsWon
  /\ UNCHANGED <<openFor, window>>

Admits ==
  \/ StateNow = "closed"
  \/ StateNow = "half-open" /\ StartedNow < HalfOpenTrials

(* One attempt: breaker.execute up to its await.  A rejection of the       *)
(* breaker is not worth retrying, so it ends the call.                     *)
Attempt(c, left, streams) ==
  /\ MaybeHalfOpen
  /\ IF Admits
     THEN /\ call' = [call EXCEPT ![c] =
               [pc |-> "trying", left |-> left, age |-> 0,
                streams |-> streams, trial |-> StateNow = "half-open"]]
          /\ halfOpenStarted' =
               IF StateNow = "half-open" THEN StartedNow + 1 ELSE StartedNow
     ELSE /\ call' = [call EXCEPT ![c] = Resting("done", 0)]
          /\ halfOpenStarted' = StartedNow

\* Faulty: the limiter's comparison is off by one.
OneSlotMore == active =< MaxInFlight

(* A caller runs an operation, idempotent or not, or opens a stream.  At   *)
(* the limit the limiter refuses and nothing changes.                      *)
HasSlot == active < MaxInFlight

Call(c) ==
  /\ call[c].pc = "idle"
  /\ HasSlot
  /\ active' = active + 1
  /\ \/ \E left \in {0, Retries} : Attempt(c, left, FALSE)
     \/ Attempt(c, 0, TRUE)

\* Faulty: the loop does not count its attempts.
WakesForever(c) ==
  /\ call[c].pc = "waiting"
  /\ Attempt(c, call[c].left, FALSE)
  /\ UNCHANGED active

(* The wait of the retry loop is over.                                     *)
Wakes(c) ==
  /\ call[c].pc = "waiting"
  /\ Attempt(c, call[c].left - 1, FALSE)
  /\ UNCHANGED active

-----------------------------------------------------------------------------
(* The outcome of an attempt, as the breaker records it.                   *)

LastOf(outcomes) ==  \* the part of prune that bounds `recent`
  SubSeq(outcomes,
         IF Len(outcomes) > RollingWindow
           THEN Len(outcomes) - RollingWindow + 1 ELSE 1,
         Len(outcomes))

Failed(outcomes) == {i \in DOMAIN outcomes : outcomes[i]}

\* The failures of the window, told by their age and a number.
InWindow(byAge) == UNION {{a} \X (1 .. byAge[a]) : a \in Ages}

ShouldTrip(byAge, outcomes) ==
  \/ Cardinality(InWindow(byAge)) >= FailureThreshold
  \/ /\ Len(outcomes) >= RollingWindow
     /\ Cardinality(Failed(outcomes)) * 100 >= RatePercent * Len(outcomes)

NoTrials(calls) == [c \in Calls |-> [calls[c] EXCEPT !.trial = FALSE]]

Open(calls) ==
  /\ state' = "open" /\ sinceOpened' = 0
  /\ halfOpenStarted' = 0 /\ halfOpenSucceeded' = 0
  /\ call' = NoTrials(calls)
  /\ UNCHANGED trialsWon

\* Faulty: the old failures stay in the window.
KeepsFailures(calls) ==
  /\ state' = "closed"
  /\ recent' = <<>>
  /\ halfOpenStarted' = 0 /\ halfOpenSucceeded' = 0
  /\ openFor' = OpenInterval
  /\ call' = NoTrials(calls)
  /\ UNCHANGED <<sinceOpened, failures>>

Close(calls) ==
  /\ state' = "closed"
  /\ failures' = [a \in Ages |-> 0] /\ recent' = <<>>
  /\ halfOpenStarted' = 0 /\ halfOpenSucceeded' = 0
  /\ openFor' = OpenInterval
  /\ call' = NoTrials(calls)
  /\ UNCHANGED sinceOpened

Stays(calls) ==
  /\ call' = calls
  /\ UNCHANGED <<state, openFor, sinceOpened, halfOpenStarted>>

\* Faulty: the first success closes; more trials are asked than admitted.
FirstTrial == TRUE
OneTrialMore == halfOpenSucceeded + 1 > HalfOpenTrials

LastTrial == halfOpenSucceeded + 1 >= HalfOpenTrials

RecordSuccess(c, calls) ==
  /\ trialsWon' = trialsWon + (IF call[c].trial THEN 1 ELSE 0)
  /\ \/ state = "half-open" /\ LastTrial /\ Close(calls)
     \/ /\ ~(state = "half-open" /\ LastTrial)
        /\ recent' = LastOf(Append(recent, FALSE))
        /\ halfOpenSucceeded' =
             halfOpenSucceeded + (IF state = "half-open" THEN 1 ELSE 0)
        /\ Stays(calls)
        /\ UNCHANGED failures

Doubled == IF 2 * openFor =< MaxOpen THEN 2 * openFor ELSE MaxOpen

RecordFailure(calls) ==
  /\ failures' = [failures EXCEPT ![0] = @ + 1]
  /\ recent' = LastOf(Append(recent, TRUE))
  /\ LET trips == state = "closed" /\ ShouldTrip(failures', recent') IN
     \/ state = "half-open" /\ openFor' = Doubled /\ Open(calls)
     \/ trips /\ Open(calls) /\ UNCHANGED openFor
     \/ /\ ~trips /\ state # "half-open"
        /\ Stays(calls)
        /\ UNCHANGED <<halfOpenSucceeded, trialsWon>>

-----------------------------------------------------------------------------
(* The end of an attempt.                                                  *)

Ends(c) == [call EXCEPT ![c] = Resting("done", 0)]

(* The dependency answers, or refuses the request itself (a 4xx): a round  *)
(* trip either way.  A stream's first token lets the rest through.         *)
Succeed(c) ==
  /\ call[c].pc = "trying"
  /\ \/ RecordSuccess(c, Ends(c))
     \/ /\ call[c].streams
        /\ RecordSuccess(c, [call EXCEPT ![c] = Resting("streaming", 0)])
  /\ UNCHANGED active

(* The attempt fails; an error of the dependency is worth another attempt, *)
(* if the loop has one left.  A failure the caller only sees in the value, *)
(* or an error of another class, ends the call.                            *)
FailsWith(c, retryable) ==
  /\ call[c].pc = "trying"
  /\ RecordFailure(IF retryable /\ call[c].left > 0
                   THEN [call EXCEPT ![c] = Resting("waiting", call[c].left)]
                   ELSE Ends(c))
  /\ UNCHANGED active

Fails(c) == \E retryable \in BOOLEAN : FailsWith(c, retryable)

(* withTimeout: the caller stops waiting and the breaker hears of it.      *)
TimesOut(c) == call[c].age = Timeout /\ FailsWith(c, TRUE)

(* The stream ends: exhausted, out of its total budget, or abandoned.      *)
StreamEnds(c) ==
  /\ call[c].pc = "streaming"
  /\ call' = Ends(c)
  /\ UNCHANGED <<active, breaker>>

(* The finally of the limiter, or of the stream.                           *)
Release(c) ==
  /\ call[c].pc = "done"
  /\ active' = active - 1
  /\ call' = [call EXCEPT ![c] = Idle]
  /\ UNCHANGED breaker

(* Someone reads state() or snapshot().                                    *)
Observe ==
  /\ Elapsed
  /\ MaybeHalfOpen
  /\ halfOpenStarted' = 0
  /\ UNCHANGED <<active, call>>

(* A tick of the clock.  A deadline fires before the clock passes it.      *)
Tick ==
  /\ \A c \in At("trying") : call[c].age < Timeout
  /\ call' = [c \in Calls |->
       IF call[c].pc = "trying" THEN [call[c] EXCEPT !.age = @ + 1] ELSE call[c]]
  /\ sinceOpened' =
       IF state = "open" /\ sinceOpened < openFor THEN sinceOpened + 1 ELSE sinceOpened
  /\ failures' = [a \in Ages |-> IF a = 0 THEN 0 ELSE failures[a - 1]]
  /\ UNCHANGED <<active, state, openFor, recent, trials>>

Next ==
  \/ Tick
  \/ Observe
  \/ \E c \in Calls :
       \/ Call(c) \/ Wakes(c)
       \/ Succeed(c) \/ Fails(c) \/ TimesOut(c)
       \/ StreamEnds(c) \/ Release(c)

(* Time passes and timers fire; what follows a settled promise runs.       *)
(* Nobody has to call the port, and the dependency need not answer.        *)
Fairness ==
  /\ WF_vars(Tick)
  /\ \A c \in Calls :
       /\ WF_vars(TimesOut(c)) /\ WF_vars(Wakes(c))
       /\ WF_vars(StreamEnds(c)) /\ WF_vars(Release(c))

Spec == Init /\ [][Next]_vars /\ Fairness

-----------------------------------------------------------------------------
(* Properties.                                                             *)

(* A slot is held from the limiter's admission to its finally, once,       *)
(* through every retry and for a stream's whole life (port-guard.ts: one   *)
(* slot for the whole retried operation), and never more than the limit.   *)
SlotsHeld ==
  /\ active = Cardinality(InFlight)
  /\ active =< MaxInFlight

(* Types, and the slots of the calls in flight.                            *)
PortInv == TypeOK /\ SlotsHeld

(* Every port's deadline is shorter than the breaker's wait, but for the   *)
(* completion of the language model, whose thirty seconds equal it.        *)
Punctual == Timeout < OpenInterval

(* While half-open, every attempt in flight is a trial of this period, the *)
(* counters account for each, and the period ends with the last: a late    *)
(* answer of a call made before the breaker opened is never one of them.   *)
(* So the dependency under trial sees no more calls at a time than agreed. *)
TrialsAccounted ==
  (Punctual /\ state = "half-open") =>
    /\ \A c \in At("trying") : call[c].trial
    /\ halfOpenStarted = halfOpenSucceeded + Cardinality(At("trying"))
    /\ halfOpenSucceeded = trialsWon /\ trialsWon < HalfOpenTrials

(* The breaker closes only when every trial it allows has succeeded        *)
(* (config/timeouts.ts: all must succeed to close), with none in flight.   *)
OnlyTrialsClose ==
  [][(Punctual /\ state # "closed" /\ state' = "closed") =>
       trialsWon' = HalfOpenTrials /\ At("trying")' = {}]_vars

(* While the breaker stays open nothing starts: calls and retries that     *)
(* come meanwhile end without an attempt, and results that arrive late     *)
(* neither restart the wait nor lengthen it.                               *)
QuietWhileOpen ==
  [][(state = "open" /\ state' = "open") =>
       /\ At("trying")' \subseteq At("trying")
       /\ openFor' = openFor
       /\ sinceOpened' >= sinceOpened]_vars

(* What a breaker may never do: close without its trials, or let results   *)
(* that arrive late, or calls, stir it while it is open.                   *)
TurnsAreEarned == OnlyTrialsClose /\ QuietWhileOpen

(* A closed breaker has not seen the failures that trip it: none are left  *)
(* over from before it last opened or reopened.                            *)
BelowThreshold ==
  state = "closed" => Cardinality(InWindow(failures)) < FailureThreshold

(* A caller gets an answer or an error whatever the dependency does: the   *)
(* retry loop ends, the deadline fires and the slot comes back.            *)
CallsEnd == \A c \in Calls : (call[c].pc # "idle") ~> (call[c].pc = "idle")

(* A dependency that has recovered is used again: once attempts only       *)
(* succeed, and callers keep calling, the breaker closes for good.         *)
Failing == \E c \in Calls : Fails(c) \/ TimesOut(c)
Recovered ==
  /\ <>[][~Failing]_vars
  /\ WF_vars(\E c \in Calls : Call(c))
  /\ \A c \in Calls : WF_vars(Succeed(c))

Recovers == Recovered => <>[](state = "closed")
=============================================================================

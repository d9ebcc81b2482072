------------------------------ MODULE Alerting ------------------------------
(***************************************************************************)
(* The alert evaluator (scripts/ops): a process that measures the signals  *)
(* of the system once an interval, fires the rules they breach, and tells  *)
(* somebody unless it has done so within the rule's cooldown.  A behaviour *)
(* follows one rule of three kinds: an event counted over a window of the  *)
(* metrics, the age of the oldest live heartbeat, and readiness.  Rules    *)
(* share the cycle and nothing else.  A tick is the interval; a cycle is   *)
(* assumed to take less.  How many channels an alert reached changes       *)
(* nothing here, not even when it reached none.                            *)
(***************************************************************************)
EXTENDS Naturals, FiniteSets, FiniteSetsExt

CONSTANTS
  Workers,      \* worker processes, each with a row of its own
  MetricWindow, \* windowMinutes, in intervals (5 in the code)
  StaleAfter,   \* threshold of worker_heartbeat_stale
  Cooldown,     \* cooldownSeconds (each rule has its own in the code)
  MaxEvents,    \* bound: ticks at which a job is dead-lettered
  LastMinute    \* bound: the last tick

ASSUME AlertAssumption ==
  /\ MetricWindow \in Nat \ {0} /\ StaleAfter \in Nat \ {0} /\ Cooldown \in Nat \ {0}
  /\ MaxEvents \in Nat /\ LastMinute \in Nat /\ IsFiniteSet(Workers)

VARIABLES
  rule,      \* the rule that is followed
  minute,    \* the tick
  recorded,  \* metrics_events: when jobs were dead-lettered
  worker,    \* worker processes and their heartbeat rows
  ready,     \* whether /health/ready answers 200
  evaluator, \* the process, with the rule's entry in the ledger of cooldowns
  told,      \* history: when the rule was last delivered
  began,     \* history: when its present incident was first seen
  calm,      \* history: it was seen unbreached, or unseen, since the delivery
  hasty,     \* history: delivered twice in a cooldown, never calm between
  measured,  \* history: ticks at which the signal could be read
  counted    \* history: events that a cycle has counted

alertVars == <<rule, minute, recorded, worker, ready, evaluator, told, began, calm,
               hasty, measured, counted>>
world == <<rule, recorded, worker, ready>>
histories == <<told, began, calm, hasty, measured, counted>>

Rules == {"job_dead_lettered", "worker_heartbeat_stale", "readiness_failing"}
Minutes == 0 .. LastMinute
Unset == LastMinute + 1  \* no time of the run
Times == Minutes \cup {Unset}

NoEvaluator ==
  [step |-> "down", stopping |-> FALSE, ran |-> Unset,
   isMeasured |-> FALSE, fired |-> FALSE, lastSentAt |-> Unset]

AlertTypeOK ==
  /\ rule \in Rules /\ minute \in Minutes /\ recorded \subseteq Minutes /\ ready \in BOOLEAN
  /\ worker \in [Workers -> [process : {"unborn", "up", "gone"}, beat : Minutes,
                             row : {"absent", "running", "stopped"}]]
  /\ evaluator \in [step : {"down", "starting", "delivering", "sleeping"},
                    stopping : BOOLEAN, ran : Times, isMeasured : BOOLEAN, fired : BOOLEAN,
                    lastSentAt : Times]
  /\ told \in Times /\ began \in Times /\ calm \in BOOLEAN /\ hasty \in BOOLEAN
  /\ measured \subseteq Minutes /\ counted \subseteq recorded

AlertInit ==
  /\ rule \in Rules
  /\ minute = 0 /\ recorded = {} /\ ready = TRUE
  /\ worker = [w \in Workers |-> [process |-> "unborn", beat |-> 0, row |-> "absent"]]
  /\ evaluator = NoEvaluator
  /\ told = Unset /\ began = Unset /\ calm = TRUE /\ hasty = FALSE
  /\ measured = {} /\ counted = {}

-----------------------------------------------------------------------------
(* What is measured.                                                       *)

\* An interval passes while the evaluator sleeps or is not there.
MinutePasses ==
  /\ minute < LastMinute
  /\ evaluator.step = "down" \/ (evaluator.step = "sleeping" /\ evaluator.ran = minute)
  /\ minute' = minute + 1
  /\ UNCHANGED <<world, evaluator, histories>>

JobIsDead ==
  /\ rule = "job_dead_lettered"
  /\ minute \notin recorded /\ Cardinality(recorded) < MaxEvents
  /\ recorded' = recorded \cup {minute}
  /\ UNCHANGED <<rule, minute, worker, ready, evaluator, histories>>

ReadinessTurns ==
  /\ rule = "readiness_failing"
  /\ ready' = ~ready
  /\ UNCHANGED <<rule, minute, recorded, worker, evaluator, histories>>

\* A heartbeat is written, or the failure to write it swallowed.
Beats(w) ==
  /\ rule = "worker_heartbeat_stale"
  /\ worker[w].process = "unborn" \/ (worker[w].process = "up" /\ worker[w].beat # minute)
  /\ \E written \in BOOLEAN :
       worker' = [worker EXCEPT ![w] =
         IF written THEN [process |-> "up", beat |-> minute, row |-> "running"]
                    ELSE [@ EXCEPT !.process = "up"]]
  /\ UNCHANGED <<rule, minute, recorded, ready, evaluator, histories>>

\* A worker that ends in order leaves `stopped` behind, if it can write it.
WorkerEnds(w) ==
  /\ worker[w].process = "up"
  /\ \E written \in BOOLEAN :
       worker' = [worker EXCEPT ![w] =
         IF written THEN [process |-> "gone", beat |-> minute, row |-> "stopped"]
                    ELSE [@ EXCEPT !.process = "gone"]]
  /\ UNCHANGED <<rule, minute, recorded, ready, evaluator, histories>>

-----------------------------------------------------------------------------
(* A cycle.                                                                *)

\* recorded_at >= now() - window.
InWindow(at) == at + MetricWindow >= minute

\* readWorkerLiveness.
LiveRows == {w \in Workers : worker[w].row = "running"}

\* Faulty: the newest beat hides the others.
NewestBeat == Max({worker[w].beat : w \in LiveRows})

\* The least of the last beats it returns.
OldestBeat == Min({worker[w].beat : w \in LiveRows})

\* With no live row the age is as good as infinite.
Stale == LiveRows = {} \/ minute - OldestBeat >= StaleAfter

\* evaluate, over what collectSignals has measured.
Breached ==
  CASE rule = "job_dead_lettered" -> \E at \in recorded : InWindow(at)
    [] rule = "worker_heartbeat_stale" -> Stale
    [] rule = "readiness_failing" -> ~ready

\* A database that cannot be read leaves the signal out, and the rule does not
\* fire.  Readiness is always measured: no answer is an answer.
Measurable == IF rule = "readiness_failing" THEN {TRUE} ELSE BOOLEAN

\* A rule that has not fired loses its cooldown.
LedgerAfter(fired) == IF fired THEN evaluator.lastSentAt ELSE Unset

\* collectSignals, and runCycle up to its first delivery.
RunCycle(isMeasured) ==
  LET fired == isMeasured /\ Breached
  IN /\ \/ evaluator.step = "starting"
        \/ evaluator.step = "sleeping" /\ evaluator.ran # minute /\ ~evaluator.stopping
     /\ evaluator' = [evaluator EXCEPT !.step = "delivering", !.ran = minute,
                        !.isMeasured = isMeasured, !.fired = fired, !.lastSentAt = LedgerAfter(fired)]
     /\ began' = IF fired /\ ~evaluator.fired THEN minute ELSE began
     /\ calm' = (calm \/ ~fired)
     /\ IF isMeasured
        THEN /\ measured' = measured \cup {minute}
             /\ counted' = counted \cup {at \in recorded : InWindow(at)}
        ELSE UNCHANGED <<measured, counted>>
     /\ UNCHANGED <<minute, world, told, hasty>>

InCooldown(at) == at # Unset /\ minute - at < Cooldown

\* shouldDeliver, which records the delivery before it is tried, deliver, and
\* the end of the cycle.
Deliver ==
  /\ evaluator.step = "delivering"
  /\ IF evaluator.fired /\ ~InCooldown(evaluator.lastSentAt)
     THEN /\ evaluator' = [evaluator EXCEPT !.step = "sleeping", !.lastSentAt = minute]
          /\ told' = minute /\ calm' = FALSE
          /\ hasty' = (hasty \/ (InCooldown(told) /\ ~calm))
     ELSE /\ evaluator' = [evaluator EXCEPT !.step = "sleeping"]
          /\ UNCHANGED <<told, calm, hasty>>
  /\ UNCHANGED <<minute, world, began, measured, counted>>

\* SIGTERM ends the wait.  During a cycle nobody waits: the wait that follows
\* hears nothing of it and lasts the whole interval.
StopEvaluator ==
  /\ evaluator.step # "down" /\ ~evaluator.stopping
  /\ IF evaluator.step = "sleeping" THEN evaluator' = NoEvaluator /\ calm' = TRUE
     ELSE evaluator' = [evaluator EXCEPT !.stopping = TRUE] /\ UNCHANGED calm
  /\ UNCHANGED <<minute, world, told, began, hasty, measured, counted>>

\* The loop finds that it has been stopped, or the process is killed.
EvaluatorEnds ==
  /\ evaluator.step # "down"
  /\ evaluator' = NoEvaluator /\ calm' = TRUE
  /\ UNCHANGED <<minute, world, told, began, hasty, measured, counted>>

EvaluatorStarts ==
  /\ evaluator.step = "down"
  /\ evaluator' = [NoEvaluator EXCEPT !.step = "starting"]
  /\ UNCHANGED <<minute, world, histories>>

AlertNext ==
  \/ MinutePasses \/ JobIsDead \/ ReadinessTurns
  \/ \E w \in Workers : Beats(w) \/ WorkerEnds(w)
  \/ \E isMeasured \in Measurable : RunCycle(isMeasured)
  \/ Deliver \/ StopEvaluator \/ EvaluatorEnds \/ EvaluatorStarts

AlertSpec == AlertInit /\ [][AlertNext]_alertVars

-----------------------------------------------------------------------------
CycleOver == evaluator.step = "sleeping" /\ evaluator.ran = minute

\* A rule that stays breached is delivered once a cooldown: two deliveries that
\* are closer have a cycle between them that did not see the breach, or a
\* restart, with which the ledger is lost.
CooldownsHold == ~hasty

\* An incident that a cycle has seen has been delivered since it began, however
\* soon it came after the last, and again within the cooldown while it lasts.
IncidentsAreTold ==
  CycleOver /\ evaluator.fired => told # Unset /\ told >= began /\ InCooldown(told)

\* An event of the metrics is counted if they can be read once while it is in
\* the window, although cycles before fail and the evaluator is away.
EventsAreCounted ==
  \A at \in recorded :
    (\E m \in measured : at < m /\ m <= at + MetricWindow) => at \in counted

\* A worker that died without a word is reported although others are healthy.
SilenceIsSeen ==
  CycleOver /\ rule = "worker_heartbeat_stale" /\ evaluator.isMeasured /\ ~evaluator.fired =>
    \A w \in Workers : worker[w].process = "gone" /\ worker[w].row = "running"
                         => minute - worker[w].beat < StaleAfter

\* Types, cooldowns, incidents, the window of the metrics, and silent workers.
AlertInv ==
  AlertTypeOK /\ CooldownsHold /\ IncidentsAreTold /\ EventsAreCounted /\ SilenceIsSeen

=============================================================================

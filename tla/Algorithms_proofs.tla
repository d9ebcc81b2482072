-------------------------- MODULE Algorithms_proofs --------------------------
(***************************************************************************)
(* What the service counts, orders and searches, for instances of any      *)
(* size: the alert evaluator's cycles, the importer's reserve, the walk    *)
(* over the chapters, the end of the quiet hours, the fusion of two        *)
(* rankings, the weekly digest's sums and the filter of citation markers.  *)
(* Each has an inductive invariant of its own.                             *)
(***************************************************************************)
EXTENDS Alerting, CorpusImport, ChapterGraph, QuietHours, Retrieval, WeekReport,
        CitationFilter, FiniteSetTheorems, SequenceTheorems, TLAPS

-----------------------------------------------------------------------------
(* Every set of numbers has a least one: its initial segments are finite,  *)
(* and the strict inclusion of finite sets is well founded.                *)
LEMMA LeastNumber ==
  ASSUME NEW T, T \subseteq Nat, T # {}
  PROVE  \E n \in T : \A m \in T : n <= m
<1> DEFINE Until(n) == 0 .. n - 1
           Family == {Until(n) : n \in T}
<1>1. Family \subseteq FiniteSubsetsOf(Nat)
  <2>1. ASSUME NEW n \in T PROVE Until(n) \subseteq Nat /\ IsFiniteSet(Until(n))
    <3>1. n \in Int /\ n - 1 \in Int
      OBVIOUS
    <3>2. IsFiniteSet(0 .. n - 1)
      BY <3>1, FS_Interval
    <3> QED BY <3>2
  <2> QED BY <2>1 DEF FiniteSubsetsOf
<1>2. Family # {}
  OBVIOUS
<1>3. IsWellFoundedOn(StrictSubsetOrdering(Nat), FiniteSubsetsOf(Nat))
  BY FS_StrictSubsetOrderingWellFounded
<1>4. PICK x \in Family : \A y \in Family : ~ (<<y, x>> \in StrictSubsetOrdering(Nat))
  BY <1>1, <1>2, <1>3, WFMin
<1>5. PICK n \in T : x = Until(n)
  OBVIOUS
<1>6. ASSUME NEW m \in T, m < n PROVE FALSE
  <2>1. Until(m) \subseteq Until(n) /\ Until(m) # Until(n)
    <3>1. m \in Until(n) /\ m \notin Until(m)
      BY <1>6
    <3> QED BY <1>6, <3>1
  <2>2. <<Until(m), Until(n)>> \in StrictSubsetOrdering(Nat)
    BY <2>1 DEF StrictSubsetOrdering
  <2> QED BY <1>4, <1>5, <2>2
<1> QED BY <1>6

\* What holds at first, and of every number when of the one before it, holds.
LEMMA NoneIsFirst ==
  ASSUME NEW last \in Nat, NEW bad, bad \subseteq 0 .. last, 0 \notin bad,
         \A k \in 1 .. last : k \in bad => k - 1 \in bad
  PROVE  bad = {}
<1>1. SUFFICES ASSUME bad # {} PROVE FALSE
  OBVIOUS
<1>2. PICK k \in bad : \A m \in bad : k <= m
  <2>1. bad \subseteq Nat
    OBVIOUS
  <2> QED BY <1>1, <2>1, LeastNumber
<1>3. k \in 1 .. last
  OBVIOUS
<1>4. k - 1 \in bad
  BY <1>3
<1> QED BY <1>2, <1>3, <1>4

-----------------------------------------------------------------------------
(* The alert evaluator.  The ledger's entry is the last delivery, made     *)
(* since the incident began; it is there unless the rule has been calm.    *)
LedgerFits ==
  /\ evaluator.step = "down" => evaluator = NoEvaluator
  /\ evaluator.lastSentAt # Unset =>
       /\ evaluator.fired /\ told = evaluator.lastSentAt
       /\ began <= told /\ told <= minute
  /\ evaluator.fired => began <= minute
  /\ ~calm => told = evaluator.lastSentAt

(* A cycle that saw no stale heartbeat saw every row that claims to run.   *)
LivenessSeen ==
  /\ evaluator.ran = minute /\ evaluator.isMeasured /\ ~evaluator.fired
  /\ rule = "worker_heartbeat_stale"
  => \A w \in Workers : worker[w].row = "running" => minute - worker[w].beat < StaleAfter

(* The inductive invariant.                                                *)
WatchInv ==
  /\ AlertTypeOK /\ CooldownsHold /\ IncidentsAreTold /\ EventsAreCounted
  /\ \A m \in measured : m <= minute
  /\ LedgerFits /\ LivenessSeen

Cycles == [step : {"down", "starting", "delivering", "sleeping"}, stopping : BOOLEAN,
           ran : Times, isMeasured : BOOLEAN, fired : BOOLEAN, lastSentAt : Times]

LEMMA ClockTypes ==
  /\ minute \in Minutes => minute \in Nat /\ minute \in Times /\ minute # Unset
  /\ Unset \in Nat /\ Unset \in Times /\ Unset \notin Minutes
  /\ Times \subseteq Nat /\ Minutes \subseteq Nat
  /\ {MetricWindow, StaleAfter, Cooldown} \subseteq Nat \ {0} /\ LastMinute \in Nat
BY AlertAssumption DEF Minutes, Unset, Times

LEMMA NoEvaluatorType ==
  \A e : e = NoEvaluator \/ e = [NoEvaluator EXCEPT !.step = "starting"] =>
    /\ e \in Cycles /\ e.ran = Unset /\ ~e.fired /\ e.lastSentAt = Unset
    /\ e.step \in {"down", "starting"} /\ (e.step = "down" => e = NoEvaluator)
<1>1. NoEvaluator \in Cycles /\ NoEvaluator.ran = Unset /\ NoEvaluator.fired = FALSE
        /\ NoEvaluator.lastSentAt = Unset /\ NoEvaluator.step = "down"
  BY ClockTypes DEF NoEvaluator, Cycles
<1>2. ASSUME NEW e, e = [NoEvaluator EXCEPT !.step = "starting"]
      PROVE  e \in Cycles /\ e.ran = Unset /\ ~e.fired /\ e.lastSentAt = Unset /\ e.step = "starting"
  BY <1>1, <1>2 DEF Cycles
<1> QED BY <1>1, <1>2

LEMMA WatchStart == AlertInit => WatchInv
<1> SUFFICES ASSUME AlertInit PROVE WatchInv
  OBVIOUS
<1>1. 0 \in Minutes
  BY AlertAssumption DEF Minutes
<1>2. AlertTypeOK
  BY <1>1, NoEvaluatorType, ClockTypes DEF AlertInit, AlertTypeOK, Cycles
<1>3. CooldownsHold /\ EventsAreCounted /\ \A m \in measured : m <= minute
  BY DEF AlertInit, CooldownsHold, EventsAreCounted
<1>4. IncidentsAreTold /\ LedgerFits /\ LivenessSeen
  <2>1. minute # Unset
    BY <1>1, ClockTypes DEF AlertInit
  <2>2. /\ evaluator = NoEvaluator /\ evaluator.ran = Unset /\ ~evaluator.fired
        /\ evaluator.lastSentAt = Unset /\ calm
    BY NoEvaluatorType DEF AlertInit
  <2>3. IncidentsAreTold /\ LivenessSeen
    BY <2>1, <2>2 DEF IncidentsAreTold, LivenessSeen, CycleOver
  <2>4. LedgerFits
    BY <2>2, Zenon DEF LedgerFits
  <2> QED BY <2>3, <2>4
<1> QED BY <1>2, <1>3, <1>4 DEF WatchInv

\* The evaluator is replaced by none, or by one that starts.
LEMMA WatchEnds ==
  ASSUME WatchInv, NEW e, e = NoEvaluator \/ e = [NoEvaluator EXCEPT !.step = "starting"],
         evaluator' = e, calm' = TRUE \/ (calm' = calm /\ evaluator.step = "down"),
         UNCHANGED <<minute, world, told, began, hasty, measured, counted>>
  PROVE  WatchInv'
<1>1. e \in Cycles /\ e.ran = Unset /\ ~e.fired /\ e.lastSentAt = Unset
        /\ (e.step = "down" => e = NoEvaluator)
  BY NoEvaluatorType
<1>2. AlertTypeOK'
  BY <1>1 DEF WatchInv, AlertTypeOK, Cycles, world
<1>3. (CooldownsHold /\ EventsAreCounted /\ \A m \in measured : m <= minute)'
  BY DEF WatchInv, CooldownsHold, EventsAreCounted, world
<1>4. ~calm' => told = Unset
  BY NoEvaluatorType DEF WatchInv, LedgerFits
<1>5. (IncidentsAreTold /\ LedgerFits /\ LivenessSeen)'
  <2>1. minute' # Unset
    BY ClockTypes DEF WatchInv, AlertTypeOK
  <2> QED BY <1>1, <1>4, <2>1 DEF IncidentsAreTold, LedgerFits, LivenessSeen, CycleOver
<1> QED BY <1>2, <1>3, <1>5 DEF WatchInv

\* The world moves on; rows that are written are fresh.
LEMMA WorldMoves ==
  ASSUME WatchInv, UNCHANGED <<rule, minute, evaluator, histories>>,
         AlertTypeOK', counted \subseteq recorded',
         \A at \in recorded' \ recorded : at = minute,
         \A w \in Workers :
           worker'[w].row = "running" =>
             \/ worker'[w].beat = minute
             \/ worker[w].row = "running" /\ worker'[w].beat = worker[w].beat
  PROVE  WatchInv'
<1>1. CooldownsHold' /\ LedgerFits' /\ IncidentsAreTold' /\ (\A m \in measured : m <= minute)'
  BY DEF WatchInv, histories, CooldownsHold, LedgerFits, IncidentsAreTold, CycleOver, InCooldown
<1>2. minute \in Nat /\ StaleAfter \in Nat \ {0} /\ measured \subseteq Nat /\ recorded' \subseteq Nat
  BY ClockTypes DEF WatchInv, AlertTypeOK
<1>3. EventsAreCounted'
  <2> SUFFICES ASSUME NEW at \in recorded', NEW m \in measured,
                      at < m, m <= at + MetricWindow
               PROVE  at \in counted
    BY DEF EventsAreCounted, histories
  <2>1. at \in recorded
    BY <1>2 DEF WatchInv
  <2> QED BY <2>1 DEF WatchInv, EventsAreCounted
<1>4. LivenessSeen'
  <2> SUFFICES ASSUME LivenessSeen, NEW w \in Workers, worker'[w].row = "running",
                      evaluator.ran = minute, evaluator.isMeasured, ~evaluator.fired,
                      rule = "worker_heartbeat_stale"
               PROVE  minute - worker'[w].beat < StaleAfter
    BY DEF LivenessSeen, WatchInv
  <2>1. CASE worker'[w].beat = minute
    BY <1>2, <2>1
  <2>2. CASE worker[w].row = "running" /\ worker'[w].beat = worker[w].beat
    BY <2>2 DEF LivenessSeen
  <2> QED BY <2>1, <2>2
<1> QED BY <1>1, <1>3, <1>4 DEF WatchInv

LEMMA WorldSteps ==
  ASSUME WatchInv,
         JobIsDead \/ ReadinessTurns \/ (\E w \in Workers : Beats(w) \/ WorkerEnds(w))
  PROVE  WatchInv'
<1> USE DEF WatchInv
<1>1. CASE JobIsDead
  <2>1. AlertTypeOK'
    BY <1>1 DEF JobIsDead, AlertTypeOK, histories
  <2> QED BY <1>1, <2>1, WorldMoves DEF JobIsDead, AlertTypeOK
<1>2. CASE ReadinessTurns
  <2>1. AlertTypeOK'
    BY <1>2 DEF ReadinessTurns, AlertTypeOK, histories
  <2> QED BY <1>2, <2>1, WorldMoves DEF ReadinessTurns, AlertTypeOK
<1>3. ASSUME NEW w \in Workers, Beats(w) \/ WorkerEnds(w) PROVE WatchInv'
  <2>1. UNCHANGED <<rule, minute, recorded, ready, evaluator, histories>>
    BY <1>3 DEF Beats, WorkerEnds
  <2>2. PICK v : /\ worker' = [worker EXCEPT ![w] = v]
                 /\ \/ \E p \in {"up", "gone"}, r \in {"running", "stopped"} :
                          v = [process |-> p, beat |-> minute, row |-> r]
                    \/ \E p \in {"up", "gone"} : v = [worker[w] EXCEPT !.process = p]
    BY <1>3 DEF Beats, WorkerEnds
  <2>3. /\ v \in [process : {"unborn", "up", "gone"}, beat : Minutes,
                   row : {"absent", "running", "stopped"}]
        /\ v.beat = minute \/ (v.beat = worker[w].beat /\ v.row = worker[w].row)
    BY <2>2 DEF AlertTypeOK
  <2>4. AlertTypeOK'
    BY <2>1, <2>2, <2>3 DEF AlertTypeOK, histories
  <2>5. \A o \in Workers :
          worker'[o].row = "running" =>
             \/ worker'[o].beat = minute
             \/ worker[o].row = "running" /\ worker'[o].beat = worker[o].beat
    BY <2>2, <2>3 DEF AlertTypeOK
  <2> QED BY <2>1, <2>4, <2>5, WorldMoves DEF AlertTypeOK
<1> QED BY <1>1, <1>2, <1>3

LEMMA MinuteStep == ASSUME WatchInv, MinutePasses PROVE WatchInv'
<1>1. /\ minute \in Nat /\ minute' = minute + 1 /\ minute' \in Minutes /\ evaluator.ran # minute'
      /\ minute' # Unset
  <2>1. minute \in Nat /\ minute' = minute + 1 /\ minute' \in Minutes
    <3>1. minute \in Minutes /\ minute < LastMinute /\ minute' = minute + 1
      BY DEF WatchInv, AlertTypeOK, MinutePasses
    <3> QED BY <3>1, AlertAssumption DEF Minutes
  <2>2. minute' # Unset
    BY <2>1, ClockTypes DEF Minutes, Unset
  <2>3. ASSUME evaluator.step = "down" PROVE evaluator.ran # minute'
    <3>1. evaluator = NoEvaluator
      BY <2>3 DEF WatchInv, LedgerFits
    <3> QED BY <3>1, <2>2, NoEvaluatorType
  <2>4. ASSUME evaluator.ran = minute PROVE evaluator.ran # minute'
    BY <2>1, <2>4
  <2> QED BY <2>1, <2>2, <2>3, <2>4 DEF MinutePasses
<1>2. UNCHANGED <<rule, recorded, worker, ready, evaluator, told, began, calm, hasty, measured, counted>>
  BY DEF MinutePasses, world, histories
<1>3. AlertTypeOK' /\ CooldownsHold' /\ EventsAreCounted'
  BY <1>1, <1>2 DEF WatchInv, AlertTypeOK, CooldownsHold, EventsAreCounted
<1>4. IncidentsAreTold' /\ LivenessSeen'
  BY <1>1, <1>2 DEF IncidentsAreTold, LivenessSeen, CycleOver
<1>5. told \in Nat /\ began \in Nat /\ measured \subseteq Nat
  BY ClockTypes DEF WatchInv, AlertTypeOK
<1>6. LedgerFits' /\ (\A m \in measured : m <= minute)'
  BY <1>1, <1>2, <1>5 DEF WatchInv, LedgerFits
<1> QED BY <1>3, <1>4, <1>6 DEF WatchInv

\* A cycle that does not find the heartbeats stale has compared the oldest.
LEMMA OldestOfAll ==
  ASSUME WatchInv, ~Stale, NEW w \in LiveRows
  PROVE  minute - worker[w].beat < StaleAfter
<1> DEFINE beats == {worker[o].beat : o \in LiveRows}
<1>1. beats \subseteq Nat /\ worker[w].beat \in beats
  BY ClockTypes DEF WatchInv, AlertTypeOK, LiveRows
<1>2. \E n \in beats : \A m \in beats : n <= m
  BY <1>1, LeastNumber
<1> HIDE DEF beats
<1>3. Min(beats) \in beats /\ \A m \in beats : Min(beats) <= m
  BY <1>2 DEF Min
<1>4. PICK least \in Nat : least = Min(beats)
  BY <1>1, <1>3
<1>5. PICK beat \in Nat : beat = worker[w].beat
  BY <1>1
<1>6. least <= beat
  BY <1>1, <1>3, <1>4, <1>5
<1>7. ~ (minute - least >= StaleAfter)
  BY <1>4 DEF Stale, OldestBeat, beats
<1>8. minute \in Nat /\ StaleAfter \in Nat
  BY ClockTypes DEF WatchInv, AlertTypeOK
<1> HIDE DEF beats
<1>9. minute - beat < StaleAfter
  BY <1>6, <1>7, <1>8
<1> QED BY <1>5, <1>9

LEMMA RunCycleStep == ASSUME WatchInv, NEW b \in BOOLEAN, RunCycle(b) PROVE WatchInv'
<1> DEFINE fired == b /\ Breached
<1>1. PICK f \in BOOLEAN : f = fired
  BY DEF Breached
<1>2. PICK l : l = IF f THEN evaluator.lastSentAt ELSE Unset
  OBVIOUS
<1>3. /\ evaluator' = [evaluator EXCEPT !.step = "delivering", !.ran = minute,
                         !.isMeasured = b, !.fired = f, !.lastSentAt = l]
      /\ began' = IF f /\ ~evaluator.fired THEN minute ELSE began
      /\ calm' = (calm \/ ~f)
      /\ UNCHANGED <<minute, rule, recorded, worker, ready, told, hasty>>
  BY <1>1, <1>2 DEF RunCycle, LedgerAfter, world
<1>4. evaluator \in Cycles /\ minute \in Nat /\ minute \in Times /\ minute # Unset /\ l \in Times
  BY <1>2, ClockTypes DEF WatchInv, AlertTypeOK, Cycles
<1>5. /\ evaluator' \in Cycles /\ evaluator'.step = "delivering" /\ evaluator'.ran = minute
      /\ evaluator'.isMeasured = b /\ evaluator'.fired = f /\ evaluator'.lastSentAt = l
  BY <1>3, <1>4 DEF Cycles
<1>6. /\ measured' = IF b THEN measured \cup {minute} ELSE measured
      /\ counted' = IF b THEN counted \cup {at \in recorded : InWindow(at)} ELSE counted
  BY DEF RunCycle
<1>7. AlertTypeOK'
  <2>1. began' \in Times /\ calm' \in BOOLEAN
    BY <1>3, <1>4 DEF WatchInv, AlertTypeOK
  <2>2. measured' \subseteq Minutes /\ counted' \subseteq recorded
    BY <1>6 DEF WatchInv, AlertTypeOK
  <2> QED BY <1>3, <1>5, <2>1, <2>2 DEF WatchInv, AlertTypeOK, Cycles
<1>8. EventsAreCounted' /\ (\A m \in measured : m <= minute)'
  <2>1. \A m \in measured' : m <= minute
    BY <1>4, <1>6 DEF WatchInv
  <2>2. ASSUME NEW at \in recorded, NEW m \in measured', at < m, m <= at + MetricWindow
        PROVE  at \in counted'
    <3>1. CASE m \in measured
      BY <1>6, <2>2, <3>1 DEF WatchInv, EventsAreCounted
    <3>2. CASE b /\ m = minute
      BY <1>6, <2>2, <3>2, ClockTypes DEF InWindow, WatchInv, AlertTypeOK
    <3> QED BY <1>6, <3>1, <3>2
  <2> QED BY <1>3, <2>1, <2>2 DEF EventsAreCounted
<1>9. LedgerFits'
  <2>1. /\ began \in Nat /\ told \in Nat
        /\ l # Unset => f /\ evaluator.fired /\ told = l /\ began <= told /\ told <= minute
        /\ evaluator.fired => began <= minute
        /\ ~calm => told = evaluator.lastSentAt
    BY <1>2, ClockTypes DEF WatchInv, AlertTypeOK, LedgerFits
  <2>2. f => began' <= minute
    BY <1>3, <1>4, <2>1
  <2>3. ~calm' => told = l
    BY <1>2, <1>3, <2>1
  <2> QED BY <1>3, <1>5, <2>1, <2>2, <2>3 DEF LedgerFits
<1>10. LivenessSeen'
  <2> SUFFICES ASSUME b, ~f, rule = "worker_heartbeat_stale",
                      NEW w \in Workers, worker[w].row = "running"
               PROVE  minute - worker[w].beat < StaleAfter
    BY <1>3, <1>5 DEF LivenessSeen
  <2>1. ~Stale /\ w \in LiveRows
    BY <1>1 DEF Breached, LiveRows
  <2> QED BY <2>1, OldestOfAll
<1>11. CooldownsHold' /\ IncidentsAreTold'
  BY <1>3, <1>5 DEF WatchInv, CooldownsHold, IncidentsAreTold, CycleOver
<1> QED BY <1>3, <1>7, <1>8, <1>9, <1>10, <1>11 DEF WatchInv

LEMMA DeliverStep == ASSUME WatchInv, Deliver PROVE WatchInv'
<1> DEFINE sends == evaluator.fired /\ ~InCooldown(evaluator.lastSentAt)
<1>1. PICK l : l = IF sends THEN minute ELSE evaluator.lastSentAt
  OBVIOUS
<1>2. evaluator \in Cycles /\ minute \in Nat /\ minute \in Times /\ minute # Unset
        /\ told \in Nat /\ began \in Nat /\ Cooldown \in Nat \ {0}
  BY ClockTypes DEF WatchInv, AlertTypeOK, Cycles
<1>3. /\ evaluator' \in Cycles /\ evaluator'.step = "sleeping" /\ evaluator'.lastSentAt = l
      /\ evaluator'.ran = evaluator.ran /\ evaluator'.isMeasured = evaluator.isMeasured
      /\ evaluator'.fired = evaluator.fired
  BY <1>1, <1>2 DEF Deliver, Cycles
<1>4. UNCHANGED <<minute, rule, recorded, worker, ready, began, measured, counted>>
  BY DEF Deliver, world
<1>5. told' = (IF sends THEN minute ELSE told) /\ calm' = (IF sends THEN FALSE ELSE calm)
  BY DEF Deliver
<1>6. hasty' = FALSE
  <2>1. CASE sends
    <3>1. hasty' = (hasty \/ (InCooldown(told) /\ ~calm))
      BY <2>1 DEF Deliver
    <3>2. ~ (InCooldown(told) /\ ~calm)
      BY <2>1 DEF WatchInv, LedgerFits
    <3> QED BY <3>1, <3>2 DEF WatchInv, CooldownsHold, AlertTypeOK
  <2>2. CASE ~sends
    BY <2>2 DEF Deliver, WatchInv, CooldownsHold, AlertTypeOK
  <2> QED BY <2>1, <2>2
<1>7. AlertTypeOK'
  BY <1>2, <1>3, <1>4, <1>5, <1>6 DEF WatchInv, AlertTypeOK, Cycles
<1>8. CooldownsHold' /\ EventsAreCounted' /\ LivenessSeen' /\ (\A m \in measured : m <= minute)'
  BY <1>3, <1>4, <1>6 DEF WatchInv, CooldownsHold, EventsAreCounted, LivenessSeen
<1>9. LedgerFits' /\ IncidentsAreTold'
  <2>1. CASE sends
    <3>1. l = minute /\ told' = minute /\ began <= minute /\ InCooldown(minute)
      BY <1>1, <1>2, <1>5, <2>1 DEF WatchInv, LedgerFits, InCooldown
    <3> QED BY <1>2, <1>3, <1>4, <2>1, <3>1 DEF LedgerFits, IncidentsAreTold, CycleOver, InCooldown
  <2>2. CASE ~sends
    <3>1. l = evaluator.lastSentAt /\ told' = told /\ calm' = calm
      BY <1>1, <1>5, <2>2
    <3>2. evaluator.fired => InCooldown(l) /\ l # Unset
      BY <2>2, <3>1 DEF InCooldown
    <3>3. LedgerFits'
      BY <1>2, <1>3, <1>4, <3>1 DEF WatchInv, LedgerFits
    <3>4. evaluator.fired => told # Unset /\ told >= began /\ InCooldown(told)
      BY <1>2, <3>1, <3>2 DEF WatchInv, LedgerFits
    <3> QED BY <1>3, <1>4, <3>1, <3>3, <3>4 DEF IncidentsAreTold, CycleOver, InCooldown
  <2> QED BY <2>1, <2>2
<1> QED BY <1>7, <1>8, <1>9 DEF WatchInv

LEMMA StopStep == ASSUME WatchInv, StopEvaluator PROVE WatchInv'
<1>1. CASE evaluator.step = "sleeping"
  BY <1>1, WatchEnds DEF StopEvaluator
<1>2. CASE evaluator.step # "sleeping"
  <2>1. /\ evaluator' = [evaluator EXCEPT !.stopping = TRUE] /\ evaluator.step # "down"
        /\ UNCHANGED <<minute, rule, recorded, worker, ready, told, began, calm, hasty,
                       measured, counted>>
    BY <1>2 DEF StopEvaluator, world
  <2>2. evaluator \in Cycles
    BY DEF WatchInv, AlertTypeOK, Cycles
  <2>3. /\ evaluator' \in Cycles /\ evaluator'.step = evaluator.step
        /\ evaluator'.lastSentAt = evaluator.lastSentAt /\ evaluator'.ran = evaluator.ran
        /\ evaluator'.isMeasured = evaluator.isMeasured /\ evaluator'.fired = evaluator.fired
    BY <2>1, <2>2 DEF Cycles
  <2>4. AlertTypeOK'
    BY <2>1, <2>3 DEF WatchInv, AlertTypeOK, Cycles
  <2> QED BY <2>1, <2>3, <2>4
          DEF WatchInv, CooldownsHold, EventsAreCounted, LivenessSeen, LedgerFits,
              IncidentsAreTold, CycleOver, InCooldown
<1> QED BY <1>1, <1>2

LEMMA WatchStep == ASSUME WatchInv, [AlertNext]_alertVars PROVE WatchInv'
<1>1. CASE EvaluatorEnds
  BY <1>1, WatchEnds DEF EvaluatorEnds
<1>2. CASE EvaluatorStarts
  <2>1. evaluator' = [NoEvaluator EXCEPT !.step = "starting"] /\ evaluator.step = "down"
          /\ UNCHANGED <<minute, world, told, began, calm, hasty, measured, counted>>
    BY <1>2 DEF EvaluatorStarts, histories
  <2> QED BY <2>1, WatchEnds
<1>3. CASE UNCHANGED alertVars
  <2>1. UNCHANGED <<rule, minute, recorded, worker, ready, evaluator, histories>>
    BY <1>3 DEF alertVars, histories
  <2>2. AlertTypeOK' /\ counted \subseteq recorded'
    BY <2>1 DEF WatchInv, AlertTypeOK, histories
  <2> QED BY <2>1, <2>2, WorldMoves
<1> QED BY <1>1, <1>2, <1>3, WorldSteps, MinuteStep, RunCycleStep, DeliverStep, StopStep
        DEF AlertNext, Measurable

(* Cooldowns hold, an incident that was seen has been told, an event that  *)
(* could be read in its window is counted, and no silent worker is hidden  *)
(* by a healthy one: however cycles fail, and restarts come, for any       *)
(* number of workers, any window, threshold and cooldown.                  *)
THEOREM AlertsAreDelivered == AlertSpec => []AlertInv
<1>1. WatchInv /\ [AlertNext]_alertVars => WatchInv'
  BY WatchStep
<1>2. WatchInv => AlertInv
  <2> SUFFICES ASSUME WatchInv PROVE SilenceIsSeen
    BY DEF WatchInv, AlertInv
  <2> QED BY DEF WatchInv, LivenessSeen, SilenceIsSeen, CycleOver
<1> QED BY <1>1, <1>2, WatchStart, PTL DEF AlertSpec

-----------------------------------------------------------------------------
-----------------------------------------------------------------------------
(* The corpus importer.  A plan that would reserve a share of its extract  *)
(* still does when it is written, whatever was written in between.         *)
Suffices(ids, heldOut) ==
  Cardinality(ids) >= MinForReserve => Cardinality(heldOut) >= Target(Cardinality(ids))

PlanFits(planned) == planned.heldOut \subseteq planned.extract /\ Suffices(planned.extract, planned.heldOut)

(* The inductive invariant.                                                *)
CorpusBooks ==
  /\ CorpusTypeOK /\ ReserveStands /\ DrawnFromPractice /\ EvidenceStays
  /\ Suffices(InBank, Reserved)
  /\ \A i \in Importers : import[i].step = "planned" => PlanFits(import[i])

LEMMA FiniteQuestions ==
  ASSUME NEW ids, ids \subseteq Questions
  PROVE  IsFiniteSet(ids) /\ Cardinality(ids) \in Nat
BY CorpusAssumption, FS_Subset, FS_CardinalityType

\* A share of a total is at most the total.
LEMMA ShareOfTotal ==
  ASSUME NEW total \in Nat
  PROVE  Target(total) \in Nat /\ Target(total) <= total
<1>1. ShareOf \in Nat \ {0} /\ ShareTop \in Nat /\ ShareTop <= ShareOf
  BY CorpusAssumption
<1>2. total * ShareTop \in Nat /\ total * ShareOf \in Nat /\ total * ShareTop <= total * ShareOf
  BY <1>1
<1>3. PICK part \in Nat, sum \in Nat : part = total * ShareTop /\ sum = total * ShareOf /\ part <= sum
  BY <1>2
<1>4. (part + ShareOf - 1) \in Nat /\ part + ShareOf - 1 < sum + ShareOf
  BY <1>1, <1>3
<1>5. sum + ShareOf = (total + 1) * ShareOf
  BY <1>1, <1>3
<1>6. ASSUME NEW m \in Nat, NEW d \in Nat \ {0}, m < (total + 1) * d
      PROVE  m \div d \in Nat /\ m \div d <= total
  <2>1. m \div d \in Nat /\ m % d \in 0 .. d - 1 /\ m = d * (m \div d) + (m % d)
    OBVIOUS
  <2>2. PICK q \in Nat, r \in Nat : q = m \div d /\ m = d * q + r
    BY <2>1
  <2>3. ASSUME q > total PROVE FALSE
    <3>1. d * q >= d * (total + 1)
      BY <2>2, <2>3
    <3> QED BY <1>6, <2>2, <3>1
  <2> QED BY <2>2, <2>3
<1> QED BY <1>1, <1>3, <1>4, <1>5, <1>6 DEF Target

\* The ids that stand behind one in the order.
Above(q, ids) == {p \in ids : p > q}

LEMMA RankOf ==
  ASSUME NEW ids, ids \subseteq Nat, IsFiniteSet(ids)
  PROVE  /\ Cardinality(ids) \in Nat
         /\ \A q : Above(q, ids) \subseteq ids /\ IsFiniteSet(Above(q, ids))
                   /\ Cardinality(Above(q, ids)) \in Nat
         /\ \A q, p \in ids : p > q => Cardinality(Above(p, ids)) < Cardinality(Above(q, ids))
         /\ \A n : /\ LastOf(n, ids) \subseteq ids /\ IsFiniteSet(LastOf(n, ids))
                   /\ Cardinality(LastOf(n, ids)) \in Nat
         /\ \A n, q : q \in LastOf(n, ids) <=> q \in ids /\ Cardinality(Above(q, ids)) < n
<1>1. \A q : Above(q, ids) \subseteq ids
  BY DEF Above
<1>2. \A n, q : q \in LastOf(n, ids) <=> q \in ids /\ Cardinality(Above(q, ids)) < n
  BY DEF LastOf, Above
<1>3. \A q : IsFiniteSet(Above(q, ids)) /\ Cardinality(Above(q, ids)) \in Nat
  BY <1>1, FS_Subset, FS_CardinalityType
<1>4. ASSUME NEW q \in ids, NEW p \in ids, p > q
      PROVE  Cardinality(Above(p, ids)) < Cardinality(Above(q, ids))
  <2>1. Above(p, ids) \subseteq Above(q, ids) /\ p \in Above(q, ids) /\ p \notin Above(p, ids)
    <3>1. \A o \in ids : o > p => o > q
      BY <1>4
    <3>2. ~ (p > p)
      BY <1>4
    <3> QED BY <1>4, <3>1, <3>2 DEF Above
  <2>2. /\ Cardinality(Above(p, ids)) <= Cardinality(Above(q, ids))
        /\ Cardinality(Above(p, ids)) # Cardinality(Above(q, ids))
    BY <1>3, <2>1, FS_Subset
  <2> QED BY <1>3, <2>2
<1>5. \A n : LastOf(n, ids) \subseteq ids
  BY <1>2
<1> QED BY <1>1, <1>2, <1>3, <1>4, <1>5, FS_Subset, FS_CardinalityType

\* As many are taken from the end as are asked for.
LEMMA LastOfSize ==
  ASSUME NEW ids, ids \subseteq Nat, IsFiniteSet(ids)
  PROVE  \A n \in 0 .. Cardinality(ids) : n <= Cardinality(LastOf(n, ids))
<1> DEFINE Taken(n) == LastOf(n, ids)
           Short == {n \in 0 .. Cardinality(ids) : ~ (n <= Cardinality(Taken(n)))}
<1>1. Cardinality(ids) \in Nat /\ \A n : Cardinality(Taken(n)) \in Nat /\ IsFiniteSet(Taken(n)) /\ Taken(n) \subseteq ids
  BY RankOf
<1> HIDE DEF Taken
<1> SUFFICES ASSUME Short # {} PROVE FALSE
  BY DEF Taken
<1>2. PICK n \in Short : \A m \in Short : n <= m
  <2>1. Short \subseteq Nat
    BY <1>1
  <2> HIDE DEF Short
  <2> QED BY <2>1, LeastNumber
<1>3. /\ n \in Nat /\ n <= Cardinality(ids) /\ Cardinality(Taken(n)) < n
      /\ \A m \in 0 .. Cardinality(ids) : m < n => m <= Cardinality(Taken(m))
  BY <1>1, <1>2
<1> HIDE DEF Short
<1>4. PICK m \in Nat : n = m + 1 /\ m \in 0 .. Cardinality(ids)
  <2>1. n # 0
    BY <1>1, <1>3
  <2>2. n - 1 \in Nat /\ n = (n - 1) + 1 /\ n - 1 \in 0 .. Cardinality(ids)
    BY <1>1, <1>3, <2>1
  <2> QED BY <2>2
<1>5. Taken(m) \subseteq Taken(n)
  <2>1. \A k \in Nat : k < m => k < n
    BY <1>4
  <2> QED BY <2>1, RankOf DEF Taken
<1>6. Cardinality(Taken(m)) = m
  <2>1. Cardinality(Taken(m)) <= Cardinality(Taken(n))
    BY <1>1, <1>5, FS_Subset
  <2>2. m <= Cardinality(Taken(m))
    BY <1>3, <1>4
  <2> QED BY <1>1, <1>3, <1>4, <2>1, <2>2
<1> DEFINE left == ids \ Taken(m)
           ranks == {Cardinality(Above(q, ids)) : q \in left}
<1>7. left # {}
  <2>1. Cardinality(Taken(m)) # Cardinality(ids)
    BY <1>1, <1>3, <1>4, <1>6
  <2> QED BY <1>1, <2>1
<1>8. PICK k \in ranks : \A r \in ranks : k <= r
  <2>1. ranks \subseteq Nat /\ ranks # {}
    <3>1. \A q : Cardinality(Above(q, ids)) \in Nat
      BY RankOf
    <3> HIDE DEF left
    <3> QED BY <1>7, <3>1
  <2> HIDE DEF ranks
  <2> QED BY <2>1, LeastNumber
<1>9. PICK q \in left : k = Cardinality(Above(q, ids))
  BY <1>8
<1>10. Above(q, ids) \subseteq Taken(m)
  <2> SUFFICES ASSUME NEW p \in left, p > q PROVE FALSE
    BY DEF Above
  <2>1. Cardinality(Above(p, ids)) < Cardinality(Above(q, ids))
    BY <1>9, RankOf
  <2>2. Cardinality(Above(q, ids)) <= Cardinality(Above(p, ids))
    BY <1>8, <1>9
  <2>3. Cardinality(Above(q, ids)) \in Nat /\ Cardinality(Above(p, ids)) \in Nat
    BY RankOf
  <2> QED BY <2>1, <2>2, <2>3
<1>11. Cardinality(Above(q, ids)) < n
  <2>1. Cardinality(Above(q, ids)) <= m
    BY <1>1, <1>6, <1>10, FS_Subset
  <2>2. Cardinality(Above(q, ids)) \in Nat
    BY RankOf
  <2> QED BY <1>4, <2>1, <2>2
<1>12. q \in Taken(n) /\ q \notin Taken(m)
  BY <1>9, <1>11, RankOf DEF Taken
<1>13. Cardinality(Taken(m) \cup {q}) = n
  BY <1>1, <1>4, <1>6, <1>12, FS_AddElement
<1>14. Cardinality(Taken(m) \cup {q}) <= Cardinality(Taken(n))
  BY <1>1, <1>5, <1>12, FS_Subset
<1> QED BY <1>1, <1>3, <1>13, <1>14

\* A reserve that was chosen has its share.
LEMMA ReserveSuffices ==
  ASSUME NEW ids, ids \subseteq Questions, NEW before, before \subseteq Questions
  PROVE  /\ ChooseReserve(ids, before) \subseteq ids
         /\ Suffices(ids, ChooseReserve(ids, before))
<1> DEFINE kept == ids \cap before
           open == ids \ kept
<1>1. /\ kept \subseteq ids /\ kept \subseteq Questions /\ open \subseteq Questions /\ open \subseteq Nat
      /\ kept \cap open = {} /\ ids \cap kept = kept
  BY CorpusAssumption
<1>2. /\ IsFiniteSet(ids) /\ IsFiniteSet(kept) /\ IsFiniteSet(open)
      /\ Cardinality(ids) \in Nat /\ Cardinality(kept) \in Nat /\ Cardinality(open) \in Nat
  BY <1>1, FiniteQuestions
<1>3. Cardinality(open) = Cardinality(ids) - Cardinality(kept)
  BY <1>1, <1>2, FS_Difference
<1>4. Target(Cardinality(ids)) \in Nat /\ Target(Cardinality(ids)) <= Cardinality(ids)
  BY <1>2, ShareOfTotal
<1>5. PICK short : short = Shortfall(ids, kept)
  OBVIOUS
<1>6. /\ short \in 0 .. Cardinality(open)
      /\ Target(Cardinality(ids)) <= Cardinality(kept) + short
  BY <1>2, <1>3, <1>4, <1>5 DEF Shortfall
<1>7. /\ short <= Cardinality(LastOf(short, open)) /\ LastOf(short, open) \subseteq open
      /\ IsFiniteSet(LastOf(short, open)) /\ Cardinality(LastOf(short, open)) \in Nat
  BY <1>1, <1>2, <1>6, LastOfSize, RankOf
<1>8. Cardinality(kept \cup LastOf(short, open)) = Cardinality(kept) + Cardinality(LastOf(short, open))
  <2>1. kept \cap LastOf(short, open) = {}
    BY <1>1, <1>7
  <2>2. PICK new : new = LastOf(short, open)
    OBVIOUS
  <2> HIDE DEF kept, open
  <2>3. Cardinality(kept \cup new) = Cardinality(kept) + Cardinality(new) - Cardinality(kept \cap new)
    BY <1>2, <1>7, <2>2, FS_Union
  <2>4. Cardinality(kept \cap new) = 0 /\ Cardinality(kept) \in Nat /\ Cardinality(new) \in Nat
    BY <1>2, <1>7, <2>1, <2>2, FS_EmptySet
  <2>5. PICK size \in Nat, more \in Nat : size = Cardinality(kept) /\ more = Cardinality(new)
    BY <2>4
  <2> QED BY <2>2, <2>3, <2>4, <2>5
<1>9. ChooseReserve(ids, before) =
        IF Cardinality(ids) < MinForReserve THEN kept ELSE kept \cup LastOf(short, open)
  BY <1>5 DEF ChooseReserve
<1>10. ~ (Cardinality(ids) < MinForReserve) => Target(Cardinality(ids)) <= Cardinality(ChooseReserve(ids, before))
  <2> HIDE DEF kept, open
  <2> QED BY <1>2, <1>4, <1>6, <1>7, <1>8, <1>9
<1>11. ChooseReserve(ids, before) \subseteq ids
  BY <1>1, <1>7, <1>9
<1>12. MinForReserve \in Nat /\ Cardinality(ChooseReserve(ids, before)) \in Nat
  <2>1. ChooseReserve(ids, before) \subseteq Questions
    BY <1>11
  <2> QED BY <2>1, CorpusAssumption, FiniteQuestions
<1> QED BY <1>2, <1>4, <1>10, <1>11, <1>12 DEF Suffices

-----------------------------------------------------------------------------
LEMMA CorpusStart == CorpusInit => CorpusBooks
<1> SUFFICES ASSUME CorpusInit PROVE CorpusBooks
  OBVIOUS
<1>1. InBank = {} /\ Reserved = {}
  BY DEF CorpusInit, InBank, Reserved
<1>2. CorpusTypeOK
  BY CorpusAssumption DEF CorpusInit, CorpusTypeOK, NoPlan, NoSitting
<1>3. Suffices(InBank, Reserved)
  <2>1. Target(0) = 0
    BY ShareOfTotal
  <2> QED BY <1>1, <2>1, FS_EmptySet DEF Suffices
<1> QED BY <1>1, <1>2, <1>3
        DEF CorpusBooks, ReserveStands, DrawnFromPractice, EvidenceStays, CorpusInit, NoPlan, NoSitting

LEMMA PlanStep ==
  ASSUME CorpusBooks, NEW i \in Importers, NEW extract \in SUBSET Questions, PlanImport(i, extract)
  PROVE  CorpusBooks'
<1> DEFINE planned == [step |-> "planned", extract |-> extract, heldOut |-> ChooseReserve(extract, Reserved)]
<1>1. UNCHANGED <<bank, sitting, responses, marked, sittings>>
  BY DEF PlanImport
<1>2. /\ ChooseReserve(extract, Reserved) \subseteq extract
      /\ Suffices(extract, ChooseReserve(extract, Reserved))
  BY ReserveSuffices DEF Reserved
<1>3. import' = [import EXCEPT ![i] = planned]
  BY DEF PlanImport
<1>4. /\ planned.step = "planned" /\ PlanFits(planned)
      /\ planned \in [step : {"idle", "planned"}, extract : SUBSET Questions, heldOut : SUBSET Questions]
  BY <1>2 DEF PlanFits
<1> HIDE DEF planned
<1>5. imports' \in 0 .. MaxImports
  BY CorpusAssumption DEF CorpusBooks, CorpusTypeOK, PlanImport
<1>6. CorpusTypeOK'
  BY <1>1, <1>3, <1>4, <1>5 DEF CorpusBooks, CorpusTypeOK
<1>7. \A o \in Importers : import'[o].step = "planned" => PlanFits(import'[o])
  BY <1>3, <1>4 DEF CorpusBooks, CorpusTypeOK
<1> QED BY <1>1, <1>6, <1>7
        DEF CorpusBooks, ReserveStands, DrawnFromPractice, EvidenceStays, InBank, Reserved, Practice

LEMMA WriteStep ==
  ASSUME CorpusBooks, NEW i \in Importers, WriteImport(i)
  PROVE  CorpusBooks'
<1> DEFINE ImportPlans == [step : {"idle", "planned"}, extract : SUBSET Questions, heldOut : SUBSET Questions]
<1>1. PICK planned \in ImportPlans : planned = import[i]
  BY DEF CorpusBooks, CorpusTypeOK
<1>2. /\ planned.extract \subseteq Questions /\ planned.heldOut \subseteq Questions /\ PlanFits(planned)
  BY <1>1 DEF CorpusBooks, WriteImport
<1>3. /\ import' \in [Importers -> ImportPlans]
      /\ \A o \in Importers : import'[o].step = "planned" => PlanFits(import'[o])
  <2>1. NoPlan \in ImportPlans /\ NoPlan.step # "planned"
    BY DEF NoPlan
  <2>2. import \in [Importers -> ImportPlans] /\ import' = [import EXCEPT ![i] = NoPlan]
    BY DEF CorpusBooks, CorpusTypeOK, WriteImport
  <2> HIDE DEF ImportPlans
  <2> QED BY <2>1, <2>2 DEF CorpusBooks
<1>4. CASE ~ (responses \subseteq planned.extract)
  <2>1. UNCHANGED <<bank, marked, sitting, responses, imports, sittings>>
    BY <1>1, <1>4 DEF WriteImport
  <2>2. CorpusTypeOK'
    BY <1>3, <2>1 DEF CorpusBooks, CorpusTypeOK
  <2> QED BY <1>3, <2>1, <2>2
          DEF CorpusBooks, ReserveStands, DrawnFromPractice, EvidenceStays, InBank, Reserved, Practice
<1>5. CASE responses \subseteq planned.extract
  <2> DEFINE after == Written(planned.extract, planned.heldOut)
             changed == sitting.changed \cup {q \in sitting.drawn : after[q] # "practice"}
  <2>1. /\ bank' = after
        /\ marked' = (marked \cap planned.extract) \cup {q \in Questions : after[q] = "reserved"}
        /\ sitting' = [sitting EXCEPT !.changed = changed]
        /\ UNCHANGED <<responses, imports, sittings>>
    BY <1>1, <1>5 DEF WriteImport
  <2>2. /\ after \in [Questions -> {"absent", "practice", "reserved"}]
        /\ \A q \in Questions : after[q] # "absent" <=> q \in planned.extract
        /\ \A q \in Questions : after[q] = "reserved" <=>
             q \in planned.extract /\ (bank[q] = "reserved" \/ q \in planned.heldOut)
    BY DEF Written, PoolAfter
  <2> HIDE DEF after
  <2>3. InBank' = planned.extract
    BY <1>2, <2>1, <2>2 DEF InBank
  <2>4. Reserved' = {q \in Questions : after[q] = "reserved"} /\ planned.heldOut \subseteq Reserved'
    BY <1>2, <2>1, <2>2 DEF Reserved, PlanFits
  <2>5. Suffices(InBank', Reserved')
    <3>1. Cardinality(planned.heldOut) <= Cardinality(Reserved')
      BY <2>4, FiniteQuestions, FS_Subset
    <3>2. /\ Cardinality(planned.heldOut) \in Nat /\ Cardinality(Reserved') \in Nat
          /\ Cardinality(planned.extract) \in Nat
      BY <1>2, <2>4, FiniteQuestions
    <3>3. Target(Cardinality(planned.extract)) \in Nat
      BY <3>2, ShareOfTotal
    <3>4. Suffices(planned.extract, planned.heldOut)
      BY <1>2 DEF PlanFits
    <3> QED BY <2>3, <3>1, <3>2, <3>3, <3>4 DEF Suffices
  <2>6. ReserveStands'
    <3>1. \A q \in marked \cap planned.extract : after[q] = "reserved"
      BY <2>2 DEF CorpusBooks, ReserveStands, Reserved
    <3> QED BY <2>1, <2>4, <3>1 DEF ReserveStands, CorpusBooks, CorpusTypeOK
  <2>7. sitting.drawn \subseteq Questions /\ changed \subseteq Questions
    BY DEF CorpusBooks, CorpusTypeOK
  <2>8. sitting'.drawn = sitting.drawn /\ sitting'.changed = changed
    BY <2>1 DEF CorpusBooks, CorpusTypeOK
  <2>9. DrawnFromPractice'
    <3>1. Practice' = {q \in Questions : after[q] = "practice"}
      BY <2>1 DEF Practice
    <3> QED BY <2>7, <2>8, <3>1 DEF DrawnFromPractice
  <2>10. EvidenceStays'
    BY <1>5, <2>1, <2>3 DEF EvidenceStays
  <2>11. CorpusTypeOK'
    <3>1. marked' \subseteq Questions
      BY <2>1 DEF CorpusBooks, CorpusTypeOK
    <3>2. sitting' \in [step : {"none", "drawn", "open"}, drawn : SUBSET Questions,
                        answered : SUBSET Questions, changed : SUBSET Questions]
      BY <2>1, <2>7 DEF CorpusBooks, CorpusTypeOK
    <3> QED BY <1>3, <2>1, <2>2, <3>1, <3>2 DEF CorpusBooks, CorpusTypeOK
  <2>12. Suffices(InBank, Reserved)'
    BY <2>5 DEF Suffices
  <2> QED BY <1>3, <2>6, <2>9, <2>10, <2>11, <2>12 DEF CorpusBooks
<1> QED BY <1>4, <1>5

LEMMA PracticeSteps ==
  ASSUME CorpusBooks,
         \/ \E i \in Importers : ImporterDies(i)
         \/ \E questions \in FoundQuestions : DrawQuestions(questions)
         \/ OpenSession \/ SubmitAnswers
         \/ \E q \in Questions : AnswerQuestion(q)
         \/ UNCHANGED corpusVars
  PROVE  CorpusBooks'
<1> DEFINE ImportPlans == [step : {"idle", "planned"}, extract : SUBSET Questions, heldOut : SUBSET Questions]
           Sittings == [step : {"none", "drawn", "open"}, drawn : SUBSET Questions,
                        answered : SUBSET Questions, changed : SUBSET Questions]
<1>1. UNCHANGED <<bank, marked, imports>>
  BY DEF ImporterDies, DrawQuestions, OpenSession, SubmitAnswers, AnswerQuestion, corpusVars
<1>2. /\ import' \in [Importers -> ImportPlans]
      /\ \A o \in Importers : import'[o].step = "planned" => PlanFits(import'[o])
  <2>1. import \in [Importers -> ImportPlans]
    BY DEF CorpusBooks, CorpusTypeOK
  <2>2. CASE import' = import
    BY <2>1, <2>2 DEF CorpusBooks
  <2>3. CASE \E i \in Importers : ImporterDies(i)
    <3>1. PICK i \in Importers : import' = [import EXCEPT ![i] = NoPlan]
      BY <2>3 DEF ImporterDies
    <3>2. NoPlan \in ImportPlans /\ NoPlan.step # "planned"
      BY DEF NoPlan
    <3> HIDE DEF ImportPlans
    <3> QED BY <2>1, <3>1, <3>2 DEF CorpusBooks
  <2> QED BY <2>2, <2>3 DEF DrawQuestions, OpenSession, SubmitAnswers, AnswerQuestion, corpusVars
<1>3. sitting \in Sittings /\ sittings \in 0 .. MaxSittings /\ responses \subseteq Questions
  BY DEF CorpusBooks, CorpusTypeOK
<1>4. /\ sitting' \in Sittings /\ sittings' \in 0 .. MaxSittings
      /\ sitting'.drawn \subseteq Practice \cup sitting'.changed
      /\ responses' \subseteq InBank
  <2>1. CASE UNCHANGED <<sitting, sittings, responses>>
    BY <1>3, <2>1 DEF CorpusBooks, DrawnFromPractice, EvidenceStays
  <2>2. ASSUME NEW questions \in FoundQuestions, DrawQuestions(questions)
        PROVE  /\ sitting' \in Sittings /\ sittings' \in 0 .. MaxSittings
               /\ sitting'.drawn \subseteq Practice \cup sitting'.changed
               /\ responses' \subseteq InBank
    <3>1. questions \subseteq Practice /\ questions \subseteq Questions
      BY DEF FoundQuestions, Practice
    <3>2. sitting' = [step |-> "drawn", drawn |-> questions, answered |-> {}, changed |-> {}] /\ responses' = responses
      BY <2>2 DEF DrawQuestions
    <3>3. sittings' \in 0 .. MaxSittings
      BY <1>3, <2>2, CorpusAssumption DEF DrawQuestions
    <3>4. sitting' \in Sittings /\ sitting'.drawn = questions
      BY <3>1, <3>2
    <3>5. responses' \subseteq InBank
      BY <3>2 DEF CorpusBooks, EvidenceStays
    <3> HIDE DEF Sittings
    <3> QED BY <3>1, <3>3, <3>4, <3>5
  <2>3. CASE OpenSession
    BY <1>3, <2>3 DEF OpenSession, CorpusBooks, DrawnFromPractice, EvidenceStays
  <2>4. CASE SubmitAnswers
    BY <1>3, <2>4 DEF SubmitAnswers, NoSitting, CorpusBooks, EvidenceStays
  <2>5. CASE \E q \in Questions : AnswerQuestion(q)
    BY <1>3, <2>5 DEF AnswerQuestion, CorpusBooks, DrawnFromPractice, EvidenceStays
  <2> QED BY <2>1, <2>2, <2>3, <2>4, <2>5 DEF ImporterDies, corpusVars
<1>5. CorpusTypeOK'
  <2>1. InBank \subseteq Questions
    BY DEF InBank
  <2> QED BY <1>1, <1>2, <1>4, <2>1 DEF CorpusBooks, CorpusTypeOK
<1>6. InBank' = InBank /\ Reserved' = Reserved /\ Practice' = Practice
  BY <1>1 DEF InBank, Reserved, Practice
<1>7. DrawnFromPractice' /\ EvidenceStays' /\ ReserveStands' /\ Suffices(InBank, Reserved)'
  BY <1>1, <1>4, <1>6 DEF CorpusBooks, DrawnFromPractice, EvidenceStays, ReserveStands, Suffices
<1> QED BY <1>2, <1>5, <1>7 DEF CorpusBooks

LEMMA CorpusStep == CorpusBooks /\ [CorpusNext]_corpusVars => CorpusBooks'
<1> SUFFICES ASSUME CorpusBooks, [CorpusNext]_corpusVars PROVE CorpusBooks'
  OBVIOUS
<1>1. ASSUME NEW i \in Importers, NEW extract \in SUBSET Questions, PlanImport(i, extract)
      PROVE  CorpusBooks'
  BY <1>1, PlanStep
<1>2. ASSUME NEW i \in Importers, WriteImport(i) PROVE CorpusBooks'
  BY <1>2, WriteStep
<1> QED BY <1>1, <1>2, PracticeSteps DEF CorpusNext

\* What suffices is not added to.
LEMMA CorpusEnds == CorpusBooks => CorpusInv
<1> SUFFICES ASSUME CorpusBooks PROVE ReserveIsFull
  BY DEF CorpusBooks, CorpusInv
<1>1. Reserved \subseteq InBank /\ InBank \subseteq Questions
  BY DEF Reserved, InBank
<1>2. /\ Cardinality(InBank) \in Nat /\ Cardinality(Reserved) \in Nat /\ MinForReserve \in Nat
      /\ InBank \cap Reserved = Reserved
  BY <1>1, FiniteQuestions, CorpusAssumption
<1>3. Suffices(InBank, Reserved)
  BY DEF CorpusBooks
<1>4. ChooseReserve(InBank, Reserved) = Reserved
  <2>1. CASE Cardinality(InBank) < MinForReserve
    BY <1>2, <2>1 DEF ChooseReserve
  <2>2. CASE ~ (Cardinality(InBank) < MinForReserve)
    <3>1. Shortfall(InBank, Reserved) = 0
      <4>1. Target(Cardinality(InBank)) \in Nat
        BY <1>2, ShareOfTotal
      <4>2. Target(Cardinality(InBank)) <= Cardinality(Reserved)
        BY <1>2, <1>3, <2>2, <4>1 DEF Suffices
      <4>3. ~ (Target(Cardinality(InBank)) > Cardinality(Reserved))
        BY <1>2, <4>1, <4>2
      <4> QED BY <4>3 DEF Shortfall
    <3>2. LastOf(0, InBank \ Reserved) = {}
      <4>1. InBank \ Reserved \subseteq Nat /\ IsFiniteSet(InBank \ Reserved)
        BY <1>1, FiniteQuestions, CorpusAssumption
      <4>2. \A q : Cardinality(Above(q, InBank \ Reserved)) \in Nat
        BY <4>1, RankOf
      <4>3. \A q : q \notin LastOf(0, InBank \ Reserved)
        BY <4>1, <4>2, RankOf
      <4> QED BY <4>3
    <3> QED BY <1>2, <2>2, <3>1, <3>2 DEF ChooseReserve
  <2> QED BY <2>1, <2>2
<1> QED BY <1>3, <1>4 DEF ReserveIsFull, Suffices

(* For any questions, importers and share: whatever order imports are      *)
(* written in, the bank has its reserve, a reserved question stays one,    *)
(* and what has been answered stays in the bank.                           *)
THEOREM ReserveIsKept == CorpusSpec => []CorpusInv
<1>1. CorpusInit => CorpusBooks
  BY CorpusStart
<1>2. CorpusBooks /\ [CorpusNext]_corpusVars => CorpusBooks'
  BY CorpusStep
<1>3. CorpusBooks => CorpusInv
  BY CorpusEnds
<1> QED BY <1>1, <1>2, <1>3, PTL DEF CorpusSpec

-----------------------------------------------------------------------------
(***************************************************************************)
(* The walk over the chapters.                                             *)
(***************************************************************************)
\* The chapters that chapter c's frame has gone on from.
Taken(c) == Projected(nodes, c) \ remaining[c]

\* The next frame was opened for a prerequisite of the one before it.
FramesFit ==
  /\ IsInjective(walking)
  /\ \A i \in 1 .. Len(walking) - 1 : walking[i + 1] \in Projected(nodes, walking[i])
  /\ walking # <<>> => walking[1] \in asked

\* Colours tell where a chapter stands.
ColoursFit ==
  \A c \in Chapters :
    /\ colour[c] = "grey" <=> \E i \in DOMAIN walking : walking[i] = c
    /\ colour[c] = "black" <=> \E i \in DOMAIN path : path[i] = c

\* What a frame has gone on from is done, or it is the next frame.
TakenIsDone ==
  \A c \in Chapters :
    /\ remaining[c] \subseteq Projected(nodes, c)
    /\ colour[c] = "white" => remaining[c] = Projected(nodes, c)
    /\ answer # "cycle" => \A d \in Taken(c) :
         \/ colour[d] = "black"
         \/ \E i \in 1 .. Len(walking) - 1 : walking[i] = c /\ walking[i + 1] = d

WalkBooks ==
  /\ GraphTypeOK /\ FramesFit /\ ColoursFit /\ TakenIsDone
  /\ PathInOrder /\ PathIsComplete /\ CycleIsReal

\* An iterator gives a chapter that it has left.
LEMMA LeastOfSet == ASSUME NEW S, S \subseteq Chapters, S # {} PROVE Least(S) \in S
  BY LeastNumber, GraphAssumption DEF Least

\* The projection gives the chapters that come before.
LEMMA ProjectedComesBefore ==
  ASSUME NEW c \in Chapters, GraphTypeOK
  PROVE  /\ Projected(nodes, c) \subseteq Chapters
         /\ \A d \in Chapters : d \in Projected(nodes, c) <=> Before(d, c)
<1>1. PICK D \in SUBSET Concepts : nodes \in [D -> Node]
  BY DEF GraphTypeOK, Graphs
<1>2. \A p \in D : nodes[p].chapter \in Chapters
  BY <1>1 DEF Node
<1> QED BY <1>1, <1>2 DEF Projected, Before

LEMMA FrontFacts ==
  ASSUME NEW s \in Seq(Chapters), s # <<>>
  PROVE  /\ Len(s) \in Nat /\ Len(s) >= 1
         /\ Last(s) = s[Len(s)] /\ Last(s) \in Chapters
         /\ Front(s) \in Seq(Chapters) /\ Len(Front(s)) = Len(s) - 1
         /\ \A i \in 1 .. Len(s) - 1 : Front(s)[i] = s[i]
<1>1. Len(s) \in Nat /\ Len(s) >= 1
  BY EmptySeq
<1>2. /\ SubSeq(s, 1, Len(s) - 1) \in Seq(Chapters)
      /\ Len(SubSeq(s, 1, Len(s) - 1)) = Len(s) - 1
      /\ \A i \in 1 .. Len(s) - 1 : SubSeq(s, 1, Len(s) - 1)[i] = s[i]
  <2>2. \A i \in 1 .. Len(s) - 1 : 1 + i - 1 = i
    BY <1>1
  <2>3. \A i \in 1 .. Len(s) - 1 : s[i] \in Chapters
    BY <1>1
  <2>4. PICK n \in Int : n = Len(s) - 1 /\ n >= 0
    BY <1>1
  <2>5. /\ SubSeq(s, 1, n) \in Seq(Chapters)
        /\ Len(SubSeq(s, 1, n)) = IF 1 <= n THEN n - 1 + 1 ELSE 0
        /\ \A i \in 1 .. n - 1 + 1 : SubSeq(s, 1, n)[i] = s[1 + i - 1]
    BY <2>3, <2>4, SubSeqProperties
  <2>6. (IF 1 <= n THEN n - 1 + 1 ELSE 0) = n /\ n - 1 + 1 = n
    BY <2>4
  <2> QED BY <2>2, <2>4, <2>5, <2>6
<1>3. s[Len(s)] \in Chapters
  BY <1>1
<1> QED BY <1>1, <1>2, <1>3 DEF Front, Last

LEMMA RangeOfConcat ==
  ASSUME NEW s \in Seq(Chapters), NEW t \in Seq(Chapters), NEW d
  PROVE  d \in Range(s \o t) <=> d \in Range(s) \cup Range(t)
<1>1. /\ Len(s) \in Nat /\ Len(t) \in Nat /\ DOMAIN s = 1 .. Len(s) /\ DOMAIN t = 1 .. Len(t)
      /\ DOMAIN (s \o t) = 1 .. Len(s) + Len(t)
      /\ \A i \in 1 .. Len(s) + Len(t) :
           (s \o t)[i] = IF i <= Len(s) THEN s[i] ELSE t[i - Len(s)]
  OBVIOUS
<1>2. ASSUME NEW i \in 1 .. Len(s) PROVE i \in 1 .. Len(s) + Len(t) /\ (s \o t)[i] = s[i]
  BY <1>1
<1>3. ASSUME NEW i \in 1 .. Len(t)
      PROVE  Len(s) + i \in 1 .. Len(s) + Len(t) /\ (s \o t)[Len(s) + i] = t[i]
  BY <1>1
<1>4. ASSUME NEW i \in 1 .. Len(s) + Len(t)
      PROVE  \/ i \in 1 .. Len(s) /\ (s \o t)[i] = s[i]
             \/ i - Len(s) \in 1 .. Len(t) /\ (s \o t)[i] = t[i - Len(s)]
  BY <1>1
<1>5. ASSUME d \in Range(s \o t) PROVE d \in Range(s) \cup Range(t)
  <2>1. PICK i \in 1 .. Len(s) + Len(t) : (s \o t)[i] = d
    BY <1>1, <1>5, Zenon DEF Range
  <2> QED BY <1>1, <1>4, <2>1, Zenon DEF Range
<1>6. ASSUME d \in Range(s) PROVE d \in Range(s \o t)
  BY <1>1, <1>2, <1>6, Zenon DEF Range
<1>7. ASSUME d \in Range(t) PROVE d \in Range(s \o t)
  BY <1>1, <1>3, <1>7, Zenon DEF Range
<1> QED BY <1>5, <1>6, <1>7

LEMMA WalkStart == GraphInit => WalkBooks
<1> SUFFICES ASSUME GraphInit PROVE WalkBooks
  OBVIOUS
<1> USE DEF GraphInit
<1>1. PICK D \in SUBSET Concepts : nodes \in [D -> Node]
  BY DEF Graphs
<1>2. KnownChapters(nodes) \subseteq Chapters
  BY <1>1 DEF KnownChapters, Node
<1>3. \A c \in Chapters : Projected(nodes, c) \subseteq Chapters
  BY <1>1 DEF Projected, Node
<1>4. GraphTypeOK
  BY <1>2, <1>3 DEF GraphTypeOK
<1>5. FramesFit /\ ColoursFit /\ TakenIsDone
  BY DEF FramesFit, ColoursFit, TakenIsDone, Taken, IsInjective
<1>6. PathInOrder /\ PathIsComplete /\ CycleIsReal
  <2>1. Range(path) = {}
    BY DEF Range
  <2> QED BY <2>1 DEF PathInOrder, PathIsComplete, CycleIsReal
<1> QED BY <1>4, <1>5, <1>6 DEF WalkBooks

LEMMA BeginStep == ASSUME WalkBooks, BeginWalk PROVE WalkBooks'
<1> USE DEF BeginWalk
<1>1. UNCHANGED <<nodes, asked, remaining, path, cycle>> /\ answer = "none" /\ walking = <<>>
  OBVIOUS
<1>2. GraphTypeOK
  BY DEF WalkBooks
<1>3. CASE asked \ Range(path) = {}
  <2>1. answer' = "ok" /\ UNCHANGED <<walking, colour>>
    BY <1>3
  <2>2. GraphTypeOK'
    BY <1>1, <1>2, <2>1 DEF GraphTypeOK
  <2>3. FramesFit' /\ ColoursFit' /\ TakenIsDone'
    BY <1>1, <2>1 DEF WalkBooks, FramesFit, ColoursFit, TakenIsDone, Taken
  <2>4. PathInOrder' /\ PathIsComplete' /\ CycleIsReal'
    BY <1>1, <1>3, <2>1 DEF WalkBooks, PathInOrder, PathIsComplete, CycleIsReal, Before
  <2> QED BY <2>2, <2>3, <2>4 DEF WalkBooks
<1>4. CASE asked \ Range(path) # {}
  <2>1. PICK first \in Chapters : /\ first \in asked /\ first \notin Range(path)
                                  /\ walking' = <<first>> /\ answer' = answer
                                  /\ colour' = [colour EXCEPT ![first] = "grey"]
    <3>1. asked \ Range(path) \subseteq Chapters
      BY <1>2 DEF GraphTypeOK
    <3>2. Least(asked \ Range(path)) \in asked \ Range(path)
      BY <1>4, <3>1, LeastOfSet
    <3> QED BY <1>1, <1>4, <3>1, <3>2
  <2>2. GraphTypeOK'
    BY <1>1, <1>2, <2>1 DEF GraphTypeOK
  <2>3. \A i \in DOMAIN path : path[i] # first
    BY <2>1 DEF Range
  <2>4. colour[first] = "white" /\ colour \in [Chapters -> {"white", "grey", "black"}]
    BY <1>1, <1>2, <2>1, <2>3 DEF WalkBooks, ColoursFit, GraphTypeOK
  <2>5. FramesFit'
    BY <1>1, <2>1 DEF FramesFit, IsInjective
  <2>6. ColoursFit'
    BY <1>1, <2>1, <2>3, <2>4 DEF WalkBooks, ColoursFit
  <2>7. TakenIsDone'
    BY <1>1, <2>1, <2>4 DEF WalkBooks, TakenIsDone, Taken
  <2>8. PathInOrder' /\ CycleIsReal'
    BY <1>1, <2>1 DEF WalkBooks, PathInOrder, CycleIsReal, Before
  <2>9. PathIsComplete'
    <3>1. path \in Seq(Chapters) /\ walking' \in Seq(Chapters)
      BY <1>2, <2>1 DEF GraphTypeOK
    <3>2. Range(path \o walking) \subseteq Range(path \o walking')
      BY <1>1, <3>1 DEF Range
    <3> QED BY <1>1, <2>1, <3>2 DEF WalkBooks, PathIsComplete, Before
  <2> QED BY <2>2, <2>5, <2>6, <2>7, <2>8, <2>9 DEF WalkBooks
<1> QED BY <1>3, <1>4

\* The current frame has a prerequisite to go on from.
LEMMA CurrentFrame ==
  ASSUME WalkBooks, walking # <<>>
  PROVE  /\ Len(walking) \in Nat /\ Len(walking) >= 1
         /\ CurrentChapter = walking[Len(walking)] /\ CurrentChapter \in Chapters
         /\ colour[CurrentChapter] = "grey"
<1>1. walking \in Seq(Chapters)
  BY DEF WalkBooks, GraphTypeOK
<1>2. /\ Len(walking) \in Nat /\ Len(walking) >= 1
      /\ CurrentChapter = walking[Len(walking)] /\ CurrentChapter \in Chapters
  BY <1>1, FrontFacts DEF CurrentChapter
<1> QED BY <1>1, <1>2 DEF WalkBooks, ColoursFit

LEMMA BeforeLast ==
  ASSUME NEW length \in Nat, NEW i \in 1 .. length - 1, i + 1 # length
  PROVE  i + 1 \in 1 .. length - 1 /\ i \in 1 .. length - 1 - 1
<1>1. i \in Nat /\ i >= 1 /\ i <= length - 1
  OBVIOUS
<1>2. i <= length - 2
  BY <1>1
<1> QED BY <1>1, <1>2

LEMMA WithinWalk ==
  ASSUME NEW at \in Nat, NEW length \in Nat, at >= 1,
         NEW last \in Nat, last = length - at + 1, NEW i \in 1 .. last, i # last
  PROVE  i + 1 \in 1 .. last /\ at + i - 1 \in 1 .. length - 1
  OBVIOUS

\* The way from where the chapter stands in the walk closes a loop.
LEMMA LoopIsReal ==
  ASSUME WalkBooks, walking # <<>>, NEW next \in Chapters, colour[next] = "grey",
         next \in Projected(nodes, CurrentChapter)
  PROVE  /\ LoopTo(next) \in Seq(Chapters)
         /\ Len(LoopTo(next)) > 2 /\ LoopTo(next)[1] = Last(LoopTo(next))
         /\ IsInjective(Front(LoopTo(next)))
         /\ \A i \in 1 .. Len(LoopTo(next)) - 1 : Before(LoopTo(next)[i + 1], LoopTo(next)[i])
<1>1. /\ walking \in Seq(Chapters) /\ Len(walking) \in Nat /\ GraphTypeOK
      /\ walking[Len(walking)] = CurrentChapter /\ CurrentChapter \in Chapters
      /\ IsInjective(walking)
  BY CurrentFrame DEF WalkBooks, GraphTypeOK, FramesFit
<1>2. PICK at \in DOMAIN walking : at = Place(next) /\ walking[at] = next
  BY DEF WalkBooks, ColoursFit, Place
<1>3. next # CurrentChapter
  BY DEF Projected
<1>4. at \in 1 .. Len(walking) /\ at < Len(walking)
  BY <1>1, <1>2, <1>3
<1>5. PICK way : way = SubSeq(walking, at, Len(walking))
  OBVIOUS
<1>6. /\ way \in Seq(Chapters) /\ Len(way) = Len(walking) - at + 1
      /\ \A i \in 1 .. Len(way) : way[i] = walking[at + i - 1]
  <2>1. \A i \in at .. Len(walking) : walking[i] \in Chapters
    BY <1>1, <1>4
  <2> QED BY <1>1, <1>4, <1>5, <2>1
<1>7. PICK loop : loop = LoopTo(next) /\ loop = Append(way, next)
  BY <1>2, <1>5 DEF LoopTo
<1>8. /\ loop \in Seq(Chapters) /\ Len(loop) = Len(way) + 1 /\ loop[Len(way) + 1] = next
      /\ \A i \in 1 .. Len(way) : loop[i] = way[i]
  BY <1>6, <1>7, AppendProperties
<1>9. Len(way) \in Nat /\ Len(way) >= 2
  BY <1>1, <1>4, <1>6
<1>10. loop[1] = next /\ Last(loop) = next
  <2>1. 1 \in 1 .. Len(way) /\ at + 1 - 1 = at
    BY <1>4, <1>9
  <2>2. loop[1] = next
    BY <1>2, <1>6, <1>8, <2>1
  <2> QED BY <1>8, <2>2 DEF Last
<1>11. IsInjective(Front(loop))
  <2>1. loop # <<>>
    BY <1>8, <1>9
  <2>2. /\ Front(loop) \in Seq(Chapters) /\ Len(Front(loop)) = Len(way)
        /\ \A i \in 1 .. Len(way) : Front(loop)[i] = loop[i]
    <3>1. Len(loop) - 1 = Len(way) /\ loop \in Seq(Chapters)
      BY <1>8, <1>9
    <3> QED BY <2>1, <3>1, FrontFacts
  <2>3. \A i \in 1 .. Len(way) : Front(loop)[i] = walking[at + i - 1]
    BY <1>6, <1>8, <2>2
  <2>4. DOMAIN Front(loop) = 1 .. Len(way)
    BY <2>2
  <2>5. ASSUME NEW i \in 1 .. Len(way), NEW j \in 1 .. Len(way),
               walking[at + i - 1] = walking[at + j - 1]
        PROVE  i = j
    <3>1. at + i - 1 \in DOMAIN walking /\ at + j - 1 \in DOMAIN walking
      BY <1>1, <1>4, <1>6
    <3>2. at + i - 1 = at + j - 1
      BY <1>1, <2>5, <3>1 DEF IsInjective
    <3> QED BY <1>4, <1>9, <3>2
  <2> QED BY <2>3, <2>4, <2>5 DEF IsInjective
<1>12. ASSUME NEW i \in 1 .. Len(loop) - 1 PROVE Before(loop[i + 1], loop[i])
  <2>1. i \in 1 .. Len(way) /\ loop[i] = walking[at + i - 1]
    BY <1>6, <1>8, <1>9
  <2>2. loop[i + 1] \in Projected(nodes, loop[i])
    <3>1. CASE i = Len(way)
      <4>1. at + i - 1 = Len(walking)
        BY <1>1, <1>4, <1>6, <3>1
      <4> QED BY <1>1, <1>8, <2>1, <3>1, <4>1
    <3>2. CASE i # Len(way)
      <4>1. i + 1 \in 1 .. Len(way) /\ at + i - 1 \in 1 .. Len(walking) - 1
        <5>1. at \in Nat /\ at >= 1 /\ Len(walking) \in Nat
          BY <1>1, <1>4
        <5>2. PICK last \in Nat : last = Len(way)
          BY <1>9
        <5>3. last = Len(walking) - at + 1 /\ i \in 1 .. last /\ i # last
          BY <1>6, <2>1, <3>2, <5>2
        <5>4. i + 1 \in 1 .. last /\ at + i - 1 \in 1 .. Len(walking) - 1
          BY <5>1, <5>3, WithinWalk
        <5> QED BY <5>2, <5>4
      <4>2. loop[i + 1] = walking[at + (i + 1) - 1]
        BY <1>6, <1>8, <4>1
      <4>3. at + (i + 1) - 1 = (at + i - 1) + 1
        BY <1>4, <2>1
      <4> QED BY <2>1, <4>1, <4>2, <4>3 DEF WalkBooks, FramesFit
    <3> QED BY <3>1, <3>2
  <2>3. loop[i] \in Chapters /\ loop[i + 1] \in Chapters
    BY <1>8, <1>9
  <2> QED BY <1>1, <2>2, <2>3, ProjectedComesBefore
<1> QED BY <1>7, <1>8, <1>9, <1>10, <1>11, <1>12

LEMMA NextStep == ASSUME WalkBooks, NextPrerequisite PROVE WalkBooks'
<1>1. /\ UNCHANGED <<nodes, asked, path>> /\ answer = "none" /\ walking # <<>>
      /\ remaining[CurrentChapter] # {}
  BY DEF NextPrerequisite
<1>2. GraphTypeOK
  BY DEF WalkBooks
<1>3. /\ walking \in Seq(Chapters) /\ path \in Seq(Chapters) /\ Len(walking) \in Nat
      /\ remaining \in [Chapters -> SUBSET Chapters]
      /\ colour \in [Chapters -> {"white", "grey", "black"}]
  BY <1>2 DEF GraphTypeOK
<1>4. PICK current \in Chapters :
        /\ current = CurrentChapter /\ current = walking[Len(walking)]
        /\ colour[current] = "grey" /\ Len(walking) >= 1
  BY <1>1, CurrentFrame
<1>5. PICK next \in Chapters :
        /\ next = Least(remaining[current]) /\ next \in remaining[current]
        /\ next \in Projected(nodes, current)
  <2>1. remaining[current] \subseteq Chapters /\ remaining[current] # {}
    BY <1>1, <1>3, <1>4
  <2>2. Least(remaining[current]) \in remaining[current]
    BY <2>1, LeastOfSet
  <2> QED BY <2>1, <2>2 DEF WalkBooks, TakenIsDone
<1>6. /\ remaining' = [remaining EXCEPT ![current] = @ \ {next}]
      /\ \/ /\ colour[next] = "grey"
            /\ answer' = "cycle"
            /\ cycle' = LoopTo(next)
            /\ UNCHANGED <<colour, walking>>
         \/ /\ colour[next] = "white"
            /\ colour' = [colour EXCEPT ![next] = "grey"]
            /\ walking' = Append(walking, next)
            /\ UNCHANGED <<answer, cycle>>
         \/ /\ colour[next] = "black"
            /\ UNCHANGED <<answer, cycle, colour, walking>>
  BY <1>4, <1>5 DEF NextPrerequisite
<1>7. /\ remaining' \in [Chapters -> SUBSET Chapters]
      /\ \A c \in Chapters : c # current => remaining'[c] = remaining[c]
      /\ remaining'[current] = remaining[current] \ {next}
  BY <1>3, <1>5, <1>6
<1>8. \A c \in Chapters : /\ remaining'[c] \subseteq Projected(nodes, c)
                          /\ colour[c] = "white" => remaining'[c] = Projected(nodes, c)
                          /\ c # current => (Taken(c))' = Taken(c)
  BY <1>1, <1>4, <1>7 DEF WalkBooks, TakenIsDone, Taken
<1>9. (Taken(current))' = Taken(current) \cup {next}
  BY <1>1, <1>5, <1>7 DEF Taken
<1>10. /\ PathInOrder' /\ UNCHANGED Range(path)
       /\ (answer' = "none" => CycleIsReal')
  BY <1>1 DEF WalkBooks, PathInOrder, CycleIsReal, Before, Range
<1>11. CASE colour[next] = "grey"
  <2>1. answer' = "cycle" /\ cycle' = LoopTo(next) /\ UNCHANGED <<colour, walking>>
    BY <1>6, <1>11
  <2>2. GraphTypeOK' /\ CycleIsReal'
    <3>1. PICK loop : loop = LoopTo(next)
      OBVIOUS
    <3>2. /\ loop \in Seq(Chapters)
          /\ Len(loop) > 2 /\ loop[1] = Last(loop) /\ IsInjective(Front(loop))
          /\ \A i \in 1 .. Len(loop) - 1 : Before(loop[i + 1], loop[i])
      BY <1>1, <1>4, <1>5, <1>11, <3>1, LoopIsReal
    <3> QED BY <1>1, <1>2, <1>7, <2>1, <3>1, <3>2 DEF GraphTypeOK, CycleIsReal, Before
  <2>3. FramesFit' /\ ColoursFit' /\ TakenIsDone'
    BY <1>1, <1>8, <2>1 DEF WalkBooks, FramesFit, ColoursFit, TakenIsDone
  <2>4. PathIsComplete'
    BY <1>1, <2>1 DEF WalkBooks, PathIsComplete, Before
  <2> QED BY <1>10, <2>2, <2>3, <2>4 DEF WalkBooks
<1>12. CASE colour[next] = "white"
  <2>1. /\ colour' = [colour EXCEPT ![next] = "grey"]
        /\ walking' = Append(walking, next) /\ UNCHANGED <<answer, cycle>>
    BY <1>6, <1>12
  <2>2. /\ walking' \in Seq(Chapters) /\ Len(walking') = Len(walking) + 1
        /\ walking'[Len(walking) + 1] = next
        /\ \A i \in 1 .. Len(walking) : walking'[i] = walking[i]
        /\ DOMAIN walking = 1 .. Len(walking) /\ DOMAIN walking' = 1 .. Len(walking) + 1
    BY <1>3, <2>1, AppendProperties
  <2>3. GraphTypeOK'
    BY <1>1, <1>2, <1>7, <2>1, <2>2 DEF GraphTypeOK
  <2>4. \A i \in 1 .. Len(walking) : walking[i] # next
    BY <1>12, <2>2 DEF WalkBooks, ColoursFit
  <2>5. FramesFit'
    <3>1. IsInjective(walking')
      BY <1>3, <2>2, <2>4 DEF WalkBooks, FramesFit, IsInjective
    <3>2. \A i \in 1 .. Len(walking') - 1 : walking'[i + 1] \in Projected(nodes, walking'[i])
      <4>1. ASSUME NEW i \in 1 .. Len(walking), i # Len(walking)
            PROVE  walking'[i + 1] \in Projected(nodes, walking'[i])
        <5>1. i \in 1 .. Len(walking) - 1 /\ i + 1 \in 1 .. Len(walking)
          BY <1>3, <4>1
        <5> QED BY <2>2, <5>1 DEF WalkBooks, FramesFit
      <4>2. walking'[Len(walking) + 1] \in Projected(nodes, walking'[Len(walking)])
        BY <1>3, <1>4, <1>5, <2>2
      <4>3. Len(walking') - 1 = Len(walking)
        BY <1>3, <2>2
      <4>4. ASSUME NEW i \in 1 .. Len(walking) PROVE walking'[i + 1] \in Projected(nodes, walking'[i])
        BY <4>1, <4>2
      <4> QED BY <4>3, <4>4
    <3>3. walking'[1] \in asked
      BY <1>1, <1>3, <1>4, <2>2 DEF WalkBooks, FramesFit
    <3> QED BY <1>1, <3>1, <3>2, <3>3 DEF FramesFit
  <2>6. ColoursFit'
    <3>1. \A c \in Chapters : c # next =>
            ((\E i \in DOMAIN walking' : walking'[i] = c) <=> \E i \in DOMAIN walking : walking[i] = c)
      <4>1. \A i \in 1 .. Len(walking) : i \in 1 .. Len(walking) + 1
        BY <1>3
      <4>2. \A i \in 1 .. Len(walking) + 1 : i \in 1 .. Len(walking) \/ i = Len(walking) + 1
        BY <1>3
      <4>3. ASSUME NEW c \in Chapters, c # next, NEW i \in DOMAIN walking', walking'[i] = c
            PROVE  i \in DOMAIN walking /\ walking[i] = c
        BY <2>2, <4>2, <4>3, Zenon
      <4>4. ASSUME NEW c \in Chapters, NEW i \in DOMAIN walking, walking[i] = c
            PROVE  i \in DOMAIN walking' /\ walking'[i] = c
        BY <2>2, <4>1, <4>4, Zenon
      <4> QED BY <4>3, <4>4, Zenon
    <3>2. \E i \in DOMAIN walking' : walking'[i] = next
      BY <1>3, <2>2
    <3>3. ~ \E i \in DOMAIN path : path[i] = next
      BY <1>12 DEF WalkBooks, ColoursFit
    <3> QED BY <1>1, <1>3, <2>1, <3>1, <3>2, <3>3 DEF WalkBooks, ColoursFit
  <2>7. TakenIsDone'
    <3>1. ASSUME NEW c \in Chapters, NEW d \in Taken(c)
          PROVE  \/ colour'[d] = "black"
                 \/ \E i \in 1 .. Len(walking') - 1 : walking'[i] = c /\ walking'[i + 1] = d
      <4>1. CASE colour[d] = "black"
        <5>1. d # next /\ d \in Chapters
          BY <1>2, <1>12, <4>1, ProjectedComesBefore DEF Taken
        <5> QED BY <1>3, <2>1, <4>1, <5>1
      <4>2. CASE \E i \in 1 .. Len(walking) - 1 : walking[i] = c /\ walking[i + 1] = d
        <5>1. PICK i \in 1 .. Len(walking) - 1 : walking[i] = c /\ walking[i + 1] = d
          BY <4>2
        <5>2. /\ i \in 1 .. Len(walking') - 1
              /\ i \in 1 .. Len(walking) /\ i + 1 \in 1 .. Len(walking)
          BY <1>3, <2>2
        <5>3. walking'[i] = c /\ walking'[i + 1] = d
          BY <2>2, <5>1, <5>2
        <5> QED BY <5>2, <5>3
      <4>3. TakenIsDone /\ answer # "cycle"
        BY <1>1 DEF WalkBooks
      <4>4. \/ colour[d] = "black"
            \/ \E i \in 1 .. Len(walking) - 1 : walking[i] = c /\ walking[i + 1] = d
        BY <3>1, <4>3 DEF TakenIsDone
      <4> QED BY <4>1, <4>2, <4>4
    <3>2. \E i \in 1 .. Len(walking') - 1 : walking'[i] = current /\ walking'[i + 1] = next
      BY <1>3, <1>4, <2>2
    <3>3. ASSUME NEW c \in Chapters, NEW d \in (Taken(c))'
          PROVE  \/ colour'[d] = "black"
                 \/ \E i \in 1 .. Len(walking') - 1 : walking'[i] = c /\ walking'[i + 1] = d
      BY <1>8, <1>9, <3>1, <3>2, <3>3
    <3>4. \A c \in Chapters : colour'[c] = "white" => colour[c] = "white"
      BY <1>3, <2>1
    <3> QED BY <1>1, <1>8, <3>3, <3>4 DEF TakenIsDone
  <2>8. PathIsComplete'
    <3>1. Range(path \o walking) \subseteq Range(path \o walking')
      <4>1. ASSUME NEW k \in DOMAIN (path \o walking)
            PROVE  (path \o walking)[k] \in Range(path \o walking')
        <5>1. CASE k \in 1 .. Len(path)
          BY <1>3, <2>2, <5>1 DEF Range
        <5>2. CASE k \notin 1 .. Len(path)
          BY <1>3, <2>2, <5>2 DEF Range
        <5> QED BY <5>1, <5>2
      <4> QED BY <4>1 DEF Range
    <3>2. Range(path)' = Range(path) /\ \A c, d : Before(c, d)' <=> Before(c, d)
      BY <1>1 DEF Range, Before
    <3>3. PathIsComplete
      BY DEF WalkBooks
    <3> QED BY <1>1, <2>1, <3>1, <3>2, <3>3 DEF PathIsComplete
  <2> QED BY <1>1, <1>10, <2>1, <2>3, <2>5, <2>6, <2>7, <2>8 DEF WalkBooks
<1>13. CASE colour[next] = "black"
  <2>1. UNCHANGED <<answer, cycle, colour, walking>>
    BY <1>6, <1>13
  <2>2. GraphTypeOK'
    BY <1>1, <1>2, <1>7, <2>1 DEF GraphTypeOK
  <2>3. FramesFit' /\ ColoursFit' /\ PathIsComplete'
    BY <1>1, <2>1 DEF WalkBooks, FramesFit, ColoursFit, PathIsComplete, Before
  <2>4. TakenIsDone'
    BY <1>1, <1>8, <1>9, <1>13, <2>1 DEF WalkBooks, TakenIsDone
  <2> QED BY <1>1, <1>10, <2>1, <2>2, <2>3, <2>4 DEF WalkBooks
<1> QED BY <1>3, <1>11, <1>12, <1>13

LEMMA LeaveStep == ASSUME WalkBooks, LeaveChapter PROVE WalkBooks'
<1>1. /\ UNCHANGED <<nodes, asked, remaining, answer, cycle>> /\ answer = "none"
      /\ walking # <<>> /\ remaining[CurrentChapter] = {}
  BY DEF LeaveChapter
<1>2. GraphTypeOK
  BY DEF WalkBooks
<1>3. /\ walking \in Seq(Chapters) /\ path \in Seq(Chapters)
      /\ Len(walking) \in Nat /\ Len(path) \in Nat
      /\ colour \in [Chapters -> {"white", "grey", "black"}]
      /\ DOMAIN walking = 1 .. Len(walking) /\ DOMAIN path = 1 .. Len(path)
  BY <1>2 DEF GraphTypeOK
<1>4. PICK current \in Chapters :
        /\ current = CurrentChapter /\ current = walking[Len(walking)]
        /\ colour[current] = "grey" /\ Len(walking) >= 1
  BY <1>1, CurrentFrame
<1>5. /\ colour' = [colour EXCEPT ![current] = "black"]
      /\ path' = Append(path, current) /\ walking' = Front(walking)
  BY <1>4 DEF LeaveChapter
<1>6. /\ walking' \in Seq(Chapters) /\ Len(walking') = Len(walking) - 1
      /\ \A i \in 1 .. Len(walking) - 1 : walking'[i] = walking[i]
      /\ DOMAIN walking' = 1 .. Len(walking) - 1
  <2>1. PICK front \in Seq(Chapters) :
          /\ front = Front(walking) /\ Len(front) = Len(walking) - 1
          /\ \A i \in 1 .. Len(walking) - 1 : front[i] = walking[i]
    BY <1>1, <1>3, FrontFacts
  <2>2. DOMAIN front = 1 .. Len(walking) - 1
    BY <2>1
  <2> QED BY <1>5, <2>1, <2>2
<1>7. /\ path' \in Seq(Chapters) /\ Len(path') = Len(path) + 1
      /\ path'[Len(path) + 1] = current
      /\ \A i \in 1 .. Len(path) : path'[i] = path[i]
      /\ DOMAIN path' = 1 .. Len(path) + 1
  BY <1>3, <1>5, AppendProperties
<1>8. GraphTypeOK'
  BY <1>1, <1>2, <1>5, <1>6, <1>7 DEF GraphTypeOK
<1>9. IsInjective(walking) /\ \A i \in 1 .. Len(walking) - 1 : walking[i] # current
  <2>1. IsInjective(walking)
    BY DEF WalkBooks, FramesFit
  <2>2. ASSUME NEW i \in 1 .. Len(walking) - 1, walking[i] = current PROVE FALSE
    BY <1>3, <1>4, <2>1, <2>2 DEF IsInjective
  <2> QED BY <2>1, <2>2
<1>10. \A i \in 1 .. Len(path) : path[i] # current
  BY <1>3, <1>4 DEF WalkBooks, ColoursFit
<1>11. FramesFit'
  <2>1. IsInjective(walking')
    BY <1>3, <1>6, <1>9 DEF IsInjective
  <2>2. ASSUME NEW i \in 1 .. Len(walking) - 1 - 1
        PROVE  walking'[i + 1] \in Projected(nodes, walking'[i])
    <3>1. i \in 1 .. Len(walking) - 1 /\ i + 1 \in 1 .. Len(walking) - 1
      BY <1>3
    <3> QED BY <1>6, <3>1 DEF WalkBooks, FramesFit
  <2>3. walking' # <<>> => walking'[1] \in asked
    <3>1. SUFFICES ASSUME walking' # <<>> PROVE walking'[1] \in asked
      OBVIOUS
    <3>2. Len(walking') # 0
      BY <1>6, <3>1, EmptySeq
    <3>3. 1 \in 1 .. Len(walking) - 1
      BY <1>3, <1>4, <1>6, <3>2
    <3> QED BY <1>1, <1>6, <3>3 DEF WalkBooks, FramesFit
  <2> QED BY <1>1, <1>6, <2>1, <2>2, <2>3 DEF FramesFit
<1>12. ColoursFit'
  <2>1. ASSUME NEW c \in Chapters, c # current
        PROVE  /\ (\E i \in DOMAIN walking' : walking'[i] = c) <=> \E i \in DOMAIN walking : walking[i] = c
               /\ (\E i \in DOMAIN path' : path'[i] = c) <=> \E i \in DOMAIN path : path[i] = c
    <3>1. \A i \in DOMAIN walking : i \in 1 .. Len(walking) - 1 \/ i = Len(walking)
      BY <1>3
    <3>2. \A i \in DOMAIN path' : i \in 1 .. Len(path) \/ i = Len(path) + 1
      BY <1>3, <1>7
    <3>3. \A i \in DOMAIN walking' : i \in DOMAIN walking
      BY <1>3, <1>6
    <3>4. \A i \in DOMAIN path : i \in DOMAIN path'
      BY <1>3, <1>7
    <3> QED BY <1>3, <1>4, <1>6, <1>7, <2>1, <3>1, <3>2, <3>3, <3>4
  <2>2. /\ ~ \E i \in DOMAIN walking' : walking'[i] = current
        /\ \E i \in DOMAIN path' : path'[i] = current
    <3>1. ~ \E i \in DOMAIN walking' : walking'[i] = current
      BY <1>6, <1>9
    <3>2. Len(path) + 1 \in DOMAIN path'
      BY <1>3, <1>7
    <3> QED BY <1>7, <3>1, <3>2
  <2>3. /\ colour'[current] = "black"
        /\ \A c \in Chapters : c # current => colour'[c] = colour[c]
    BY <1>3, <1>5
  <2>4. ASSUME NEW c \in Chapters, c # current
        PROVE  /\ colour'[c] = "grey" <=> \E i \in DOMAIN walking' : walking'[i] = c
               /\ colour'[c] = "black" <=> \E i \in DOMAIN path' : path'[i] = c
    BY <2>1, <2>3, <2>4 DEF WalkBooks, ColoursFit
  <2> QED BY <2>2, <2>3, <2>4 DEF ColoursFit
<1>13. \A c \in Chapters : \A d \in Taken(c) :
         \/ colour[d] = "black"
         \/ \E i \in 1 .. Len(walking) - 1 : walking[i] = c /\ walking[i + 1] = d
  BY <1>1 DEF WalkBooks, TakenIsDone
<1>14. TakenIsDone'
  <2>1. ASSUME NEW c \in Chapters, NEW d \in Taken(c)
        PROVE  \/ colour'[d] = "black"
               \/ \E i \in 1 .. Len(walking') - 1 : walking'[i] = c /\ walking'[i + 1] = d
    <3>1. d \in Chapters
      BY <1>2, ProjectedComesBefore DEF Taken
    <3>2. CASE colour[d] = "black"
      BY <1>3, <1>5, <3>1, <3>2
    <3>3. CASE \E i \in 1 .. Len(walking) - 1 : walking[i] = c /\ walking[i + 1] = d
      <4>1. PICK i \in 1 .. Len(walking) - 1 : walking[i] = c /\ walking[i + 1] = d
        BY <3>3
      <4>2. CASE i + 1 = Len(walking)
        BY <1>3, <1>4, <1>5, <4>1, <4>2
      <4>3. CASE i + 1 # Len(walking)
        <5>1. i \in 1 .. Len(walking') - 1 /\ i + 1 \in 1 .. Len(walking) - 1
          <6>1. i + 1 \in 1 .. Len(walking) - 1 /\ i \in 1 .. Len(walking) - 1 - 1
            BY <1>3, <4>3, BeforeLast
          <6> QED BY <1>6, <6>1
        <5> QED BY <1>6, <4>1, <5>1
      <4> QED BY <4>2, <4>3
    <3> QED BY <1>13, <3>2, <3>3
  <2>2. \A c \in Chapters : Taken(c)' = Taken(c)
    BY <1>1 DEF Taken
  <2>3. \A c \in Chapters : colour'[c] = "white" => colour[c] = "white"
    BY <1>3, <1>5
  <2> QED BY <1>1, <2>1, <2>2, <2>3 DEF WalkBooks, TakenIsDone
<1>15. PathInOrder'
  <2>1. ASSUME NEW i \in DOMAIN path', NEW j \in DOMAIN path', path'[i] = path'[j] PROVE i = j
    <3>1. \A k \in DOMAIN path' : k \in 1 .. Len(path) \/ k = Len(path) + 1
      BY <1>3, <1>7
    <3> QED BY <1>3, <1>7, <1>10, <2>1, <3>1 DEF WalkBooks, PathInOrder
  <2>2. ASSUME NEW i \in DOMAIN path', NEW d \in Chapters, Before(d, path'[i])
        PROVE  \E j \in 1 .. i - 1 : path'[j] = d
    <3>1. CASE i \in 1 .. Len(path)
      <4>1. \E j \in 1 .. i - 1 : path[j] = d
        BY <1>3, <1>7, <2>2, <3>1 DEF WalkBooks, PathInOrder
      <4> QED BY <1>3, <1>7, <3>1, <4>1
    <3>2. CASE i = Len(path) + 1
      <4>1. d \in Taken(current)
        BY <1>1, <1>2, <1>4, <1>7, <2>2, <3>2, ProjectedComesBefore DEF Taken
      <4>2. colour[d] = "black"
        <5>1. ~ \E k \in 1 .. Len(walking) - 1 : walking[k] = current /\ walking[k + 1] = d
          BY <1>9
        <5> QED BY <1>13, <4>1, <5>1
      <4>3. PICK j \in DOMAIN path : path[j] = d
        BY <4>2 DEF WalkBooks, ColoursFit
      <4> QED BY <1>3, <1>7, <3>2, <4>3
    <3> QED BY <1>3, <1>7, <3>1, <3>2
  <2>3. \A c, d : Before(c, d)' <=> Before(c, d)
    BY <1>1 DEF Before
  <2> QED BY <2>1, <2>2, <2>3 DEF PathInOrder
<1>16. PathIsComplete'
  <2>1. Range(path') = Range(path) \cup {current}
    <3>1. \A i \in DOMAIN path' : path'[i] \in Range(path) \cup {current}
      BY <1>3, <1>7 DEF Range
    <3>2. \A i \in DOMAIN path : path[i] \in Range(path')
      BY <1>3, <1>7 DEF Range
    <3>3. current \in Range(path')
      BY <1>3, <1>7 DEF Range
    <3> QED BY <3>1, <3>2, <3>3 DEF Range
  <2>2. ASSUME NEW d PROVE d \in Range(path \o walking) <=> d \in Range(path) \cup Range(walking)
    BY <1>3, RangeOfConcat
  <2>3. ASSUME NEW d PROVE d \in Range(path' \o walking') <=> d \in Range(path') \cup Range(walking')
    BY <1>6, <1>7, RangeOfConcat
  <2>4. Range(walking) \subseteq Range(walking') \cup {current}
    <3>1. \A i \in DOMAIN walking : i \in 1 .. Len(walking) - 1 \/ i = Len(walking)
      BY <1>3
    <3> QED BY <1>4, <1>6, <3>1 DEF Range
  <2>5. Range(path \o walking) \subseteq Range(path' \o walking')
    BY <2>1, <2>2, <2>3, <2>4
  <2>6. current \in asked \/ \E d \in Range(path' \o walking') : Before(current, d)
    <3>1. CASE Len(walking) = 1
      BY <1>1, <1>4, <3>1 DEF WalkBooks, FramesFit
    <3>2. CASE Len(walking) # 1
      <4>1. Len(walking) - 1 \in 1 .. Len(walking) - 1 /\ (Len(walking) - 1) + 1 = Len(walking)
        BY <1>3, <1>4, <3>2
      <4>2. PICK d \in Chapters : d = walking[Len(walking) - 1] /\ d \in Range(walking')
        BY <1>3, <1>6, <4>1 DEF Range
      <4>3. current \in Projected(nodes, d)
        BY <1>4, <4>1, <4>2 DEF WalkBooks, FramesFit
      <4>4. Before(current, d)
        BY <1>2, <4>3, ProjectedComesBefore
      <4> QED BY <2>3, <4>2, <4>4
    <3> QED BY <3>1, <3>2
  <2>7. \A c, d : Before(c, d)' <=> Before(c, d)
    BY <1>1 DEF Before
  <2>8. \A c \in Range(path) \ asked : \E d \in Range(path \o walking) : Before(c, d)
    BY DEF WalkBooks, PathIsComplete
  <2> QED BY <1>1, <2>1, <2>5, <2>6, <2>7, <2>8 DEF PathIsComplete
<1>17. CycleIsReal'
  BY <1>1 DEF CycleIsReal
<1> QED BY <1>8, <1>11, <1>12, <1>14, <1>15, <1>16, <1>17 DEF WalkBooks

LEMMA WalkStep == WalkBooks /\ [GraphNext]_graphVars => WalkBooks'
<1> SUFFICES ASSUME WalkBooks, [GraphNext]_graphVars PROVE WalkBooks'
  OBVIOUS
<1>1. CASE RefuseUnknown
  <2>1. UNCHANGED <<nodes, asked, remaining, colour, walking, path, cycle>> /\ answer = "none"
          /\ answer' = "unknown_chapter"
    BY <1>1 DEF RefuseUnknown
  <2>2. GraphTypeOK'
    BY <2>1 DEF WalkBooks, GraphTypeOK
  <2>3. FramesFit' /\ ColoursFit' /\ TakenIsDone'
    BY <2>1 DEF WalkBooks, FramesFit, ColoursFit, TakenIsDone, Taken
  <2>4. PathInOrder' /\ PathIsComplete' /\ CycleIsReal'
    BY <2>1 DEF WalkBooks, PathInOrder, PathIsComplete, CycleIsReal, Before
  <2> QED BY <2>2, <2>3, <2>4 DEF WalkBooks
<1>2. CASE UNCHANGED graphVars
  <2>1. UNCHANGED <<nodes, asked, remaining, colour, walking, path, answer, cycle>>
    BY <1>2 DEF graphVars
  <2>2. GraphTypeOK'
    BY <2>1 DEF WalkBooks, GraphTypeOK
  <2>3. FramesFit' /\ ColoursFit' /\ TakenIsDone'
    BY <2>1 DEF WalkBooks, FramesFit, ColoursFit, TakenIsDone, Taken
  <2>4. PathInOrder' /\ PathIsComplete' /\ CycleIsReal'
    BY <2>1 DEF WalkBooks, PathInOrder, PathIsComplete, CycleIsReal, Before
  <2> QED BY <2>2, <2>3, <2>4 DEF WalkBooks
<1> QED BY <1>1, <1>2, BeginStep, NextStep, LeaveStep DEF GraphNext

(* For any graph of concepts: the path of a walk has each chapter once and *)
(* after all that come before it, and a cycle that is reported is one.     *)
THEOREM WalksAreInOrder == GraphSpec => []GraphInv
<1>1. GraphInit => WalkBooks
  BY WalkStart
<1>2. WalkBooks /\ [GraphNext]_graphVars => WalkBooks'
  BY WalkStep
<1>3. WalkBooks => GraphInv
  BY DEF WalkBooks, GraphInv
<1> QED BY <1>1, <1>2, <1>3, PTL DEF GraphSpec

-----------------------------------------------------------------------------
(***************************************************************************)
(* The end of quiet hours.                                                 *)
(***************************************************************************)
\* Division is what it ought to be.
LEMMA Division ==
  ASSUME NEW d \in Nat \ {0}, NEW q \in Nat, NEW r \in 0 .. d - 1, NEW m, m = d * q + r
  PROVE  m \div d = q /\ m % d = r
<1>1. m \in Nat
  OBVIOUS
<1>2. PICK p \in Nat, s \in Nat : p = m \div d /\ s = m % d /\ m = d * p + s /\ s < d
  <2>1. m \div d \in Nat /\ m % d \in 0 .. d - 1 /\ m = d * (m \div d) + (m % d)
    OBVIOUS
  <2> QED BY <2>1
<1>3. ASSUME q < p PROVE FALSE
  <2>1. d * p >= d * (q + 1)
    BY <1>3
  <2>2. d * (q + 1) = d * q + d
    OBVIOUS
  <2> QED BY <1>1, <1>2, <2>1, <2>2
<1>4. ASSUME p < q PROVE FALSE
  <2>1. d * q >= d * (p + 1)
    BY <1>4
  <2>2. d * (p + 1) = d * p + d
    OBVIOUS
  <2> QED BY <1>1, <1>2, <2>1, <2>2
<1>5. p = q
  BY <1>3, <1>4
<1> QED BY <1>1, <1>2, <1>5

LEMMA Divided ==
  ASSUME NEW d \in Nat \ {0}, NEW m \in Nat
  PROVE  \E q \in Nat, r \in 0 .. d - 1 : q = m \div d /\ r = m % d /\ m = d * q + r
<1>1. m \div d \in Nat /\ m % d \in 0 .. d - 1 /\ m = d * (m \div d) + (m % d)
  OBVIOUS
<1> QED BY <1>1

LEMMA DayFacts ==
  /\ HoursPerDay \in Nat \ {0} /\ StepsPerHour \in Nat \ {0} /\ Day \in Nat \ {0}
  /\ Day = StepsPerHour * HoursPerDay /\ MaxSteps \in Nat /\ MaxSteps >= 2 * Day
  /\ Day >= StepsPerHour
<1>1. /\ HoursPerDay \in Nat \ {0} /\ StepsPerHour \in Nat \ {0} /\ MaxSearchHours \in Nat
      /\ MaxSearchHours >= 2 * HoursPerDay
  BY QuietAssumption
<1>2. Day \in Nat \ {0} /\ Day = StepsPerHour * HoursPerDay /\ Day >= StepsPerHour
  BY <1>1 DEF Day
<1>3. MaxSearchHours * StepsPerHour >= (2 * HoursPerDay) * StepsPerHour
  BY <1>1
<1>4. (2 * HoursPerDay) * StepsPerHour = 2 * Day
  BY <1>1 DEF Day
<1> QED BY <1>1, <1>2, <1>3, <1>4 DEF MaxSteps

LEMMA DayConstants ==
  HoursPerDay \in Nat \ {0} /\ StepsPerHour \in Nat \ {0} /\ Day \in Nat \ {0}
  BY DayFacts

\* The hours of a day go round.
LEMMA DigitsFit ==
  ASSUME NEW s \in Nat \ {0}, NEW h \in Nat \ {0}, NEW a \in Nat,
         NEW b \in 0 .. h - 1, NEW r \in 0 .. s - 1
  PROVE  /\ s * (h * a + b) + r = (s * h) * a + (s * b + r)
         /\ s * b + r \in 0 .. s * h - 1
<1>1. s * (h * a + b) = (s * h) * a + s * b
  OBVIOUS
<1>2. s * (b + 1) <= s * h
  OBVIOUS
<1>3. s * (b + 1) = s * b + s
  OBVIOUS
<1>4. PICK product \in Nat, part \in Nat, high \in Nat :
        product = s * h /\ part = s * b /\ high = (s * h) * a
  OBVIOUS
<1>5. part + s <= product
  BY <1>2, <1>3, <1>4
<1>6. part + r \in 0 .. product - 1
  BY <1>4, <1>5
<1>7. s * (h * a + b) + r = high + (part + r)
  BY <1>1, <1>4
<1> QED BY <1>4, <1>6, <1>7

LEMMA HoursGoRound ==
  ASSUME NEW y \in Nat
  PROVE  /\ (y % Day) \div StepsPerHour = (y \div StepsPerHour) % HoursPerDay
         /\ (y % Day) % StepsPerHour = y % StepsPerHour
         /\ (y \div StepsPerHour) % HoursPerDay \in Hours
<1>1. PICK q \in Nat : \E r \in 0 .. StepsPerHour - 1 :
        q = y \div StepsPerHour /\ r = y % StepsPerHour /\ y = StepsPerHour * q + r
  BY DayConstants, Divided
<1>2. PICK r \in 0 .. StepsPerHour - 1 : r = y % StepsPerHour /\ y = StepsPerHour * q + r
  BY <1>1
<1>3. PICK a \in Nat : \E b \in 0 .. HoursPerDay - 1 :
        b = q % HoursPerDay /\ q = HoursPerDay * a + b
  BY DayConstants, Divided
<1>4. PICK b \in 0 .. HoursPerDay - 1 : b = q % HoursPerDay /\ q = HoursPerDay * a + b
  BY <1>3
<1>5. PICK c : c = StepsPerHour * b + r
  OBVIOUS
<1>6. Day = StepsPerHour * HoursPerDay
  BY DayFacts
<1>7. y = Day * a + c /\ c \in 0 .. Day - 1
  <2>1. /\ StepsPerHour * (HoursPerDay * a + b) + r
              = (StepsPerHour * HoursPerDay) * a + (StepsPerHour * b + r)
        /\ StepsPerHour * b + r \in 0 .. StepsPerHour * HoursPerDay - 1
    BY DayConstants, DigitsFit
  <2>2. y = StepsPerHour * (HoursPerDay * a + b) + r
    BY <1>2, <1>4
  <2> QED BY <1>5, <1>6, <2>1, <2>2
<1>8. y % Day = c
  BY <1>7, DayConstants, Division
<1>9. c \div StepsPerHour = b /\ c % StepsPerHour = r
  <2>1. b \in Nat
    BY DayConstants
  <2> QED BY <1>5, <2>1, DayConstants, Division
<1> QED BY <1>1, <1>2, <1>4, <1>8, <1>9 DEF Hours

LEMMA NextRemainder ==
  ASSUME NEW d \in Nat \ {0}, NEW q \in Nat
  PROVE  /\ q % d \in 0 .. d - 1 /\ q \div d \in Nat
         /\ (q + 1) % d = IF q % d = d - 1 THEN 0 ELSE (q % d) + 1
         /\ (q + 1) \div d = IF q % d = d - 1 THEN q \div d + 1 ELSE q \div d
         /\ (q + d) % d = q % d /\ (q + d) \div d = q \div d + 1
<1>1. PICK a \in Nat : \E b \in 0 .. d - 1 : a = q \div d /\ b = q % d /\ q = d * a + b
  BY Divided
<1>2. PICK b \in 0 .. d - 1 : b = q % d /\ q = d * a + b
  BY <1>1
<1>3. PICK n \in Nat : n = a + 1
  OBVIOUS
<1>4. d * n = d * a + d
  BY <1>3
<1>5. PICK product \in Nat : product = d * a
  OBVIOUS
<1>6. (q + d) % d = b /\ (q + d) \div d = n
  <2>1. q + d = d * n + b
    <3>1. ASSUME NEW x \in Nat, NEW y \in Nat, NEW z \in Nat, z = x + d, q = x + b
          PROVE  q + d = z + b
      BY <3>1
    <3>2. d * n \in Nat /\ d * a \in Nat
      OBVIOUS
    <3> QED BY <1>2, <1>4, <3>1, <3>2
  <2> QED BY <2>1, Division
<1>7. CASE b = d - 1
  <2>1. q + 1 = d * n + 0 /\ 0 \in 0 .. d - 1
    BY <1>2, <1>4, <1>5, <1>7
  <2>2. (q + 1) % d = 0 /\ (q + 1) \div d = n
    BY <2>1, Division
  <2> QED BY <1>1, <1>2, <1>3, <1>6, <1>7, <2>2
<1>8. CASE b # d - 1
  <2>1. q + 1 = d * a + (b + 1)
    BY <1>2, <1>5
  <2>2. b + 1 \in 0 .. d - 1
    BY <1>8
  <2>3. PICK r \in 0 .. d - 1 : r = b + 1
    BY <2>2
  <2>4. q + 1 = d * a + r
    BY <2>1, <2>3
  <2>5. (q + 1) % d = r /\ (q + 1) \div d = a
    BY <2>4, Division
  <2> QED BY <1>1, <1>2, <1>3, <1>6, <1>8, <2>3, <2>5
<1> QED BY <1>7, <1>8

LEMMA NextOfHours ==
  ASSUME NEW q \in Nat
  PROVE  /\ q % HoursPerDay \in Hours
         /\ (q + 1) % HoursPerDay =
              IF q % HoursPerDay = HoursPerDay - 1 THEN 0 ELSE (q % HoursPerDay) + 1
         /\ (q + HoursPerDay) % HoursPerDay = q % HoursPerDay
  BY DayConstants, NextRemainder DEF Hours

\* Within an hour the hour stays; at its end comes the next.
LEMMA NextStepOfHour ==
  ASSUME NEW y \in Nat
  PROVE  /\ (y + 1) % StepsPerHour # 0 => (y + 1) \div StepsPerHour = y \div StepsPerHour
         /\ (y + 1) % StepsPerHour = 0 => (y + 1) \div StepsPerHour = y \div StepsPerHour + 1
<1>1. PICK r \in Nat : r = y % StepsPerHour
  BY DayConstants, NextRemainder
<1>2. /\ (y + 1) % StepsPerHour = IF r = StepsPerHour - 1 THEN 0 ELSE r + 1
      /\ (y + 1) \div StepsPerHour =
           IF r = StepsPerHour - 1 THEN y \div StepsPerHour + 1 ELSE y \div StepsPerHour
  BY <1>1, DayConstants, NextRemainder
<1>3. r + 1 # 0
  OBVIOUS
<1> QED BY <1>2, <1>3

\* The window goes on to its end.
LEMMA WindowGoesOn ==
  ASSUME NEW window \in [start : Hours, end : Hours], NEW hour \in Hours, Within(window, hour),
         NEW next, next = IF hour = HoursPerDay - 1 THEN 0 ELSE hour + 1
  PROVE  next \in Hours /\ (Within(window, next) \/ next = window.end)
  BY DayFacts DEF Within, Hours

LEMMA NoQuietEnd ==
  ASSUME NEW window \in [start : Hours, end : Hours]
  PROVE  ~Within(window, window.end)
  BY DayFacts DEF Within, Hours

\* A zone's steps, before they are taken round the day.
Stepped(zone, t) == t + zone.offset + (IF t >= zone.change THEN zone.by ELSE 0)

LEMMA LocalTime ==
  ASSUME NEW zone \in Zone, NEW t \in Nat
  PROVE  /\ Stepped(zone, t) \in Nat
         /\ zone.offset \in Nat /\ zone.change \in Nat /\ zone.by \in Nat
         /\ Hour(zone, t) = (Stepped(zone, t) \div StepsPerHour) % HoursPerDay
         /\ Hour(zone, t) \in Hours
         /\ OnTheHour(zone, t) <=> Stepped(zone, t) % StepsPerHour = 0
         /\ Local(zone, t) = Stepped(zone, t) % Day
<1>1. zone.offset \in Nat /\ zone.change \in Nat /\ zone.by \in Nat
  BY DayFacts DEF Zone
<1>2. PICK y \in Nat : y = Stepped(zone, t)
  BY <1>1 DEF Stepped
<1>3. Local(zone, t) = y % Day
  BY <1>2 DEF Local, Stepped
<1>4. Hour(zone, t) = (y % Day) \div StepsPerHour /\ (OnTheHour(zone, t) <=> (y % Day) % StepsPerHour = 0)
  BY <1>3 DEF Hour, OnTheHour
<1> QED BY <1>1, <1>2, <1>3, <1>4, HoursGoRound

Kept(p) ==
  /\ p \in Plans
  /\ p.zone.by = 0 => p.zone.change = 0
  /\ (p.zone.change + p.zone.offset) % StepsPerHour = 0

Ends(p, t) == Hour(p.zone, t) = p.window.end /\ OnTheHour(p.zone, t)

Skips(p, t) ==
  /\ p.zone.by = StepsPerHour /\ p.zone.change = t
  /\ Hour(p.zone, t) = (p.window.end + 1) % HoursPerDay

\* From one step to the next, a quiet hour goes on, or it ends on the hour, or
\* the clocks go forward over its end.
LEMMA QuietGoesOn ==
  ASSUME NEW p, Kept(p), NEW t \in Nat, Within(p.window, Hour(p.zone, t)), ~Ends(p, t + 1)
  PROVE  Within(p.window, Hour(p.zone, t + 1)) \/ Skips(p, t + 1)
<1>1. /\ p.zone \in Zone /\ p.window \in [start : Hours, end : Hours] /\ t + 1 \in Nat
      /\ p.zone.by \in {0, StepsPerHour, Day - StepsPerHour}
  BY DEF Kept, Plans, Zone
<1>2. PICK y \in Nat, z \in Nat : y = Stepped(p.zone, t) /\ z = Stepped(p.zone, t + 1)
  BY <1>1, LocalTime
<1>10. p.zone.offset \in Nat /\ p.zone.change \in Nat /\ p.zone.by \in Nat
  BY <1>1, LocalTime
<1>3. PICK q \in Nat, n \in Nat : q = y \div StepsPerHour /\ n = z \div StepsPerHour
  BY <1>2, DayConstants, NextRemainder
<1>4. PICK hour \in Hours : hour = q % HoursPerDay /\ hour = Hour(p.zone, t)
  BY <1>1, <1>2, <1>3, LocalTime
<1>5. PICK later \in Hours : later = n % HoursPerDay /\ later = Hour(p.zone, t + 1)
  BY <1>1, <1>2, <1>3, LocalTime
<1>6. OnTheHour(p.zone, t + 1) <=> z % StepsPerHour = 0
  BY <1>1, <1>2, LocalTime
<1>7. PICK next \in Hours : /\ next = (q + 1) % HoursPerDay
                            /\ Within(p.window, next) \/ next = p.window.end
  BY <1>1, <1>4, NextOfHours, WindowGoesOn
<1>8. CASE p.zone.change # t + 1
  <2>1. z = y + 1
    BY <1>2, <1>8, <1>10 DEF Stepped
  <2>2. CASE z % StepsPerHour = 0
    <3>1. n = q + 1
      BY <1>3, <2>1, <2>2, NextStepOfHour
    <3> QED BY <1>5, <1>6, <1>7, <2>2, <3>1 DEF Ends
  <2>3. CASE z % StepsPerHour # 0
    <3>1. n = q
      BY <1>3, <2>1, <2>3, NextStepOfHour
    <3> QED BY <1>4, <1>5, <3>1
  <2> QED BY <2>2, <2>3
<1>9. CASE p.zone.change = t + 1
  <2>1. PICK by \in Nat : by = p.zone.by /\ z = y + 1 + by /\ by # 0
    <3>1. p.zone.by # 0
      BY <1>9 DEF Kept
    <3>2. y = t + p.zone.offset /\ z = t + 1 + p.zone.offset + p.zone.by
      BY <1>2, <1>9, <1>10 DEF Stepped
    <3> QED BY <1>10, <3>1, <3>2
  <2>2. (y + 1) % StepsPerHour = 0
    <3>1. y + 1 = p.zone.change + p.zone.offset
      BY <1>2, <1>9, <1>10 DEF Stepped
    <3> QED BY <3>1 DEF Kept
  <2>3. (y + 1) \div StepsPerHour = q + 1
    BY <1>3, <2>2, NextStepOfHour
  <2>4. PICK x \in Nat : x = y + 1 /\ x = StepsPerHour * (q + 1)
    <3>1. PICK x \in Nat : x = y + 1
      OBVIOUS
    <3>2. \E a \in Nat, b \in 0 .. StepsPerHour - 1 :
            a = x \div StepsPerHour /\ b = x % StepsPerHour /\ x = StepsPerHour * a + b
      BY DayConstants, Divided
    <3>3. x = StepsPerHour * (q + 1) + 0
      BY <2>2, <2>3, <3>1, <3>2
    <3>4. StepsPerHour * (q + 1) \in Nat
      BY DayConstants
    <3> QED BY <3>1, <3>3, <3>4
  <2>5. CASE by = StepsPerHour
    <3>1. z = StepsPerHour * (q + 2) + 0 /\ 0 \in 0 .. StepsPerHour - 1
      BY <2>1, <2>4, <2>5, DayConstants
    <3>2. PICK m \in Nat : m = q + 2
      OBVIOUS
    <3>3. n = q + 2 /\ z % StepsPerHour = 0
      <4>1. z = StepsPerHour * m + 0
        BY <3>1, <3>2
      <4>2. 0 \in 0 .. StepsPerHour - 1
        BY DayConstants
      <4>3. z \div StepsPerHour = m /\ z % StepsPerHour = 0
        BY <4>1, <4>2, DayConstants, Division
      <4> QED BY <1>3, <3>2, <4>3
    <3>4. later = IF next = HoursPerDay - 1 THEN 0 ELSE next + 1
      <4>1. PICK k \in Nat : k = q + 1 /\ q + 2 = k + 1
        OBVIOUS
      <4> QED BY <1>5, <1>7, <3>3, <4>1, NextOfHours
    <3>5. CASE Within(p.window, next)
      BY <1>1, <1>5, <1>6, <3>3, <3>4, <3>5, WindowGoesOn DEF Ends
    <3>6. CASE next = p.window.end
      <4>1. PICK k \in Nat : k = q + 1 /\ q + 2 = k + 1
        OBVIOUS
      <4>2. (next + 1) % HoursPerDay = IF next = HoursPerDay - 1 THEN 0 ELSE next + 1
        <5>1. next \in Nat /\ next \in 0 .. HoursPerDay - 1
          BY DayConstants DEF Hours
        <5>2. next % HoursPerDay = next
          BY <5>1, DayConstants
        <5> QED BY <5>1, <5>2, NextOfHours
      <4> QED BY <1>5, <1>9, <2>1, <2>5, <3>4, <3>6, <4>2 DEF Skips
    <3> QED BY <1>7, <3>5, <3>6
  <2>6. CASE by # StepsPerHour
    <3>1. by = Day - StepsPerHour /\ Day = StepsPerHour * HoursPerDay
      BY <1>1, <2>1, <2>6, DayFacts
    <3>2. z = StepsPerHour * (q + HoursPerDay) + 0
      <4>1. StepsPerHour * (q + 1) = StepsPerHour * q + StepsPerHour
        BY DayConstants
      <4>2. StepsPerHour * (q + HoursPerDay) = StepsPerHour * q + StepsPerHour * HoursPerDay
        BY DayConstants
      <4>3. StepsPerHour * q \in Nat
        BY DayConstants
      <4> QED BY <2>1, <2>4, <3>1, <4>1, <4>2, <4>3, DayConstants
    <3>3. q + HoursPerDay \in Nat /\ 0 \in 0 .. StepsPerHour - 1
      BY DayConstants
    <3>4. n = q + HoursPerDay
      BY <1>3, <3>2, <3>3, DayConstants, Division
    <3>5. later = hour
      BY <1>4, <1>5, <3>4, NextOfHours
    <3> QED BY <1>4, <1>5, <3>5
  <2> QED BY <2>5, <2>6
<1> QED BY <1>8, <1>9

\* Within a day on which the clocks do not change, the window ends.
LEMMA EndWithinDay ==
  ASSUME NEW p, Kept(p), NEW m \in Nat, NEW shift \in Nat,
         \A t \in m .. m + Day - 1 : Stepped(p.zone, t) = t + shift
  PROVE  \E t \in m .. m + Day - 1 : Ends(p, t)
<1>1. p.zone \in Zone /\ p.window.end \in Hours
  BY DEF Kept, Plans
<1>2. PICK end \in Nat : end = p.window.end /\ end \in 0 .. HoursPerDay - 1
  BY <1>1, DayConstants DEF Hours
<1>3. PICK goal \in Nat : goal = StepsPerHour * end + 0 /\ goal \in 0 .. Day - 1
  <2>1. 0 \in 0 .. StepsPerHour - 1 /\ StepsPerHour * end \in Nat
    BY DayConstants
  <2>2. StepsPerHour * end + 0 \in 0 .. StepsPerHour * HoursPerDay - 1
    BY <1>2, <2>1, DayConstants, DigitsFit
  <2> QED BY <2>1, <2>2, DayFacts
<1>4. goal \div StepsPerHour = end /\ goal % StepsPerHour = 0
  <2>1. 0 \in 0 .. StepsPerHour - 1
    BY DayConstants
  <2> QED BY <1>3, <2>1, DayConstants, Division
<1>5. PICK sum \in Nat : sum = m + shift
  OBVIOUS
<1>6. PICK a \in Nat : \E b \in 0 .. Day - 1 : sum = Day * a + b
  <2>1. Day \in Nat \ {0}
    BY DayConstants
  <2>2. \E q \in Nat, r \in 0 .. Day - 1 : q = sum \div Day /\ r = sum % Day /\ sum = Day * q + r
    BY <2>1, Divided
  <2> QED BY <2>2
<1>7. PICK b \in 0 .. Day - 1 : sum = Day * a + b
  BY <1>6
<1>8. PICK days \in Nat : days = Day * a /\ Day * (a + 1) = days + Day
  BY DayConstants
<1>9. PICK t \in m .. m + Day - 1, k \in Nat : t + shift = Day * k + goal
  <2>1. CASE b <= goal
    <3>1. PICK t \in Nat : t = m + (goal - b)
      BY <1>3, <1>7, <2>1, DayConstants
    <3>2. t \in m .. m + Day - 1 /\ t + shift = days + goal
      BY <1>3, <1>5, <1>7, <1>8, <2>1, <3>1, DayConstants
    <3> QED BY <1>8, <3>2
  <2>2. CASE ~ (b <= goal)
    <3>1. PICK t \in Nat : t = m + (goal + Day - b)
      BY <1>3, <1>7, DayConstants
    <3>2. t \in m .. m + Day - 1 /\ t + shift = days + Day + goal
      BY <1>3, <1>5, <1>7, <1>8, <2>2, <3>1, DayConstants
    <3> QED BY <1>8, <3>2
  <2> QED BY <2>1, <2>2
<1>10. t \in Nat /\ t + shift \in Nat
  BY DayConstants
<1>11. (t + shift) % Day = goal
  <2>1. PICK u \in Nat : u = t + shift /\ u = Day * k + goal
    BY <1>9, <1>10
  <2>2. Day \in Nat \ {0} /\ goal \in 0 .. Day - 1
    BY <1>3, DayConstants
  <2>3. u % Day = goal
    BY <2>1, <2>2, Division
  <2> QED BY <2>1, <2>3
<1>12. Local(p.zone, t) = goal
  BY <1>1, <1>10, <1>11, LocalTime
<1> QED BY <1>2, <1>4, <1>12 DEF Ends, Hour, OnTheHour

LEMMA EndComes ==
  ASSUME NEW p, Kept(p), NEW m \in Nat
  PROVE  \E t \in m + 1 .. m + 2 * Day : Ends(p, t)
<1>1. PICK offset \in Nat, change \in Nat, by \in Nat :
        offset = p.zone.offset /\ change = p.zone.change /\ by = p.zone.by
  BY LocalTime DEF Kept, Plans
<1>2. \A t : Stepped(p.zone, t) = t + offset + (IF t >= change THEN by ELSE 0)
  BY <1>1 DEF Stepped
<1>3. Day \in Nat \ {0}
  BY DayConstants
<1>4. CASE change > m + Day
  <2>1. m + 1 \in Nat
    OBVIOUS
  <2>2. \A t \in m + 1 .. (m + 1) + Day - 1 : Stepped(p.zone, t) = t + offset
    BY <1>2, <1>3, <1>4
  <2>3. \E t \in m + 1 .. (m + 1) + Day - 1 : Ends(p, t)
    BY <2>1, <2>2, EndWithinDay
  <2> QED BY <1>3, <2>3
<1>5. CASE change <= m + Day
  <2>1. PICK from \in Nat : from >= change /\ from \in m + 1 .. m + Day
    <3>1. CASE change <= m
      BY <1>3, <3>1
    <3>2. CASE change > m
      BY <1>5, <3>2
    <3> QED BY <3>1, <3>2
  <2>2. PICK shift \in Nat : shift = offset + by
    OBVIOUS
  <2>3. \A t \in from .. from + Day - 1 : Stepped(p.zone, t) = t + shift
    BY <1>2, <1>3, <2>1, <2>2
  <2>4. \E t \in from .. from + Day - 1 : Ends(p, t)
    BY <2>2, <2>3, EndWithinDay
  <2> QED BY <1>3, <2>1, <2>4
<1> QED BY <1>3, <1>4, <1>5

-----------------------------------------------------------------------------
\* All quiet up to the candidate, none of whose predecessors was the end.
QuietUpTo(t) == (\A u \in plan.at .. t : Quiet(u)) \/ EndWasSkipped

SearchFits ==
  /\ QuietTypeOK /\ Kept(plan) /\ candidate >= plan.at
  /\ outcome = "planning" => candidate = plan.at
  /\ outcome = "now" /\ ~plan.exempt => ~Quiet(plan.at)
  /\ outcome = "searching" =>
       /\ QuietUpTo(candidate)
       /\ \A t \in plan.at + 1 .. candidate : ~Ends(plan, t)
  /\ outcome = "later" => QuietUpTo(candidate - 1) /\ Ends(plan, candidate)

LEMMA SearchStart == QuietInit => SearchFits
<1> SUFFICES ASSUME QuietInit PROVE SearchFits
  OBVIOUS
<1>1. plan.at \in Nat
  BY DayConstants DEF QuietInit, Plans
<1> QED BY <1>1 DEF QuietInit, SearchFits, Kept, QuietTypeOK

LEMMA PlanningStep == ASSUME SearchFits, PlanDelivery PROVE SearchFits'
<1>1. /\ UNCHANGED <<plan, candidate>> /\ outcome = "planning" /\ candidate = plan.at
      /\ outcome' = IF plan.exempt \/ ~Quiet(plan.at) THEN "now" ELSE "searching"
  BY DEF PlanDelivery, SearchFits
<1>2. plan.at \in Nat
  BY DayConstants DEF SearchFits, Kept, Plans
<1>3. /\ (outcome' = "now" /\ ~plan.exempt => ~Quiet(plan.at))
      /\ (outcome' = "searching" => Quiet(plan.at))
      /\ outcome' \in {"now", "searching"}
  BY <1>1
<1>4. outcome' = "searching" => QuietUpTo(candidate) /\ \A t \in plan.at + 1 .. candidate : ~Ends(plan, t)
  <2>1. \A u \in plan.at .. plan.at : u = plan.at
    BY <1>2
  <2>2. plan.at + 1 .. plan.at = {}
    BY <1>2
  <2> QED BY <1>1, <1>3, <2>1, <2>2 DEF QuietUpTo
<1>5. /\ UNCHANGED QuietUpTo(candidate) /\ UNCHANGED Quiet(plan.at)
      /\ \A t : Ends(plan, t)' <=> Ends(plan, t)
      /\ Kept(plan)' <=> Kept(plan)
  BY <1>1 DEF QuietUpTo, Quiet, EndWasSkipped, Ends, Kept
<1> QED BY <1>1, <1>3, <1>4, <1>5 DEF SearchFits, QuietTypeOK

LEMMA SearchStep == ASSUME SearchFits, SearchOn PROVE SearchFits'
<1>1. /\ plan' = plan /\ outcome = "searching" /\ candidate' = candidate + 1
      /\ outcome' = IF EndsQuietHours(candidate + 1) \/ candidate + 1 >= plan.at + MaxSteps
                    THEN "later" ELSE "searching"
  BY DEF SearchOn, NextCandidate, EndsQuietHours
<1>2. /\ plan.at \in Nat /\ candidate \in Nat /\ candidate >= plan.at /\ Kept(plan)
      /\ plan.zone.change \in Nat
  BY DayConstants, LocalTime DEF SearchFits, Kept, Plans, QuietTypeOK
<1>3. \A t : EndsQuietHours(t) <=> Ends(plan, t)
  BY DEF EndsQuietHours, Ends
<1>4. Ends(plan, candidate + 1) \/ candidate + 1 < plan.at + MaxSteps
  <2>1. SUFFICES ASSUME candidate + 1 >= plan.at + MaxSteps PROVE Ends(plan, candidate + 1)
    BY <1>2, DayFacts
  <2>2. PICK t \in plan.at + 1 .. plan.at + 2 * Day : Ends(plan, t)
    BY <1>2, EndComes
  <2>3. t \in plan.at + 1 .. candidate \/ t = candidate + 1
    BY <1>2, <2>1, DayFacts
  <2> QED BY <1>1, <2>2, <2>3 DEF SearchFits
<1>5. outcome' = IF Ends(plan, candidate + 1) THEN "later" ELSE "searching"
  BY <1>1, <1>2, <1>3, <1>4, DayFacts
<1>6. QuietUpTo(candidate)
  BY <1>1 DEF SearchFits
<1>7. EndWasSkipped => EndWasSkipped'
  BY <1>1, <1>2 DEF EndWasSkipped
<1>8. QuietUpTo(candidate') \/ Ends(plan, candidate + 1) \/ EndWasSkipped'
  <2>1. SUFFICES ASSUME ~Ends(plan, candidate + 1), ~EndWasSkipped'
                 PROVE  QuietUpTo(candidate + 1)
    BY <1>1
  <2>2. \A u \in plan.at .. candidate : Quiet(u)
    BY <1>6, <1>7, <2>1 DEF QuietUpTo
  <2>3. Within(plan.window, Hour(plan.zone, candidate))
    BY <1>2, <2>2 DEF Quiet
  <2>4. Within(plan.window, Hour(plan.zone, candidate + 1)) \/ Skips(plan, candidate + 1)
    BY <1>2, <2>1, <2>3, QuietGoesOn
  <2>5. ~Skips(plan, candidate + 1)
    BY <1>1, <1>2, <2>1 DEF Skips, EndWasSkipped
  <2>6. \A u \in plan.at .. candidate + 1 : u \in plan.at .. candidate \/ u = candidate + 1
    BY <1>2
  <2> QED BY <2>2, <2>4, <2>5, <2>6 DEF QuietUpTo, Quiet
<1>9. \A u : Quiet(u)' <=> Quiet(u)
  BY <1>1 DEF Quiet
<1>10. outcome' = "later" => QuietUpTo(candidate - 1)' /\ Ends(plan, candidate)'
  <2>1. SUFFICES ASSUME outcome' = "later" PROVE QuietUpTo(candidate - 1)' /\ Ends(plan, candidate)'
    OBVIOUS
  <2>2. Ends(plan, candidate)'
    BY <1>1, <1>5, <2>1 DEF Ends
  <2>3. (candidate - 1)' = candidate
    BY <1>1, <1>2
  <2> QED BY <1>1, <1>6, <1>7, <1>9, <2>2, <2>3 DEF QuietUpTo
<1>11. outcome' = "searching" =>
         QuietUpTo(candidate)' /\ \A t \in plan.at + 1 .. candidate + 1 : ~Ends(plan, t)
  <2>1. SUFFICES ASSUME outcome' = "searching"
                 PROVE  QuietUpTo(candidate)' /\ \A t \in plan.at + 1 .. candidate + 1 : ~Ends(plan, t)
    OBVIOUS
  <2>2. ~Ends(plan, candidate + 1)
    BY <1>5, <2>1
  <2>3. QuietUpTo(candidate)'
    BY <1>1, <1>7, <1>8, <1>9, <2>2 DEF QuietUpTo
  <2>4. \A t \in plan.at + 1 .. candidate + 1 : t \in plan.at + 1 .. candidate \/ t = candidate + 1
    BY <1>2
  <2> QED BY <1>1, <2>2, <2>3, <2>4 DEF SearchFits
<1>12. QuietTypeOK' /\ Kept(plan)' /\ candidate' >= plan'.at
  BY <1>1, <1>2, <1>5 DEF SearchFits, QuietTypeOK, Kept
<1>13. \A t : Ends(plan, t)' <=> Ends(plan, t)
  BY <1>1 DEF Ends
<1> QED BY <1>1, <1>5, <1>10, <1>11, <1>12, <1>13 DEF SearchFits

LEMMA SearchEnds == SearchFits => QuietInv
<1> SUFFICES ASSUME SearchFits PROVE LeavesOutsideQuietHours
  BY DEF SearchFits, QuietInv
<1>1. plan.window \in [start : Hours, end : Hours]
  BY DEF SearchFits, Kept, Plans
<1>2. ASSUME outcome = "later" PROVE ~Quiet(candidate)
  BY <1>1, <1>2, NoQuietEnd DEF SearchFits, Ends, Quiet
<1> QED BY <1>2 DEF SearchFits, LeavesOutsideQuietHours, QuietUpTo

(* For any length of the day, zone and change of the clocks: nothing that  *)
(* is not exempt leaves in quiet hours, the search finds their end before  *)
(* it gives up, and only a change over that end makes it wait a day more.  *)
THEOREM QuietHoursAreKept == QuietSpec => []QuietInv
<1>1. QuietInit => SearchFits
  BY SearchStart
<1>2. SearchFits /\ [QuietNext]_quietVars => SearchFits'
  <2>1. ASSUME SearchFits, UNCHANGED quietVars PROVE SearchFits'
    <3>1. UNCHANGED <<plan, candidate, outcome>>
      BY <2>1 DEF quietVars
    <3> QED BY <2>1, <3>1 DEF SearchFits, QuietTypeOK, Kept, QuietUpTo, Quiet, EndWasSkipped, Ends
  <2> QED BY <2>1, PlanningStep, SearchStep DEF QuietNext
<1>3. SearchFits => QuietInv
  BY SearchEnds
<1> QED BY <1>1, <1>2, <1>3, PTL DEF QuietSpec

-----------------------------------------------------------------------------
(***************************************************************************)
(* The fusion of two rankings.                                             *)
(***************************************************************************)
LEMMA RetrievalConstants ==
  /\ RRF_K \in Nat \ {0} /\ CandidateLimit \in Nat \ {0} /\ Scale \in Nat \ {0} /\ TopN \in Nat \ {0}
  /\ \A c \in Chunks : c \in Nat
  /\ \A rank \in 1 .. CandidateLimit : Scale % (RRF_K + rank) = 0
  BY RetrievalAssumption

\* Numbers given to the members of a finite set, each its own, are all given.
LEMMA AllAreGiven ==
  ASSUME NEW S, IsFiniteSet(S), NEW at \in [S -> 1 .. Cardinality(S)],
         \A x, y \in S : at[x] = at[y] => x = y
  PROVE  \A n \in 1 .. Cardinality(S) : \E x \in S : at[x] = n
<1>1. PICK size \in Nat : size = Cardinality(S)
  BY FS_CardinalityType
<1>2. IsFiniteSet(1 .. size) /\ Cardinality(1 .. size) = size
  BY FS_Interval
<1>3. at \in Injection(S, 1 .. size)
  BY <1>1 DEF Injection, IsInjective
<1>4. at \in Surjection(S, 1 .. size)
  BY <1>1, <1>2, <1>3, FS_Injection
<1> QED BY <1>1, <1>4 DEF Surjection

\* What is kept of a list keeps its order.
KeepsOrder(list, places, size) ==
  /\ size = Cardinality(places)
  /\ DOMAIN KeptAt(list, places) = 1 .. size
  /\ \E place \in [1 .. size -> places] :
       /\ \A n \in 1 .. size : KeptAt(list, places)[n] = list[place[n]]
       /\ \A n, m \in 1 .. size : n < m => place[n] < place[m]
       /\ \A i \in places : \E n \in 1 .. size : place[n] = i

LEMMA KeptInOrder ==
  ASSUME NEW list, NEW places, places \subseteq Nat, IsFiniteSet(places)
  PROVE  \E size \in Nat : KeepsOrder(list, places, size)
<1> DEFINE Until(i) == {j \in places : j <= i}
           given == [i \in places |-> Cardinality(Until(i))]
           place == [n \in 1 .. Cardinality(places) |->
                       CHOOSE i \in places : Cardinality(Until(i)) = n]
<1>1. PICK size \in Nat : size = Cardinality(places)
  BY FS_CardinalityType
<1>2. ASSUME NEW i \in places
      PROVE  IsFiniteSet(Until(i)) /\ Cardinality(Until(i)) \in 1 .. size
  <2>1. Until(i) \subseteq places /\ i \in Until(i)
    OBVIOUS
  <2>2. IsFiniteSet(Until(i)) /\ Cardinality(Until(i)) <= size
    BY <1>1, <2>1, FS_Subset
  <2>3. Cardinality(Until(i)) \in Nat /\ Cardinality(Until(i)) # 0
    BY <2>1, <2>2, FS_CardinalityType, FS_EmptySet
  <2> QED BY <2>2, <2>3
<1>3. ASSUME NEW i \in places, NEW j \in places, i < j
      PROVE  Cardinality(Until(i)) < Cardinality(Until(j))
  <2>0. \A k \in places : k \in Nat
    OBVIOUS
  <2>1. Until(i) \subseteq Until(j) /\ j \in Until(j) /\ j \notin Until(i)
    <3>1. \A k \in Until(i) : k \in places /\ k <= j
      BY <1>3, <2>0
    <3>2. j <= j /\ ~ (j <= i)
      BY <1>3, <2>0
    <3> QED BY <3>1, <3>2
  <2>2. /\ Cardinality(Until(i)) <= Cardinality(Until(j))
        /\ Cardinality(Until(i)) # Cardinality(Until(j))
    BY <1>2, <2>1, FS_Subset
  <2> QED BY <1>2, <2>2
<1>4. \A i, j \in places : given[i] = given[j] => i = j
  <2>1. ASSUME NEW i \in places, NEW j \in places, given[i] = given[j] PROVE i = j
    <3>1. ~ (i < j) /\ ~ (j < i)
      BY <1>2, <1>3, <2>1
    <3> QED BY <3>1
  <2> QED BY <2>1
<1>5. \A n \in 1 .. size : \E i \in places : given[i] = n
  <2>1. given \in [places -> 1 .. Cardinality(places)]
    BY <1>1, <1>2
  <2> HIDE DEF given
  <2> QED BY <1>1, <1>4, <2>1, AllAreGiven
<1>6. \A n \in 1 .. size : place[n] \in places /\ Cardinality(Until(place[n])) = n
  <2>1. ASSUME NEW n \in 1 .. size PROVE \E i \in places : Cardinality(Until(i)) = n
    BY <1>5
  <2> QED BY <1>1, <2>1
<1>7. /\ DOMAIN KeptAt(list, places) = 1 .. size
      /\ \A n \in 1 .. size : KeptAt(list, places)[n] = list[place[n]]
  BY <1>1 DEF KeptAt
<1>8. ASSUME NEW n \in 1 .. size, NEW m \in 1 .. size, n < m PROVE place[n] < place[m]
  <2>1. PICK i \in places, j \in places :
          i = place[n] /\ j = place[m] /\ Cardinality(Until(i)) = n /\ Cardinality(Until(j)) = m
    BY <1>6
  <2> HIDE DEF place
  <2>2. i # j
    <3>1. n # m
      BY <1>8
    <3> QED BY <2>1, <3>1
  <2>3. ASSUME j < i PROVE FALSE
    <3>1. Cardinality(Until(j)) < Cardinality(Until(i))
      BY <1>3, <2>3
    <3> QED BY <1>8, <2>1, <3>1
  <2>4. i \in Nat /\ j \in Nat
    OBVIOUS
  <2>5. i < j
    BY <2>2, <2>3, <2>4
  <2> QED BY <2>1, <2>5
<1>9. ASSUME NEW i \in places PROVE \E n \in 1 .. size : place[n] = i
  <2>1. PICK n \in 1 .. size : n = Cardinality(Until(i))
    BY <1>2
  <2>2. given[place[n]] = given[i] /\ place[n] \in places
    BY <1>6, <2>1
  <2>3. place[n] = i
    BY <1>4, <2>2
  <2> QED BY <2>3
<1>10. place \in [1 .. size -> places]
  BY <1>1, <1>6
<1> HIDE DEF place
<1> QED BY <1>1, <1>7, <1>8, <1>9, <1>10 DEF KeepsOrder

-----------------------------------------------------------------------------
\* Both lists have been read.
ListsRead == dense \in Rankings(Chunks) /\ sparse \in Rankings(Chunks)

LEMMA RankType ==
  ASSUME NEW list \in Rankings(Chunks), NEW c
  PROVE  /\ RankIn(list, c) \in 1 .. CandidateLimit + 1
         /\ c \in Range(list) => RankIn(list, c) \in DOMAIN list /\ list[RankIn(list, c)] = c
                                 /\ RankIn(list, c) <= CandidateLimit
         /\ c \notin Range(list) => RankIn(list, c) = CandidateLimit + 1
<1>1. PICK length \in 0 .. CandidateLimit : list \in [1 .. length -> Chunks]
  BY RetrievalConstants DEF Rankings, SeqOf
<1>2. CASE c \in Range(list)
  <2>1. \E r \in DOMAIN list : list[r] = c
    BY <1>2 DEF Range
  <2>2. RankIn(list, c) \in DOMAIN list /\ list[RankIn(list, c)] = c
    BY <1>2, <2>1 DEF RankIn
  <2> QED BY <1>1, <1>2, <2>2, RetrievalConstants
<1>3. CASE c \notin Range(list)
  BY <1>3, RetrievalConstants DEF RankIn
<1> QED BY <1>2, <1>3

LEMMA ReciprocalFalls ==
  ASSUME NEW a \in 1 .. CandidateLimit + 1, NEW b \in 1 .. CandidateLimit + 1
  PROVE  /\ Reciprocal(a) \in Nat
         /\ a < b => Reciprocal(a) > Reciprocal(b)
<1>1. ASSUME NEW r \in 1 .. CandidateLimit
      PROVE  \E x \in Nat : Reciprocal(r) = x /\ Scale = (RRF_K + r) * x
  <2>1. PICK d \in Nat \ {0} : d = RRF_K + r /\ Scale % d = 0
    BY RetrievalConstants
  <2>2. \E q \in Nat, m \in 0 .. d - 1 : q = Scale \div d /\ m = Scale % d /\ Scale = d * q + m
    BY <2>1, RetrievalConstants, Divided
  <2>3. PICK q \in Nat : q = Scale \div d /\ Scale = d * q
    <3>1. PICK q \in Nat : q = Scale \div d /\ Scale = d * q + 0
      BY <2>1, <2>2
    <3>2. d * q \in Nat
      OBVIOUS
    <3> QED BY <3>1, <3>2
  <2>4. Reciprocal(r) = q
    BY <2>1, <2>3, RetrievalConstants DEF Reciprocal
  <2> QED BY <2>1, <2>3, <2>4
<1>2. ASSUME NEW r \in 1 .. CandidateLimit + 1, ~ (r \in 1 .. CandidateLimit)
      PROVE  r = CandidateLimit + 1 /\ Reciprocal(r) = 0
  BY <1>2, RetrievalConstants DEF Reciprocal
<1>3. ASSUME NEW d \in Nat \ {0}, NEW e \in Nat \ {0}, NEW x \in Nat, NEW y \in Nat,
             d < e, d * x = Scale, e * y = Scale
      PROVE  x > y
  <2>1. x # 0 /\ y # 0
    BY <1>3, RetrievalConstants
  <2>2. ASSUME x <= y PROVE FALSE
    <3>1. d * x <= d * y
      BY <2>2
    <3>2. d * y < e * y
      BY <1>3, <2>1
    <3>3. d * x \in Nat /\ d * y \in Nat /\ e * y \in Nat
      OBVIOUS
    <3> QED BY <1>3, <3>1, <3>2, <3>3
  <2> QED BY <2>2
<1>4. CASE a \in 1 .. CandidateLimit
  <2>1. PICK x \in Nat : Reciprocal(a) = x /\ Scale = (RRF_K + a) * x
    BY <1>1, <1>4
  <2>2. ASSUME a < b PROVE x > Reciprocal(b)
    <3>1. CASE b \in 1 .. CandidateLimit
      <4>1. PICK y \in Nat : Reciprocal(b) = y /\ Scale = (RRF_K + b) * y
        BY <1>1, <3>1
      <4>2. PICK d \in Nat \ {0}, e \in Nat \ {0} : d = RRF_K + a /\ e = RRF_K + b /\ d < e
        BY <2>2, RetrievalConstants
      <4> QED BY <1>3, <2>1, <4>1, <4>2
    <3>2. CASE ~ (b \in 1 .. CandidateLimit)
      <4>1. x # 0
        BY <2>1, RetrievalConstants
      <4> QED BY <1>2, <3>2, <4>1
    <3> QED BY <3>1, <3>2
  <2> QED BY <2>1, <2>2
<1>5. CASE ~ (a \in 1 .. CandidateLimit)
  BY <1>2, <1>5, RetrievalConstants
<1> QED BY <1>4, <1>5

-----------------------------------------------------------------------------
\* The candidates, and what the fusion counts for them.
LEMMA CandidatesFacts ==
  ASSUME ListsRead
  PROVE  /\ IsFiniteSet(Candidates) /\ Candidates \subseteq Chunks
         /\ dense \in Seq(Chunks) /\ sparse \in Seq(Chunks)
<1>1. ASSUME NEW list \in Rankings(Chunks)
      PROVE  /\ IsFiniteSet(Range(list)) /\ Range(list) \subseteq Chunks
             /\ list \in Seq(Chunks)
  <2>1. PICK length \in 0 .. CandidateLimit : list \in [1 .. length -> Chunks]
    BY RetrievalConstants DEF Rankings, SeqOf
  <2>2. IsFiniteSet(1 .. length)
    BY FS_Interval
  <2>3. Range(list) = {list[i] : i \in 1 .. length}
    BY <2>1 DEF Range
  <2>4. IsFiniteSet(Range(list))
    <3>1. list \in Surjection(1 .. length, Range(list))
      BY <2>1, <2>3 DEF Surjection
    <3> QED BY <2>2, <3>1, FS_Surjection
  <2>5. list \in Seq(Chunks)
    BY <2>1, SeqDef
  <2> QED BY <2>1, <2>3, <2>4, <2>5
<1>2. IsFiniteSet(Range(dense)) /\ IsFiniteSet(Range(sparse))
  BY <1>1 DEF ListsRead
<1>3. IsFiniteSet(Candidates)
  BY <1>2, FS_Union DEF Candidates
<1> QED BY <1>1, <1>3 DEF Candidates, ListsRead

LEMMA ScoreType ==
  ASSUME ListsRead, NEW c
  PROVE  Score(c) \in Nat /\ BestRank(c) \in Nat
<1>1. PICK a \in 1 .. CandidateLimit + 1, b \in 1 .. CandidateLimit + 1 :
        a = RankIn(dense, c) /\ b = RankIn(sparse, c)
  BY RankType DEF ListsRead
<1>2. Reciprocal(a) \in Nat /\ Reciprocal(b) \in Nat
  BY ReciprocalFalls
<1>3. Score(c) \in Nat
  BY <1>1, <1>2 DEF Score
<1>4. BestRank(c) \in Nat
  BY <1>1, RetrievalConstants DEF BestRank
<1> QED BY <1>3, <1>4

\* The order of the sort is a strict and total one.
LEMMA OrderOfSort ==
  ASSUME ListsRead
  PROVE  /\ \A c \in Candidates : ~ Outranks(c, c)
         /\ \A c, d \in Candidates : c = d \/ Outranks(c, d) \/ Outranks(d, c)
         /\ \A c, d, e \in Candidates : Outranks(c, d) /\ Outranks(d, e) => Outranks(c, e)
<1>1. \A c \in Candidates : c \in Nat /\ Score(c) \in Nat /\ BestRank(c) \in Nat
  BY CandidatesFacts, ScoreType, RetrievalConstants
<1>2. ASSUME NEW c \in Candidates PROVE ~ Outranks(c, c)
  <2>1. PICK i \in Nat, s \in Nat, b \in Nat : i = c /\ s = Score(c) /\ b = BestRank(c)
    BY <1>1
  <2> QED BY <2>1 DEF Outranks
<1>3. ASSUME NEW c \in Candidates, NEW d \in Candidates
      PROVE  c = d \/ Outranks(c, d) \/ Outranks(d, c)
  <2>1. PICK i \in Nat, s \in Nat, b \in Nat : i = c /\ s = Score(c) /\ b = BestRank(c)
    BY <1>1
  <2>2. PICK j \in Nat, t \in Nat, a \in Nat : j = d /\ t = Score(d) /\ a = BestRank(d)
    BY <1>1
  <2> QED BY <2>1, <2>2 DEF Outranks
<1>4. ASSUME NEW c \in Candidates, NEW d \in Candidates, NEW e \in Candidates,
             Outranks(c, d), Outranks(d, e)
      PROVE  Outranks(c, e)
  <2>1. PICK i \in Nat, s \in Nat, b \in Nat : i = c /\ s = Score(c) /\ b = BestRank(c)
    BY <1>1
  <2>2. PICK j \in Nat, t \in Nat, a \in Nat : j = d /\ t = Score(d) /\ a = BestRank(d)
    BY <1>1
  <2>3. PICK k \in Nat, u \in Nat, z \in Nat : k = e /\ u = Score(e) /\ z = BestRank(e)
    BY <1>1
  <2> QED BY <1>4, <2>1, <2>2, <2>3 DEF Outranks
<1> QED BY <1>2, <1>3, <1>4

\* The fused list holds every candidate once, each behind those outranking it.
LEMMA FusedFacts ==
  ASSUME ListsRead, NEW size \in Nat, size = Cardinality(Candidates)
  PROVE  /\ Fused \in [1 .. size -> Candidates]
         /\ \A c \in Candidates : Standing(c) \in 1 .. size /\ Fused[Standing(c)] = c
         /\ \A n \in 1 .. size : Standing(Fused[n]) = n
         /\ \A c, d \in Candidates : Outranks(c, d) => Standing(c) < Standing(d)
<1> DEFINE Ahead(c) == {d \in Candidates : d = c \/ Outranks(d, c)}
           at == [c \in Candidates |-> Standing(c)]
<1>1. IsFiniteSet(Candidates)
  BY CandidatesFacts
<1>2. ASSUME NEW c \in Candidates
      PROVE  IsFiniteSet(Ahead(c)) /\ Standing(c) = Cardinality(Ahead(c)) /\ Standing(c) \in 1 .. size
  <2>1. Ahead(c) \subseteq Candidates /\ c \in Ahead(c)
    OBVIOUS
  <2>2. IsFiniteSet(Ahead(c)) /\ Cardinality(Ahead(c)) <= size
    BY <1>1, <2>1, FS_Subset
  <2>3. Cardinality(Ahead(c)) \in Nat /\ Cardinality(Ahead(c)) # 0
    BY <2>1, <2>2, FS_CardinalityType, FS_EmptySet
  <2>4. Standing(c) = Cardinality(Ahead(c))
    BY DEF Standing
  <2> QED BY <2>2, <2>3, <2>4
<1>3. ASSUME NEW c \in Candidates, NEW d \in Candidates, Outranks(c, d)
      PROVE  Standing(c) < Standing(d)
  <2>1. \A e \in Ahead(c) : e \in Ahead(d)
    BY <1>3, OrderOfSort
  <2>2. d \in Ahead(d) /\ d \notin Ahead(c)
    BY <1>3, OrderOfSort
  <2>3. Ahead(c) \subseteq Ahead(d) /\ Ahead(c) # Ahead(d)
    BY <2>1, <2>2
  <2>4. /\ Cardinality(Ahead(c)) <= Cardinality(Ahead(d))
        /\ Cardinality(Ahead(c)) # Cardinality(Ahead(d))
    BY <1>2, <2>3, FS_Subset
  <2> HIDE DEF Ahead
  <2> QED BY <1>2, <2>4
<1>4. ASSUME NEW c \in Candidates, NEW d \in Candidates, Standing(c) = Standing(d) PROVE c = d
  <2>1. ASSUME Outranks(c, d) PROVE FALSE
    <3>1. Standing(c) < Standing(d) /\ Standing(c) \in 1 .. size /\ Standing(d) \in 1 .. size
      BY <1>2, <1>3, <2>1
    <3> QED BY <1>4, <3>1
  <2>2. ASSUME Outranks(d, c) PROVE FALSE
    <3>1. Standing(d) < Standing(c) /\ Standing(c) \in 1 .. size /\ Standing(d) \in 1 .. size
      BY <1>2, <1>3, <2>2
    <3> QED BY <1>4, <3>1
  <2> QED BY <2>1, <2>2, OrderOfSort
<1>5. ASSUME NEW n \in 1 .. size PROVE \E c \in Candidates : Standing(c) = n
  <2>1. at \in [Candidates -> 1 .. Cardinality(Candidates)]
    BY <1>2
  <2>2. \A c, d \in Candidates : at[c] = at[d] => c = d
    BY <1>4
  <2>3. \E c \in Candidates : at[c] = n
    <3> HIDE DEF at
    <3> QED BY <1>1, <2>1, <2>2, AllAreGiven
  <2> QED BY <2>3
<1>6. ASSUME NEW n \in 1 .. size PROVE Fused[n] \in Candidates /\ Standing(Fused[n]) = n
  <2>1. Fused[n] = CHOOSE c \in Candidates : Standing(c) = n
    BY DEF Fused
  <2> QED BY <1>5, <2>1
<1>7. Fused \in [1 .. size -> Candidates]
  <2>1. Fused = [n \in 1 .. size |-> Fused[n]]
    BY DEF Fused
  <2> QED BY <1>6, <2>1
<1>8. ASSUME NEW c \in Candidates PROVE Fused[Standing(c)] = c
  <2>1. Standing(c) \in 1 .. size
    BY <1>2
  <2>2. Fused[Standing(c)] \in Candidates /\ Standing(Fused[Standing(c)]) = Standing(c)
    BY <1>6, <2>1
  <2> QED BY <1>4, <2>2
<1> QED BY <1>2, <1>3, <1>6, <1>7, <1>8

-----------------------------------------------------------------------------
\* Values that are listed once each are as many as the list is long.
LEMMA ListedOnce ==
  ASSUME NEW count \in Nat, NEW T, NEW value \in [1 .. count -> T],
         \A n, m \in 1 .. count : n < m => value[n] # value[m],
         \A t \in T : \E n \in 1 .. count : value[n] = t
  PROVE  IsFiniteSet(T) /\ Cardinality(T) = count
<1>1. IsFiniteSet(1 .. count) /\ Cardinality(1 .. count) = count
  BY FS_Interval
<1>2. ASSUME NEW n \in 1 .. count, NEW m \in 1 .. count, value[n] = value[m] PROVE n = m
  <2>1. ~ (n < m) /\ ~ (m < n)
    BY <1>2
  <2> QED BY <2>1
<1>3. value \in Bijection(1 .. count, T)
  BY <1>2 DEF Bijection, Injection, Surjection, IsInjective
<1> QED BY <1>1, <1>3, FS_Bijection DEF ExistsBijection

\* The collapse keeps the first candidate of each text, in the order of the sort.
Collapsed(list, count) ==
  /\ count \in Nat /\ list \in [1 .. count -> Candidates]
  /\ \A n, m \in 1 .. count : n < m =>
       /\ index.text[list[n]] # index.text[list[m]]
       /\ Standing(list[n]) < Standing(list[m])
  /\ \A c \in Candidates : \E n \in 1 .. count :
       index.text[list[n]] = index.text[c] /\ Standing(list[n]) <= Standing(c)
  /\ Cardinality(TextsOf(Candidates)) = count

LEMMA CollapsedIs ==
  ASSUME ListsRead
  PROVE  \E count \in Nat : Collapsed(Deduplicated(Fused), count)
<1> DEFINE places == FirstsOf(Fused)
           list == Deduplicated(Fused)
           text(n) == index.text[Fused[n]]
<1>1. PICK size \in Nat : size = Cardinality(Candidates)
  BY CandidatesFacts, FS_CardinalityType
<1>2. /\ Fused \in [1 .. size -> Candidates]
      /\ \A c \in Candidates : Standing(c) \in 1 .. size /\ Fused[Standing(c)] = c
      /\ \A n \in 1 .. size : Standing(Fused[n]) = n
  BY <1>1, FusedFacts
<1>3. \A i : i \in places <=> i \in 1 .. size /\ \A j \in 1 .. i - 1 : text(j) # text(i)
  BY <1>2 DEF FirstsOf
<1>4. places \subseteq 1 .. size /\ places \subseteq Nat /\ IsFiniteSet(places)
  <2>1. IsFiniteSet(1 .. size)
    BY FS_Interval
  <2>2. places \subseteq 1 .. size
    BY <1>3
  <2>3. 1 .. size \subseteq Nat
    OBVIOUS
  <2> HIDE DEF places
  <2>4. IsFiniteSet(places)
    BY <2>1, <2>2, FS_Subset
  <2> QED BY <2>2, <2>3, <2>4
<1>5. PICK count \in Nat : count = Cardinality(places)
  BY <1>4, FS_CardinalityType
<1>6. PICK place \in [1 .. count -> places] :
        /\ DOMAIN list = 1 .. count
        /\ \A n \in 1 .. count : list[n] = Fused[place[n]]
        /\ \A n, m \in 1 .. count : n < m => place[n] < place[m]
        /\ \A i \in places : \E n \in 1 .. count : place[n] = i
  <2> HIDE DEF places
  <2>1. list = KeptAt(Fused, places)
    BY DEF Deduplicated, places
  <2> HIDE DEF list
  <2>2. \E length \in Nat : KeepsOrder(Fused, places, length)
    BY <1>4, KeptInOrder
  <2>3. KeepsOrder(Fused, places, count)
    BY <1>5, <2>2 DEF KeepsOrder
  <2> QED BY <2>1, <2>3 DEF KeepsOrder
<1>7. list \in [1 .. count -> Candidates]
  <2>1. \A n \in 1 .. count : list[n] \in Candidates
    BY <1>2, <1>4, <1>6
  <2>2. list = [n \in DOMAIN list |-> list[n]]
    BY DEF Deduplicated, KeptAt
  <2> HIDE DEF list
  <2> QED BY <1>6, <2>1, <2>2
<1>8. ASSUME NEW n \in 1 .. count, NEW m \in 1 .. count, n < m
      PROVE  index.text[list[n]] # index.text[list[m]] /\ Standing(list[n]) < Standing(list[m])
  <2>1. PICK i \in places, j \in places :
          i = place[n] /\ j = place[m] /\ i < j /\ list[n] = Fused[i] /\ list[m] = Fused[j]
    BY <1>6, <1>8
  <2>2. i \in 1 .. size /\ j \in 1 .. size /\ i \in 1 .. j - 1
    BY <1>4, <2>1
  <2>3. text(i) # text(j)
    BY <1>3, <2>2
  <2>4. Standing(Fused[i]) = i /\ Standing(Fused[j]) = j
    BY <1>2, <2>2
  <2> HIDE DEF list, places
  <2> QED BY <2>1, <2>3, <2>4
<1>9. ASSUME NEW c \in Candidates
      PROVE  \E n \in 1 .. count :
               index.text[list[n]] = index.text[c] /\ Standing(list[n]) <= Standing(c)
  <2> DEFINE Same == {i \in 1 .. size : text(i) = index.text[c]}
  <2>1. Standing(c) \in Same
    BY <1>2
  <2>2. PICK i \in Same : \A j \in Same : i <= j
    <3>1. Same \subseteq Nat /\ Same # {}
      BY <2>1
    <3> HIDE DEF Same
    <3> QED BY <3>1, LeastNumber
  <2>3. i \in places
    <3>1. ASSUME NEW j \in 1 .. i - 1 PROVE text(j) # text(i)
      <4>1. j \in 1 .. size /\ j < i
        OBVIOUS
      <4> QED BY <2>2, <4>1
    <3> QED BY <1>3, <3>1
  <2>4. PICK n \in 1 .. count : place[n] = i
    BY <1>6, <2>3
  <2>5. list[n] = Fused[i] /\ Standing(Fused[i]) = i
    BY <1>2, <1>6, <2>4
  <2>6. i <= Standing(c)
    BY <2>1, <2>2
  <2>7. text(i) = index.text[c]
    OBVIOUS
  <2> HIDE DEF list, places, Same
  <2> QED BY <2>5, <2>6, <2>7
<1>10. Cardinality(TextsOf(Candidates)) = count
  <2> HIDE DEF list, places
  <2> DEFINE value == [n \in 1 .. count |-> index.text[list[n]]]
  <2>1. value \in [1 .. count -> TextsOf(Candidates)]
    BY <1>7 DEF TextsOf
  <2>2. \A n, m \in 1 .. count : n < m => value[n] # value[m]
    BY <1>8
  <2>3. ASSUME NEW t \in TextsOf(Candidates) PROVE \E n \in 1 .. count : value[n] = t
    BY <1>9 DEF TextsOf
  <2> HIDE DEF value
  <2> QED BY <2>1, <2>2, <2>3, ListedOnce
<1> HIDE DEF list, places
<1>11. Collapsed(list, count)
  BY <1>7, <1>8, <1>9, <1>10 DEF Collapsed
<1> QED BY <1>11 DEF list

\* The cut of a list.
LEMMA CutFacts ==
  ASSUME NEW S, NEW count \in Nat, NEW list \in [1 .. count -> S]
  PROVE  \E size \in Nat :
           /\ size = Smaller(TopN, count) /\ size <= count /\ (count # 0 => size # 0)
           /\ Cut(list) \in [1 .. size -> S]
           /\ Len(Cut(list)) = size
           /\ \A n \in 1 .. size : Cut(list)[n] = list[n]
           /\ Cut(list) \in Seq(S)
<1>1. Len(list) = count /\ list \in Seq(S)
  BY SeqDef
<1>2. PICK size \in Nat : size = IF count < TopN THEN count ELSE TopN
  BY RetrievalConstants
<1>3. size = Smaller(TopN, count) /\ size <= count /\ (count # 0 => size # 0)
  BY <1>2, RetrievalConstants DEF Smaller
<1>4. Cut(list) = SubSeq(list, 1, size)
  BY <1>1, <1>2 DEF Cut
<1>5. \A i \in 1 .. size : list[i] \in S
  BY <1>3
<1>6. /\ SubSeq(list, 1, size) \in Seq(S)
      /\ Len(SubSeq(list, 1, size)) = size
      /\ \A i \in 1 .. size : SubSeq(list, 1, size)[i] = list[i]
  BY <1>5, SubSeqProperties
<1>7. SubSeq(list, 1, size) \in [1 .. size -> S]
  BY <1>6, LenProperties
<1> QED BY <1>3, <1>4, <1>6, <1>7

\* What is chosen: a prefix of the collapsed list.
LEMMA ChosenIs ==
  ASSUME ListsRead, NEW count \in Nat, NEW list, Collapsed(list, count),
         NEW chosen, chosen = Cut(list)
  PROVE  /\ chosen \in Seq(Chunks)
         /\ Cardinality(TextsOf(Range(chosen))) = Len(chosen)
         /\ Len(chosen) = Smaller(TopN, Cardinality(TextsOf(Candidates)))
         /\ DOMAIN chosen \subseteq 1 .. count
         /\ \A n \in DOMAIN chosen : chosen[n] = list[n]
         /\ \A n \in DOMAIN chosen : 1 .. n \subseteq DOMAIN chosen
         /\ list # <<>> => chosen # <<>> /\ chosen[1] = list[1]
<1>1. list \in [1 .. count -> Candidates]
  BY DEF Collapsed
<1>2. PICK size \in Nat :
        /\ size = Smaller(TopN, count) /\ size <= count /\ (count # 0 => size # 0)
        /\ chosen \in [1 .. size -> Candidates]
        /\ Len(chosen) = size
        /\ \A n \in 1 .. size : chosen[n] = list[n]
        /\ chosen \in Seq(Candidates)
  BY <1>1, CutFacts
<1>3. chosen \in Seq(Chunks)
  <2>1. chosen \in [1 .. size -> Chunks]
    BY <1>2, CandidatesFacts
  <2> QED BY <2>1, SeqDef
<1>4. Cardinality(TextsOf(Range(chosen))) = size
  <2> DEFINE value == [n \in 1 .. size |-> index.text[chosen[n]]]
  <2>1. Range(chosen) = {chosen[n] : n \in 1 .. size}
    BY <1>2 DEF Range
  <2>2. value \in [1 .. size -> TextsOf(Range(chosen))]
    BY <2>1 DEF TextsOf
  <2>3. ASSUME NEW n \in 1 .. size, NEW m \in 1 .. size, n < m PROVE value[n] # value[m]
    <3>1. n \in 1 .. count /\ m \in 1 .. count
      BY <1>2
    <3>2. index.text[list[n]] # index.text[list[m]]
      BY <2>3, <3>1 DEF Collapsed
    <3>3. chosen[n] = list[n] /\ chosen[m] = list[m]
      BY <1>2
    <3> QED BY <3>2, <3>3
  <2>4. ASSUME NEW t \in TextsOf(Range(chosen)) PROVE \E n \in 1 .. size : value[n] = t
    BY <2>1 DEF TextsOf
  <2> HIDE DEF value
  <2> QED BY <2>2, <2>3, <2>4, ListedOnce
<1>5. Cardinality(TextsOf(Candidates)) = count
  BY DEF Collapsed
<1>6. DOMAIN chosen = 1 .. size
  BY <1>2
<1>7. \A n \in 1 .. size : n \in 1 .. count /\ \A m \in 1 .. n : m \in 1 .. size
  BY <1>2
<1>8. ASSUME list # <<>> PROVE chosen # <<>> /\ chosen[1] = list[1]
  <2>1. count # 0
    BY <1>1, <1>8
  <2>2. size # 0 /\ 1 \in 1 .. size
    BY <1>2, <2>1
  <2> QED BY <1>2, <2>2
<1> QED BY <1>2, <1>3, <1>4, <1>5, <1>6, <1>7, <1>8

\* Ranks that agree decide the order of the fusion.
LEMMA AgreedOrder ==
  ASSUME ListsRead, NEW c \in Candidates, NEW d \in Candidates, c # d,
         RankIn(dense, c) <= RankIn(dense, d), RankIn(sparse, c) <= RankIn(sparse, d)
  PROVE  Standing(c) < Standing(d)
<1>1. ASSUME NEW list \in Rankings(Chunks), NEW x \in Range(list),
             RankIn(list, x) = RankIn(list, d) \/ RankIn(list, x) = RankIn(list, c)
      PROVE  (RankIn(list, x) = RankIn(list, d) => x = d)
             /\ (RankIn(list, x) = RankIn(list, c) => x = c)
  <2>1. \A y : y \in Range(list) => list[RankIn(list, y)] = y /\ RankIn(list, y) <= CandidateLimit
    BY RankType
  <2>2. \A y : y \notin Range(list) => RankIn(list, y) = CandidateLimit + 1
    BY RankType
  <2> QED BY <2>1, <2>2, RetrievalConstants
<1>2. PICK a \in 1 .. CandidateLimit + 1, e \in 1 .. CandidateLimit + 1,
           b \in 1 .. CandidateLimit + 1, f \in 1 .. CandidateLimit + 1 :
        a = RankIn(dense, c) /\ e = RankIn(dense, d) /\ b = RankIn(sparse, c) /\ f = RankIn(sparse, d)
  BY RankType DEF ListsRead
<1>3. a < e \/ b < f
  <2>1. ASSUME a = e, b = f PROVE FALSE
    BY <1>1, <1>2, <2>1 DEF Candidates, ListsRead
  <2> QED BY <1>2, <2>1
<1>4. /\ Reciprocal(a) \in Nat /\ Reciprocal(e) \in Nat /\ (a < e => Reciprocal(a) > Reciprocal(e))
      /\ Reciprocal(b) \in Nat /\ Reciprocal(f) \in Nat /\ (b < f => Reciprocal(b) > Reciprocal(f))
  BY ReciprocalFalls
<1>5. Score(c) = Reciprocal(a) + Reciprocal(b) /\ Score(d) = Reciprocal(e) + Reciprocal(f)
  BY <1>2 DEF Score
<1>6. (a = e => Reciprocal(a) = Reciprocal(e)) /\ (b = f => Reciprocal(b) = Reciprocal(f))
  OBVIOUS
<1>7. a <= e /\ b <= f
  BY <1>2
<1>8. Score(c) > Score(d)
  <2>1. PICK p \in Nat, q \in Nat, u \in Nat, v \in Nat :
          p = Reciprocal(a) /\ q = Reciprocal(b) /\ u = Reciprocal(e) /\ v = Reciprocal(f)
    BY <1>4
  <2>2. (a < e => p > u) /\ (a = e => p = u) /\ (b < f => q > v) /\ (b = f => q = v)
    BY <1>4, <1>6, <2>1
  <2>3. p + q > u + v
    BY <1>3, <1>7, <2>2
  <2> QED BY <1>5, <2>1, <2>3
<1>9. Outranks(c, d)
  BY <1>8 DEF Outranks
<1>10. PICK size \in Nat : size = Cardinality(Candidates)
  BY CandidatesFacts, FS_CardinalityType
<1> QED BY <1>9, <1>10, FusedFacts

-----------------------------------------------------------------------------
(* The inductive invariant.                                                *)
RankingFits ==
  /\ RetrievalTypeOK
  /\ {dense, sparse} \subseteq Rankings(Chunks) \cup {NotYet}
  /\ search \in {"reading", "answered", "abstained"} => ListsRead
  /\ NoTextCrowdsOut /\ AgreedRankingHolds /\ EmptyForAReason

LEMMA RetrievalStart == RetrievalInit => RankingFits
<1> SUFFICES ASSUME RetrievalInit PROVE RankingFits
  OBVIOUS
<1>1. RetrievalTypeOK
  BY DEF RetrievalInit, RetrievalTypeOK
<1> QED
  BY <1>1 DEF RetrievalInit, RankingFits, NoTextCrowdsOut, AgreedRankingHolds, EmptyForAReason

LEMMA RankingsWithin ==
  ASSUME NEW S, S \subseteq Chunks
  PROVE  Rankings(S) \subseteq Rankings(Chunks) /\ Rankings(S) \subseteq Seq(Chunks)
<1>1. ASSUME NEW list \in Rankings(S) PROVE list \in Rankings(Chunks) /\ list \in Seq(Chunks)
  <2>1. PICK length \in 0 .. CandidateLimit : list \in [1 .. length -> S]
    BY RetrievalConstants DEF Rankings, SeqOf
  <2>2. list \in [1 .. length -> Chunks]
    BY <2>1
  <2>3. IsInjective(list)
    BY DEF Rankings
  <2>4. list \in SeqOf(Chunks, CandidateLimit)
    BY <2>2 DEF SeqOf
  <2>5. list \in Seq(Chunks)
    BY <2>2, SeqDef
  <2> QED BY <2>3, <2>4, <2>5 DEF Rankings
<1> QED BY <1>1

LEMMA ListSteps ==
  ASSUME RankingFits, EmbedQuery \/ SearchDense \/ SearchSparse
  PROVE  RankingFits'
<1>1. Rankings(active) \subseteq Rankings(Chunks) /\ Rankings(active) \subseteq Seq(Chunks)
  BY RankingsWithin DEF RankingFits, RetrievalTypeOK
<1>2. search' \in {"searching", "failed"}
  BY DEF EmbedQuery, SearchDense, SearchSparse
<1>3. RetrievalTypeOK'
  BY <1>1, <1>2 DEF RankingFits, RetrievalTypeOK, EmbedQuery, SearchDense, SearchSparse
<1>4. ({dense, sparse} \subseteq Rankings(Chunks) \cup {NotYet})'
  BY <1>1 DEF RankingFits, EmbedQuery, SearchDense, SearchSparse
<1>5. NoTextCrowdsOut' /\ AgreedRankingHolds' /\ EmptyForAReason'
  BY <1>2 DEF NoTextCrowdsOut, AgreedRankingHolds, EmptyForAReason
<1> QED BY <1>2, <1>3, <1>4, <1>5 DEF RankingFits

\* The head of the collapsed list has the best score.
LEMMA HeadIsBest ==
  ASSUME ListsRead, NEW count \in Nat, NEW list, Collapsed(list, count)
  PROVE  /\ list = <<>> => Candidates = {}
         /\ list # <<>> => Head(list) = list[1] /\ list[1] \in Candidates
                           /\ \A c \in Candidates : Score(c) <= Score(list[1])
<1>1. list \in [1 .. count -> Candidates]
  BY DEF Collapsed
<1>2. ASSUME list = <<>> PROVE Candidates = {}
  <2>1. count = 0
    BY <1>1, <1>2
  <2> QED BY <2>1 DEF Collapsed
<1>3. ASSUME list # <<>>
      PROVE  Head(list) = list[1] /\ list[1] \in Candidates
             /\ \A c \in Candidates : Score(c) <= Score(list[1])
  <2>1. 1 \in 1 .. count
    BY <1>1, <1>3
  <2>2. Head(list) = list[1]
    OBVIOUS
  <2>3. PICK best \in Candidates : best = list[1]
    BY <1>1, <2>1
  <2>4. PICK size \in Nat : size = Cardinality(Candidates)
    BY CandidatesFacts, FS_CardinalityType
  <2>5. ASSUME NEW c \in Candidates PROVE Score(c) <= Score(best)
    <3>1. PICK n \in 1 .. count : Standing(list[n]) <= Standing(c)
      BY DEF Collapsed
    <3>2. n = 1 \/ Standing(list[1]) < Standing(list[n])
      <4>1. n = 1 \/ 1 < n
        OBVIOUS
      <4> QED BY <2>1, <4>1 DEF Collapsed
    <3>3. Standing(c) \in Nat /\ Standing(best) \in Nat /\ Standing(list[n]) \in Nat
      BY <1>1, <2>4, FusedFacts
    <3>4. ~ (Standing(c) < Standing(best))
      BY <2>3, <3>1, <3>2, <3>3
    <3>5. ~ Outranks(c, best)
      BY <2>4, <3>4, FusedFacts
    <3>6. Score(c) \in Nat /\ Score(best) \in Nat
      BY ScoreType
    <3> QED BY <3>5, <3>6 DEF Outranks
  <2> QED BY <2>2, <2>3, <2>5
<1> QED BY <1>2, <1>3

LEMMA FuseStep == ASSUME RankingFits, FuseAndDecide PROVE RankingFits'
<1>1. ListsRead
  BY DEF RankingFits, FuseAndDecide, ListsRead
<1>2. PICK list : list = Deduplicated(Fused)
  OBVIOUS
<1>3. PICK count \in Nat : Collapsed(list, count)
  BY <1>1, <1>2, CollapsedIs
<1>4. UNCHANGED <<index, active, dense, sparse, chunks>>
  BY DEF FuseAndDecide
<1>5. /\ Candidates' = Candidates
      /\ \A c : Score(c)' = Score(c)
      /\ \A c : RankIn(dense, c)' = RankIn(dense, c) /\ RankIn(sparse, c)' = RankIn(sparse, c)
  BY <1>4 DEF Candidates, Score, RankIn
<1>6. ListsRead' /\ ({dense, sparse} \subseteq Rankings(Chunks) \cup {NotYet})'
  BY <1>1, <1>4 DEF RankingFits, ListsRead
<1>7. \A c : Score(c) \in Nat
  BY <1>1, ScoreType
<1>8. index.threshold \in Int
  <2>1. \A t \in Thresholds : t \in Int
    BY RetrievalAssumption
  <2>2. index.threshold \in Thresholds
    BY DEF RankingFits, RetrievalTypeOK
  <2> QED BY <2>1, <2>2
<1>9. CASE Abstains(list)
  <2>1. search' = "abstained" /\ selected' = selected
    BY <1>2, <1>9 DEF FuseAndDecide
  <2>2. RetrievalTypeOK'
    BY <1>4, <2>1 DEF RankingFits, RetrievalTypeOK
  <2>3. \A c \in Candidates : Score(c) < index.threshold
    <3>1. ASSUME NEW c \in Candidates, list # <<>> PROVE Score(c) < index.threshold
      <4>1. Score(c) <= Score(list[1]) /\ Score(list[1]) < index.threshold
        BY <1>1, <1>3, <1>9, <3>1, HeadIsBest DEF Abstains
      <4> QED BY <1>7, <1>8, <4>1
    <3>2. list = <<>> => Candidates = {}
      BY <1>1, <1>3, HeadIsBest
    <3> QED BY <3>1, <3>2
  <2>4. EmptyForAReason'
    BY <1>4, <1>5, <2>1, <2>3 DEF EmptyForAReason
  <2>5. NoTextCrowdsOut' /\ AgreedRankingHolds'
    BY <2>1 DEF NoTextCrowdsOut, AgreedRankingHolds
  <2> QED BY <1>6, <2>2, <2>4, <2>5 DEF RankingFits
<1>10. CASE ~ Abstains(list)
  <2>1. search' = "reading" /\ selected' = Cut(list)
    BY <1>2, <1>10 DEF FuseAndDecide, Chosen
  <2>2. PICK chosen : chosen = Cut(list)
    OBVIOUS
  <2>3. /\ chosen \in Seq(Chunks)
        /\ Cardinality(TextsOf(Range(chosen))) = Len(chosen)
        /\ Len(chosen) = Smaller(TopN, Cardinality(TextsOf(Candidates)))
        /\ DOMAIN chosen \subseteq 1 .. count
        /\ \A n \in DOMAIN chosen : chosen[n] = list[n]
        /\ \A n \in DOMAIN chosen : 1 .. n \subseteq DOMAIN chosen
    BY <1>1, <1>3, <2>2, ChosenIs
  <2>4. RetrievalTypeOK'
    BY <1>4, <2>1, <2>2, <2>3 DEF RankingFits, RetrievalTypeOK
  <2>5. NoTextCrowdsOut'
    BY <1>4, <1>5, <2>1, <2>2, <2>3 DEF NoTextCrowdsOut, TextsOf
  <2>6. AgreedRankingHolds'
    <3>1. ASSUME NEW c \in Candidates, NEW i \in DOMAIN chosen,
                 RankIn(dense, c) <= RankIn(dense, chosen[i]),
                 RankIn(sparse, c) <= RankIn(sparse, chosen[i]), c # chosen[i]
          PROVE  \E j \in 1 .. i : index.text[chosen[j]] = index.text[c]
      <4>1. i \in 1 .. count /\ chosen[i] = list[i]
        BY <2>3
      <4>2. PICK d \in Candidates : d = list[i] /\ d = chosen[i]
        BY <1>3, <4>1 DEF Collapsed
      <4>3. Standing(c) < Standing(d)
        BY <1>1, <3>1, <4>2, AgreedOrder
      <4>4. PICK n \in 1 .. count :
              index.text[list[n]] = index.text[c] /\ Standing(list[n]) <= Standing(c)
        BY <1>3 DEF Collapsed
      <4>5. PICK size \in Nat : size = Cardinality(Candidates)
        BY <1>1, CandidatesFacts, FS_CardinalityType
      <4>6. Standing(c) \in Nat /\ Standing(d) \in Nat /\ Standing(list[n]) \in Nat
        <5>1. \A e \in Candidates : Standing(e) \in Nat
          BY <1>1, <4>5, FusedFacts
        <5>2. list[n] \in Candidates
          BY <1>3 DEF Collapsed
        <5> QED BY <5>1, <5>2
      <4>7. n # i
        <5>1. Standing(list[n]) < Standing(d)
          BY <4>3, <4>4, <4>6
        <5>2. ~ (Standing(d) < Standing(d))
          BY <4>6
        <5> QED BY <4>2, <5>1, <5>2
      <4>8. ~ (i < n)
        <5>1. ASSUME i < n PROVE Standing(list[i]) < Standing(list[n])
          BY <1>3, <4>1, <5>1 DEF Collapsed
        <5> QED BY <4>2, <4>3, <4>4, <4>6, <5>1
      <4>9. n \in 1 .. i
        BY <4>1, <4>7, <4>8
      <4>10. chosen[n] = list[n]
        BY <2>3, <4>9
      <4> QED BY <4>4, <4>9, <4>10
    <3> QED BY <1>4, <1>5, <2>1, <2>2, <3>1 DEF AgreedRankingHolds
  <2>7. EmptyForAReason'
    <3>1. list # <<>> /\ ~ (Score(Head(list)) < index.threshold)
      BY <1>10 DEF Abstains
    <3>2. list[1] \in Candidates /\ Head(list) = list[1]
      BY <1>1, <1>3, <3>1, HeadIsBest
    <3>3. Score(list[1]) >= index.threshold
      BY <1>7, <1>8, <3>1, <3>2
    <3> QED BY <1>4, <1>5, <2>1, <3>2, <3>3 DEF EmptyForAReason
  <2> QED BY <1>6, <2>4, <2>5, <2>6, <2>7 DEF RankingFits
<1> QED BY <1>9, <1>10

LEMMA ReadStep == ASSUME RankingFits, ReadChunks PROVE RankingFits'
<1>1. search = "reading" /\ search' \in {"answered", "failed"}
      /\ UNCHANGED <<index, active, dense, sparse, selected>>
  BY DEF ReadChunks
<1>2. Candidates' = Candidates /\ \A c : Score(c)' = Score(c)
  BY <1>1 DEF Candidates, Score, RankIn
<1>3. ListsRead' /\ ({dense, sparse} \subseteq Rankings(Chunks) \cup {NotYet})'
  BY <1>1 DEF RankingFits, ListsRead
<1>4. NoTextCrowdsOut' /\ AgreedRankingHolds'
  BY <1>1 DEF NoTextCrowdsOut, AgreedRankingHolds
<1>5. chunks' \in Seq(Chunks)
      /\ (search' = "answered" /\ chunks' = <<>> => Range(selected) \cap active = {})
  <2>1. CASE search' = "failed"
    BY <2>1 DEF ReadChunks, RankingFits, RetrievalTypeOK
  <2>2. CASE search' = "answered"
    <3>1. PICK places : places = {i \in DOMAIN selected : selected[i] \in active}
      OBVIOUS
    <3>2. chunks' = KeptAt(selected, places)
      BY <2>2, <3>1 DEF ReadChunks
    <3>3. PICK length \in Nat : selected \in [1 .. length -> Chunks]
      BY LenProperties DEF RankingFits, RetrievalTypeOK
    <3>4. places \subseteq 1 .. length /\ 1 .. length \subseteq Nat /\ IsFiniteSet(1 .. length)
      BY <3>1, <3>3, FS_Interval
    <3>5. places \subseteq Nat /\ IsFiniteSet(places)
      BY <3>4, FS_Subset
    <3>6. PICK size \in Nat : KeepsOrder(selected, places, size)
      BY <3>5, KeptInOrder
    <3>7. PICK place \in [1 .. size -> places] :
            /\ DOMAIN chunks' = 1 .. size
            /\ \A n \in 1 .. size : chunks'[n] = selected[place[n]]
            /\ \A i \in places : \E n \in 1 .. size : place[n] = i
      BY <3>2, <3>6 DEF KeepsOrder
    <3>8. chunks' \in [1 .. size -> Chunks]
      <4>1. \A n \in 1 .. size : chunks'[n] \in Chunks
        BY <3>3, <3>4, <3>7
      <4>2. chunks' = [n \in DOMAIN chunks' |-> chunks'[n]]
        BY <3>2 DEF KeptAt
      <4> QED BY <3>7, <4>1, <4>2
    <3>9. ASSUME chunks' = <<>> PROVE Range(selected) \cap active = {}
      <4>1. size = 0
        BY <3>8, <3>9
      <4>2. places = {}
        BY <3>7, <4>1
      <4> QED BY <3>1, <4>2 DEF Range
    <3>10. chunks' \in Seq(Chunks)
      BY <3>8, SeqDef
    <3> QED BY <3>9, <3>10
  <2> QED BY <1>1, <2>1, <2>2
<1>6. RetrievalTypeOK'
  BY <1>1, <1>5 DEF RankingFits, RetrievalTypeOK
<1>7. EmptyForAReason'
  BY <1>1, <1>2, <1>5 DEF RankingFits, EmptyForAReason
<1> QED BY <1>3, <1>4, <1>6, <1>7 DEF RankingFits

LEMMA DeactivateStep ==
  ASSUME RankingFits, NEW c \in Chunks, Deactivate(c)
  PROVE  RankingFits'
<1>1. UNCHANGED <<index, dense, sparse, selected, chunks, search>> /\ active' \subseteq active
  BY DEF Deactivate
<1>2. RetrievalTypeOK'
  BY <1>1 DEF RankingFits, RetrievalTypeOK
<1>3. Candidates' = Candidates /\ \A d : Score(d)' = Score(d)
  BY <1>1 DEF Candidates, Score, RankIn
<1>4. NoTextCrowdsOut'
  BY <1>1, <1>3 DEF RankingFits, NoTextCrowdsOut, TextsOf
<1>5. AgreedRankingHolds'
  BY <1>1, <1>3 DEF RankingFits, AgreedRankingHolds, RankIn
<1>6. EmptyForAReason'
  BY <1>1, <1>3 DEF RankingFits, EmptyForAReason
<1> QED BY <1>1, <1>2, <1>4, <1>5, <1>6 DEF RankingFits, ListsRead

LEMMA RetrievalStep == RankingFits /\ [RetrievalNext]_retrievalVars => RankingFits'
<1> SUFFICES ASSUME RankingFits, [RetrievalNext]_retrievalVars PROVE RankingFits'
  OBVIOUS
<1>1. CASE UNCHANGED retrievalVars
  <2>1. UNCHANGED <<index, active, dense, sparse, selected, chunks, search>>
    BY <1>1 DEF retrievalVars
  <2>2. Candidates' = Candidates /\ \A d : Score(d)' = Score(d)
    BY <2>1 DEF Candidates, Score, RankIn
  <2>3. RetrievalTypeOK'
    BY <2>1 DEF RankingFits, RetrievalTypeOK
  <2>4. NoTextCrowdsOut'
    BY <2>1, <2>2 DEF RankingFits, NoTextCrowdsOut, TextsOf
  <2>5. AgreedRankingHolds'
    BY <2>1, <2>2 DEF RankingFits, AgreedRankingHolds, RankIn
  <2>6. EmptyForAReason'
    BY <2>1, <2>2 DEF RankingFits, EmptyForAReason
  <2> QED BY <2>1, <2>3, <2>4, <2>5, <2>6 DEF RankingFits, ListsRead
<1>2. CASE RetrievalNext
  BY <1>2, ListSteps, FuseStep, ReadStep, DeactivateStep DEF RetrievalNext
<1> QED BY <1>1, <1>2

\* What a search answers, for any number of chunks and texts, any lengths of
\* the lists and of the answer: no text is chosen twice and none crowds out
\* another, the places that both lists agree on decide, and an answer without
\* chunks has a reason.
THEOREM SearchesAreFair == RetrievalSpec => []RetrievalInv
<1>1. RankingFits => RetrievalInv
  BY DEF RankingFits, RetrievalInv
<1> QED BY <1>1, RetrievalStart, RetrievalStep, PTL DEF RetrievalSpec

-----------------------------------------------------------------------------
(***************************************************************************)
(* What a digest says: sums, averages and the first chapter of a sort.     *)
(***************************************************************************)
LEMMA ReportConstants ==
  /\ \A c \in Topics : c \in Nat /\ c # 0
  /\ \A m \in Mixups : m \in Nat /\ m # 0
  /\ \A x \in Scores : x \in Nat
  /\ ImprovementPoints \in Nat /\ StrugglingScore \in Nat
  /\ MaxWeek \in Nat
  BY ReportAssumption

LEMMA SubmissionFields ==
  ASSUME NEW s \in Submission
  PROVE  s.topic \in Topics /\ s.score \in Nat /\ s.topic \in Nat
  BY ReportConstants DEF Submission

\* Products of bounds.
LEMMA ProductsGrow ==
  ASSUME NEW a \in Int, NEW b \in Int, NEW p \in Nat
  PROVE  /\ a <= b => a * p <= b * p
         /\ a < b /\ p # 0 => a * p < b * p
         /\ a * p < b * p => a < b
         /\ a * p <= b * p /\ p # 0 => a <= b
  OBVIOUS

\* A fraction before another one in ascending order, or equal with a smaller id.
Precedes(c, a, p, d, b, q) == a * q < b * p \/ (a * q = b * p /\ c < d)

LEMMA FractionsDiffer ==
  ASSUME NEW c \in Nat, NEW d \in Nat, NEW x \in Int, NEW y \in Int,
         NEW p \in Nat \ {0}, NEW q \in Nat \ {0}
  PROVE  /\ ~ Precedes(c, x, p, c, x, p)
         /\ c # d => Precedes(c, x, p, d, y, q) \/ Precedes(d, y, q, c, x, p)
  BY DEF Precedes

LEMMA FractionsFollow ==
  ASSUME NEW c \in Nat, NEW d \in Nat, NEW e \in Nat,
         NEW x \in Int, NEW y \in Int, NEW z \in Int,
         NEW p \in Nat \ {0}, NEW q \in Nat \ {0}, NEW r \in Nat \ {0},
         Precedes(c, x, p, d, y, q), Precedes(d, y, q, e, z, r)
  PROVE  Precedes(c, x, p, e, z, r)
<1>1. PICK xq \in Int, yp \in Int, yr \in Int, zq \in Int, xr \in Int, zp \in Int :
        xq = x * q /\ yp = y * p /\ yr = y * r /\ zq = z * q /\ xr = x * r /\ zp = z * p
  OBVIOUS
<1>2. xq * r = xr * q /\ yp * r = yr * p /\ zq * p = zp * q
  BY <1>1
<1>3. xq <= yp /\ yr <= zq
  BY <1>1 DEF Precedes
<1>4. xq * r <= yp * r /\ yr * p <= zq * p
  BY <1>3, ProductsGrow
<1>5. xr * q <= zp * q
  <2>1. PICK u \in Int, v \in Int, w \in Int, t \in Int :
          u = xq * r /\ v = yp * r /\ w = yr * p /\ t = zq * p
    OBVIOUS
  <2> QED BY <1>2, <1>4, <2>1
<1>6. xr <= zp
  BY <1>5, ProductsGrow
<1>7. CASE xr < zp
  BY <1>1, <1>7 DEF Precedes
<1>8. CASE xr = zp
  <2>1. xq * r = yp * r /\ yr * p = zq * p
    <3>1. PICK u \in Int, v \in Int, w \in Int, t \in Int, k \in Int :
            u = xq * r /\ v = yp * r /\ w = yr * p /\ t = zq * p /\ k = xr * q
      OBVIOUS
    <3>2. u = k /\ t = k /\ v = w /\ u <= v /\ w <= t
      BY <1>2, <1>4, <1>8, <3>1
    <3> QED BY <3>1, <3>2
  <2>2. ~ (xq < yp) /\ ~ (yr < zq)
    BY <2>1, ProductsGrow
  <2>3. c < d /\ d < e
    BY <1>1, <2>2 DEF Precedes
  <2>4. c < e
    BY <2>3
  <2> QED BY <1>1, <1>8, <2>4 DEF Precedes
<1> QED BY <1>6, <1>7, <1>8

\* A finite set of fractions has a first one.
LEMMA FirstFraction ==
  ASSUME NEW S, S # {}, IsFiniteSet(S), S \subseteq Nat,
         NEW num \in [S -> Int], NEW den \in [S -> Nat \ {0}]
  PROVE  \E c \in S : \A d \in S \ {c} : Precedes(c, num[c], den[c], d, num[d], den[d])
<1> DEFINE Ahead(c) == {d \in S : Precedes(d, num[d], den[d], c, num[c], den[c])}
           counts == {Cardinality(Ahead(c)) : c \in S}
<1>1. ASSUME NEW c \in S PROVE IsFiniteSet(Ahead(c)) /\ Cardinality(Ahead(c)) \in Nat
  <2>1. Ahead(c) \subseteq S
    OBVIOUS
  <2> HIDE DEF Ahead
  <2> QED BY <2>1, FS_Subset, FS_CardinalityType
<1>2. PICK c \in S : \A d \in S : Cardinality(Ahead(c)) <= Cardinality(Ahead(d))
  <2>1. counts \subseteq Nat /\ counts # {}
    BY <1>1
  <2>2. PICK n \in counts : \A m \in counts : n <= m
    <3> HIDE DEF counts
    <3> QED BY <2>1, LeastNumber
  <2> HIDE DEF Ahead
  <2> QED BY <2>2
<1>3. ASSUME NEW d \in S \ {c} PROVE ~ Precedes(d, num[d], den[d], c, num[c], den[c])
  <2> SUFFICES ASSUME Precedes(d, num[d], den[d], c, num[c], den[c]) PROVE FALSE
    OBVIOUS
  <2>1. \A e \in S : e \in Nat /\ num[e] \in Int /\ den[e] \in Nat \ {0}
    OBVIOUS
  <2>2. ASSUME NEW e \in Ahead(d) PROVE e \in Ahead(c)
    <3>1. PICK x \in Int, y \in Int, z \in Int, p \in Nat \ {0}, q \in Nat \ {0}, r \in Nat \ {0} :
            x = num[e] /\ y = num[d] /\ z = num[c] /\ p = den[e] /\ q = den[d] /\ r = den[c]
      BY <2>1
    <3>2. c \in Nat /\ d \in Nat /\ e \in Nat
      BY <2>1
    <3>3. Precedes(e, x, p, d, y, q) /\ Precedes(d, y, q, c, z, r)
      BY <3>1
    <3>4. Precedes(e, x, p, c, z, r)
      BY <3>2, <3>3, FractionsFollow
    <3> QED BY <3>1, <3>4
  <2>3. d \in Ahead(c)
    OBVIOUS
  <2>4. d \notin Ahead(d)
    BY <2>1, FractionsDiffer
  <2>5. Ahead(d) \subseteq Ahead(c) /\ Ahead(d) # Ahead(c)
    BY <2>2, <2>3, <2>4
  <2> HIDE DEF Ahead
  <2>6. /\ Cardinality(Ahead(d)) <= Cardinality(Ahead(c))
        /\ Cardinality(Ahead(d)) # Cardinality(Ahead(c))
    BY <1>1, <2>5, FS_Subset
  <2>7. Cardinality(Ahead(c)) <= Cardinality(Ahead(d))
    BY <1>2
  <2> QED BY <1>1, <2>6, <2>7
<1>4. ASSUME NEW d \in S \ {c} PROVE Precedes(c, num[c], den[c], d, num[d], den[d])
  <2>1. PICK x \in Int, y \in Int, p \in Nat \ {0}, q \in Nat \ {0} :
          x = num[c] /\ y = num[d] /\ p = den[c] /\ q = den[d]
    OBVIOUS
  <2>2. c \in Nat /\ d \in Nat /\ c # d
    OBVIOUS
  <2>3. ~ Precedes(d, y, q, c, x, p)
    BY <1>3, <2>1
  <2>4. Precedes(c, x, p, d, y, q)
    BY <2>2, <2>3, FractionsDiffer
  <2> QED BY <2>1, <2>4
<1> QED BY <1>4

\* The points scored in a chapter lie between their bounds times their number.
LEMMA SumBounds ==
  ASSUME NEW list, NEW c, IsFiniteSet(DOMAIN list),
         \A i \in DOMAIN list : list[i].score \in Nat
  PROVE  \E sum \in Nat, number \in Nat :
           /\ sum = ScoreSum(list, c) /\ number = Cardinality(Of(list, c))
           /\ number = 0 <=> Of(list, c) = {}
           /\ \A bound \in Nat :
                /\ (\A i \in Of(list, c) : list[i].score <= bound) => sum <= number * bound
                /\ (\A i \in Of(list, c) : bound <= list[i].score) => number * bound <= sum
<1> DEFINE S == Of(list, c)
<1>1. S \subseteq DOMAIN list /\ \A i \in S : list[i].score \in Nat
  BY DEF Of
<1>2. IsFiniteSet(S)
  BY <1>1, FS_Subset
<1>3. PICK number \in Nat : number = Cardinality(S) /\ (number = 0 <=> S = {})
  BY <1>2, FS_CardinalityType, FS_EmptySet
<1> HIDE DEF S
<1>4. ASSUME NEW bound \in Nat
      PROVE  IsFiniteSet(S \X (1 .. bound)) /\ Cardinality(S \X (1 .. bound)) = number * bound
  <2>1. PICK T : T = 1 .. bound
    OBVIOUS
  <2>2. IsFiniteSet(T) /\ Cardinality(T) = bound
    <3>1. IsFiniteSet(1 .. bound) /\ Cardinality(1 .. bound) = bound
      BY FS_Interval
    <3> QED BY <2>1, <3>1
  <2>3. IsFiniteSet(S \X T) /\ Cardinality(S \X T) = Cardinality(S) * Cardinality(T)
    BY <1>2, <2>2, FS_Product
  <2> QED BY <1>3, <2>1, <2>2, <2>3
<1>5. \A x : x \in Points(list, c) <=> \E i \in S : x \in {i} \X (1 .. list[i].score)
  BY DEF Points, S
<1>6. IsFiniteSet(Points(list, c))
  <2> DEFINE piece == [i \in S |-> {i} \X (1 .. list[i].score)]
             pieces == {piece[i] : i \in S}
  <2>1. IsFiniteSet(pieces)
    <3>1. piece \in Surjection(S, pieces)
      BY DEF Surjection
    <3> HIDE DEF piece, pieces
    <3> QED BY <1>2, <3>1, FS_Surjection
  <2>2. ASSUME NEW i \in S PROVE IsFiniteSet(piece[i])
    <3>1. PICK T : T = 1 .. list[i].score
      OBVIOUS
    <3>2. IsFiniteSet(T)
      BY <1>1, <3>1, FS_Interval
    <3>3. IsFiniteSet({i})
      BY FS_Singleton
    <3>4. IsFiniteSet({i} \X T)
      BY <3>2, <3>3, FS_Product
    <3> QED BY <3>1, <3>4
  <2>3. Points(list, c) = UNION pieces
    BY DEF Points, S
  <2> HIDE DEF piece
  <2>4. \A T \in pieces : IsFiniteSet(T)
    BY <2>2
  <2> HIDE DEF pieces
  <2> QED BY <2>1, <2>3, <2>4, FS_UNION
<1>7. PICK sum \in Nat : sum = Cardinality(Points(list, c))
  BY <1>6, FS_CardinalityType
<1>8. ASSUME NEW bound \in Nat, \A i \in S : list[i].score <= bound PROVE sum <= number * bound
  <2>1. Points(list, c) \subseteq S \X (1 .. bound)
    BY <1>1, <1>5, <1>8
  <2>2. PICK T : T = S \X (1 .. bound) /\ IsFiniteSet(T) /\ Cardinality(T) = number * bound
    BY <1>4
  <2>3. Cardinality(Points(list, c)) <= Cardinality(T)
    BY <2>1, <2>2, FS_Subset
  <2> QED BY <1>7, <2>2, <2>3
<1>9. ASSUME NEW bound \in Nat, \A i \in S : bound <= list[i].score PROVE number * bound <= sum
  <2>1. S \X (1 .. bound) \subseteq Points(list, c)
    BY <1>1, <1>5, <1>9
  <2>2. PICK T : T = S \X (1 .. bound) /\ IsFiniteSet(T) /\ Cardinality(T) = number * bound
    BY <1>4
  <2>3. Cardinality(T) <= Cardinality(Points(list, c))
    BY <1>6, <2>1, <2>2, FS_Subset
  <2> QED BY <1>7, <2>2, <2>3
<1>10. sum = ScoreSum(list, c) /\ number = Cardinality(Of(list, c)) /\ S = Of(list, c)
  BY <1>3, <1>7 DEF ScoreSum, S
<1> QED BY <1>3, <1>8, <1>9, <1>10

-----------------------------------------------------------------------------
\* What a query has seen is the beginning of the week.
ReportReads ==
  /\ ReportTypeOK /\ Len(week) <= MaxWeek
  /\ \A q \in Queries : seen[q] = Unread \/ seen[q] <= Len(week)

LEMMA SeenWeek ==
  ASSUME ReportReads, NEW q \in Queries, seen[q] # Unread
  PROVE  /\ seen[q] \in Nat /\ SeenBy(q) \in Seq(Submission) /\ Len(SeenBy(q)) = seen[q]
         /\ DOMAIN SeenBy(q) = 1 .. seen[q] /\ IsFiniteSet(DOMAIN SeenBy(q))
         /\ DOMAIN SeenBy(q) \subseteq DOMAIN week
         /\ \A i \in DOMAIN SeenBy(q) : SeenBy(q)[i] = week[i] /\ week[i] \in Submission
<1>1. week \in Seq(Submission) /\ seen[q] \in 0 .. Unread
  BY DEF ReportReads, ReportTypeOK
<1>2. PICK n \in Nat : n = seen[q] /\ n <= Len(week)
  BY <1>1, ReportConstants DEF ReportReads, Unread
<1>3. Len(week) \in Nat /\ DOMAIN week = 1 .. Len(week) /\ \A i \in DOMAIN week : week[i] \in Submission
  BY <1>1, LenProperties
<1>4. \A i \in 1 .. n : i \in DOMAIN week /\ week[i] \in Submission
  BY <1>2, <1>3
<1>5. /\ SubSeq(week, 1, n) \in Seq(Submission)
      /\ Len(SubSeq(week, 1, n)) = n
      /\ \A i \in 1 .. n : SubSeq(week, 1, n)[i] = week[i]
  BY <1>4, SubSeqProperties
<1>6. SeenBy(q) = SubSeq(week, 1, n)
  BY <1>2 DEF SeenBy
<1>7. DOMAIN SeenBy(q) = 1 .. n
  BY <1>5, <1>6, LenProperties
<1>8. IsFiniteSet(1 .. n)
  BY FS_Interval
<1> QED BY <1>2, <1>4, <1>5, <1>6, <1>7, <1>8

LEMMA EarlierList ==
  ASSUME ReportReads
  PROVE  IsFiniteSet(DOMAIN earlier) /\ \A i \in DOMAIN earlier : earlier[i] \in Submission
<1>1. earlier \in Seq(Submission)
  BY DEF ReportReads, ReportTypeOK
<1>2. PICK n \in Nat : DOMAIN earlier = 1 .. n
  BY <1>1, LenProperties
<1>3. IsFiniteSet(1 .. n)
  BY FS_Interval
<1> QED BY <1>1, <1>2, <1>3, LenProperties

\* The chapters of the week are those of its sessions.
LEMMA ChaptersFinite ==
  ASSUME ReportReads, seen["chapters"] # Unread
  PROVE  /\ IsFiniteSet(ChapterWeeks) /\ ChapterWeeks \subseteq Nat /\ 0 \notin ChapterWeeks
         /\ ChapterWeeks = {} <=> seen["chapters"] = 0
<1> DEFINE list == SeenBy("chapters")
           topic == [i \in DOMAIN list |-> list[i].topic]
<1>1. "chapters" \in Queries
  BY DEF Queries
<1>2. /\ seen["chapters"] \in Nat
      /\ DOMAIN list = 1 .. seen["chapters"] /\ IsFiniteSet(DOMAIN list)
      /\ \A i \in DOMAIN list : list[i] \in Submission
  BY <1>1, SeenWeek
<1>3. \A i \in DOMAIN list : list[i].topic \in Topics
  BY <1>2, SubmissionFields
<1>4. \A c : c \in ChapterWeeks <=> c \in Topics /\ \E i \in DOMAIN list : list[i].topic = c
  BY DEF ChapterWeeks, Of
<1> HIDE DEF list
<1>5. topic \in Surjection(DOMAIN list, ChapterWeeks)
  BY <1>3, <1>4 DEF Surjection
<1>6. IsFiniteSet(ChapterWeeks)
  <2> HIDE DEF topic
  <2> QED BY <1>2, <1>5, FS_Surjection
<1>7. ChapterWeeks \subseteq Nat /\ 0 \notin ChapterWeeks
  BY <1>4, ReportConstants
<1>8. ChapterWeeks = {} <=> seen["chapters"] = 0
  <2>1. ASSUME seen["chapters"] # 0 PROVE ChapterWeeks # {}
    <3>1. 1 \in DOMAIN list
      BY <1>2, <2>1
    <3> QED BY <1>3, <1>4, <3>1
  <2>2. ASSUME seen["chapters"] = 0 PROVE ChapterWeeks = {}
    BY <1>2, <1>4, <2>2
  <2> QED BY <2>1, <2>2
<1> QED BY <1>6, <1>7, <1>8

\* The averages of the week and of before.
LEMMA AverageFacts ==
  ASSUME NEW list, NEW c, IsFiniteSet(DOMAIN list), \A i \in DOMAIN list : list[i] \in Submission
  PROVE  \E sum \in Nat, number \in Nat :
           /\ Average(list, c) = <<sum, number>>
           /\ number = 0 <=> Of(list, c) = {}
           /\ \A bound \in Nat :
                /\ (\A i \in Of(list, c) : list[i].score <= bound) => sum <= number * bound
                /\ (\A i \in Of(list, c) : bound <= list[i].score) => number * bound <= sum
<1>1. \A i \in DOMAIN list : list[i].score \in Nat
  BY SubmissionFields
<1> QED BY <1>1, SumBounds DEF Average

\* A chapter below the mark has a session below it.
LEMMA BelowTheMark ==
  ASSUME NEW sum \in Nat, NEW number \in Nat \ {0}, NEW mark \in Nat, number * (mark + 1) <= sum
  PROVE  mark * number < sum * 1
<1>1. number * (mark + 1) = mark * number + number
  OBVIOUS
<1> QED BY <1>1

LEMMA HardIsHard ==
  ASSUME ReportReads, seen["chapters"] # Unread, Hardest # 0
  PROVE  \E i \in Of(week, Hardest) : week[i].score <= StrugglingScore
<1> DEFINE list == SeenBy("chapters")
           average(c) == Average(list, c)
           S == {c \in ChapterWeeks : ~Below(<<StrugglingScore, 1>>, average(c))}
           Ahead(c, d) == Below(average(c), average(d)) \/ (~Below(average(d), average(c)) /\ c < d)
<1>1. "chapters" \in Queries
  BY DEF Queries
<1>2. /\ IsFiniteSet(DOMAIN list) /\ \A i \in DOMAIN list : list[i] \in Submission
      /\ DOMAIN list \subseteq DOMAIN week /\ \A i \in DOMAIN list : list[i] = week[i]
  BY <1>1, SeenWeek
<1>3. Hardest = IF S = {} THEN 0 ELSE CHOOSE c \in S : \A d \in S \ {c} : Ahead(c, d)
  BY DEF Hardest, First
<1>4. S # {}
  BY <1>3
<1>5. \A c \in S : Of(list, c) # {}
  BY DEF ChapterWeeks
<1>6. \E c \in S : \A d \in S \ {c} : Ahead(c, d)
  <2> DEFINE num == [c \in S |-> average(c)[1]]
             den == [c \in S |-> average(c)[2]]
  <2>1. ASSUME NEW c \in S PROVE average(c)[1] \in Int /\ average(c)[2] \in Nat \ {0}
    <3> HIDE DEF list, S
    <3>1. PICK sum \in Nat, number \in Nat :
            Average(list, c) = <<sum, number>> /\ (number = 0 <=> Of(list, c) = {})
      BY <1>2, AverageFacts
    <3>2. Of(list, c) # {}
      BY <1>5
    <3> QED BY <3>1, <3>2
  <2>2. num \in [S -> Int] /\ den \in [S -> Nat \ {0}]
    BY <2>1
  <2>3. IsFiniteSet(S) /\ S \subseteq Nat
    <3>1. S \subseteq ChapterWeeks
      OBVIOUS
    <3> HIDE DEF S
    <3> QED BY <3>1, ChaptersFinite, FS_Subset
  <2>4. PICK c \in S : \A d \in S \ {c} : Precedes(c, num[c], den[c], d, num[d], den[d])
    <3> HIDE DEF S, num, den
    <3> QED BY <1>4, <2>2, <2>3, FirstFraction
  <2>5. ASSUME NEW d \in S \ {c} PROVE Ahead(c, d)
    <3>1. Precedes(c, average(c)[1], average(c)[2], d, average(d)[1], average(d)[2])
      BY <2>4
    <3>2. PICK x \in Int, p \in Nat \ {0}, y \in Int, q \in Nat \ {0} :
            x = average(c)[1] /\ p = average(c)[2] /\ y = average(d)[1] /\ q = average(d)[2]
      BY <2>1
    <3>3. x * q < y * p \/ (~ (y * p < x * q) /\ c < d)
      BY <3>1, <3>2 DEF Precedes
    <3> HIDE DEF average
    <3> QED BY <3>2, <3>3 DEF Below
  <2> QED BY <2>5
<1> HIDE DEF Ahead
<1>7. PICK c \in S : c = Hardest
  <2> HIDE DEF S
  <2> QED BY <1>3, <1>4, <1>6
<1>8. PICK sum \in Nat, number \in Nat :
        /\ Average(list, c) = <<sum, number>>
        /\ number = 0 <=> Of(list, c) = {}
        /\ (\A i \in Of(list, c) : StrugglingScore + 1 <= list[i].score) =>
             number * (StrugglingScore + 1) <= sum
  <2>1. StrugglingScore + 1 \in Nat
    BY ReportConstants
  <2> HIDE DEF list, S
  <2> QED BY <1>2, <2>1, AverageFacts
<1>9. number \in Nat \ {0} /\ ~ (StrugglingScore * number < sum * 1)
  BY <1>5, <1>8 DEF Below
<1>10. PICK i \in Of(list, c) : ~ (StrugglingScore + 1 <= list[i].score)
  BY <1>8, <1>9, BelowTheMark, ReportConstants
<1>11. i \in DOMAIN list /\ list[i].topic = c
  BY DEF Of
<1>12. i \in Of(week, c) /\ week[i].score \in Nat /\ ~ (StrugglingScore + 1 <= week[i].score)
  BY <1>2, <1>10, <1>11, SubmissionFields DEF Of
<1> QED BY <1>7, <1>12, ReportConstants

\* A rise of the average by so many points is one between two sessions.
LEMMA RiseNeedsPoints ==
  ASSUME NEW sn \in Nat, NEW nn \in Nat \ {0}, NEW sp \in Nat, NEW np \in Nat \ {0},
         NEW points \in Nat, NEW low \in Nat, NEW high \in Nat, high + 1 = low + points,
         sn <= nn * high, np * low <= sp
  PROVE  (sn * np - sp * nn) * 1 < points * (nn * np)
<1>1. PICK k \in Nat : k = nn * np /\ k # 0
  OBVIOUS
<1>2. sn * np <= (nn * high) * np
  <2>1. nn * high \in Int
    OBVIOUS
  <2> QED BY <2>1, ProductsGrow
<1>3. (np * low) * nn <= sp * nn
  <2>1. np * low \in Int
    OBVIOUS
  <2> QED BY <2>1, ProductsGrow
<1>4. (nn * high) * np = k * high /\ (np * low) * nn = k * low
  BY <1>1
<1>5. k * high + k = k * low + k * points
  <2>1. k * (high + 1) = k * (low + points)
    OBVIOUS
  <2>2. k * (high + 1) = k * high + k /\ k * (low + points) = k * low + k * points
    OBVIOUS
  <2> QED BY <2>1, <2>2
<1>6. PICK a \in Int, b \in Int, h \in Int, l \in Int, p \in Int :
        a = sn * np /\ b = sp * nn /\ h = k * high /\ l = k * low /\ p = k * points
  OBVIOUS
<1>7. a <= h /\ l <= b /\ h + k = l + p
  BY <1>2, <1>3, <1>4, <1>5, <1>6
<1>8. a - b < p
  BY <1>1, <1>7
<1>9. points * (nn * np) = p
  BY <1>1, <1>6
<1> QED BY <1>6, <1>8, <1>9

LEMMA RiseFacts ==
  ASSUME ReportReads, seen["chapters"] # Unread, NEW c \in ChapterWeeks, Improved(c)
  PROVE  /\ Rise(c)[1] \in Int /\ Rise(c)[2] \in Nat \ {0}
         /\ \E i \in Of(week, c), j \in Of(earlier, c) :
              week[i].score >= earlier[j].score + ImprovementPoints
<1> DEFINE list == SeenBy("chapters")
<1>1. "chapters" \in Queries
  BY DEF Queries
<1>2. /\ IsFiniteSet(DOMAIN list) /\ \A i \in DOMAIN list : list[i] \in Submission
      /\ DOMAIN list \subseteq DOMAIN week /\ \A i \in DOMAIN list : list[i] = week[i]
  BY <1>1, SeenWeek
<1>3. IsFiniteSet(DOMAIN earlier) /\ \A i \in DOMAIN earlier : earlier[i] \in Submission
  BY EarlierList
<1>4. Of(list, c) # {} /\ Of(earlier, c) # {}
  BY DEF ChapterWeeks, Improved, Practised
<1>5. PICK sn \in Nat, nn \in Nat :
        /\ Average(list, c) = <<sn, nn>> /\ (nn = 0 <=> Of(list, c) = {})
        /\ \A bound \in Nat :
             (\A i \in Of(list, c) : list[i].score <= bound) => sn <= nn * bound
  <2> HIDE DEF list
  <2>1. \E sum \in Nat, number \in Nat :
           /\ Average(list, c) = <<sum, number>>
           /\ number = 0 <=> Of(list, c) = {}
           /\ \A bound \in Nat :
                /\ (\A i \in Of(list, c) : list[i].score <= bound) => sum <= number * bound
                /\ (\A i \in Of(list, c) : bound <= list[i].score) => number * bound <= sum
    BY <1>2, AverageFacts
  <2> QED BY <2>1
<1>6. PICK sp \in Nat, np \in Nat :
        /\ Average(earlier, c) = <<sp, np>> /\ (np = 0 <=> Of(earlier, c) = {})
        /\ \A bound \in Nat :
             (\A i \in Of(earlier, c) : bound <= earlier[i].score) => np * bound <= sp
  <2>1. \E sum \in Nat, number \in Nat :
           /\ Average(earlier, c) = <<sum, number>>
           /\ number = 0 <=> Of(earlier, c) = {}
           /\ \A bound \in Nat :
                /\ (\A i \in Of(earlier, c) : earlier[i].score <= bound) => sum <= number * bound
                /\ (\A i \in Of(earlier, c) : bound <= earlier[i].score) => number * bound <= sum
    BY <1>3, AverageFacts
  <2> QED BY <2>1
<1>7. nn \in Nat \ {0} /\ np \in Nat \ {0}
  BY <1>4, <1>5, <1>6
<1>8. Rise(c) = <<sn * np - sp * nn, nn * np>>
  BY <1>5, <1>6 DEF Rise
<1>9. sn * np - sp * nn \in Int /\ nn * np \in Nat \ {0}
  BY <1>7
<1>10. ~ ((sn * np - sp * nn) * 1 < ImprovementPoints * (nn * np))
  BY <1>8 DEF Improved, Below
<1>11. PICK j \in Of(earlier, c) : \A k \in Of(earlier, c) : earlier[j].score <= earlier[k].score
  <2> DEFINE scores == {earlier[k].score : k \in Of(earlier, c)}
  <2>1. scores \subseteq Nat /\ scores # {}
    BY <1>3, <1>4, SubmissionFields DEF Of
  <2>2. PICK n \in scores : \A m \in scores : n <= m
    <3> HIDE DEF scores
    <3> QED BY <2>1, LeastNumber
  <2> QED BY <2>2
<1>12. \A i \in Of(list, c) : list[i].score \in Nat /\ list[i] = week[i] /\ i \in Of(week, c)
  BY <1>2, SubmissionFields DEF Of
<1>13. PICK low \in Nat : low = earlier[j].score
  BY <1>3, SubmissionFields DEF Of
<1>14. ASSUME \A i \in Of(list, c) : list[i].score < low + ImprovementPoints PROVE FALSE
  <2>1. PICK high \in Nat : high + 1 = low + ImprovementPoints
    <3>1. PICK i \in Of(list, c) : TRUE
      BY <1>4
    <3>2. low + ImprovementPoints \in Nat \ {0}
      BY <1>12, <1>14, <3>1, ReportConstants
    <3>3. low + ImprovementPoints - 1 \in Nat /\ (low + ImprovementPoints - 1) + 1 = low + ImprovementPoints
      BY <3>2, ReportConstants
    <3> QED BY <3>3
  <2>2. \A i \in Of(list, c) : list[i].score <= high
    BY <1>12, <1>14, <2>1, ReportConstants
  <2>3. sn <= nn * high
    BY <1>5, <2>2
  <2>4. np * low <= sp
    BY <1>6, <1>11, <1>13
  <2> QED BY <1>7, <1>10, <2>1, <2>3, <2>4, RiseNeedsPoints, ReportConstants
<1>15. PICK i \in Of(list, c) : ~ (list[i].score < low + ImprovementPoints)
  BY <1>14
<1>16. week[i].score >= earlier[j].score + ImprovementPoints /\ i \in Of(week, c)
  BY <1>12, <1>13, <1>15, ReportConstants
<1> QED BY <1>8, <1>9, <1>16

LEMMA BetterIsBetter ==
  ASSUME ReportReads, seen["chapters"] # Unread, MostImproved # 0
  PROVE  \E i \in Of(week, MostImproved), j \in Of(earlier, MostImproved) :
           week[i].score >= earlier[j].score + ImprovementPoints
<1> DEFINE S == {c \in ChapterWeeks : Improved(c)}
           Ahead(c, d) == Below(Rise(d), Rise(c)) \/ (~Below(Rise(c), Rise(d)) /\ c < d)
<1>1. MostImproved = IF S = {} THEN 0 ELSE CHOOSE c \in S : \A d \in S \ {c} : Ahead(c, d)
  BY DEF MostImproved, First
<1>2. S # {}
  BY <1>1
<1>3. \E c \in S : \A d \in S \ {c} : Ahead(c, d)
  <2> DEFINE num == [c \in S |-> 0 - Rise(c)[1]]
             den == [c \in S |-> Rise(c)[2]]
  <2>1. ASSUME NEW c \in S PROVE Rise(c)[1] \in Int /\ Rise(c)[2] \in Nat \ {0}
    BY RiseFacts
  <2>2. num \in [S -> Int] /\ den \in [S -> Nat \ {0}]
    BY <2>1
  <2>3. IsFiniteSet(S) /\ S \subseteq Nat
    <3>1. S \subseteq ChapterWeeks
      OBVIOUS
    <3> HIDE DEF S
    <3> QED BY <3>1, ChaptersFinite, FS_Subset
  <2>4. PICK c \in S : \A d \in S \ {c} : Precedes(c, num[c], den[c], d, num[d], den[d])
    <3> HIDE DEF S, num, den
    <3> QED BY <1>2, <2>2, <2>3, FirstFraction
  <2>5. ASSUME NEW d \in S \ {c} PROVE Ahead(c, d)
    <3>1. Precedes(c, 0 - Rise(c)[1], Rise(c)[2], d, 0 - Rise(d)[1], Rise(d)[2])
      BY <2>4
    <3>2. PICK x \in Int, p \in Nat \ {0}, y \in Int, q \in Nat \ {0} :
            x = Rise(c)[1] /\ p = Rise(c)[2] /\ y = Rise(d)[1] /\ q = Rise(d)[2]
      BY <2>1
    <3>3. (0 - x) * q < (0 - y) * p \/ ((0 - x) * q = (0 - y) * p /\ c < d)
      BY <3>1, <3>2 DEF Precedes
    <3>4. (0 - x) * q = 0 - x * q /\ (0 - y) * p = 0 - y * p
      OBVIOUS
    <3>5. y * p < x * q \/ (~ (x * q < y * p) /\ c < d)
      BY <3>3, <3>4
    <3> QED BY <3>2, <3>5 DEF Below
  <2> QED BY <2>5
<1> HIDE DEF Ahead
<1>4. PICK c \in S : c = MostImproved
  <2> HIDE DEF S
  <2> QED BY <1>1, <1>2, <1>3
<1> QED BY <1>4, RiseFacts

LEMMA FirstChapterIs ==
  ASSUME ReportReads, seen["chapters"] # Unread
  PROVE  FirstChapter = 0 <=> seen["chapters"] = 0
<1>1. /\ ChapterWeeks \subseteq Nat /\ 0 \notin ChapterWeeks
      /\ ChapterWeeks = {} <=> seen["chapters"] = 0
  BY ChaptersFinite
<1>2. FirstChapter = IF ChapterWeeks = {} THEN 0
                     ELSE CHOOSE c \in ChapterWeeks : \A d \in ChapterWeeks \ {c} : c < d
  <2>1. FirstChapter = IF ChapterWeeks = {} THEN 0
                     ELSE CHOOSE c \in ChapterWeeks :
                            \A d \in ChapterWeeks \ {c} : FALSE \/ (~FALSE /\ c < d)
    BY DEF FirstChapter, First
  <2> QED BY <2>1
<1>3. ASSUME ChapterWeeks # {} PROVE FirstChapter \in ChapterWeeks
  <2>1. PICK c \in ChapterWeeks : \A d \in ChapterWeeks : c <= d
    BY <1>1, <1>3, LeastNumber
  <2>2. \A d \in ChapterWeeks \ {c} : c < d
    BY <1>1, <2>1
  <2> QED BY <1>2, <1>3, <2>2
<1> QED BY <1>1, <1>2, <1>3

-----------------------------------------------------------------------------
(* The inductive invariant.                                                *)
ReportFits == ReportReads /\ ReportInv

LEMMA ReportStart == ReportInit => ReportFits
<1> SUFFICES ASSUME ReportInit PROVE ReportFits
  OBVIOUS
<1>1. earlier \in Seq(Submission)
  <2>1. PICK n \in 0 .. MaxEarlier :
          earlier \in [1 .. n -> {s \in Submission : s.slip = 0 /\ s.effort = "plain"}]
    BY DEF ReportInit
  <2>2. earlier \in [1 .. n -> Submission] /\ n \in Nat
    BY <2>1
  <2> QED BY <2>2, SeqDef
<1>2. week = <<>> /\ Len(week) = 0 /\ week \in Seq(Submission) /\ MaxWeek \in Nat
  BY ReportConstants DEF ReportInit
<1>3. seen \in [Queries -> 0 .. Unread] /\ \A q \in Queries : seen[q] = Unread
  BY <1>2 DEF ReportInit, Unread
<1>4. report = "reading" /\ draft = NoDraft
  BY DEF ReportInit
<1>5. ReportTypeOK
  BY <1>1, <1>2, <1>3, <1>4 DEF ReportTypeOK
<1> QED BY <1>2, <1>3, <1>4, <1>5 DEF ReportFits, ReportReads, ReportInv, SaysOnlyWhatHappened,
  LinesAgree, GateJudgesNames

LEMMA ReadingSteps ==
  ASSUME ReportFits, (\E s \in Submission : Submit(s)) \/ (\E q \in Queries : Query(q)) \/ TryAgain
  PROVE  ReportFits'
<1>1. report' = "reading"
  BY DEF Submit, Query, TryAgain
<1>2. /\ earlier \in Seq(Submission) /\ week \in Seq(Submission) /\ Len(week) \in Nat
      /\ seen \in [Queries -> 0 .. Unread] /\ Unread = MaxWeek + 1 /\ MaxWeek \in Nat
      /\ DOMAIN draft = DOMAIN NoDraft
      /\ Len(week) <= MaxWeek
      /\ \A q \in Queries : seen[q] = Unread \/ seen[q] <= Len(week)
  BY ReportConstants, LenProperties DEF ReportFits, ReportReads, ReportTypeOK, Unread
<1>3. ReportReads'
  <2>1. CASE \E s \in Submission : Submit(s)
    <3>1. PICK s \in Submission : Submit(s)
      BY <2>1
    <3>2. /\ week' = Append(week, s) /\ Len(week) < MaxWeek
          /\ UNCHANGED <<earlier, seen, report, draft>>
      BY <3>1 DEF Submit
    <3>3. week' \in Seq(Submission) /\ Len(week') = Len(week) + 1
      BY <1>2, <3>2, AppendProperties
    <3>4. Len(week') <= MaxWeek
      BY <1>2, <3>2, <3>3
    <3>5. \A q \in Queries : seen[q] \in Int /\ (seen[q] = Unread \/ seen[q] <= Len(week'))
      BY <1>2, <3>3
    <3> QED BY <1>1, <1>2, <3>2, <3>3, <3>4, <3>5 DEF ReportReads, ReportTypeOK, Unread
  <2>2. CASE \E q \in Queries : Query(q)
    <3>1. PICK q \in Queries : Query(q)
      BY <2>2
    <3>2. /\ seen' = [seen EXCEPT ![q] = Len(week)]
          /\ UNCHANGED <<earlier, week, report, draft>>
      BY <3>1 DEF Query
    <3>3. Len(week) \in 0 .. Unread
      BY <1>2
    <3> QED BY <1>1, <1>2, <3>2, <3>3 DEF ReportReads, ReportTypeOK, Unread
  <2>3. CASE TryAgain
    <3>1. /\ seen' = [q \in Queries |-> Unread] /\ draft' = NoDraft
          /\ UNCHANGED <<earlier, week>>
      BY <2>3 DEF TryAgain
    <3>2. Unread \in 0 .. Unread
      BY <1>2
    <3> QED BY <1>1, <1>2, <3>1, <3>2 DEF ReportReads, ReportTypeOK, Unread, NoDraft
  <2> QED BY <2>1, <2>2, <2>3
<1>4. SaysOnlyWhatHappened' /\ LinesAgree' /\ GateJudgesNames'
  BY <1>1 DEF SaysOnlyWhatHappened, LinesAgree, GateJudgesNames
<1> QED BY <1>3, <1>4 DEF ReportFits, ReportReads, ReportInv

\* A mix-up that is picked was shown in the week, in the chapter it is picked for.
LEMMA PickIsShown ==
  ASSUME ReportReads, seen["slips"] # Unread, NEW pick \in Picks
  PROVE  /\ pick # <<>> /\ pick[1] \in Mixups /\ pick[1] # 0 /\ pick[2] \in Topics
         /\ Sightings(pick[1], pick[2]) # {}
         /\ \E i \in DOMAIN week : week[i].slip = pick[1] /\ week[i].topic = pick[2]
<1>1. pick \in Mixups \X Topics /\ Sightings(pick[1], pick[2]) # {}
  BY DEF Picks, Sighted
<1>2. PICK i \in Of(SeenBy("slips"), pick[2]) : week[i].slip = pick[1]
  BY <1>1 DEF Sightings
<1>3. "slips" \in Queries
  BY DEF Queries
<1>4. i \in DOMAIN week /\ SeenBy("slips")[i] = week[i] /\ SeenBy("slips")[i].topic = pick[2]
  BY <1>3, SeenWeek DEF Of
<1>5. pick # <<>> /\ pick[1] \in Mixups /\ pick[1] # 0 /\ pick[2] \in Topics
  BY <1>1, ReportConstants
<1> QED BY <1>1, <1>2, <1>4, <1>5

\* A week without sessions has nothing to tell.
LEMMA EmptyWeek ==
  ASSUME ReportReads, 0 # Unread, \A q \in Queries : seen[q] = 0
  PROVE  /\ SessionCount = 0 /\ MostImproved = 0 /\ Hardest = 0 /\ FirstChapter = 0
         /\ Recoveries = 0 /\ Hints = 0 /\ Sighted = {}
<1>1. \A q \in Queries : DOMAIN SeenBy(q) = {} /\ Len(SeenBy(q)) = 0
  BY SeenWeek
<1>2. {"activity", "chapters", "slips", "effort"} \subseteq Queries
  BY DEF Queries
<1>3. ChapterWeeks = {}
  BY <1>1, <1>2 DEF ChapterWeeks, Of
<1>4. FirstChapter = 0
  BY <1>3 DEF FirstChapter, First
<1>5. MostImproved = 0 /\ Hardest = 0
  BY <1>3 DEF MostImproved, Hardest, First
<1>6. Showing(SeenBy("effort"), "caught") = {} /\ Showing(SeenBy("effort"), "hinted") = {}
  BY <1>1, <1>2 DEF Showing
<1>7. Recoveries = 0 /\ Hints = 0
  BY <1>6, FS_EmptySet DEF Recoveries, Hints
<1>8. Sighted = {}
  BY <1>1, <1>2 DEF Sighted, Sightings, Of
<1>9. SessionCount = 0
  BY <1>1, <1>2 DEF SessionCount
<1> QED BY <1>4, <1>5, <1>7, <1>8, <1>9

\* What the draft has of its lines.
LEMMA DraftFields ==
  ASSUME NEW pick, NEW d, d = Composed(pick)
  PROVE  /\ DOMAIN d = DOMAIN NoDraft
         /\ d.effort = EffortLine /\ d.well = WentWellLine /\ d.hard = HardLine
         /\ d.diagnosis = DiagnosisLine(pick) /\ d.action = ActionLine(pick)
         /\ d.code = IF pick = <<>> THEN 0 ELSE pick[1]
         /\ Named(d) = EffortLine.names \cup WentWellLine.names \cup HardLine.names
                         \cup DiagnosisLine(pick).names \cup ActionLine(pick).names
<1> DEFINE e == EffortLine
           w == WentWellLine
           h == HardLine
           g == DiagnosisLine(pick)
           a == ActionLine(pick)
           code == IF pick = <<>> THEN 0 ELSE pick[1]
<1>1. d = [effort |-> e, well |-> w, hard |-> h, diagnosis |-> g, action |-> a, code |-> code]
  BY DEF Composed
<1> HIDE DEF e, w, h, g, a, code
<1>2. /\ d.effort = e /\ d.well = w /\ d.hard = h /\ d.diagnosis = g /\ d.action = a /\ d.code = code
      /\ DOMAIN d = {"effort", "well", "hard", "diagnosis", "action", "code"}
  BY <1>1
<1>3. DOMAIN d = DOMAIN NoDraft
  BY <1>2 DEF NoDraft
<1>4. Named(d) = e.names \cup w.names \cup h.names \cup g.names \cup a.names
  <2>1. Named(d) = UNION {d[line].names : line \in {"effort", "well", "hard", "diagnosis", "action"}}
    <3>1. DOMAIN d \ {"code"} = {"effort", "well", "hard", "diagnosis", "action"}
      BY <1>2
    <3> QED BY <3>1 DEF Named
  <2>2. \A x : x \in Named(d) <=>
          x \in d.effort.names \/ x \in d.well.names \/ x \in d.hard.names
            \/ x \in d.diagnosis.names \/ x \in d.action.names
    BY <2>1
  <2> QED BY <1>2, <2>2
<1> QED BY <1>2, <1>3, <1>4 DEF e, w, h, g, a, code

\* What is said of the week, of its lines.
LEMMA LinesSayWhatHappened ==
  ASSUME ReportReads, \A q \in Queries : seen[q] # Unread,
         NEW pick, pick = <<>> \/ pick \in Picks, NEW d, d = Composed(pick)
  PROVE  /\ d.well.says = "better" => \A c \in d.well.names :
              \E i \in Of(week, c), j \in Of(earlier, c) :
                week[i].score >= earlier[j].score + ImprovementPoints
         /\ d.hard.says = "hard" => \A c \in d.hard.names :
              \E i \in Of(week, c) : week[i].score <= StrugglingScore
         /\ d.diagnosis.says = "mixing_up" =>
              /\ \E i \in DOMAIN week : d.diagnosis.names = {week[i].slip, week[i].topic}
              /\ d.action = Line("explain", {d.code}) /\ d.code \in d.diagnosis.names
<1>1. {"activity", "chapters", "slips", "effort"} \subseteq Queries
  BY DEF Queries
<1>2. /\ d.well = WentWellLine /\ d.hard = HardLine
      /\ d.diagnosis = DiagnosisLine(pick) /\ d.action = ActionLine(pick)
      /\ d.code = IF pick = <<>> THEN 0 ELSE pick[1]
  BY DraftFields
<1>3. ASSUME d.well.says = "better" PROVE MostImproved # 0 /\ d.well.names = {MostImproved}
  BY <1>2, <1>3 DEF WentWellLine, Line
<1>4. ASSUME d.hard.says = "hard" PROVE Hardest # 0 /\ d.hard.names = {Hardest}
  BY <1>2, <1>4 DEF HardLine, Line
<1>5. ASSUME d.diagnosis.says = "mixing_up"
      PROVE  pick # <<>> /\ d.diagnosis.names = {pick[1], pick[2]}
  BY <1>2, <1>5 DEF DiagnosisLine, Line
<1>6. ASSUME d.diagnosis.says = "mixing_up"
      PROVE  /\ \E i \in DOMAIN week : d.diagnosis.names = {week[i].slip, week[i].topic}
             /\ d.action = Line("explain", {d.code}) /\ d.code \in d.diagnosis.names
  <2>1. pick # <<>> /\ pick \in Picks /\ d.diagnosis.names = {pick[1], pick[2]}
    BY <1>5, <1>6
  <2>2. PICK i \in DOMAIN week : week[i].slip = pick[1] /\ week[i].topic = pick[2]
    BY <1>1, <2>1, PickIsShown
  <2>3. d.code = pick[1] /\ d.action = Line("explain", {pick[1]})
    BY <1>2, <2>1 DEF ActionLine
  <2> QED BY <2>1, <2>2, <2>3
<1> QED BY <1>1, <1>3, <1>4, <1>6, BetterIsBetter, HardIsHard

\* When the queries have seen the same, the lines agree.
LEMMA LinesDoAgree ==
  ASSUME ReportReads, NEW n, n # Unread, \A q \in Queries : seen[q] = n,
         NEW pick, pick \in IF Sighted = {} THEN {<<>>} ELSE Picks, NEW d, d = Composed(pick)
  PROVE  /\ d.effort.says = "no_session" <=> d.well.says = "nothing_new"
         /\ d.effort.says = "no_session" => Named(d) = {} /\ d.action.says = "make_a_slot"
         /\ d.effort.says = "practised" => d.action.says # "plan"
<1>1. {"activity", "chapters", "slips", "effort"} \subseteq Queries
  BY DEF Queries
<1>2. /\ d.effort = EffortLine /\ d.well = WentWellLine /\ d.action = ActionLine(pick)
      /\ Named(d) = EffortLine.names \cup WentWellLine.names \cup HardLine.names
                         \cup DiagnosisLine(pick).names \cup ActionLine(pick).names
  BY DraftFields
<1>3. SessionCount = n /\ n \in Nat
  BY <1>1, SeenWeek DEF SessionCount
<1>4. CASE n = 0
  <2>1. /\ SessionCount = 0 /\ MostImproved = 0 /\ Hardest = 0 /\ FirstChapter = 0
        /\ Recoveries = 0 /\ Hints = 0 /\ pick = <<>>
    <3>1. 0 # Unread /\ \A q \in Queries : seen[q] = 0
      BY <1>4
    <3> QED BY <3>1, EmptyWeek
  <2>2. EffortLine = Line("no_session", {})
    BY <2>1 DEF EffortLine
  <2>3. WentWellLine = Line("nothing_new", {})
    BY <2>1 DEF WentWellLine
  <2>4. HardLine = Line("cannot_say", {})
    BY <2>1 DEF HardLine
  <2>5. DiagnosisLine(pick) = Line("no_mixup", {})
    BY <2>1 DEF DiagnosisLine
  <2>6. ActionLine(pick) = Line("make_a_slot", {})
    BY <2>1 DEF ActionLine
  <2> QED BY <1>2, <2>2, <2>3, <2>4, <2>5, <2>6 DEF Line
<1>5. CASE n # 0
  <2>1. SessionCount > 0 /\ SessionCount # 0 /\ FirstChapter # 0
    BY <1>1, <1>3, <1>5, FirstChapterIs
  <2>2. EffortLine = Line("practised", {})
    BY <2>1 DEF EffortLine
  <2>3. WentWellLine.says # "nothing_new"
    <3>1. Recoveries \in Nat
      <4>1. Showing(SeenBy("effort"), "caught") \subseteq DOMAIN SeenBy("effort")
        BY DEF Showing
      <4>2. IsFiniteSet(DOMAIN SeenBy("effort"))
        BY <1>1, SeenWeek
      <4>3. IsFiniteSet(Showing(SeenBy("effort"), "caught"))
        BY <4>1, <4>2, FS_Subset
      <4> QED BY <4>3, FS_CardinalityType DEF Recoveries
    <3>2. WentWellLine \in {Line("better", {MostImproved}), Line("caught", {}), Line("kept_on", {FirstChapter})}
      BY <2>1, <3>1 DEF WentWellLine
    <3> QED BY <3>2 DEF Line
  <2>4. ActionLine(pick).says # "plan"
    <3>1. ActionLine(pick) \in
            {Line("explain", {pick[1]}), Line("sit_with", {Hardest}), Line("teach_you", {FirstChapter})}
      BY <2>1 DEF ActionLine
    <3> QED BY <3>1 DEF Line
  <2> QED BY <1>2, <2>2, <2>3, <2>4 DEF Line
<1> QED BY <1>4, <1>5

LEMMA ComposeStep == ASSUME ReportFits, Compose PROVE ReportFits'
<1>1. PICK pick \in IF Sighted = {} THEN {<<>>} ELSE Picks : draft' = Composed(pick)
  BY DEF Compose
<1>2. PICK d : d = draft' /\ d = Composed(pick)
  BY <1>1
<1>3. /\ report' = IF Honest(d) THEN "stored" ELSE "refused"
      /\ UNCHANGED <<earlier, week, seen>> /\ \A q \in Queries : seen[q] # Unread
  BY <1>2 DEF Compose
<1>4. ReportReads /\ ReportTypeOK
  BY DEF ReportFits, ReportReads
<1>5. DOMAIN d = DOMAIN NoDraft /\ d.code = IF pick = <<>> THEN 0 ELSE pick[1]
  BY <1>2, DraftFields
<1>6. ReportReads'
  BY <1>2, <1>3, <1>4, <1>5 DEF ReportReads, ReportTypeOK, NoDraft
<1>7. SaysOnlyWhatHappened'
  <2>1. /\ d.well.says = "better" => \A c \in d.well.names :
              \E i \in Of(week, c), j \in Of(earlier, c) :
                week[i].score >= earlier[j].score + ImprovementPoints
        /\ d.hard.says = "hard" => \A c \in d.hard.names :
              \E i \in Of(week, c) : week[i].score <= StrugglingScore
        /\ d.diagnosis.says = "mixing_up" =>
              /\ \E i \in DOMAIN week : d.diagnosis.names = {week[i].slip, week[i].topic}
              /\ d.action = Line("explain", {d.code}) /\ d.code \in d.diagnosis.names
    BY <1>1, <1>2, <1>3, <1>4, LinesSayWhatHappened
  <2> QED BY <1>2, <1>3, <2>1 DEF SaysOnlyWhatHappened
<1>8. LinesAgree'
  <2> DEFINE counts == {seen[q] : q \in Queries}
  <2>1. ASSUME Cardinality(counts) = 1
        PROVE  /\ d.effort.says = "no_session" <=> d.well.says = "nothing_new"
               /\ d.effort.says = "no_session" => Named(d) = {} /\ d.action.says = "make_a_slot"
               /\ d.effort.says = "practised" => d.action.says # "plan"
    <3>1. IsFiniteSet(counts)
      <4>1. counts = {seen["activity"], seen["chapters"]} \cup {seen["slips"], seen["effort"]}
        BY DEF Queries
      <4>2. \A x, y : IsFiniteSet({x, y})
        <5>1. ASSUME NEW x, NEW y PROVE IsFiniteSet({x, y})
          <6>1. IsFiniteSet({x}) /\ IsFiniteSet({x} \cup {y})
            BY FS_Singleton, FS_AddElement
          <6>2. {x} \cup {y} = {x, y}
            OBVIOUS
          <6> QED BY <6>1, <6>2
        <5> QED BY <5>1
      <4>3. PICK S, T : S = {seen["activity"], seen["chapters"]} /\ T = {seen["slips"], seen["effort"]}
        OBVIOUS
      <4>4. IsFiniteSet(S) /\ IsFiniteSet(T)
        BY <4>2, <4>3
      <4>5. IsFiniteSet(S \cup T)
        BY <4>4, FS_Union
      <4> QED BY <4>1, <4>3, <4>5
    <3>2. PICK n : counts = {n}
      <4> HIDE DEF counts
      <4> QED BY <2>1, <3>1, FS_Singleton
    <3>3. \A q \in Queries : seen[q] = n
      BY <3>2
    <3>4. n # Unread
      BY <1>3, <3>3 DEF Queries
    <3> QED BY <1>1, <1>2, <1>4, <3>3, <3>4, LinesDoAgree
  <2>2. Named(draft)' = Named(d)
    BY <1>2 DEF Named
  <2> QED BY <1>2, <1>3, <2>1, <2>2 DEF LinesAgree
<1>9. GateJudgesNames'
  <2>1. Named(draft)' = Named(d)
    BY <1>2 DEF Named
  <2>2. d.code # 0 => \E c \in Topics : Sightings(d.code, c) # {}
    <3>1. ASSUME d.code # 0 PROVE pick \in Picks /\ d.code = pick[1]
      BY <1>1, <1>5, <3>1
    <3> QED BY <1>3, <1>4, <3>1, PickIsShown DEF Queries
  <2>3. Honest(d) <=> Named(d) \cap Flagged = {}
    BY <2>2 DEF Honest
  <2> QED BY <1>3, <2>1, <2>3 DEF GateJudgesNames
<1> QED BY <1>6, <1>7, <1>8, <1>9 DEF ReportFits, ReportReads, ReportInv

LEMMA ReportStep == ReportFits /\ [ReportNext]_reportVars => ReportFits'
<1> SUFFICES ASSUME ReportFits, [ReportNext]_reportVars PROVE ReportFits'
  OBVIOUS
<1>1. CASE UNCHANGED reportVars
  BY <1>1 DEF reportVars, ReportFits, ReportReads, ReportInv, ReportTypeOK, SaysOnlyWhatHappened, LinesAgree,
    GateJudgesNames, Named, Of
<1>2. CASE ReportNext
  BY <1>2, ReadingSteps, ComposeStep DEF ReportNext
<1> QED BY <1>1, <1>2

\* What a digest says, for any week and any sessions before it, any chapters,
\* mix-ups and scores, and whenever its four queries run: nothing that did not
\* happen, lines that agree when the queries saw the same, and a gate that
\* judges names only.
THEOREM DigestsAreHonest == ReportSpec => []ReportInv
<1>1. ReportFits => ReportInv
  BY DEF ReportFits
<1> QED BY <1>1, ReportStart, ReportStep, PTL DEF ReportSpec

-----------------------------------------------------------------------------
(* The filter of citation markers.  A reader of the whole text passes it   *)
(* symbol by symbol and marker by marker; every turn of the loop is some   *)
(* steps of that reader, and what is held is what it has still to read of  *)
(* the text that has come.                                                 *)

\* The reader can stand at `at`, having kept `out` and noted `ids`.
Stands(at, out, ids) == \E n \in 0 .. Len(whole) : Reader(whole)[n] = ReadTo(at, out, ids)

\* How much of the text the filter has been given.
Given == Len(whole) - Len(unread)

\* An opening at a place of a text, read off its symbols.
Opening(text, i) == i + 1 <= Len(text) /\ text[i] = Open[1] /\ text[i + 1] = Open[2]

\* An opening before `at` is that of a marker.
Passed(at) == \A j \in 1 .. at - 1 : Opening(whole, j) => StartsMarker(whole, j)

(* The inductive invariant.                                                *)
FilterBooks ==
  /\ FilterTypeOK
  /\ Given \in Nat /\ unread = From(whole, Given + 1)
  /\ ~flushed /\ ShortIds(whole) =>
       \E at \in 1 .. Given + 1 :
         Stands(at, emitted, cited) /\ pending = SubSeq(whole, at, Given) /\ Passed(at)
  /\ flushed => unread = <<>> /\ (ShortIds(whole) => Stands(Len(whole) + 1, emitted, cited))

LEMMA MarkerSymbols ==
  /\ Open \in Seq(Symbols) /\ Len(Open) = 2 /\ Close \in Symbols
  /\ Open[1] # Open[2] /\ Open[1] # Close /\ Open[2] # Close
  /\ Open[1] = "[" /\ MaxId \in Nat
BY FilterAssumption DEF Open, Close, Symbols

\* A part of a text.
LEMMA Part ==
  ASSUME NEW text \in Seq(Symbols), NEW i \in Nat \ {0}, NEW j \in 0 .. Len(text), i <= j + 1
  PROVE  /\ SubSeq(text, i, j) \in Seq(Symbols) /\ Len(SubSeq(text, i, j)) = j - i + 1
         /\ \A k \in 1 .. j - i + 1 : SubSeq(text, i, j)[k] = text[i + k - 1]
<1>1. \A k \in i .. j : text[k] \in Symbols
  BY ElementOfSeq
<1> QED BY <1>1, SubSeqProperties

\* A part of a part.
LEMMA PartOfPart ==
  ASSUME NEW text \in Seq(Symbols), NEW i \in Nat \ {0}, NEW j \in 0 .. Len(text), i <= j + 1,
         NEW k \in Nat \ {0}, NEW l \in Nat, k <= l + 1, l <= j - i + 1
  PROVE  SubSeq(SubSeq(text, i, j), k, l) = SubSeq(text, i + k - 1, i + l - 1)
<1> DEFINE part == SubSeq(text, i, j)
           one == SubSeq(part, k, l)
           two == SubSeq(text, i + k - 1, i + l - 1)
<1>1. part \in Seq(Symbols) /\ Len(part) = j - i + 1
        /\ \A n \in 1 .. j - i + 1 : part[n] = text[i + n - 1]
  BY Part
<1>2. one \in Seq(Symbols) /\ Len(one) = l - k + 1
        /\ \A n \in 1 .. l - k + 1 : one[n] = part[k + n - 1]
  <2>1. l \in 0 .. Len(part)
    BY <1>1
  <2> HIDE DEF part
  <2> QED BY <1>1, <2>1, Part
<1>3. two \in Seq(Symbols) /\ Len(two) = l - k + 1
        /\ \A n \in 1 .. l - k + 1 : two[n] = text[(i + k - 1) + n - 1]
  <2>1. PICK a \in Nat \ {0}, b \in 0 .. Len(text) : a = i + k - 1 /\ b = i + l - 1
    OBVIOUS
  <2>2. a <= b + 1 /\ b - a + 1 = l - k + 1
    BY <2>1
  <2> QED BY <2>1, <2>2, Part
<1>4. ASSUME NEW n \in 1 .. Len(one) PROVE one[n] = two[n]
  <2>1. one[n] = part[k + n - 1] /\ two[n] = text[(i + k - 1) + n - 1]
    BY <1>2, <1>3, <1>4
  <2>2. PICK m \in 1 .. j - i + 1 : m = k + n - 1
    BY <1>2, <1>4
  <2>3. i + m - 1 = (i + k - 1) + n - 1
    BY <2>2, <1>2, <1>4
  <2> HIDE DEF part, one, two
  <2> QED BY <1>1, <2>1, <2>2, <2>3
<1> HIDE DEF one, two
<1>5. one = two
  BY <1>2, <1>3, <1>4, SeqEqual
<1> QED BY <1>5 DEF one, two, part

\* Neighbouring parts.
LEMMA PartsMeet ==
  ASSUME NEW text \in Seq(Symbols), NEW i \in Nat \ {0}, NEW k \in Nat, NEW j \in 0 .. Len(text),
         i <= k + 1, k <= j
  PROVE  SubSeq(text, i, k) \o SubSeq(text, k + 1, j) = SubSeq(text, i, j)
<1>1. i \in 1 .. Len(text) + 1 /\ k \in i - 1 .. Len(text) /\ j \in k .. Len(text)
  OBVIOUS
<1> QED BY <1>1, ConcatAdjacentSubSeq

\* What follows a place in a text.
LEMMA Rest ==
  ASSUME NEW text \in Seq(Symbols), NEW i \in 1 .. Len(text) + 1
  PROVE  /\ From(text, i) \in Seq(Symbols) /\ Len(From(text, i)) = Len(text) - i + 1
         /\ \A k \in 1 .. Len(text) - i + 1 : From(text, i)[k] = text[i + k - 1]
BY Part DEF From

\* What comes before a place in a text.
LEMMA Start ==
  ASSUME NEW text \in Seq(Symbols), NEW n \in 0 .. Len(text)
  PROVE  /\ SubSeq(text, 1, n) \in Seq(Symbols) /\ Len(SubSeq(text, 1, n)) = n
         /\ \A k \in 1 .. n : SubSeq(text, 1, n)[k] = text[k]
<1>1. PICK i \in Nat \ {0} : i = 1
  OBVIOUS
<1>2. i <= n + 1 /\ n - i + 1 = n /\ \A k \in 1 .. n : i + k - 1 = k
  BY <1>1
<1>3. /\ SubSeq(text, i, n) \in Seq(Symbols) /\ Len(SubSeq(text, i, n)) = n
      /\ \A k \in 1 .. n : SubSeq(text, i, n)[k] = text[i + k - 1]
  BY <1>2, Part
<1> QED BY <1>1, <1>2, <1>3

\* Prefixes are compared symbol by symbol.
LEMMA SamePrefix ==
  ASSUME NEW s \in Seq(Symbols), NEW t \in Seq(Symbols), NEW n \in Nat, n <= Len(s), n <= Len(t)
  PROVE  SubSeq(s, 1, n) = SubSeq(t, 1, n) <=> \A k \in 1 .. n : s[k] = t[k]
<1>1. n \in 0 .. Len(s) /\ n \in 0 .. Len(t)
  OBVIOUS
<1>2. PICK one \in Seq(Symbols) : one = SubSeq(s, 1, n) /\ Len(one) = n /\ \A k \in 1 .. n : one[k] = s[k]
  BY <1>1, Start
<1>3. PICK two \in Seq(Symbols) : two = SubSeq(t, 1, n) /\ Len(two) = n /\ \A k \in 1 .. n : two[k] = t[k]
  BY <1>1, Start
<1>4. one = two <=> \A k \in 1 .. n : one[k] = two[k]
  BY <1>2, <1>3, SeqEqual
<1> QED BY <1>2, <1>3, <1>4

LEMMA OpensAt ==
  ASSUME NEW text \in Seq(Symbols), NEW i \in 1 .. Len(text)
  PROVE  IsPrefix(Open, From(text, i)) <=> Opening(text, i)
<1>1. i \in 1 .. Len(text) + 1
  OBVIOUS
<1>2. PICK rest \in Seq(Symbols) : rest = From(text, i) /\ Len(rest) = Len(text) - i + 1
        /\ \A k \in 1 .. Len(text) - i + 1 : rest[k] = text[i + k - 1]
  BY <1>1, Rest
<1>3. Open \in Seq(Symbols) /\ Len(Open) = 2
  BY MarkerSymbols
<1>4. IsPrefix(Open, rest) <=> 2 <= Len(rest) /\ SubSeq(Open, 1, 2) = SubSeq(rest, 1, 2)
  BY <1>3 DEF IsPrefix
<1>5. 2 <= Len(rest) => (SubSeq(Open, 1, 2) = SubSeq(rest, 1, 2) <=> \A k \in 1 .. 2 : Open[k] = rest[k])
  BY <1>3, SamePrefix
<1>6. 2 <= Len(rest) => rest[1] = text[i] /\ rest[2] = text[i + 1]
  <2>1. 2 <= Len(rest) => 1 \in 1 .. Len(text) - i + 1 /\ 2 \in 1 .. Len(text) - i + 1
    BY <1>2
  <2>2. i + 1 - 1 = i /\ i + 2 - 1 = i + 1
    OBVIOUS
  <2> QED BY <1>2, <2>1, <2>2
<1>7. (\A k \in 1 .. 2 : Open[k] = rest[k]) <=> Open[1] = rest[1] /\ Open[2] = rest[2]
  <2>1. \A k \in 1 .. 2 : k = 1 \/ k = 2
    OBVIOUS
  <2> QED BY <2>1
<1>8. 2 <= Len(rest) <=> i + 1 <= Len(text)
  BY <1>2
<1> QED BY <1>2, <1>4, <1>5, <1>6, <1>7, <1>8 DEF Opening

LEMMA ClosesAt ==
  ASSUME NEW text \in Seq(Symbols), NEW i \in 1 .. Len(text)
  PROVE  IsPrefix(<<Close>>, From(text, i)) <=> text[i] = Close
<1>1. i \in 1 .. Len(text) + 1
  OBVIOUS
<1>2. PICK rest \in Seq(Symbols) : rest = From(text, i) /\ Len(rest) = Len(text) - i + 1
        /\ \A k \in 1 .. Len(text) - i + 1 : rest[k] = text[i + k - 1]
  BY <1>1, Rest
<1>3. Len(rest) >= 1 /\ rest[1] = text[i]
  <2>1. 1 \in 1 .. Len(text) - i + 1 /\ i + 1 - 1 = i
    OBVIOUS
  <2> QED BY <1>2, <2>1
<1>4. <<Close>> \in Seq(Symbols) /\ Len(<<Close>>) = 1 /\ <<Close>>[1] = Close
  <2>1. Close \in Symbols
    BY MarkerSymbols
  <2> QED BY <2>1
<1>5. PICK end \in Seq(Symbols) : end = <<Close>>
  BY <1>4
<1>6. IsPrefix(end, rest) <=> SubSeq(end, 1, 1) = SubSeq(rest, 1, 1)
  BY <1>3, <1>4, <1>5 DEF IsPrefix
<1>7. SubSeq(end, 1, 1) = SubSeq(rest, 1, 1) <=> \A k \in 1 .. 1 : end[k] = rest[k]
  BY <1>2, <1>3, <1>4, <1>5, SamePrefix
<1>8. (\A k \in 1 .. 1 : end[k] = rest[k]) <=> end[1] = rest[1]
  <2>1. \A k \in 1 .. 1 : k = 1
    OBVIOUS
  <2> QED BY <2>1
<1> QED BY <1>2, <1>3, <1>4, <1>5, <1>6, <1>7, <1>8

LEMMA IndexFacts ==
  ASSUME NEW text \in Seq(Symbols), NEW part
  PROVE  /\ IndexOf(text, part) \in 0 .. Len(text)
         /\ IndexOf(text, part) = 0 => \A i \in 1 .. Len(text) : ~ IsPrefix(part, From(text, i))
         /\ IndexOf(text, part) # 0 =>
              /\ IsPrefix(part, From(text, IndexOf(text, part)))
              /\ \A i \in 1 .. IndexOf(text, part) - 1 : ~ IsPrefix(part, From(text, i))
<1> DEFINE starts == {i \in 1 .. Len(text) : IsPrefix(part, From(text, i))}
<1>1. IndexOf(text, part) = IF starts = {} THEN 0 ELSE CHOOSE i \in starts : \A j \in starts : i <= j
  BY DEF IndexOf, From
<1>2. CASE starts = {}
  BY <1>1, <1>2
<1>3. CASE starts # {}
  <2>1. starts \subseteq Nat
    OBVIOUS
  <2>2. \E i \in starts : \A j \in starts : i <= j
    BY <1>3, <2>1, LeastNumber
  <2>3. PICK first : first = IndexOf(text, part) /\ first \in starts /\ \A j \in starts : first <= j
    BY <1>1, <1>3, <2>2
  <2>4. first \in 1 .. Len(text) /\ IsPrefix(part, From(text, first))
    BY <2>3
  <2>5. ASSUME NEW i \in 1 .. first - 1 PROVE ~ IsPrefix(part, From(text, i))
    <3>1. i \in 1 .. Len(text) /\ i < first
      BY <2>4, <2>5
    <3> QED BY <2>3, <3>1
  <2> QED BY <2>3, <2>4, <2>5
<1> QED BY <1>2, <1>3

LEMMA FirstOpening ==
  ASSUME NEW text \in Seq(Symbols), NEW open, open = IndexOf(text, Open)
  PROVE  /\ open \in 0 .. Len(text)
         /\ open = 0 => \A i \in 1 .. Len(text) : ~ Opening(text, i)
         /\ open # 0 => Opening(text, open) /\ \A i \in 1 .. open - 1 : ~ Opening(text, i)
BY IndexFacts, OpensAt

LEMMA FirstClose ==
  ASSUME NEW text \in Seq(Symbols), NEW close, close = IndexOf(text, <<Close>>)
  PROVE  /\ close \in 0 .. Len(text)
         /\ close = 0 => \A i \in 1 .. Len(text) : text[i] # Close
         /\ close # 0 => text[close] = Close /\ \A i \in 1 .. close - 1 : text[i] # Close
BY IndexFacts, ClosesAt

\* A marker at a place of a text.
LEMMA MarkerAt ==
  ASSUME NEW text \in Seq(Symbols), NEW i \in 1 .. Len(text)
  PROVE  /\ StartsMarker(text, i) <=> Opening(text, i) /\ \E j \in i .. Len(text) : text[j] = Close
         /\ \A end \in i .. Len(text) :
              Opening(text, i) /\ text[end] = Close /\ (\A j \in i .. end - 1 : text[j] # Close)
              => StartsMarker(text, i) /\ EndOfMarker(text, i) = end
         /\ StartsMarker(text, i) =>
              /\ EndOfMarker(text, i) \in i + 2 .. Len(text) /\ text[EndOfMarker(text, i)] = Close
              /\ \A j \in i .. EndOfMarker(text, i) - 1 : text[j] # Close
<1>1. PICK rest \in Seq(Symbols) :
        rest = From(text, i) /\ Len(rest) = Len(text) - i + 1
        /\ \A k \in 1 .. Len(text) - i + 1 : rest[k] = text[i + k - 1]
  <2>1. i \in 1 .. Len(text) + 1
    OBVIOUS
  <2> QED BY <2>1, Rest
<1>2. PICK close : close = IndexOf(rest, <<Close>>)
  OBVIOUS
<1>3. /\ close \in 0 .. Len(rest)
      /\ close = 0 => \A k \in 1 .. Len(rest) : rest[k] # Close
      /\ close # 0 => rest[close] = Close /\ \A k \in 1 .. close - 1 : rest[k] # Close
  BY <1>2, FirstClose
<1>4. /\ StartsMarker(text, i) <=> Opening(text, i) /\ close > 0
      /\ EndOfMarker(text, i) = i + close - 1
  BY <1>1, <1>2, OpensAt DEF StartsMarker, EndOfMarker
<1>5. \A j \in i .. Len(text) : j - i + 1 \in 1 .. Len(rest) /\ rest[j - i + 1] = text[j]
  <2>1. ASSUME NEW j \in i .. Len(text) PROVE j - i + 1 \in 1 .. Len(rest) /\ rest[j - i + 1] = text[j]
    <3>1. PICK k \in 1 .. Len(text) - i + 1 : k = j - i + 1 /\ i + k - 1 = j
      OBVIOUS
    <3> QED BY <1>1, <3>1
  <2> QED BY <2>1
<1>6. CASE close = 0
  <2>1. \A j \in i .. Len(text) : text[j] # Close
    BY <1>3, <1>5, <1>6
  <2> QED BY <1>3, <1>4, <1>6, <2>1
<1>7. CASE close # 0
  <2>1. PICK last \in i .. Len(text) : last = i + close - 1 /\ last - i + 1 = close
    <3>1. i + close - 1 \in i .. Len(text) /\ (i + close - 1) - i + 1 = close
      <4>1. close \in 1 .. Len(text) - i + 1
        BY <1>1, <1>3, <1>7
      <4> QED BY <4>1
    <3> QED BY <3>1
  <2>2. text[last] = Close
    BY <1>3, <1>5, <1>7, <2>1
  <2>3. ASSUME NEW j \in i .. last - 1 PROVE text[j] # Close
    <3>1. j \in i .. Len(text) /\ j - i + 1 \in 1 .. close - 1
      BY <1>3, <2>1, <2>3
    <3> QED BY <1>3, <1>5, <1>7, <3>1
  <2>4. ASSUME NEW end \in i .. Len(text), text[end] = Close, \A j \in i .. end - 1 : text[j] # Close
        PROVE  end = last
    <3>1. ~ (end < last)
      BY <2>3, <2>4
    <3>2. ~ (last < end)
      BY <2>2, <2>4, <2>1
    <3> QED BY <2>1, <3>1, <3>2
  <2>5. Opening(text, i) => last >= i + 2
    <3>1. Opening(text, i) => text[i] # Close /\ text[i + 1] # Close
      BY MarkerSymbols DEF Opening
    <3>2. Opening(text, i) => last # i /\ last # i + 1
      BY <2>2, <3>1
    <3> QED BY <2>1, <3>2
  <2> QED BY <1>3, <1>4, <1>7, <2>1, <2>2, <2>3, <2>4, <2>5
<1> QED BY <1>3, <1>6, <1>7

LEMMA ReaderReads ==
  ASSUME NEW text \in Seq(Symbols)
  PROVE  /\ Reader(text)[0] = ReadTo(1, <<>>, <<>>)
         /\ \A n \in 1 .. Len(text) : Reader(text)[n] = ReadOn(text, Reader(text)[n - 1])
<1> DEFINE start == ReadTo(1, <<>>, <<>>)
           Fits(f, n) == f = [k \in 0 .. n |-> IF k = 0 THEN start ELSE ReadOn(text, f[k - 1])]
           bad == {n \in 0 .. Len(text) : ~ \E f : Fits(f, n)}
<1> HIDE DEF start
<1>1. bad = {}
  <2>1. SUFFICES ASSUME bad # {} PROVE FALSE
    OBVIOUS
  <2>2. PICK n \in bad : \A m \in bad : n <= m
    <3>1. bad \subseteq Nat
      OBVIOUS
    <3> QED BY <2>1, <3>1, LeastNumber
  <2>3. n \in 0 .. Len(text) /\ ~ \E f : Fits(f, n)
    OBVIOUS
  <2>4. CASE n = 0
    <3> DEFINE g == [k \in 0 .. 0 |-> start]
    <3>1. \A k \in 0 .. 0 : k = 0
      OBVIOUS
    <3>2. g = [k \in 0 .. 0 |-> IF k = 0 THEN start ELSE ReadOn(text, g[k - 1])]
      BY <3>1
    <3> QED BY <2>3, <2>4, <3>2
  <2>5. CASE n # 0
    <3>1. PICK m \in 0 .. Len(text) : m = n - 1 /\ n = m + 1 /\ m < n
      BY <2>3, <2>5
    <3>2. m \notin bad
      <4>1. ~ (n <= m)
        BY <2>3, <3>1
      <4> HIDE DEF bad
      <4> QED BY <2>2, <4>1
    <3>3. PICK f : Fits(f, m)
      BY <3>2
    <3> DEFINE g == [k \in 0 .. n |-> IF k = 0 THEN start ELSE ReadOn(text, f[k - 1])]
    <3>4. ASSUME NEW k \in 0 .. m PROVE g[k] = f[k]
      <4>1. k \in 0 .. n
        BY <3>1, <3>4
      <4>2. f[k] = IF k = 0 THEN start ELSE ReadOn(text, f[k - 1])
        BY <3>3, <3>4, Zenon
      <4> QED BY <4>1, <4>2, Zenon
    <3>5. \A k \in 0 .. n : k # 0 => k - 1 \in 0 .. m
      BY <2>3, <3>1
    <3>6. ASSUME NEW k \in 0 .. n
          PROVE  g[k] = IF k = 0 THEN start ELSE ReadOn(text, g[k - 1])
      <4>1. g[k] = IF k = 0 THEN start ELSE ReadOn(text, f[k - 1])
        BY Zenon
      <4>2. k # 0 => g[k - 1] = f[k - 1]
        BY <3>4, <3>5, Zenon
      <4> HIDE DEF g
      <4> QED BY <4>1, <4>2, Zenon
    <3>7. Fits(g, n)
      <4>1. g = [k \in 0 .. n |-> g[k]]
        BY Zenon
      <4> HIDE DEF g
      <4> QED BY <3>6, <4>1, Zenon
    <3> QED BY <2>3, <3>7, Zenon
  <2> QED BY <2>4, <2>5
<1>2. PICK f : Fits(f, Len(text))
  <2>1. Len(text) \in 0 .. Len(text) /\ Len(text) \notin bad
    BY <1>1
  <2> QED BY <2>1
<1>3. Fits(Reader(text), Len(text))
  BY <1>2, Zenon DEF Reader, start
<1>4. PICK reader : reader = Reader(text)
  OBVIOUS
<1>5. reader = [k \in 0 .. Len(text) |-> IF k = 0 THEN start ELSE ReadOn(text, reader[k - 1])]
  BY <1>3, <1>4, Zenon
<1>6. ASSUME NEW n \in 0 .. Len(text)
      PROVE  reader[n] = IF n = 0 THEN start ELSE ReadOn(text, reader[n - 1])
  BY <1>5, Zenon
<1>7. 0 \in 0 .. Len(text) /\ \A n \in 1 .. Len(text) : n \in 0 .. Len(text) /\ n # 0
  OBVIOUS
<1> QED BY <1>4, <1>6, <1>7, Zenon DEF start

LEMMA PrefixIs ==
  ASSUME NEW s \in Seq(Symbols), NEW t \in Seq(Symbols)
  PROVE  IsPrefix(s, t) <=> Len(s) <= Len(t) /\ \A k \in 1 .. Len(s) : s[k] = t[k]
<1>1. Len(s) <= Len(t) =>
        (SubSeq(s, 1, Len(s)) = SubSeq(t, 1, Len(s)) <=> \A k \in 1 .. Len(s) : s[k] = t[k])
  BY SamePrefix
<1> QED BY <1>1 DEF IsPrefix

LEMMA KnownSymbols == \A s : s \in Seq(Known) => s \in Seq(Symbols)
<1>1. Known \subseteq Symbols
  BY DEF Symbols
<1> QED BY <1>1, SeqMonotonic

LEMMA PrefixOfAppend ==
  ASSUME NEW S, S \subseteq Symbols, NEW s \in Seq(S), NEW e \in S
  PROVE  Append(s, e) \in Seq(S) /\ IsPrefix(s, Append(s, e))
<1>1. PICK t \in Seq(S) : t = Append(s, e) /\ Len(t) = Len(s) + 1 /\ \A k \in 1 .. Len(s) : t[k] = s[k]
  <2>1. Append(s, e) \in Seq(S) /\ Len(Append(s, e)) = Len(s) + 1
          /\ \A k \in 1 .. Len(s) : Append(s, e)[k] = s[k]
    BY AppendProperties
  <2> QED BY <2>1
<1>2. s \in Seq(Symbols) /\ t \in Seq(Symbols)
  BY SeqMonotonic
<1>3. Len(s) <= Len(t)
  BY <1>1
<1> QED BY <1>1, <1>2, <1>3, PrefixIs

LEMMA PrefixOrder ==
  /\ \A s \in Seq(Symbols) : IsPrefix(s, s)
  /\ \A s, t, u \in Seq(Symbols) : IsPrefix(s, t) /\ IsPrefix(t, u) => IsPrefix(s, u)
<1>1. ASSUME NEW s \in Seq(Symbols) PROVE IsPrefix(s, s)
  BY PrefixIs
<1>2. ASSUME NEW s \in Seq(Symbols), NEW t \in Seq(Symbols), NEW u \in Seq(Symbols),
             IsPrefix(s, t), IsPrefix(t, u)
      PROVE  IsPrefix(s, u)
  <2>1. Len(s) <= Len(t) /\ \A k \in 1 .. Len(s) : s[k] = t[k]
    BY <1>2, PrefixIs
  <2>2. Len(t) <= Len(u) /\ \A k \in 1 .. Len(t) : t[k] = u[k]
    BY <1>2, PrefixIs
  <2>3. Len(s) <= Len(u) /\ \A k \in 1 .. Len(s) : s[k] = u[k]
    BY <2>1, <2>2
  <2> QED BY <2>3, PrefixIs
<1> QED BY <1>1, <1>2

LEMMA CiteAdds ==
  ASSUME NEW noted \in Seq(Known), NEW id
  PROVE  Cite(noted, id) \in Seq(Known) /\ IsPrefix(noted, Cite(noted, id))
<1>1. noted \in Seq(Symbols) /\ Known \subseteq Symbols
  BY KnownSymbols DEF Symbols
<1>2. IsPrefix(noted, noted)
  BY <1>1, PrefixOrder
<1>3. CASE Len(id) = 1 /\ id[1] \in Known /\ id[1] \notin Range(noted)
  BY <1>1, <1>3, PrefixOfAppend DEF Cite
<1>4. CASE ~ (Len(id) = 1 /\ id[1] \in Known /\ id[1] \notin Range(noted))
  <2>1. Cite(noted, id) = noted
    BY <1>4 DEF Cite
  <2> QED BY <1>2, <2>1
<1> QED BY <1>3, <1>4

\* A step of the reader, as it stands before the end of the text.
StepsTo(text, at, out, ids, next, more, noted) ==
  /\ next \in at + 1 .. Len(text) + 1 /\ more \in Seq(Symbols) /\ noted \in Seq(Known)
  /\ ReadOn(text, ReadTo(at, out, ids)) = ReadTo(next, more, noted)
  /\ IsPrefix(out, more) /\ IsPrefix(ids, noted)
  /\ ~ StartsMarker(text, at) =>
       next = at + 1 /\ more = Append(out, text[at]) /\ noted = ids
  /\ StartsMarker(text, at) =>
       /\ next = EndOfMarker(text, at) + 1 /\ more = out
       /\ noted = Cite(ids, SubSeq(text, at + 2, EndOfMarker(text, at) - 1))

LEMMA ReaderSteps ==
  ASSUME NEW text \in Seq(Symbols), NEW at \in 1 .. Len(text),
         NEW out \in Seq(Symbols), NEW ids \in Seq(Known)
  PROVE  \E next, more, noted : StepsTo(text, at, out, ids, next, more, noted)
<1>1. PICK r : r = ReadTo(at, out, ids) /\ r.at = at /\ r.text = out /\ r.ids = ids
  <2>1. ReadTo(at, out, ids).at = at /\ ReadTo(at, out, ids).text = out /\ ReadTo(at, out, ids).ids = ids
    BY DEF ReadTo
  <2> QED BY <2>1
<1>2. IsPrefix(out, out) /\ IsPrefix(ids, ids)
  BY KnownSymbols, PrefixOrder
<1>3. ~ (at > Len(text))
  OBVIOUS
<1>4. CASE StartsMarker(text, at)
  <2>1. PICK end \in at + 2 .. Len(text) : end = EndOfMarker(text, at)
    BY <1>4, MarkerAt
  <2>2. PICK noted \in Seq(Known) : noted = Cite(ids, SubSeq(text, at + 2, end - 1)) /\ IsPrefix(ids, noted)
    BY CiteAdds
  <2>3. ReadOn(text, r) = ReadTo(end + 1, out, noted)
    BY <1>1, <1>3, <1>4, <2>1, <2>2, Zenon DEF ReadOn
  <2>4. end + 1 \in at + 1 .. Len(text) + 1
    BY <2>1
  <2>5. StepsTo(text, at, out, ids, end + 1, out, noted)
    BY <1>1, <1>2, <1>4, <2>1, <2>2, <2>3, <2>4 DEF StepsTo
  <2> QED BY <2>5
<1>5. CASE ~ StartsMarker(text, at)
  <2>1. text[at] \in Symbols
    BY ElementOfSeq
  <2>2. PICK more \in Seq(Symbols) : more = Append(out, text[at]) /\ IsPrefix(out, more)
    BY <2>1, PrefixOfAppend
  <2>3. ReadOn(text, r) = ReadTo(at + 1, more, ids)
    BY <1>1, <1>3, <1>5, <2>2, Zenon DEF ReadOn
  <2>4. at + 1 \in at + 1 .. Len(text) + 1
    OBVIOUS
  <2>5. StepsTo(text, at, out, ids, at + 1, more, ids)
    BY <1>1, <1>2, <1>5, <2>2, <2>3, <2>4 DEF StepsTo
  <2> QED BY <2>5
<1> QED BY <1>4, <1>5

\* Where the reader can stand after n steps: n symbols further, or at the end.
LEMMA ReaderStands ==
  ASSUME NEW text \in Seq(Symbols), NEW n \in 0 .. Len(text)
  PROVE  \E at \in n + 1 .. Len(text) + 1, out \in Seq(Symbols), ids \in Seq(Known) :
           Reader(text)[n] = ReadTo(at, out, ids)
<1> DEFINE Good(k) == \E at \in k + 1 .. Len(text) + 1, out \in Seq(Symbols), ids \in Seq(Known) :
                        Reader(text)[k] = ReadTo(at, out, ids)
           bad == {k \in 0 .. Len(text) : ~ Good(k)}
<1>1. Good(0)
  <2>1. 1 \in 0 + 1 .. Len(text) + 1 /\ <<>> \in Seq(Symbols) /\ <<>> \in Seq(Known)
    OBVIOUS
  <2> QED BY <2>1, ReaderReads
<1>2. ASSUME NEW k \in 1 .. Len(text), Good(k - 1) PROVE Good(k)
  <2>1. PICK at \in k .. Len(text) + 1, out \in Seq(Symbols), ids \in Seq(Known) :
          Reader(text)[k - 1] = ReadTo(at, out, ids)
    <3>1. k - 1 + 1 = k
      OBVIOUS
    <3> QED BY <1>2, <3>1
  <2>2. Reader(text)[k] = ReadOn(text, ReadTo(at, out, ids))
    BY <2>1, ReaderReads
  <2>3. CASE at <= Len(text)
    <3>1. at \in 1 .. Len(text)
      BY <2>3
    <3>2. PICK next, more, noted : StepsTo(text, at, out, ids, next, more, noted)
      BY <3>1, ReaderSteps
    <3>3. next \in at + 1 .. Len(text) + 1 /\ more \in Seq(Symbols) /\ noted \in Seq(Known)
            /\ Reader(text)[k] = ReadTo(next, more, noted)
      BY <2>2, <3>2 DEF StepsTo
    <3>4. next \in k + 1 .. Len(text) + 1
      BY <3>1, <3>3
    <3> QED BY <3>3, <3>4
  <2>4. CASE ~ (at <= Len(text))
    <3>1. ReadOn(text, ReadTo(at, out, ids)) = ReadTo(at, out, ids)
      <4>1. at > Len(text) /\ ReadTo(at, out, ids).at = at
        BY <2>4 DEF ReadTo
      <4> QED BY <4>1 DEF ReadOn
    <3>2. at \in k + 1 .. Len(text) + 1
      BY <2>4
    <3> QED BY <2>2, <3>1, <3>2
  <2> QED BY <2>3, <2>4
<1>3. bad = {}
  <2>1. Len(text) \in Nat /\ bad \subseteq 0 .. Len(text)
    OBVIOUS
  <2>2. 0 \notin bad
    BY <1>1
  <2>3. ASSUME NEW m \in 1 .. Len(text), m \in bad PROVE m - 1 \in bad
    <3>1. m - 1 \in 0 .. Len(text) /\ ~ Good(m)
      BY <2>3
    <3> HIDE DEF Good
    <3> QED BY <1>2, <3>1
  <2> HIDE DEF bad
  <2> QED BY <2>1, <2>2, <2>3, NoneIsFirst
<1> QED BY <1>3

LEMMA SameStand ==
  \A a, b, c, d, e, f : ReadTo(a, b, c) = ReadTo(d, e, f) <=> a = d /\ b = e /\ c = f
BY DEF ReadTo

\* The reader only adds to what it has kept and noted.
LEMMA ReaderOnlyAdds ==
  ASSUME NEW text \in Seq(Symbols), NEW n \in 0 .. Len(text),
         NEW at, NEW out, NEW ids, Reader(text)[n] = ReadTo(at, out, ids)
  PROVE  \E all \in Seq(Symbols), noted \in Seq(Known) :
           /\ Markers(text) = ReadTo(Len(text) + 1, all, noted)
           /\ IsPrefix(out, all) /\ IsPrefix(ids, noted)
           /\ at = Len(text) + 1 => out = all /\ ids = noted
<1> DEFINE Leads(a, o, i) ==
             \E all \in Seq(Symbols), noted \in Seq(Known) :
               /\ Markers(text) = ReadTo(Len(text) + 1, all, noted)
               /\ IsPrefix(o, all) /\ IsPrefix(i, noted)
               /\ a = Len(text) + 1 => o = all /\ i = noted
           Good(k) == \A a, o, i : Reader(text)[Len(text) - k] = ReadTo(a, o, i) => Leads(a, o, i)
           bad == {k \in 0 .. Len(text) : ~ Good(k)}
<1>1. Good(0)
  <2>1. Len(text) \in 0 .. Len(text) /\ Len(text) - 0 = Len(text)
    OBVIOUS
  <2>2. PICK a \in Len(text) + 1 .. Len(text) + 1, o \in Seq(Symbols), i \in Seq(Known) :
          Reader(text)[Len(text)] = ReadTo(a, o, i)
    BY <2>1, ReaderStands
  <2>3. a = Len(text) + 1 /\ Markers(text) = ReadTo(a, o, i)
    BY <2>2 DEF Markers
  <2>4. IsPrefix(o, o) /\ IsPrefix(i, i)
    BY KnownSymbols, PrefixOrder
  <2>5. Leads(a, o, i)
    BY <2>3, <2>4
  <2> HIDE DEF Leads
  <2> QED BY <2>1, <2>2, <2>5, SameStand
<1>2. ASSUME NEW k \in 1 .. Len(text), Good(k - 1) PROVE Good(k)
  <2>1. PICK m \in 0 .. Len(text) - 1 : m = Len(text) - k /\ Len(text) - (k - 1) = m + 1
    OBVIOUS
  <2>2. m \in 0 .. Len(text) /\ m + 1 \in 1 .. Len(text) /\ m + 1 - 1 = m
    BY <2>1
  <2>3. PICK a \in m + 1 .. Len(text) + 1, o \in Seq(Symbols), i \in Seq(Known) :
          Reader(text)[m] = ReadTo(a, o, i)
    BY <2>2, ReaderStands
  <2>4. Reader(text)[m + 1] = ReadOn(text, ReadTo(a, o, i))
    BY <2>2, <2>3, ReaderReads
  <2>5. CASE a = Len(text) + 1
    <3>1. ReadOn(text, ReadTo(a, o, i)) = ReadTo(a, o, i)
      <4>1. a > Len(text) /\ ReadTo(a, o, i).at = a
        BY <2>5 DEF ReadTo
      <4> QED BY <4>1 DEF ReadOn
    <3>2. Leads(a, o, i)
      <4> HIDE DEF Leads
      <4> QED BY <1>2, <2>1, <2>4, <3>1
    <3> HIDE DEF Leads
    <3> QED BY <2>1, <2>3, <3>2, SameStand
  <2>6. CASE a # Len(text) + 1
    <3>1. a \in 1 .. Len(text)
      BY <2>2, <2>6
    <3>2. PICK next, more, some :
            /\ more \in Seq(Symbols) /\ some \in Seq(Known)
            /\ ReadOn(text, ReadTo(a, o, i)) = ReadTo(next, more, some)
            /\ IsPrefix(o, more) /\ IsPrefix(i, some)
      <4>1. PICK next, more, some : StepsTo(text, a, o, i, next, more, some)
        BY <3>1, ReaderSteps
      <4> QED BY <4>1 DEF StepsTo
    <3>3. Leads(next, more, some)
      <4> HIDE DEF Leads
      <4> QED BY <1>2, <2>1, <2>4, <3>2
    <3>4. PICK all \in Seq(Symbols), noted \in Seq(Known) :
            /\ Markers(text) = ReadTo(Len(text) + 1, all, noted)
            /\ IsPrefix(more, all) /\ IsPrefix(some, noted)
      BY <3>3
    <3>5. IsPrefix(o, all) /\ IsPrefix(i, noted)
      BY <3>2, <3>4, KnownSymbols, PrefixOrder
    <3>6. Leads(a, o, i)
      BY <2>6, <3>4, <3>5
    <3> HIDE DEF Leads
    <3> QED BY <2>1, <2>3, <3>6, SameStand
  <2> HIDE DEF Good
  <2> QED BY <2>5, <2>6
<1>3. bad = {}
  <2>1. Len(text) \in Nat /\ bad \subseteq 0 .. Len(text)
    OBVIOUS
  <2>2. 0 \notin bad
    BY <1>1
  <2>3. ASSUME NEW m \in 1 .. Len(text), m \in bad PROVE m - 1 \in bad
    <3>1. m - 1 \in 0 .. Len(text) /\ ~ Good(m)
      BY <2>3
    <3> HIDE DEF Good
    <3> QED BY <1>2, <3>1
  <2> HIDE DEF bad
  <2> QED BY <2>1, <2>2, <2>3, NoneIsFirst
<1>4. PICK k \in 0 .. Len(text) : Len(text) - k = n
  <2>1. Len(text) - n \in 0 .. Len(text) /\ Len(text) - (Len(text) - n) = n
    OBVIOUS
  <2> QED BY <2>1
<1>5. Good(k)
  <2> HIDE DEF Good
  <2> QED BY <1>3
<1> QED BY <1>4, <1>5

LEMMA StandFacts ==
  ASSUME whole \in Seq(Symbols), NEW at, NEW out, NEW ids, Stands(at, out, ids)
  PROVE  /\ at \in 1 .. Len(whole) + 1 /\ out \in Seq(Symbols) /\ ids \in Seq(Known)
         /\ IsPrefix(out, Markers(whole).text) /\ IsPrefix(ids, Markers(whole).ids)
         /\ at = Len(whole) + 1 => out = Markers(whole).text /\ ids = Markers(whole).ids
<1>1. PICK n \in 0 .. Len(whole) : Reader(whole)[n] = ReadTo(at, out, ids)
  BY DEF Stands
<1>2. at \in n + 1 .. Len(whole) + 1 /\ out \in Seq(Symbols) /\ ids \in Seq(Known)
  BY <1>1, ReaderStands, SameStand
<1>3. PICK all \in Seq(Symbols), noted \in Seq(Known) :
        /\ Markers(whole) = ReadTo(Len(whole) + 1, all, noted)
        /\ IsPrefix(out, all) /\ IsPrefix(ids, noted)
        /\ at = Len(whole) + 1 => out = all /\ ids = noted
  BY <1>1, ReaderOnlyAdds
<1>4. Markers(whole).text = all /\ Markers(whole).ids = noted
  BY <1>3 DEF ReadTo
<1> QED BY <1>2, <1>3, <1>4

LEMMA StandsOn ==
  ASSUME whole \in Seq(Symbols), NEW at, NEW out, NEW ids, Stands(at, out, ids), at # Len(whole) + 1
  PROVE  /\ ~ StartsMarker(whole, at) => Stands(at + 1, Append(out, whole[at]), ids)
         /\ StartsMarker(whole, at) =>
              Stands(EndOfMarker(whole, at) + 1, out,
                     Cite(ids, SubSeq(whole, at + 2, EndOfMarker(whole, at) - 1)))
<1>1. PICK n \in 0 .. Len(whole) : Reader(whole)[n] = ReadTo(at, out, ids)
  BY DEF Stands
<1>2. at \in n + 1 .. Len(whole) + 1 /\ out \in Seq(Symbols) /\ ids \in Seq(Known)
  BY <1>1, ReaderStands, SameStand
<1>3. PICK m \in 1 .. Len(whole) : m = n + 1 /\ m - 1 = n
  BY <1>2
<1>4. at \in 1 .. Len(whole) /\ m \in 0 .. Len(whole)
  BY <1>2, <1>3
<1>5. Reader(whole)[m] = ReadOn(whole, ReadTo(at, out, ids))
  BY <1>1, <1>3, ReaderReads
<1>6. PICK next, more, noted : StepsTo(whole, at, out, ids, next, more, noted)
  BY <1>2, <1>4, ReaderSteps
<1>7. Stands(next, more, noted)
  <2>1. Reader(whole)[m] = ReadTo(next, more, noted)
    BY <1>5, <1>6 DEF StepsTo
  <2> QED BY <1>4, <2>1 DEF Stands
<1> QED BY <1>6, <1>7 DEF StepsTo

LEMMA Joined ==
  ASSUME NEW s \in Seq(Symbols), NEW t \in Seq(Symbols), NEW u \in Seq(Symbols)
  PROVE  (s \o t) \o u = s \o (t \o u)
BY ConcatAssociative, SMTT(40)

LEMMA JoinedOne ==
  ASSUME NEW s \in Seq(Symbols), NEW t \in Seq(Symbols), NEW e \in Symbols
  PROVE  Append(s \o t, e) = s \o Append(t, e)
<1>1. PICK u \in Seq(Symbols) : u = <<e>>
  <2>1. <<e>> \in Seq(Symbols)
    OBVIOUS
  <2> QED BY <2>1
<1>2. PICK joined \in Seq(Symbols) : joined = s \o t
  BY ConcatProperties
<1>3. Append(joined, e) = joined \o u
  BY <1>1, AppendIsConcat
<1>4. Append(t, e) = t \o u
  BY <1>1, AppendIsConcat
<1> QED BY <1>2, <1>3, <1>4, Joined, SMTT(40)

LEMMA OneMore ==
  ASSUME NEW text \in Seq(Symbols), NEW out \in Seq(Symbols),
         NEW at \in 1 .. Len(text), NEW i \in at .. Len(text)
  PROVE  Append(out \o SubSeq(text, at, i - 1), text[i]) = out \o SubSeq(text, at, i)
<1>1. PICK front \in Seq(Symbols) : front = SubSeq(text, at, i - 1)
  <2>1. i - 1 \in 0 .. Len(text) /\ at <= i - 1 + 1 /\ at \in Nat \ {0}
    OBVIOUS
  <2> QED BY <2>1, Part
<1>2. PICK last \in Symbols : last = text[i]
  <2>1. text[i] \in Symbols
    BY ElementOfSeq
  <2> QED BY <2>1
<1>3. Append(front, last) = SubSeq(text, at, i)
  <2>1. front \o <<last>> = SubSeq(text, at, i)
    BY <1>1, <1>2, SubSeqRecursiveSecond
  <2> QED BY <2>1, AppendIsConcat
<1>4. Append(out \o front, last) = out \o Append(front, last)
  BY JoinedOne
<1> QED BY <1>1, <1>2, <1>3, <1>4

\* The reader keeps what starts no marker.
LEMMA StandsPast ==
  ASSUME whole \in Seq(Symbols), NEW at, NEW out, NEW ids, Stands(at, out, ids),
         NEW k \in Nat, at <= k + 1, k <= Len(whole),
         \A i \in at .. k : ~ StartsMarker(whole, i)
  PROVE  Stands(k + 1, out \o SubSeq(whole, at, k), ids)
<1>1. at \in 1 .. Len(whole) + 1 /\ out \in Seq(Symbols) /\ ids \in Seq(Known)
  BY StandFacts
<1> DEFINE Good(d) == Stands(at + d, out \o SubSeq(whole, at, at + d - 1), ids)
           bad == {d \in 0 .. k - at + 1 : ~ Good(d)}
<1>2. Good(0)
  <2>1. at + 0 = at /\ at + 0 - 1 < at /\ at \in Int /\ at + 0 - 1 \in Int
    BY <1>1
  <2>2. SubSeq(whole, at, at + 0 - 1) = <<>>
    BY <2>1, SubSeqEmpty
  <2>3. out \o <<>> = out
    BY <1>1, ConcatEmptySeq
  <2> QED BY <2>1, <2>2, <2>3
<1>3. ASSUME NEW d \in 1 .. k - at + 1, Good(d - 1) PROVE Good(d)
  <2>1. PICK i \in at .. k : i = at + (d - 1) /\ at + d = i + 1 /\ at + (d - 1) - 1 = i - 1 /\ at + d - 1 = i
    BY <1>1
  <2>2. i \in 1 .. Len(whole) /\ i \in at .. Len(whole) /\ at \in 1 .. Len(whole)
    BY <1>1
  <2>3. Stands(i, out \o SubSeq(whole, at, i - 1), ids)
    BY <1>3, <2>1
  <2>4. Stands(i + 1, Append(out \o SubSeq(whole, at, i - 1), whole[i]), ids)
    <3>1. i # Len(whole) + 1 /\ ~ StartsMarker(whole, i)
      BY <2>2
    <3> QED BY <2>3, <3>1, StandsOn
  <2>5. Append(out \o SubSeq(whole, at, i - 1), whole[i]) = out \o SubSeq(whole, at, i)
    BY <1>1, <2>2, OneMore
  <2> QED BY <2>1, <2>4, <2>5
<1>4. bad = {}
  <2>1. k - at + 1 \in Nat /\ bad \subseteq 0 .. k - at + 1
    BY <1>1
  <2>2. 0 \notin bad
    BY <1>2
  <2>3. ASSUME NEW m \in 1 .. k - at + 1, m \in bad PROVE m - 1 \in bad
    <3>1. m - 1 \in 0 .. k - at + 1 /\ ~ Good(m)
      BY <1>1, <2>3
    <3> HIDE DEF Good
    <3> QED BY <1>3, <3>1
  <2> HIDE DEF bad
  <2> QED BY <2>1, <2>2, <2>3, NoneIsFirst
<1>5. PICK d \in 0 .. k - at + 1 : d = k - at + 1 /\ at + d = k + 1 /\ at + d - 1 = k
  <2>1. k - at + 1 \in 0 .. k - at + 1 /\ at + (k - at + 1) = k + 1 /\ at + (k - at + 1) - 1 = k
    BY <1>1
  <2> QED BY <2>1
<1>6. Good(d)
  <2> HIDE DEF Good
  <2> QED BY <1>4
<1> QED BY <1>5, <1>6

\* An opening that the reader has kept is one of the text, of no marker; what
\* ends with half an opening was read just now.
KeptFits(text, at, out) ==
  /\ \A i \in 1 .. Len(out) - 1 : Opening(out, i) =>
       /\ \E j \in 1 .. at - 1 : Opening(text, j) /\ ~ StartsMarker(text, j)
       /\ \A k \in i .. Len(out) : out[k] # Close
  /\ Len(out) # 0 /\ out[Len(out)] = Open[1] =>
       at # 1 /\ text[at - 1] = Open[1] /\ ~ StartsMarker(text, at - 1)

LEMMA KeptFitsOn ==
  ASSUME NEW text \in Seq(Symbols), Apart(text), NEW at \in 1 .. Len(text),
         NEW out \in Seq(Symbols), KeptFits(text, at, out), NEW ids, NEW next, NEW more, NEW noted,
         StepsTo(text, at, out, ids, next, more, noted)
  PROVE  KeptFits(text, next, more)
<1>1. next \in at + 1 .. Len(text) + 1
  BY DEF StepsTo
<1>2. ASSUME NEW i \in 1 .. Len(out) - 1, Opening(out, i)
      PROVE  \E j \in 1 .. next - 1 : Opening(text, j) /\ ~ StartsMarker(text, j)
  <2>1. PICK j \in 1 .. at - 1 : Opening(text, j) /\ ~ StartsMarker(text, j)
    BY <1>2 DEF KeptFits
  <2>2. j \in 1 .. next - 1
    BY <1>1
  <2> QED BY <2>1, <2>2
<1>3. CASE StartsMarker(text, at)
  <2>1. more = out
    BY <1>3 DEF StepsTo
  <2>2. ~ (Len(out) # 0 /\ out[Len(out)] = Open[1])
    <3>1. at # 1 => at \in 2 .. Len(text)
      OBVIOUS
    <3> QED BY <1>3, <3>1 DEF KeptFits, Apart
  <2> QED BY <1>2, <2>1, <2>2 DEF KeptFits
<1>4. CASE ~ StartsMarker(text, at)
  <2>1. next = at + 1 /\ more = Append(out, text[at])
    BY <1>4 DEF StepsTo
  <2>2. PICK len \in Nat : len = Len(out)
    OBVIOUS
  <2>3. Len(more) = len + 1 /\ more[len + 1] = text[at] /\ \A k \in 1 .. len : more[k] = out[k]
    <3>1. text[at] \in Symbols
      BY ElementOfSeq
    <3> QED BY <2>1, <2>2, <3>1, AppendProperties
  <2>4. ASSUME NEW i \in 1 .. Len(more) - 1, Opening(more, i)
        PROVE  /\ \E j \in 1 .. next - 1 : Opening(text, j) /\ ~ StartsMarker(text, j)
               /\ \A k \in i .. Len(more) : more[k] # Close
    <3>1. i \in 1 .. len /\ more[i] = Open[1] /\ more[i + 1] = Open[2] /\ more[i] = out[i]
      BY <2>3, <2>4 DEF Opening
    <3>2. CASE i = len
      <4>1. at # 1 /\ text[at - 1] = Open[1] /\ ~ StartsMarker(text, at - 1)
        BY <2>2, <3>1, <3>2 DEF KeptFits
      <4>2. PICK j \in 1 .. next - 1 : j = at - 1 /\ j + 1 = at /\ j + 1 <= Len(text)
        <5>1. at - 1 \in 1 .. next - 1 /\ (at - 1) + 1 = at /\ (at - 1) + 1 <= Len(text)
          BY <2>1, <4>1
        <5> QED BY <5>1
      <4>3. Opening(text, j)
        BY <2>3, <3>1, <3>2, <4>1, <4>2 DEF Opening
      <4>4. \A k \in i .. Len(more) : k = i \/ k = i + 1
        BY <2>3, <3>1, <3>2
      <4> QED BY <3>1, <4>1, <4>2, <4>3, <4>4, MarkerSymbols
    <3>3. CASE i # len
      <4>1. i \in 1 .. len - 1 /\ i + 1 \in 1 .. len
        BY <3>1, <3>3
      <4>2. Opening(out, i)
        BY <2>2, <2>3, <3>1, <4>1 DEF Opening
      <4>3. PICK j \in 1 .. at - 1 : Opening(text, j) /\ ~ StartsMarker(text, j)
        BY <2>2, <4>1, <4>2 DEF KeptFits
      <4>4. text[at] # Close
        <5>1. j \in 1 .. Len(text) /\ at \in j .. Len(text)
          OBVIOUS
        <5> QED BY <4>3, <5>1, MarkerAt
      <4>5. ASSUME NEW k \in i .. Len(more) PROVE more[k] # Close
        <5>1. CASE k = len + 1
          BY <2>3, <4>4, <5>1
        <5>2. CASE k # len + 1
          <6>1. k \in i .. len /\ k \in 1 .. len
            BY <2>3, <3>1, <5>2
          <6>2. out[k] # Close
            BY <2>2, <4>1, <4>2, <6>1 DEF KeptFits
          <6> QED BY <2>3, <6>1, <6>2
        <5> QED BY <5>1, <5>2
      <4> QED BY <1>2, <2>2, <4>1, <4>2, <4>5
    <3> QED BY <3>2, <3>3
  <2>5. more[Len(more)] = Open[1] =>
          next # 1 /\ text[next - 1] = Open[1] /\ ~ StartsMarker(text, next - 1)
    <3>1. next # 1 /\ next - 1 = at
      BY <2>1
    <3> QED BY <1>4, <2>3, <3>1
  <2> QED BY <2>4, <2>5 DEF KeptFits
<1> QED BY <1>3, <1>4

LEMMA KeptStands ==
  ASSUME whole \in Seq(Symbols), Apart(whole), NEW at, NEW out, NEW ids, Stands(at, out, ids)
  PROVE  KeptFits(whole, at, out)
<1> DEFINE Good(k) == \E a \in 1 .. Len(whole) + 1, o \in Seq(Symbols), c \in Seq(Known) :
                        Reader(whole)[k] = ReadTo(a, o, c) /\ KeptFits(whole, a, o)
           bad == {k \in 0 .. Len(whole) : ~ Good(k)}
<1>1. Good(0)
  <2>1. 1 \in 1 .. Len(whole) + 1 /\ <<>> \in Seq(Symbols) /\ <<>> \in Seq(Known)
    OBVIOUS
  <2>2. Reader(whole)[0] = ReadTo(1, <<>>, <<>>)
    BY ReaderReads
  <2>3. KeptFits(whole, 1, <<>>)
    <3>1. Len(<<>>) = 0 /\ 1 .. Len(<<>>) - 1 = {}
      OBVIOUS
    <3> QED BY <3>1 DEF KeptFits
  <2> QED BY <2>1, <2>2, <2>3
<1>2. ASSUME NEW k \in 1 .. Len(whole), Good(k - 1) PROVE Good(k)
  <2>1. PICK a \in 1 .. Len(whole) + 1, o \in Seq(Symbols), c \in Seq(Known) :
          Reader(whole)[k - 1] = ReadTo(a, o, c) /\ KeptFits(whole, a, o)
    BY <1>2
  <2>2. Reader(whole)[k] = ReadOn(whole, ReadTo(a, o, c))
    BY <2>1, ReaderReads
  <2>3. CASE a <= Len(whole)
    <3>1. a \in 1 .. Len(whole)
      BY <2>3
    <3>2. PICK next, more, noted : StepsTo(whole, a, o, c, next, more, noted)
      BY <3>1, ReaderSteps
    <3>3. next \in 1 .. Len(whole) + 1 /\ more \in Seq(Symbols) /\ noted \in Seq(Known)
            /\ Reader(whole)[k] = ReadTo(next, more, noted)
      BY <2>2, <3>1, <3>2 DEF StepsTo
    <3>4. KeptFits(whole, next, more)
      BY <2>1, <3>1, <3>2, KeptFitsOn
    <3> QED BY <3>3, <3>4
  <2>4. CASE ~ (a <= Len(whole))
    <3>1. ReadOn(whole, ReadTo(a, o, c)) = ReadTo(a, o, c)
      <4>1. a > Len(whole) /\ ReadTo(a, o, c).at = a
        BY <2>4 DEF ReadTo
      <4> QED BY <4>1 DEF ReadOn
    <3> QED BY <2>1, <2>2, <3>1
  <2> QED BY <2>3, <2>4
<1>3. bad = {}
  <2>1. Len(whole) \in Nat /\ bad \subseteq 0 .. Len(whole)
    OBVIOUS
  <2>2. 0 \notin bad
    BY <1>1
  <2>3. ASSUME NEW m \in 1 .. Len(whole), m \in bad PROVE m - 1 \in bad
    <3>1. m - 1 \in 0 .. Len(whole) /\ ~ Good(m)
      BY <2>3
    <3> HIDE DEF Good
    <3> QED BY <1>2, <3>1
  <2> HIDE DEF bad
  <2> QED BY <2>1, <2>2, <2>3, NoneIsFirst
<1>4. PICK n \in 0 .. Len(whole) : Reader(whole)[n] = ReadTo(at, out, ids)
  BY DEF Stands
<1>5. Good(n)
  <2> HIDE DEF Good
  <2> QED BY <1>3
<1>6. PICK a \in 1 .. Len(whole) + 1, o \in Seq(Symbols), c \in Seq(Known) :
        Reader(whole)[n] = ReadTo(a, o, c) /\ KeptFits(whole, a, o)
  BY <1>5
<1>7. ReadTo(at, out, ids) = ReadTo(a, o, c)
  BY <1>4, <1>6
<1>8. at = a /\ out = o
  <2>1. ReadTo(at, out, ids).at = at /\ ReadTo(at, out, ids).text = out
    BY DEF ReadTo
  <2>2. ReadTo(a, o, c).at = a /\ ReadTo(a, o, c).text = o
    BY DEF ReadTo
  <2> QED BY <1>7, <2>1, <2>2, Zenon
<1> QED BY <1>6, <1>8

-----------------------------------------------------------------------------
(* A turn of the loop: what it finds, and what it makes of it.             *)

LoopState(s) ==
  /\ s = Result(s.out, s.held, s.seen, s.more)
  /\ {s.out, s.held} \subseteq Seq(Symbols) /\ s.seen \in Seq(Known) /\ s.more \in BOOLEAN

\* No opening: all is released but an end that could be half of one.
PassesOn(s, keep) ==
  /\ keep \in 0 .. Len(s.held) /\ \A i \in 1 .. keep : s.held[i] = Open[1] => i < Len(s.held)
  /\ \A i \in 1 .. Len(s.held) : ~ Opening(s.held, i)
  /\ \A i \in keep + 1 .. Len(s.held) : s.held[i] = Open[1]
  /\ TurnOfLoop(s) = Result(s.out \o SubSeq(s.held, 1, keep),
                            SubSeq(s.held, keep + 1, Len(s.held)), s.seen, FALSE)

\* The first opening.
Opens(s, open) ==
  /\ open \in 1 .. Len(s.held) - 1 /\ Opening(s.held, open)
  /\ \A i \in 1 .. open - 1 : ~ Opening(s.held, i)

\* ... is that of a marker.
Resolves(s, open, end) ==
  /\ Opens(s, open) /\ end \in open + 2 .. Len(s.held) /\ s.held[end] = Close
  /\ \A i \in open .. end - 1 : s.held[i] # Close
  /\ TurnOfLoop(s) = Result(s.out \o SubSeq(s.held, 1, open - 1),
                            SubSeq(s.held, end + 1, Len(s.held)),
                            Cite(s.seen, SubSeq(s.held, open + 2, end - 1)), TRUE)

\* ... is of no marker, whatever comes.
GivesUp(s, open) ==
  /\ Opens(s, open) /\ \A i \in open .. Len(s.held) : s.held[i] # Close
  /\ Len(s.held) - open - 1 > MaxId
  /\ TurnOfLoop(s) = Result((s.out \o SubSeq(s.held, 1, open - 1)) \o Open,
                            SubSeq(s.held, open + 2, Len(s.held)), s.seen, TRUE)

\* ... can still become one.
Waits(s, open) ==
  /\ Opens(s, open) /\ \A i \in open .. Len(s.held) : s.held[i] # Close
  /\ TurnOfLoop(s) = Result(s.out \o SubSeq(s.held, 1, open - 1),
                            SubSeq(s.held, open, Len(s.held)), s.seen, FALSE)

LEMMA TurnCases ==
  ASSUME NEW s, LoopState(s)
  PROVE  \/ \E keep : PassesOn(s, keep)
         \/ \E open : (\E end : Resolves(s, open, end)) \/ GivesUp(s, open) \/ Waits(s, open)
<1>1. PICK text \in Seq(Symbols) : text = s.held
  BY DEF LoopState
<1>2. PICK open : open = IndexOf(text, Open)
  OBVIOUS
<1>3. /\ open \in 0 .. Len(text)
      /\ open = 0 => \A i \in 1 .. Len(text) : ~ Opening(text, i)
      /\ open # 0 => Opening(text, open) /\ \A i \in 1 .. open - 1 : ~ Opening(text, i)
  BY <1>2, FirstOpening
<1>4. CASE open = 0
  <2>1. PICK keep : keep = Len(text) - UnsafeTailLength(text)
    OBVIOUS
  <2>2. TurnOfLoop(s) = Result(s.out \o SubSeq(text, 1, keep), SubSeq(text, keep + 1, Len(text)), s.seen, FALSE)
    BY <1>1, <1>2, <1>4, <2>1, Zenon DEF TurnOfLoop, NoMarker, Upto, From
  <2>3. CASE text # <<>> /\ text[Len(text)] = Open[1]
    <3>1. UnsafeTailLength(text) = 1 /\ Len(text) \in Nat \ {0}
      BY <2>3, MarkerSymbols, EmptySeq DEF UnsafeTailLength, Last
    <3>2. keep \in 0 .. Len(text) /\ (\A i \in keep + 1 .. Len(text) : i = Len(text))
            /\ \A i \in 1 .. keep : i < Len(text)
      BY <2>1, <3>1
    <3>3. PassesOn(s, keep)
      BY <1>1, <1>3, <1>4, <2>2, <2>3, <3>2 DEF PassesOn
    <3> QED BY <3>3
  <2>4. CASE ~ (text # <<>> /\ text[Len(text)] = Open[1])
    <3>1. UnsafeTailLength(text) = 0
      BY <2>4, MarkerSymbols DEF UnsafeTailLength, Last
    <3>2. keep = Len(text)
      BY <2>1, <3>1
    <3>3. keep \in 0 .. Len(text) /\ keep + 1 .. Len(text) = {} /\ Len(text) \in Nat
      BY <3>2
    <3>4. \A i \in 1 .. keep : text[i] = Open[1] => i < Len(text)
      <4>1. \A i \in 1 .. keep : i # Len(text) => i < Len(text)
        BY <3>2
      <4>2. 1 .. keep # {} => text # <<>>
        BY <3>2, EmptySeq
      <4> QED BY <2>4, <3>2, <4>1, <4>2
    <3>5. PassesOn(s, keep)
      BY <1>1, <1>3, <1>4, <2>2, <3>3, <3>4 DEF PassesOn
    <3> QED BY <3>5
  <2> QED BY <2>3, <2>4
<1>5. CASE open # 0
  <2>1. open \in 1 .. Len(text) - 1 /\ Opens(s, open)
    BY <1>1, <1>3, <1>5 DEF Opens, Opening
  <2>2. PICK rest \in Seq(Symbols) : rest = From(text, open) /\ Len(rest) = Len(text) - open + 1
          /\ \A k \in 1 .. Len(text) - open + 1 : rest[k] = text[open + k - 1]
    <3>1. open \in 1 .. Len(text) + 1
      BY <2>1
    <3> QED BY <3>1, Rest
  <2>3. PICK close : close = IndexOf(rest, <<Close>>)
    OBVIOUS
  <2>4. /\ close \in 0 .. Len(rest)
        /\ close = 0 => \A k \in 1 .. Len(rest) : rest[k] # Close
        /\ close # 0 => rest[close] = Close /\ \A k \in 1 .. close - 1 : rest[k] # Close
    BY <2>3, FirstClose
  <2>5. \A i \in open .. Len(text) : i - open + 1 \in 1 .. Len(rest) /\ rest[i - open + 1] = text[i]
    <3>1. ASSUME NEW i \in open .. Len(text)
          PROVE  i - open + 1 \in 1 .. Len(rest) /\ rest[i - open + 1] = text[i]
      <4>1. PICK k \in 1 .. Len(text) - open + 1 : k = i - open + 1 /\ open + k - 1 = i
        <5>1. i - open + 1 \in 1 .. Len(text) - open + 1 /\ open + (i - open + 1) - 1 = i
          BY <2>1
        <5> QED BY <5>1
      <4> QED BY <2>2, <4>1
    <3> QED BY <3>1
  <2> DEFINE out == s.out \o SubSeq(text, 1, open - 1)
  <2>6. TurnOfLoop(s) = IF close > 0
          THEN Result(out, From(rest, close + 1), Cite(s.seen, SubSeq(rest, 3, close - 1)), TRUE)
          ELSE IF Len(rest) - 2 > MaxId THEN Result(out \o Open, From(rest, 3), s.seen, TRUE)
          ELSE Result(out, rest, s.seen, FALSE)
    BY <1>1, <1>2, <1>5, <2>2, <2>3, Zenon DEF TurnOfLoop, Upto
  <2>7. PICK n \in 0 .. Len(text) : n = Len(text) /\ Len(rest) = n - open + 1 /\ rest = SubSeq(text, open, n)
    <3>1. Len(text) \in 0 .. Len(text)
      OBVIOUS
    <3> QED BY <2>2, <3>1 DEF From
  <2>8. \A k \in Nat \ {0}, l \in Nat : k <= l + 1 /\ l <= n - open + 1 =>
          SubSeq(rest, k, l) = SubSeq(text, open + k - 1, open + l - 1)
    <3>1. open \in Nat \ {0} /\ open <= n + 1
      BY <2>1, <2>7
    <3> QED BY <2>7, <3>1, PartOfPart
  <2> HIDE DEF out
  <2>9. CASE close = 0
    <3>1. \A i \in open .. Len(text) : text[i] # Close
      BY <2>4, <2>5, <2>9
    <3>2. Len(rest) - 2 = Len(text) - open - 1
      BY <2>1, <2>2
    <3>3. CASE Len(rest) - 2 > MaxId
      <4>1. From(rest, 3) = SubSeq(text, open + 2, Len(text))
        <5>1. PICK k \in Nat \ {0}, l \in Nat : k = 3 /\ l = Len(rest) /\ k <= l + 1 /\ l <= n - open + 1
                /\ open + k - 1 = open + 2 /\ open + l - 1 = n
          <6>1. 3 \in Nat \ {0} /\ Len(rest) \in Nat /\ 3 <= Len(rest) + 1 /\ Len(rest) <= n - open + 1
                  /\ open + 3 - 1 = open + 2 /\ open + Len(rest) - 1 = n
            BY <2>1, <2>7
          <6> QED BY <6>1
        <5> QED BY <2>7, <2>8, <5>1 DEF From
      <4>2. TurnOfLoop(s) = Result(out \o Open, From(rest, 3), s.seen, TRUE)
        BY <2>6, <2>9, <3>3
      <4>3. GivesUp(s, open)
        BY <1>1, <2>1, <3>1, <3>2, <3>3, <4>1, <4>2 DEF GivesUp, out
      <4> QED BY <4>3
    <3>4. CASE ~ (Len(rest) - 2 > MaxId)
      <4>1. TurnOfLoop(s) = Result(out, rest, s.seen, FALSE)
        BY <2>6, <2>9, <3>4
      <4>2. Waits(s, open)
        BY <1>1, <2>1, <2>7, <3>1, <4>1 DEF Waits, out
      <4> QED BY <4>2
    <3> QED BY <3>3, <3>4
  <2>10. CASE close # 0
    <3>1. PICK end \in open .. Len(text) : end = open + close - 1 /\ close = end - open + 1
      <4>1. open + close - 1 \in open .. Len(text) /\ close = (open + close - 1) - open + 1
        <5>1. close \in 1 .. Len(text) - open + 1
          BY <2>2, <2>4, <2>10
        <5> QED BY <2>1, <5>1
      <4> QED BY <4>1
    <3>2. text[end] = Close
      BY <2>4, <2>5, <2>10, <3>1
    <3>3. ASSUME NEW i \in open .. end - 1 PROVE text[i] # Close
      <4>1. i \in open .. Len(text) /\ i - open + 1 \in 1 .. close - 1
        BY <2>1, <3>1, <3>3
      <4> QED BY <2>4, <2>5, <2>10, <4>1
    <3>4. end \in open + 2 .. Len(text)
      <4>1. end # open /\ end # open + 1
        BY <1>3, <1>5, <3>2, MarkerSymbols DEF Opening
      <4> QED BY <2>1, <3>1, <4>1
    <3>5. From(rest, close + 1) = SubSeq(text, end + 1, Len(text))
      <4>1. PICK k \in Nat \ {0}, l \in Nat : k = close + 1 /\ l = Len(rest) /\ k <= l + 1 /\ l <= n - open + 1
              /\ open + k - 1 = end + 1 /\ open + l - 1 = n
        <5>1. close + 1 \in Nat \ {0} /\ Len(rest) \in Nat /\ close + 1 <= Len(rest) + 1
                /\ Len(rest) <= n - open + 1 /\ open + (close + 1) - 1 = end + 1 /\ open + Len(rest) - 1 = n
          BY <2>1, <2>4, <2>7, <3>1
        <5> QED BY <5>1
      <4> QED BY <2>7, <2>8, <4>1 DEF From
    <3>6. SubSeq(rest, 3, close - 1) = SubSeq(text, open + 2, end - 1)
      <4>1. PICK k \in Nat \ {0}, l \in Nat : k = 3 /\ l = close - 1 /\ k <= l + 1 /\ l <= n - open + 1
              /\ open + k - 1 = open + 2 /\ open + l - 1 = end - 1
        <5>1. close \in 3 .. n - open + 1
          BY <2>1, <2>4, <2>7, <3>1, <3>4
        <5>2. 3 \in Nat \ {0} /\ close - 1 \in Nat /\ 3 <= close - 1 + 1 /\ close - 1 <= n - open + 1
                /\ open + 3 - 1 = open + 2 /\ open + (close - 1) - 1 = end - 1
          BY <2>1, <3>1, <5>1
        <5> QED BY <5>2
      <4> QED BY <2>8, <4>1
    <3>7. TurnOfLoop(s) = Result(out, From(rest, close + 1), Cite(s.seen, SubSeq(rest, 3, close - 1)), TRUE)
      <4>1. close > 0
        BY <2>4, <2>10
      <4> QED BY <2>6, <4>1
    <3>8. Resolves(s, open, end)
      BY <1>1, <2>1, <3>2, <3>3, <3>4, <3>5, <3>6, <3>7 DEF Resolves, out
    <3> QED BY <3>8
  <2> QED BY <2>9, <2>10
<1> QED BY <1>4, <1>5
LEMMA LoopTurns ==
  ASSUME NEW text \in Seq(Symbols), NEW noted
  PROVE  /\ TurnsOfLoop(text, noted)[0] = Result(<<>>, text, noted, TRUE)
         /\ \A n \in 1 .. Len(text) + 1 :
              TurnsOfLoop(text, noted)[n] = NextTurn(TurnsOfLoop(text, noted)[n - 1])
<1>0. PICK last \in Nat : last = Len(text) + 1
  OBVIOUS
<1> DEFINE start == Result(<<>>, text, noted, TRUE)
           Fits(f, n) == f = [k \in 0 .. n |-> IF k = 0 THEN start ELSE NextTurn(f[k - 1])]
           bad == {n \in 0 .. last : ~ \E f : Fits(f, n)}
<1> HIDE DEF start
<1>1. bad = {}
  <2>1. SUFFICES ASSUME bad # {} PROVE FALSE
    OBVIOUS
  <2>2. PICK n \in bad : \A m \in bad : n <= m
    <3>1. bad \subseteq Nat
      OBVIOUS
    <3> QED BY <2>1, <3>1, LeastNumber
  <2>3. n \in 0 .. last /\ ~ \E f : Fits(f, n)
    OBVIOUS
  <2>4. CASE n = 0
    <3> DEFINE g == [k \in 0 .. 0 |-> start]
    <3>1. \A k \in 0 .. 0 : k = 0
      OBVIOUS
    <3>2. g = [k \in 0 .. 0 |-> IF k = 0 THEN start ELSE NextTurn(g[k - 1])]
      BY <3>1
    <3> QED BY <2>3, <2>4, <3>2
  <2>5. CASE n # 0
    <3>1. PICK m \in 0 .. last : m = n - 1 /\ n = m + 1 /\ m < n
      BY <2>3, <2>5
    <3>2. m \notin bad
      <4>1. ~ (n <= m)
        BY <2>3, <3>1
      <4> HIDE DEF bad
      <4> QED BY <2>2, <4>1
    <3>3. PICK f : Fits(f, m)
      BY <3>2
    <3> DEFINE g == [k \in 0 .. n |-> IF k = 0 THEN start ELSE NextTurn(f[k - 1])]
    <3>4. ASSUME NEW k \in 0 .. m PROVE g[k] = f[k]
      <4>1. k \in 0 .. n
        BY <3>1, <3>4
      <4>2. f[k] = IF k = 0 THEN start ELSE NextTurn(f[k - 1])
        BY <3>3, <3>4, Zenon
      <4> QED BY <4>1, <4>2, Zenon
    <3>5. \A k \in 0 .. n : k # 0 => k - 1 \in 0 .. m
      BY <2>3, <3>1
    <3>6. ASSUME NEW k \in 0 .. n
          PROVE  g[k] = IF k = 0 THEN start ELSE NextTurn(g[k - 1])
      <4>1. g[k] = IF k = 0 THEN start ELSE NextTurn(f[k - 1])
        BY Zenon
      <4>2. k # 0 => g[k - 1] = f[k - 1]
        BY <3>4, <3>5, Zenon
      <4> HIDE DEF g
      <4> QED BY <4>1, <4>2, Zenon
    <3>7. Fits(g, n)
      <4>1. g = [k \in 0 .. n |-> g[k]]
        BY Zenon
      <4> HIDE DEF g
      <4> QED BY <3>6, <4>1, Zenon
    <3> QED BY <2>3, <3>7, Zenon
  <2> QED BY <2>4, <2>5
<1>2. PICK f : Fits(f, last)
  <2>1. last \in 0 .. last /\ last \notin bad
    BY <1>1
  <2> QED BY <2>1
<1>3. Fits(TurnsOfLoop(text, noted), last)
  BY <1>0, <1>2, Zenon DEF TurnsOfLoop, start
<1>4. PICK loop : loop = TurnsOfLoop(text, noted)
  OBVIOUS
<1>5. loop = [k \in 0 .. last |-> IF k = 0 THEN start ELSE NextTurn(loop[k - 1])]
  BY <1>3, <1>4, Zenon
<1>6. ASSUME NEW n \in 0 .. last
      PROVE  loop[n] = IF n = 0 THEN start ELSE NextTurn(loop[n - 1])
  BY <1>5, Zenon
<1>7. 0 \in 0 .. last /\ \A n \in 1 .. last : n \in 0 .. last /\ n # 0
  OBVIOUS
<1> QED BY <1>0, <1>4, <1>6, <1>7, Zenon DEF start

LEMMA LoopStates ==
  ASSUME NEW o \in Seq(Symbols), NEW h \in Seq(Symbols), NEW c \in Seq(Known), NEW m \in BOOLEAN
  PROVE  /\ LoopState(Result(o, h, c, m))
         /\ Result(o, h, c, m).out = o /\ Result(o, h, c, m).held = h
         /\ Result(o, h, c, m).seen = c /\ Result(o, h, c, m).more = m
BY DEF LoopState, Result

\* The symbols of a part are symbols of the text.
LEMMA PartLacks ==
  ASSUME NEW text \in Seq(Symbols), NEW i \in Nat \ {0}, NEW j \in 0 .. Len(text), i <= j + 1,
         NEW symbol, \A k \in i .. j : text[k] # symbol
  PROVE  \A k \in 1 .. Len(SubSeq(text, i, j)) : SubSeq(text, i, j)[k] # symbol
<1>1. PICK part \in Seq(Symbols) : part = SubSeq(text, i, j) /\ Len(part) = j - i + 1
        /\ \A k \in 1 .. j - i + 1 : part[k] = text[i + k - 1]
  BY Part
<1>2. ASSUME NEW k \in 1 .. Len(part) PROVE part[k] # symbol
  <2>1. k \in 1 .. j - i + 1
    BY <1>1
  <2>2. i + k - 1 \in i .. j
    BY <2>1
  <2> QED BY <1>1, <2>1, <2>2
<1> QED BY <1>1, <1>2

\* A turn that goes on leaves less to read, one that ends the loop leaves
\* nothing that ends a marker.
TurnLeaves(s, t) ==
  /\ LoopState(t)
  /\ t.more => Len(t.held) < Len(s.held)
  /\ ~ t.more => \A i \in 1 .. Len(t.held) : t.held[i] # Close

LEMMA LeavesLess ==
  ASSUME NEW s, NEW o \in Seq(Symbols), NEW h \in Seq(Symbols), NEW c \in Seq(Known),
         NEW m \in BOOLEAN,
         m => Len(h) < Len(s.held), ~ m => \A i \in 1 .. Len(h) : h[i] # Close
  PROVE  TurnLeaves(s, Result(o, h, c, m))
<1>1. PICK t : t = Result(o, h, c, m) /\ LoopState(t) /\ t.held = h /\ t.more = m
  BY LoopStates
<1>2. TurnLeaves(s, t)
  BY <1>1 DEF TurnLeaves
<1> QED BY <1>1, <1>2

LEMMA TurnsEnd ==
  ASSUME NEW s, LoopState(s)
  PROVE  TurnLeaves(s, TurnOfLoop(s))
<1>1. s.out \in Seq(Symbols) /\ s.seen \in Seq(Known)
  BY DEF LoopState
<1>2. PICK text \in Seq(Symbols) : text = s.held
  BY DEF LoopState
<1>3. PICK len \in 0 .. Len(text) : len = Len(text)
  OBVIOUS
<1>4. ASSUME NEW k \in 0 .. len
      PROVE  s.out \o SubSeq(text, 1, k) \in Seq(Symbols)
  <2>1. PICK front \in Seq(Symbols) : front = SubSeq(text, 1, k)
    BY <1>3, Start
  <2> QED BY <1>1, <2>1, ConcatProperties
<1>5. ASSUME NEW k \in 1 .. len + 1
      PROVE  SubSeq(text, k, len) \in Seq(Symbols) /\ Len(SubSeq(text, k, len)) = len - k + 1
  BY <1>3, Part
<1>6. CASE \E keep : PassesOn(s, keep)
  <2>1. PICK keep : PassesOn(s, keep)
    BY <1>6
  <2>2. PICK t : t = TurnOfLoop(s) /\ t = Result(s.out \o SubSeq(text, 1, keep), SubSeq(text, keep + 1, len), s.seen, FALSE)
    BY <1>2, <1>3, <2>1 DEF PassesOn
  <2>3. keep \in 0 .. len /\ keep + 1 \in 1 .. len + 1 /\ keep + 1 <= len + 1 /\ keep + 1 \in Nat \ {0}
    BY <1>2, <1>3, <2>1 DEF PassesOn
  <2>4. SubSeq(text, keep + 1, len) \in Seq(Symbols) /\ s.out \o SubSeq(text, 1, keep) \in Seq(Symbols)
    BY <1>4, <1>5, <2>3
  <2>5. \A i \in keep + 1 .. len : text[i] # Close
    BY <1>2, <1>3, <2>1, MarkerSymbols DEF PassesOn
  <2>6. \A i \in 1 .. Len(SubSeq(text, keep + 1, len)) : SubSeq(text, keep + 1, len)[i] # Close
    <3>1. PICK first \in Nat \ {0} : first = keep + 1 /\ first <= len + 1
      BY <2>3
    <3> QED BY <2>5, <3>1, PartLacks
  <2> QED BY <1>1, <2>2, <2>4, <2>6, LeavesLess
<1>7. CASE \E open, end : Resolves(s, open, end)
  <2>1. PICK open, end : Resolves(s, open, end)
    BY <1>7
  <2>2. PICK t : t = TurnOfLoop(s) /\ t = Result(s.out \o SubSeq(text, 1, open - 1), SubSeq(text, end + 1, len),
                                               Cite(s.seen, SubSeq(text, open + 2, end - 1)), TRUE)
    BY <1>2, <1>3, <2>1 DEF Resolves
  <2>3. open \in 1 .. len - 1 /\ end \in open + 2 .. len
    BY <1>2, <1>3, <2>1 DEF Resolves, Opens
  <2>4. open - 1 \in 0 .. len /\ end + 1 \in 1 .. len + 1 /\ len - (end + 1) + 1 < len
    BY <2>3
  <2>5. Cite(s.seen, SubSeq(text, open + 2, end - 1)) \in Seq(Known)
    BY <1>1, CiteAdds
  <2>6. SubSeq(text, end + 1, len) \in Seq(Symbols) /\ s.out \o SubSeq(text, 1, open - 1) \in Seq(Symbols)
    BY <1>4, <1>5, <2>4
  <2>7. Len(SubSeq(text, end + 1, len)) < Len(text)
    BY <1>3, <1>5, <2>4
  <2> QED BY <1>2, <2>2, <2>5, <2>6, <2>7, LeavesLess
<1>8. CASE \E open : GivesUp(s, open)
  <2>1. PICK open : GivesUp(s, open)
    BY <1>8
  <2>2. PICK t : t = TurnOfLoop(s) /\ t = Result((s.out \o SubSeq(text, 1, open - 1)) \o Open,
                                               SubSeq(text, open + 2, len), s.seen, TRUE)
    BY <1>2, <1>3, <2>1 DEF GivesUp
  <2>3. open \in 1 .. len - 1
    BY <1>2, <1>3, <2>1 DEF GivesUp, Opens
  <2>4. open - 1 \in 0 .. len /\ open + 2 \in 1 .. len + 1 /\ len - (open + 2) + 1 < len
    BY <2>3
  <2>5. (s.out \o SubSeq(text, 1, open - 1)) \o Open \in Seq(Symbols)
    <3>1. PICK out \in Seq(Symbols) : out = s.out \o SubSeq(text, 1, open - 1)
      BY <1>4, <2>4
    <3> QED BY <3>1, MarkerSymbols, ConcatProperties
  <2>6. SubSeq(text, open + 2, len) \in Seq(Symbols)
    BY <1>5, <2>4
  <2>7. Len(SubSeq(text, open + 2, len)) < Len(text)
    BY <1>3, <1>5, <2>4
  <2> QED BY <1>1, <1>2, <2>2, <2>5, <2>6, <2>7, LeavesLess
<1>9. CASE \E open : Waits(s, open)
  <2>1. PICK open : Waits(s, open)
    BY <1>9
  <2>2. PICK t : t = TurnOfLoop(s) /\ t = Result(s.out \o SubSeq(text, 1, open - 1),
                                               SubSeq(text, open, len), s.seen, FALSE)
    BY <1>2, <1>3, <2>1 DEF Waits
  <2>3. open \in 1 .. len - 1 /\ \A i \in open .. len : text[i] # Close
    BY <1>2, <1>3, <2>1 DEF Waits, Opens
  <2>4. open - 1 \in 0 .. len /\ open \in 1 .. len + 1 /\ open \in Nat \ {0} /\ open <= len + 1
    BY <2>3
  <2>5. SubSeq(text, open, len) \in Seq(Symbols) /\ s.out \o SubSeq(text, 1, open - 1) \in Seq(Symbols)
    BY <1>4, <1>5, <2>4
  <2>6. \A i \in 1 .. Len(SubSeq(text, open, len)) : SubSeq(text, open, len)[i] # Close
    BY <2>3, <2>4, PartLacks
  <2> QED BY <1>1, <2>2, <2>5, <2>6, LeavesLess
<1> QED BY <1>6, <1>7, <1>8, <1>9, TurnCases

\* The loop after n turns: it has ended, or has read a symbol at every turn.
LoopGoes(text, s, n) ==
  /\ LoopState(s)
  /\ s.more => Len(s.held) + n <= Len(text)
  /\ ~ s.more => \A i \in 1 .. Len(s.held) : s.held[i] # Close

LEMMA LoopReads ==
  ASSUME NEW text \in Seq(Symbols), NEW noted \in Seq(Known), NEW n \in 0 .. Len(text) + 1
  PROVE  LoopGoes(text, TurnsOfLoop(text, noted)[n], n)
<1> DEFINE Good(k) == LoopGoes(text, TurnsOfLoop(text, noted)[k], k)
           bad == {k \in 0 .. Len(text) + 1 : ~ Good(k)}
<1>1. Good(0)
  <2>1. TurnsOfLoop(text, noted)[0] = Result(<<>>, text, noted, TRUE)
    BY LoopTurns
  <2>2. <<>> \in Seq(Symbols) /\ TRUE \in BOOLEAN
    OBVIOUS
  <2>3. PICK s : s = Result(<<>>, text, noted, TRUE) /\ LoopState(s) /\ s.held = text /\ s.more = TRUE
    BY <2>2, LoopStates
  <2>4. Len(text) + 0 <= Len(text)
    OBVIOUS
  <2> QED BY <2>1, <2>3, <2>4 DEF LoopGoes
<1>2. ASSUME NEW k \in 1 .. Len(text) + 1, Good(k - 1) PROVE Good(k)
  <2>1. PICK s : s = TurnsOfLoop(text, noted)[k - 1]
    OBVIOUS
  <2>2. PICK t : t = TurnsOfLoop(text, noted)[k] /\ t = IF s.more THEN TurnOfLoop(s) ELSE s
    BY <2>1, LoopTurns DEF NextTurn
  <2>3. LoopGoes(text, s, k - 1)
    BY <1>2, <2>1
  <2>4. CASE s.more
    <3>1. TurnLeaves(s, t)
      BY <2>2, <2>3, <2>4, TurnsEnd DEF LoopGoes
    <3>2. Len(s.held) + (k - 1) <= Len(text) /\ Len(s.held) \in Nat
      BY <2>3, <2>4 DEF LoopGoes, LoopState
    <3>3. LoopState(t) /\ Len(t.held) \in Nat
      BY <3>1 DEF TurnLeaves, LoopState
    <3>4. Len(t.held) < Len(s.held) => Len(t.held) + k <= Len(text)
      BY <3>2, <3>3
    <3> QED BY <2>2, <3>1, <3>3, <3>4 DEF TurnLeaves, LoopGoes
  <2>5. CASE ~ s.more
    <3>1. t = s
      BY <2>2, <2>5
    <3> QED BY <2>2, <2>3, <2>5, <3>1 DEF LoopGoes
  <2> QED BY <2>4, <2>5
<1>3. bad = {}
  <2>1. Len(text) + 1 \in Nat /\ bad \subseteq 0 .. Len(text) + 1
    OBVIOUS
  <2>2. 0 \notin bad
    BY <1>1
  <2>3. ASSUME NEW m \in 1 .. Len(text) + 1, m \in bad PROVE m - 1 \in bad
    <3>1. m - 1 \in 0 .. Len(text) + 1 /\ ~ Good(m)
      BY <2>3
    <3> HIDE DEF Good
    <3> QED BY <1>2, <3>1
  <2> HIDE DEF bad
  <2> QED BY <2>1, <2>2, <2>3, NoneIsFirst
<1> QED BY <1>3

\* drain's loop ends, whatever the text: after a turn for every symbol and one
\* it has said that it does not go on, and no marker can end in what it holds.
THEOREM DrainEnds ==
  ASSUME NEW text \in Seq(Symbols), NEW noted \in Seq(Known)
  PROVE  /\ LoopState(Drain(text, noted)) /\ ~ Drain(text, noted).more
         /\ \A i \in 1 .. Len(Drain(text, noted).held) : Drain(text, noted).held[i] # Close
<1>1. Len(text) \in Nat /\ Len(text) + 1 \in 0 .. Len(text) + 1
  OBVIOUS
<1>2. PICK s : s = Drain(text, noted) /\ LoopGoes(text, s, Len(text) + 1)
  BY <1>1, LoopReads DEF Drain
<1>3. Len(s.held) \in Nat
  BY <1>2 DEF LoopGoes, LoopState
<1>4. ~ s.more
  <2>1. \A a, b \in Nat : ~ (a + (b + 1) <= b)
    OBVIOUS
  <2> QED BY <1>1, <1>2, <1>3, <2>1 DEF LoopGoes
<1> QED BY <1>2, <1>4 DEF LoopGoes

-----------------------------------------------------------------------------
(* What a turn does, several steps of the reader do.                       *)

\* Having been given the text up to `end`, the loop stands where the reader
\* can stand, holds the rest of what it was given and has passed no opening
\* but those of markers.
LoopFits(s, sent, end) ==
  \E at \in 1 .. end + 1 :
    Stands(at, sent \o s.out, s.seen) /\ s.held = SubSeq(whole, at, end) /\ Passed(at)

\* What is held, noted as a part of the text.
IsPart(held, at, end) ==
  /\ Len(held) = end - at + 1
  /\ \A i \in 1 .. Len(held) : held[i] = whole[at + i - 1]
  /\ \A i \in 1 .. Len(held) - 1 : Opening(held, i) <=> Opening(whole, at + i - 1)
  /\ \A k \in Nat \ {0}, l \in Nat : k <= l + 1 /\ l <= Len(held) =>
       SubSeq(held, k, l) = SubSeq(whole, at + k - 1, at + l - 1)

LEMMA HeldIsPart ==
  ASSUME whole \in Seq(Symbols), NEW end \in 0 .. Len(whole), NEW at \in 1 .. end + 1,
         NEW held \in Seq(Symbols), held = SubSeq(whole, at, end)
  PROVE  IsPart(held, at, end)
<1>1. at \in Nat \ {0} /\ at <= end + 1
  OBVIOUS
<1>2. Len(held) = end - at + 1 /\ \A i \in 1 .. end - at + 1 : held[i] = whole[at + i - 1]
  BY <1>1, Part
<1>3. ASSUME NEW i \in 1 .. Len(held) - 1 PROVE Opening(held, i) <=> Opening(whole, at + i - 1)
  <2>1. PICK j \in 1 .. Len(whole) : j = at + i - 1 /\ j + 1 <= Len(whole) /\ j + 1 = at + (i + 1) - 1
    <3>1. at + i - 1 \in 1 .. Len(whole) /\ (at + i - 1) + 1 <= Len(whole) /\ (at + i - 1) + 1 = at + (i + 1) - 1
      BY <1>2
    <3> QED BY <3>1
  <2>2. i \in 1 .. end - at + 1 /\ i + 1 \in 1 .. end - at + 1 /\ i + 1 <= Len(held)
    BY <1>2
  <2>3. held[i] = whole[j] /\ held[i + 1] = whole[j + 1]
    BY <1>2, <2>1, <2>2
  <2> QED BY <2>1, <2>2, <2>3 DEF Opening
<1>4. \A k \in Nat \ {0}, l \in Nat : k <= l + 1 /\ l <= end - at + 1 =>
        SubSeq(held, k, l) = SubSeq(whole, at + k - 1, at + l - 1)
  BY <1>1, PartOfPart
<1> QED BY <1>2, <1>3, <1>4 DEF IsPart

\* Text before the first marker is released as the reader keeps it.
LEMMA FrontFits ==
  ASSUME whole \in Seq(Symbols), NEW end \in 0 .. Len(whole), NEW at \in 1 .. end + 1,
         NEW held \in Seq(Symbols), held = SubSeq(whole, at, end),
         NEW sent \in Seq(Symbols), NEW out \in Seq(Symbols), NEW noted,
         Stands(at, sent \o out, noted),
         NEW n \in 0 .. Len(held),
         \A i \in 1 .. n : held[i] = Open[1] => i < Len(held) /\ ~ Opening(held, i)
  PROVE  /\ Stands(at + n, sent \o (out \o SubSeq(held, 1, n)), noted)
         /\ Passed(at) => Passed(at + n)
<1>1. /\ Len(held) = end - at + 1
      /\ \A i \in 1 .. Len(held) : held[i] = whole[at + i - 1]
      /\ \A i \in 1 .. Len(held) - 1 : Opening(held, i) <=> Opening(whole, at + i - 1)
      /\ \A k \in Nat \ {0}, l \in Nat : k <= l + 1 /\ l <= Len(held) =>
           SubSeq(held, k, l) = SubSeq(whole, at + k - 1, at + l - 1)
  <2>1. IsPart(held, at, end)
    BY HeldIsPart
  <2> QED BY <2>1 DEF IsPart
<1>2. PICK last \in Nat : last = at + n - 1 /\ at <= last + 1 /\ last <= Len(whole) /\ last + 1 = at + n
  <2>1. at + n - 1 \in Nat /\ at <= (at + n - 1) + 1 /\ at + n - 1 <= Len(whole) /\ (at + n - 1) + 1 = at + n
    BY <1>1
  <2> QED BY <2>1
<1>3. ASSUME NEW j \in at .. last PROVE ~ StartsMarker(whole, j) /\ ~ Opening(whole, j)
  <2>1. PICK i \in 1 .. n : i = j - at + 1 /\ at + i - 1 = j
    <3>1. j - at + 1 \in 1 .. n /\ at + (j - at + 1) - 1 = j
      BY <1>2
    <3> QED BY <3>1
  <2>2. j \in 1 .. Len(whole) /\ i \in 1 .. Len(held)
    BY <1>1, <1>2, <2>1
  <2>3. CASE held[i] = Open[1]
    <3>1. i \in 1 .. Len(held) - 1 /\ ~ Opening(held, i)
      <4>1. i < Len(held) /\ ~ Opening(held, i)
        BY <2>3, Zenon
      <4>2. i \in Nat \ {0} /\ Len(held) \in Nat
        BY <2>2
      <4> QED BY <4>1, <4>2
    <3>2. ~ Opening(whole, j)
      BY <1>1, <2>1, <3>1
    <3> QED BY <2>2, <3>2, MarkerAt
  <2>4. CASE held[i] # Open[1]
    <3>1. ~ Opening(whole, j)
      BY <1>1, <2>1, <2>2, <2>4 DEF Opening
    <3> QED BY <2>2, <3>1, MarkerAt
  <2> QED BY <2>3, <2>4
<1>4. PICK front \in Seq(Symbols) : front = SubSeq(held, 1, n) /\ front = SubSeq(whole, at, last)
  <2>1. SubSeq(held, 1, n) \in Seq(Symbols)
    BY Start
  <2>2. SubSeq(held, 1, n) = SubSeq(whole, at, last)
    <3>1. PICK k \in Nat \ {0} : k = 1 /\ k <= n + 1 /\ at + k - 1 = at
      OBVIOUS
    <3> QED BY <1>1, <1>2, <3>1
  <2> QED BY <2>1, <2>2
<1>5. Stands(last + 1, (sent \o out) \o front, noted)
  <2>1. PICK kept \in Seq(Symbols) : kept = sent \o out
    BY ConcatProperties
  <2>2. Stands(last + 1, kept \o SubSeq(whole, at, last), noted)
    BY <1>2, <1>3, <2>1, StandsPast
  <2> QED BY <1>4, <2>1, <2>2
<1>6. (sent \o out) \o front = sent \o (out \o front)
  BY Joined, Zenon
<1>7. ASSUME Passed(at) PROVE Passed(at + n)
  <2>1. \A j \in 1 .. at + n - 1 : j \in 1 .. at - 1 \/ j \in at .. last
    BY <1>2
  <2> QED BY <1>3, <1>7, <2>1 DEF Passed
<1> QED BY <1>2, <1>4, <1>5, <1>6, <1>7

\* Nor does the filter give up on what is a marker, when ids are short.
LEMMA NeverGivesUp ==
  ASSUME whole \in Seq(Symbols), ShortIds(whole), NEW end \in 0 .. Len(whole), NEW at \in 1 .. end + 1,
         NEW s, LoopState(s), s.held = SubSeq(whole, at, end), NEW open
  PROVE  ~ GivesUp(s, open)
<1> SUFFICES ASSUME GivesUp(s, open) PROVE FALSE
  OBVIOUS
<1>1. PICK held \in Seq(Symbols) : held = s.held
  BY DEF LoopState
<1>2. /\ open \in 1 .. Len(held) - 1 /\ Opening(held, open)
      /\ \A i \in open .. Len(held) : held[i] # Close
      /\ Len(held) - open - 1 > MaxId
  BY <1>1 DEF GivesUp, Opens
<1>3. /\ Len(held) = end - at + 1
      /\ \A i \in 1 .. Len(held) : held[i] = whole[at + i - 1]
      /\ \A i \in 1 .. Len(held) - 1 : Opening(held, i) <=> Opening(whole, at + i - 1)
  <2>1. IsPart(held, at, end)
    BY <1>1, HeldIsPart
  <2> QED BY <2>1 DEF IsPart
<1>4. PICK j \in 1 .. Len(whole) : j = at + open - 1 /\ j <= end
  <2>1. at + open - 1 \in 1 .. Len(whole) /\ at + open - 1 <= end
    BY <1>2, <1>3
  <2> QED BY <2>1
<1>5. IsPrefix(Open, From(whole, j))
  BY <1>2, <1>3, <1>4, OpensAt
<1>6. end - j - 1 > MaxId
  <2>1. end - j - 1 = Len(held) - open - 1
    BY <1>2, <1>3, <1>4
  <2> QED BY <1>2, <2>1
<1>7. CASE StartsMarker(whole, j)
  <2>1. PICK last \in j + 2 .. Len(whole) : last = EndOfMarker(whole, j) /\ whole[last] = Close
    BY <1>4, <1>7, MarkerAt
  <2>2. last - j - 2 <= MaxId
    BY <1>4, <1>5, <1>7, <2>1 DEF ShortIds
  <2>3. last <= end
    BY <1>4, <1>6, <2>1, <2>2, MarkerSymbols
  <2>4. PICK i \in open .. Len(held) : at + i - 1 = last
    <3>1. PICK n \in Int : n = last - at + 1 /\ at + n - 1 = last
      OBVIOUS
    <3>2. n <= Len(held)
      BY <1>3, <2>3, <3>1
    <3>3. open <= n
      BY <1>2, <1>4, <3>1
    <3> QED BY <1>2, <3>1, <3>2, <3>3
  <2>5. held[i] = Close
    BY <1>2, <1>3, <2>1, <2>4
  <2> QED BY <1>2, <2>4, <2>5
<1>8. CASE ~ StartsMarker(whole, j)
  <2>1. Len(whole) - j - 1 <= MaxId
    BY <1>4, <1>5, <1>8 DEF ShortIds
  <2> QED BY <1>4, <1>6, <2>1, MarkerSymbols
<1> QED BY <1>7, <1>8

LEMMA TurnFits ==
  ASSUME whole \in Seq(Symbols), ShortIds(whole), NEW end \in 0 .. Len(whole),
         NEW sent \in Seq(Symbols), NEW s, LoopState(s), LoopFits(s, sent, end)
  PROVE  LoopFits(TurnOfLoop(s), sent, end)
<1>1. PICK at \in 1 .. end + 1 :
        Stands(at, sent \o s.out, s.seen) /\ s.held = SubSeq(whole, at, end) /\ Passed(at)
  BY DEF LoopFits
<1>2. PICK held \in Seq(Symbols), out \in Seq(Symbols), noted \in Seq(Known) :
        held = s.held /\ out = s.out /\ noted = s.seen
  BY DEF LoopState
<1>3. /\ Len(held) = end - at + 1
      /\ \A i \in 1 .. Len(held) : held[i] = whole[at + i - 1]
      /\ \A i \in 1 .. Len(held) - 1 : Opening(held, i) <=> Opening(whole, at + i - 1)
      /\ \A k \in Nat \ {0}, l \in Nat : k <= l + 1 /\ l <= Len(held) =>
           SubSeq(held, k, l) = SubSeq(whole, at + k - 1, at + l - 1)
  <2>1. IsPart(held, at, end)
    BY <1>1, <1>2, HeldIsPart
  <2> QED BY <2>1 DEF IsPart
\* What follows the n-th symbol is held still.
<1>4. ASSUME NEW n \in 0 .. Len(held)
      PROVE  at + n \in 1 .. end + 1 /\ SubSeq(held, n + 1, Len(held)) = SubSeq(whole, at + n, end)
  <2>1. PICK k \in Nat \ {0}, l \in Nat : k = n + 1 /\ l = Len(held) /\ k <= l + 1 /\ l <= Len(held)
          /\ at + k - 1 = at + n /\ at + l - 1 = end
    <3>1. n + 1 \in Nat \ {0} /\ Len(held) \in Nat /\ n + 1 <= Len(held) + 1 /\ Len(held) <= Len(held)
            /\ at + (n + 1) - 1 = at + n /\ at + Len(held) - 1 = end
      BY <1>3
    <3> QED BY <3>1
  <2>2. SubSeq(held, k, l) = SubSeq(whole, at + k - 1, at + l - 1)
    BY <1>3, <2>1
  <2>3. at + n \in 1 .. end + 1
    BY <1>3
  <2> QED BY <2>1, <2>2, <2>3
<1>5. ASSUME NEW n \in 0 .. Len(held), \A i \in 1 .. n : held[i] = Open[1] => i < Len(held) /\ ~ Opening(held, i)
      PROVE  Stands(at + n, sent \o (out \o SubSeq(held, 1, n)), noted) /\ Passed(at + n)
  BY <1>1, <1>2, <1>5, FrontFits
<1>6. ASSUME NEW t, NEW o, NEW c, NEW n \in 0 .. Len(held), NEW m,
             t = Result(o, SubSeq(held, n + 1, Len(held)), c, m), Stands(at + n, sent \o o, c),
             Passed(at + n)
      PROVE  LoopFits(t, sent, end)
  <2>1. PICK rest : rest = SubSeq(held, n + 1, Len(held)) /\ rest = SubSeq(whole, at + n, end)
    BY <1>4
  <2>2. t.out = o /\ t.held = rest /\ t.seen = c
    BY <1>6, <2>1 DEF Result
  <2>3. PICK next \in 1 .. end + 1 : next = at + n
    BY <1>4
  <2> QED BY <1>6, <2>1, <2>2, <2>3 DEF LoopFits
<1>7. CASE \E keep : PassesOn(s, keep)
  <2>1. PICK keep : PassesOn(s, keep)
    BY <1>7
  <2>2. /\ keep \in 0 .. Len(held)
        /\ \A i \in 1 .. keep : held[i] = Open[1] => i < Len(held)
        /\ \A i \in 1 .. Len(held) : ~ Opening(held, i)
        /\ TurnOfLoop(s) = Result(out \o SubSeq(held, 1, keep), SubSeq(held, keep + 1, Len(held)), noted, FALSE)
    BY <1>2, <2>1 DEF PassesOn
  <2>3. Stands(at + keep, sent \o (out \o SubSeq(held, 1, keep)), noted) /\ Passed(at + keep)
    <3>1. \A i \in 1 .. keep : i \in 1 .. Len(held)
      BY <2>2
    <3> QED BY <1>5, <2>2, <3>1
  <2> QED BY <1>6, <2>2, <2>3
<1>8. ASSUME NEW open, Opens(s, open)
      PROVE  /\ open \in 1 .. Len(held) - 1 /\ open - 1 \in 0 .. Len(held)
             /\ Stands(at + (open - 1), sent \o (out \o SubSeq(held, 1, open - 1)), noted)
             /\ Passed(at + (open - 1))
  <2>1. open \in 1 .. Len(held) - 1 /\ \A i \in 1 .. open - 1 : ~ Opening(held, i)
    BY <1>2, <1>8 DEF Opens
  <2>2. PICK n \in 0 .. Len(held) : n = open - 1 /\ \A i \in 1 .. n : i < Len(held)
    BY <2>1
  <2>3. Stands(at + n, sent \o (out \o SubSeq(held, 1, n)), noted) /\ Passed(at + n)
    BY <1>5, <2>1, <2>2
  <2> QED BY <2>1, <2>2, <2>3
<1>9. CASE \E open : Waits(s, open)
  <2>1. PICK open : Waits(s, open)
    BY <1>9
  <2>2. PICK n \in 0 .. Len(held) : n = open - 1 /\ n + 1 = open
          /\ Stands(at + n, sent \o (out \o SubSeq(held, 1, n)), noted) /\ Passed(at + n)
    BY <1>8, <2>1 DEF Waits
  <2>3. TurnOfLoop(s) = Result(out \o SubSeq(held, 1, n), SubSeq(held, n + 1, Len(held)), noted, FALSE)
    BY <1>2, <2>1, <2>2 DEF Waits
  <2> QED BY <1>6, <2>2, <2>3
<1>10. CASE \E open, last : Resolves(s, open, last)
  <2>1. PICK open, last : Resolves(s, open, last)
    BY <1>10
  <2>2. PICK n \in 0 .. Len(held) : n = open - 1 /\ n + 1 = open
          /\ Stands(at + n, sent \o (out \o SubSeq(held, 1, n)), noted) /\ Passed(at + n)
    BY <1>8, <2>1 DEF Resolves
  <2>3. /\ open \in 1 .. Len(held) - 1 /\ Opening(held, open)
        /\ last \in open + 2 .. Len(held) /\ held[last] = Close
        /\ \A i \in open .. last - 1 : held[i] # Close
    BY <1>2, <2>1 DEF Resolves, Opens
  <2>4. PICK j \in 1 .. Len(whole), close \in 1 .. Len(whole) :
          /\ close \in j .. Len(whole) /\ j = at + n /\ j = at + open - 1 /\ close = at + last - 1
          /\ j + 2 = at + (open + 2) - 1 /\ close - 1 = at + (last - 1) - 1
    <3>1. at + n \in 1 .. Len(whole) /\ at + last - 1 \in at + n .. Len(whole)
            /\ at + last - 1 \in 1 .. Len(whole)
            /\ at + n = at + open - 1
            /\ at + n + 2 = at + (open + 2) - 1 /\ (at + last - 1) - 1 = at + (last - 1) - 1
      BY <1>3, <2>2, <2>3
    <3> QED BY <3>1
  <2>5. Opening(whole, j)
    BY <1>3, <2>3, <2>4
  <2>6. whole[close] = Close
    <3>1. last \in 1 .. Len(held)
      BY <2>3
    <3> QED BY <1>3, <2>3, <2>4, <3>1
  <2>7. ASSUME NEW i \in j .. close - 1 PROVE whole[i] # Close
    <3>1. PICK k \in Int : k = i - at + 1 /\ at + k - 1 = i
      OBVIOUS
    <3>2. k \in open .. last - 1 /\ k \in 1 .. Len(held)
      BY <2>3, <2>4, <3>1
    <3> QED BY <1>3, <2>3, <3>1, <3>2
  <2>8. StartsMarker(whole, j) /\ EndOfMarker(whole, j) = close
    BY <2>4, <2>5, <2>6, <2>7, MarkerAt
  <2>9. PICK id : id = SubSeq(held, open + 2, last - 1) /\ id = SubSeq(whole, j + 2, close - 1)
    <3>1. PICK k \in Nat \ {0}, l \in Nat : k = open + 2 /\ l = last - 1 /\ k <= l + 1 /\ l <= Len(held)
      <4>1. open + 2 \in Nat \ {0} /\ last - 1 \in Nat /\ open + 2 <= last - 1 + 1 /\ last - 1 <= Len(held)
        BY <2>3
      <4> QED BY <4>1
    <3> QED BY <1>3, <2>4, <3>1
  <2>10. PICK kept \in Seq(Symbols) : kept = sent \o (out \o SubSeq(held, 1, n))
    <3>1. PICK front \in Seq(Symbols) : front = SubSeq(held, 1, n)
      BY Start
    <3>2. PICK more \in Seq(Symbols) : more = out \o front
      BY ConcatProperties
    <3> QED BY <3>1, <3>2, ConcatProperties
  <2>11. Stands(close + 1, kept, Cite(noted, id))
    <3>1. Stands(j, kept, noted) /\ j # Len(whole) + 1
      BY <2>2, <2>4, <2>10
    <3> QED BY <2>8, <2>9, <3>1, StandsOn
  <2>12. at + last = close + 1 /\ last \in 0 .. Len(held)
    BY <2>3, <2>4
  <2>13. TurnOfLoop(s) = Result(out \o SubSeq(held, 1, n), SubSeq(held, last + 1, Len(held)), Cite(noted, id), TRUE)
    BY <1>2, <2>1, <2>2, <2>9 DEF Resolves
  <2>14. Passed(close + 1)
    <3>1. ASSUME NEW i \in j .. close, Opening(whole, i) PROVE StartsMarker(whole, i)
      <4>1. i \in 1 .. Len(whole) /\ close \in i .. Len(whole)
        BY <2>4
      <4> QED BY <2>6, <3>1, <4>1, MarkerAt
    <3>2. \A i \in 1 .. close + 1 - 1 : i \in 1 .. at + n - 1 \/ i \in j .. close
      BY <2>4
    <3> QED BY <2>2, <3>1, <3>2 DEF Passed
  <2> QED BY <1>6, <2>10, <2>11, <2>12, <2>13, <2>14
<1>11. \A open : ~ GivesUp(s, open)
  BY <1>1, NeverGivesUp
<1> QED BY <1>7, <1>9, <1>10, <1>11, TurnCases

LEMMA FitsAtFirst ==
  ASSUME NEW end, NEW sent \in Seq(Symbols), NEW noted, NEW at \in 1 .. end + 1,
         NEW text, text = SubSeq(whole, at, end), Stands(at, sent, noted), Passed(at)
  PROVE  LoopFits(Result(<<>>, text, noted, TRUE), sent, end)
<1>1. PICK s : s = Result(<<>>, text, noted, TRUE) /\ s.out = <<>> /\ s.held = text /\ s.seen = noted
  <2>1. /\ Result(<<>>, text, noted, TRUE).out = <<>> /\ Result(<<>>, text, noted, TRUE).held = text
        /\ Result(<<>>, text, noted, TRUE).seen = noted
    BY Zenon DEF Result
  <2> QED BY <2>1
<1>2. sent \o <<>> = sent
  BY ConcatEmptySeq
<1>3. Stands(at, sent \o s.out, s.seen) /\ s.held = SubSeq(whole, at, end)
  BY <1>1, <1>2, Zenon
<1> QED BY <1>1, <1>3, Zenon DEF LoopFits

\* ... and so does the loop.
LEMMA DrainFits ==
  ASSUME whole \in Seq(Symbols), ShortIds(whole), NEW end \in 0 .. Len(whole),
         NEW sent \in Seq(Symbols), NEW noted \in Seq(Known),
         NEW at \in 1 .. end + 1, NEW text, text = SubSeq(whole, at, end), Stands(at, sent, noted),
         Passed(at)
  PROVE  LoopFits(Drain(text, noted), sent, end)
<1>1. text \in Seq(Symbols)
  BY Part
<1> DEFINE Good(k) == LoopFits(TurnsOfLoop(text, noted)[k], sent, end)
           bad == {k \in 0 .. Len(text) + 1 : ~ Good(k)}
<1>2. Good(0)
  <2>1. TurnsOfLoop(text, noted)[0] = Result(<<>>, text, noted, TRUE)
    BY <1>1, LoopTurns
  <2>2. LoopFits(Result(<<>>, text, noted, TRUE), sent, end)
    BY FitsAtFirst
  <2> QED BY <2>1, <2>2
<1>3. ASSUME NEW k \in 1 .. Len(text) + 1, Good(k - 1) PROVE Good(k)
  <2>1. PICK s : s = TurnsOfLoop(text, noted)[k - 1]
    OBVIOUS
  <2>2. TurnsOfLoop(text, noted)[k] = NextTurn(s)
    BY <1>1, <2>1, LoopTurns
  <2>3. LoopState(s)
    <3>1. k - 1 \in 0 .. Len(text) + 1
      BY <1>1
    <3> QED BY <1>1, <2>1, <3>1, LoopReads DEF LoopGoes
  <2>4. LoopFits(s, sent, end)
    BY <1>3, <2>1
  <2>5. LoopFits(TurnOfLoop(s), sent, end)
    BY <2>3, <2>4, TurnFits
  <2> QED BY <2>2, <2>4, <2>5 DEF NextTurn
<1>4. bad = {}
  <2>1. Len(text) + 1 \in Nat /\ bad \subseteq 0 .. Len(text) + 1
    BY <1>1
  <2>2. 0 \notin bad
    BY <1>2
  <2>3. ASSUME NEW m \in 1 .. Len(text) + 1, m \in bad PROVE m - 1 \in bad
    <3>1. m - 1 \in 0 .. Len(text) + 1 /\ ~ Good(m)
      BY <1>1, <2>3
    <3> HIDE DEF Good
    <3> QED BY <1>3, <3>1
  <2> HIDE DEF bad
  <2> QED BY <2>1, <2>2, <2>3, NoneIsFirst
<1>5. Len(text) + 1 \in 0 .. Len(text) + 1
  BY <1>1
<1>6. Good(Len(text) + 1)
  <2> HIDE DEF Good
  <2> QED BY <1>4, <1>5
<1> QED BY <1>6 DEF Drain

LEMMA FilterStarts == FilterInit => FilterBooks
<1> SUFFICES ASSUME FilterInit PROVE FilterBooks
  OBVIOUS
<1>1. whole \in Seq(Symbols) /\ unread = whole /\ pending = <<>> /\ emitted = <<>> /\ cited = <<>> /\ flushed = FALSE
  BY FilterAssumption DEF FilterInit
<1>2. FilterTypeOK
  <2>1. <<>> \in Seq(Symbols) /\ <<>> \in Seq(Known) /\ FALSE \in BOOLEAN
    OBVIOUS
  <2> QED BY <1>1, <2>1 DEF FilterTypeOK
<1>3. Given = 0 /\ Given \in Nat
  BY <1>1 DEF Given
<1>4. unread = From(whole, Given + 1)
  <2>1. From(whole, 1) = whole
    BY <1>1, SubSeqFull DEF From
  <2> QED BY <1>1, <1>3, <2>1
<1>5. Stands(1, emitted, cited)
  <2>1. 0 \in 0 .. Len(whole) /\ Reader(whole)[0] = ReadTo(1, <<>>, <<>>)
    BY <1>1, ReaderReads
  <2> QED BY <1>1, <2>1 DEF Stands
<1>6. 1 \in 1 .. Given + 1 /\ pending = SubSeq(whole, 1, Given)
  <2>1. SubSeq(whole, 1, 0) = <<>>
    BY <1>1, SubSeqEmpty
  <2> QED BY <1>1, <1>3, <2>1
<1>7. Passed(1)
  BY DEF Passed
<1> QED BY <1>1, <1>2, <1>3, <1>4, <1>5, <1>6, <1>7 DEF FilterBooks

\* A chunk is the next part of the text.
Moves(text, given, rest, n) ==
  /\ Len(rest) = Len(text) - given /\ given + n \in 0 .. Len(text)
  /\ Upto(rest, n) \in Seq(Symbols) /\ Upto(rest, n) = SubSeq(text, given + 1, given + n)
  /\ From(rest, n + 1) \in Seq(Symbols) /\ Len(From(rest, n + 1)) = Len(text) - (given + n)
  /\ From(rest, n + 1) = From(text, given + n + 1)

LEMMA TextMoves ==
  ASSUME NEW text \in Seq(Symbols), NEW given \in 0 .. Len(text),
         NEW rest \in Seq(Symbols), rest = From(text, given + 1), NEW n \in 1 .. Len(rest)
  PROVE  Moves(text, given, rest, n)
<1>1. PICK i \in Nat \ {0}, j \in 0 .. Len(text) : i = given + 1 /\ j = Len(text) /\ i <= j + 1
  <2>1. given + 1 \in Nat \ {0} /\ Len(text) \in 0 .. Len(text) /\ given + 1 <= Len(text) + 1
    OBVIOUS
  <2> QED BY <2>1
<1>2. Len(rest) = j - i + 1
  <2>1. Len(SubSeq(text, i, j)) = j - i + 1
    BY <1>1, Part
  <2> QED BY <1>1, <2>1 DEF From
<1>3. Len(rest) = Len(text) - given /\ given + n \in 0 .. Len(text)
  BY <1>1, <1>2
<1>4. ASSUME NEW k \in Nat \ {0}, NEW l \in Nat, k <= l + 1, l <= Len(rest)
      PROVE  /\ SubSeq(rest, k, l) = SubSeq(text, given + k, given + l)
             /\ SubSeq(rest, k, l) \in Seq(Symbols) /\ Len(SubSeq(rest, k, l)) = l - k + 1
  <2>1. SubSeq(SubSeq(text, i, j), k, l) = SubSeq(text, i + k - 1, i + l - 1)
    <3>1. l <= j - i + 1
      BY <1>2, <1>4
    <3> QED BY <1>1, <1>4, <3>1, PartOfPart
  <2>2. i + k - 1 = given + k /\ i + l - 1 = given + l
    BY <1>1
  <2>3. l \in 0 .. Len(rest)
    BY <1>4
  <2>4. SubSeq(rest, k, l) \in Seq(Symbols) /\ Len(SubSeq(rest, k, l)) = l - k + 1
    BY <1>4, <2>3, Part
  <2>5. rest = SubSeq(text, i, j)
    BY <1>1 DEF From
  <2> QED BY <2>1, <2>2, <2>4, <2>5, Zenon
<1>5. SubSeq(rest, 1, n) \in Seq(Symbols) /\ SubSeq(rest, 1, n) = SubSeq(text, given + 1, given + n)
  <2>1. PICK k \in Nat \ {0} : k = 1 /\ k <= n + 1 /\ n \in Nat /\ n <= Len(rest)
    OBVIOUS
  <2> QED BY <1>4, <2>1
<1>6. PICK k \in Nat \ {0}, l \in Nat :
        /\ k = n + 1 /\ l = Len(rest) /\ k <= l + 1 /\ l <= Len(rest)
        /\ given + k = given + n + 1 /\ given + l = Len(text) /\ l - k + 1 = Len(text) - (given + n)
  <2>1. PICK l \in Nat : l = Len(rest) /\ given + l = Len(text)
    BY <1>3
  <2>2. PICK k \in Nat \ {0} : k = n + 1
    OBVIOUS
  <2>3. k <= l + 1 /\ l <= Len(rest) /\ given + k = given + n + 1 /\ l - k + 1 = Len(text) - (given + n)
    BY <2>1, <2>2
  <2> QED BY <2>1, <2>2, <2>3
<1>7. /\ SubSeq(rest, k, l) = SubSeq(text, given + k, given + l)
      /\ SubSeq(rest, k, l) \in Seq(Symbols) /\ Len(SubSeq(rest, k, l)) = l - k + 1
  BY <1>4, <1>6
<1>8. From(rest, n + 1) = SubSeq(rest, k, l) /\ From(text, given + n + 1) = SubSeq(text, given + k, given + l)
  BY <1>6, Zenon DEF From
<1> QED BY <1>3, <1>5, <1>6, <1>7, <1>8 DEF Moves, Upto

\* A chunk moves the filter on: the reader can stand where it has come to.
LEMMA PushKeeps ==
  ASSUME FilterBooks, Push
  PROVE  FilterBooks'
<1>1. /\ whole \in Seq(Symbols) /\ unread \in Seq(Symbols) /\ pending \in Seq(Symbols)
      /\ emitted \in Seq(Symbols) /\ cited \in Seq(Known) /\ flushed \in BOOLEAN
  BY DEF FilterBooks, FilterTypeOK
<1>2. PICK n \in 1 .. Len(unread) :
        LET drained == Drain(pending \o Upto(unread, n), cited)
        IN /\ unread' = From(unread, n + 1) /\ pending' = drained.held
           /\ emitted' = emitted \o drained.out /\ cited' = drained.seen
  BY Zenon DEF Push
<1>3. PICK drained :
        /\ drained = Drain(pending \o Upto(unread, n), cited)
        /\ unread' = From(unread, n + 1) /\ pending' = drained.held
        /\ emitted' = emitted \o drained.out /\ cited' = drained.seen
  BY <1>2
<1>4. flushed' = flushed /\ whole' = whole
  BY DEF Push
<1>5. ~ flushed
  <2>1. flushed => unread = <<>>
    BY DEF FilterBooks
  <2>2. unread = <<>> => 1 .. Len(unread) = {}
    OBVIOUS
  <2> QED BY <1>3, <2>1, <2>2
<1>6. PICK given \in 0 .. Len(whole) : given = Given /\ unread = From(whole, given + 1)
  <2>1. Given \in Nat /\ unread = From(whole, Given + 1)
    BY DEF FilterBooks
  <2>2. Given = Len(whole) - Len(unread)
    BY DEF Given
  <2>3. Given <= Len(whole)
    BY <1>1, <2>2
  <2> QED BY <1>1, <2>1, <2>3
<1>7. PICK end \in 0 .. Len(whole), chunk \in Seq(Symbols), rest \in Seq(Symbols) :
        /\ end = given + n /\ given <= end
        /\ chunk = Upto(unread, n) /\ chunk = SubSeq(whole, given + 1, end)
        /\ rest = From(unread, n + 1) /\ rest = From(whole, end + 1)
        /\ Len(rest) = Len(whole) - end
  <2>0. Moves(whole, given, unread, n)
    BY <1>1, <1>6, TextMoves
  <2>1. /\ given + n \in 0 .. Len(whole)
        /\ Upto(unread, n) \in Seq(Symbols) /\ Upto(unread, n) = SubSeq(whole, given + 1, given + n)
        /\ From(unread, n + 1) \in Seq(Symbols) /\ Len(From(unread, n + 1)) = Len(whole) - (given + n)
        /\ From(unread, n + 1) = From(whole, given + n + 1)
    BY <2>0 DEF Moves
  <2>2. given <= given + n
    OBVIOUS
  <2> QED BY <2>1, <2>2
<1>8. PICK text \in Seq(Symbols) : text = pending \o chunk
  BY <1>1, ConcatProperties
<1>9. LoopState(drained)
  BY <1>1, <1>3, <1>7, <1>8, DrainEnds
<1>10. PICK out \in Seq(Symbols), held \in Seq(Symbols), noted \in Seq(Known) :
        out = drained.out /\ held = drained.held /\ noted = drained.seen
  BY <1>9 DEF LoopState
<1>11. unread' = rest /\ pending' = held /\ emitted' = emitted \o out /\ cited' = noted
  BY <1>3, <1>7, <1>10
<1>12. FilterTypeOK'
  <2>1. emitted \o out \in Seq(Symbols)
    BY <1>1, ConcatProperties
  <2> QED BY <1>1, <1>4, <1>11, <2>1 DEF FilterTypeOK
<1>13. Given' = end
  <2>1. Given' = Len(whole) - Len(rest)
    BY <1>4, <1>11 DEF Given
  <2>2. PICK len \in Nat : len = Len(whole)
    BY <1>1
  <2> QED BY <1>7, <2>1, <2>2
<1>14. ASSUME ShortIds(whole)
       PROVE  \E at \in 1 .. end + 1 :
                Stands(at, emitted \o out, noted) /\ held = SubSeq(whole, at, end) /\ Passed(at)
  <2>1. PICK at \in 1 .. given + 1 :
          Stands(at, emitted, cited) /\ pending = SubSeq(whole, at, given) /\ Passed(at)
    BY <1>5, <1>6, <1>14 DEF FilterBooks
  <2>2. at \in 1 .. end + 1 /\ at \in Nat \ {0} /\ at <= given + 1 /\ given \in Nat /\ given <= end
    BY <1>7
  <2>3. text = SubSeq(whole, at, end)
    <3>1. SubSeq(whole, at, given) \o SubSeq(whole, given + 1, end) = SubSeq(whole, at, end)
      BY <1>1, <2>2, PartsMeet
    <3> QED BY <1>7, <1>8, <2>1, <3>1, Zenon
  <2>4. LoopFits(Drain(text, cited), emitted, end)
    BY <1>1, <1>14, <2>1, <2>2, <2>3, DrainFits
  <2> QED BY <1>3, <1>7, <1>8, <1>10, <2>4 DEF LoopFits
<1>15. ~ flushed' /\ ShortIds(whole') =>
         \E at \in 1 .. Given' + 1 :
           Stands(at, emitted, cited)' /\ pending' = SubSeq(whole', at, Given') /\ Passed(at)'
  <2>1. \A at : Stands(at, emitted \o out, noted) => Stands(at, emitted, cited)'
    BY <1>4, <1>11 DEF Stands
  <2>2. \A at : Passed(at) => Passed(at)'
    BY <1>4 DEF Passed
  <2> QED BY <1>4, <1>11, <1>13, <1>14, <2>1, <2>2
<1>16. Given' \in Nat /\ unread' = From(whole', Given' + 1)
  BY <1>4, <1>7, <1>11, <1>13
<1> QED BY <1>4, <1>5, <1>12, <1>15, <1>16 DEF FilterBooks

\* What is held at the end starts no marker: the reader keeps it.
LEMMA FlushKeeps ==
  ASSUME FilterBooks, Flush
  PROVE  FilterBooks'
<1>1. /\ whole \in Seq(Symbols) /\ unread \in Seq(Symbols) /\ pending \in Seq(Symbols)
      /\ emitted \in Seq(Symbols) /\ cited \in Seq(Known) /\ flushed \in BOOLEAN
  BY DEF FilterBooks, FilterTypeOK
<1>2. PICK drained :
        /\ drained = Drain(pending, cited)
        /\ emitted' = emitted \o drained.out \o drained.held /\ cited' = drained.seen
  BY DEF Flush
<1>3. /\ unread = <<>> /\ ~ flushed /\ unread' = unread /\ whole' = whole
      /\ pending' = <<>> /\ flushed' = TRUE
  BY DEF Flush
<1>4. LoopState(drained) /\ \A i \in 1 .. Len(drained.held) : drained.held[i] # Close
  BY <1>1, <1>2, DrainEnds
<1>5. PICK out \in Seq(Symbols), held \in Seq(Symbols), noted \in Seq(Known) :
        out = drained.out /\ held = drained.held /\ noted = drained.seen
  BY <1>4 DEF LoopState
<1>6. PICK end \in 0 .. Len(whole) : end = Len(whole) /\ Given = end
  <2>1. PICK len \in Nat : len = Len(whole)
    BY <1>1
  <2>2. Given = len - 0
    BY <1>3, <2>1 DEF Given
  <2> QED BY <2>1, <2>2
<1>7. PICK sent \in Seq(Symbols) : sent = emitted \o out
  BY <1>1, ConcatProperties
<1>8. sent \o held \in Seq(Symbols) /\ emitted' = sent \o held /\ cited' = noted
  <2>1. sent \o held \in Seq(Symbols)
    BY ConcatProperties
  <2> QED BY <1>2, <1>5, <1>7, <2>1
<1>9. FilterTypeOK'
  <2>1. <<>> \in Seq(Symbols)
    OBVIOUS
  <2> QED BY <1>1, <1>3, <1>8, <2>1 DEF FilterTypeOK
<1>10. Given' \in Nat /\ unread' = From(whole', Given' + 1)
  <2>1. Given \in Nat /\ unread = From(whole, Given + 1)
    BY DEF FilterBooks
  <2>2. Given' = Given
    BY <1>3 DEF Given
  <2> QED BY <1>3, <2>1, <2>2
<1>11. ASSUME ShortIds(whole)
       PROVE  Stands(Len(whole) + 1, sent \o held, noted)
  <2>1. PICK at \in 1 .. end + 1 :
          Stands(at, emitted, cited) /\ pending = SubSeq(whole, at, end) /\ Passed(at)
    BY <1>3, <1>6, <1>11 DEF FilterBooks
  <2>2. LoopFits(Drain(pending, cited), emitted, end)
    BY <1>1, <1>11, <2>1, DrainFits
  <2>3. PICK from \in 1 .. end + 1 : Stands(from, sent, noted) /\ held = SubSeq(whole, from, end)
    BY <1>2, <1>5, <1>7, <2>2 DEF LoopFits
  <2>4. Len(held) = end - from + 1 /\ \A i \in 1 .. Len(held) : held[i] = whole[from + i - 1]
    BY <1>1, <2>3, HeldIsPart DEF IsPart
  <2>5. ASSUME NEW j \in from .. end PROVE ~ StartsMarker(whole, j)
    <3>1. ASSUME NEW k \in j .. Len(whole) PROVE whole[k] # Close
      <4>1. PICK i \in Int : i = k - from + 1 /\ from + i - 1 = k
        OBVIOUS
      <4>2. i \in 1 .. Len(held)
        BY <1>6, <2>4, <4>1
      <4> QED BY <1>4, <1>5, <2>4, <4>1, <4>2
    <3>2. j \in 1 .. Len(whole)
      BY <1>6
    <3> QED BY <1>1, <3>1, <3>2, MarkerAt
  <2>6. end \in Nat /\ from <= end + 1 /\ end <= Len(whole)
    BY <1>6
  <2>7. Stands(end + 1, sent \o SubSeq(whole, from, end), noted)
    BY <1>1, <2>3, <2>5, <2>6, StandsPast
  <2> QED BY <1>6, <2>3, <2>7
<1>12. ShortIds(whole') => Stands(Len(whole) + 1, emitted, cited)'
  <2>1. Stands(Len(whole) + 1, sent \o held, noted) => Stands(Len(whole) + 1, emitted, cited)'
    BY <1>3, <1>8 DEF Stands
  <2> QED BY <1>3, <1>11, <2>1
<1> QED BY <1>1, <1>3, <1>9, <1>10, <1>12 DEF FilterBooks

LEMMA FilterIdle ==
  ASSUME FilterBooks, UNCHANGED filterVars
  PROVE  FilterBooks'
BY DEF FilterBooks, filterVars, FilterTypeOK, Given, Stands, Passed

LEMMA FilterBooksTell == FilterBooks => FilterInv
<1> SUFFICES ASSUME FilterBooks PROVE FilterInv
  OBVIOUS
<1>1. FilterTypeOK /\ whole \in Seq(Symbols)
  BY DEF FilterBooks, FilterTypeOK
<1>2. ASSUME ShortIds(whole)
      PROVE  \E at : /\ Stands(at, emitted, cited) /\ (flushed => at = Len(whole) + 1)
                     /\ ~ flushed => Passed(at)
  BY <1>2 DEF FilterBooks
<1>3. ChunksDoNotMatter
  BY <1>1, <1>2, StandFacts DEF ChunksDoNotMatter
<1>4. ASSUME ShortIds(whole), Apart(whole),
             NEW i \in 1 .. Len(emitted), IsPrefix(Open, From(emitted, i))
      PROVE  flushed /\ ~ StartsMarker(emitted, i)
  <2>1. PICK at : /\ Stands(at, emitted, cited) /\ (flushed => at = Len(whole) + 1)
                  /\ ~ flushed => Passed(at)
    BY <1>2, <1>4
  <2>2. KeptFits(whole, at, emitted)
    BY <1>1, <1>4, <2>1, KeptStands
  <2>3. emitted \in Seq(Symbols)
    BY <1>1 DEF FilterTypeOK
  <2>4. Opening(emitted, i) /\ i \in 1 .. Len(emitted) - 1
    <3>1. Opening(emitted, i)
      BY <1>4, <2>3, OpensAt
    <3> QED BY <2>3, <3>1 DEF Opening
  <2>5. /\ \E j \in 1 .. at - 1 : Opening(whole, j) /\ ~ StartsMarker(whole, j)
        /\ \A k \in i .. Len(emitted) : emitted[k] # Close
    BY <2>2, <2>4 DEF KeptFits
  <2>6. flushed
    BY <2>1, <2>5 DEF Passed, FilterTypeOK
  <2>7. ~ StartsMarker(emitted, i)
    BY <2>3, <2>5, MarkerAt
  <2> QED BY <2>6, <2>7
<1>5. NoMarkerIsSent
  BY <1>4 DEF NoMarkerIsSent
<1> QED BY <1>1, <1>3, <1>5 DEF FilterInv

\* However the model's text is cut into chunks, the student is shown a prefix
\* of the text less its markers at every moment and all of it at the end, and
\* the citations are those of the markers, in order; and what the student is
\* shown contains no marker or part of one, but for an opening that has no end:
\* for every text the model can send, every way of cutting it, every bound on
\* the length of an id.
THEOREM ChunksNeverMatter == FilterSpec => []FilterInv
<1>1. FilterInit => FilterBooks
  BY FilterStarts
<1>2. FilterBooks /\ [FilterNext]_filterVars => FilterBooks'
  BY PushKeeps, FlushKeeps, FilterIdle DEF FilterNext
<1>3. FilterBooks => FilterInv
  BY FilterBooksTell
<1> QED BY <1>1, <1>2, <1>3, PTL DEF FilterSpec

=============================================================================

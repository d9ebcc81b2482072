----------------------------- MODULE QuietHours -----------------------------
(***************************************************************************)
(* When a notification may leave: planDelivery, the recipient's quiet      *)
(* hours in local time, and the search for their end through a change of   *)
(* the clocks.  Time is counted in the steps of that search, a fraction of *)
(* an hour that divides every zone's offset.                               *)
(***************************************************************************)
EXTENDS Naturals

CONSTANTS
  HoursPerDay,
  StepsPerHour,   \* an hour in steps of STEP_MS
  MaxSearchHours  \* MAX_SEARCH_HOURS

ASSUME QuietAssumption ==
  /\ {HoursPerDay, StepsPerHour} \subseteq Nat \ {0}
  \* 48 hours of 24: "twice the longest possible answer".
  /\ MaxSearchHours \in Nat /\ MaxSearchHours >= 2 * HoursPerDay

VARIABLES
  plan,       \* the notification, its recipient and the instant it is planned at
  candidate,  \* the instant that the search has come to
  outcome     \* "planning", "searching", "now", "later"

quietVars == <<plan, candidate, outcome>>

-----------------------------------------------------------------------------
Day == HoursPerDay * StepsPerHour
Hours == 0 .. HoursPerDay - 1
MaxSteps == MaxSearchHours * StepsPerHour

\* localTimeIn, external (Intl): the zone's offset, and one change of the clocks
\* by an hour, at the top of a local hour, forward, back or none.
Zone == [offset : 0 .. StepsPerHour - 1, change : 0 .. 2 * Day,
         by : {0, StepsPerHour, Day - StepsPerHour}]
Local(zone, t) == (t + zone.offset + (IF t >= zone.change THEN zone.by ELSE 0)) % Day
Hour(zone, t) == Local(zone, t) \div StepsPerHour
OnTheHour(zone, t) == Local(zone, t) % StepsPerHour = 0

\* isWithinQuietHours; a window that ends where it starts is no window.
Within(window, hour) ==
  IF window.start < window.end THEN hour >= window.start /\ hour < window.end
  ELSE window.start # window.end /\ (hour >= window.start \/ hour < window.end)
Quiet(t) == Within(plan.window, Hour(plan.zone, t))

\* `exempt`: no channel is left, the kind is urgent, or quiet hours are off.
Plans == [at : 0 .. Day - 1, exempt : BOOLEAN, zone : Zone,
          window : [start : Hours, end : Hours]]

-----------------------------------------------------------------------------
\* planDelivery.
PlanDelivery ==
  /\ outcome = "planning"
  /\ outcome' = IF plan.exempt \/ ~Quiet(plan.at) THEN "now" ELSE "searching"
  /\ UNCHANGED <<plan, candidate>>

\* quietHoursEndAt: the next candidate.
\* Faulty: whole hours from an hour of UTC.
NextHour == (candidate \div StepsPerHour + 1) * StepsPerHour
NextCandidate == candidate + 1
EndsQuietHours(t) ==
  Hour(plan.zone, t) = plan.window.end /\ OnTheHour(plan.zone, t)

\* ... until the window ends, or the search gives up.
SearchOn ==
  /\ outcome = "searching"
  /\ candidate' = NextCandidate
  /\ outcome' = IF EndsQuietHours(candidate') \/ candidate' >= plan.at + MaxSteps
                THEN "later" ELSE "searching"
  /\ UNCHANGED plan

-----------------------------------------------------------------------------
QuietInit ==
  /\ plan \in Plans
  /\ plan.zone.by = 0 => plan.zone.change = 0
  /\ (plan.zone.change + plan.zone.offset) % StepsPerHour = 0
  /\ candidate = plan.at
  /\ outcome = "planning"

QuietNext == PlanDelivery \/ SearchOn

QuietSpec == QuietInit /\ [][QuietNext]_quietVars

-----------------------------------------------------------------------------
QuietTypeOK ==
  /\ plan \in Plans
  /\ candidate \in Nat
  /\ outcome \in {"planning", "searching", "now", "later"}

\* The clocks went forward over the very hour at which the window ends.
EndWasSkipped ==
  /\ plan.zone.by = StepsPerHour
  /\ plan.at < plan.zone.change /\ plan.zone.change <= candidate
  /\ Hour(plan.zone, plan.zone.change) = (plan.window.end + 1) % HoursPerDay

\* A notification that is not exempt leaves outside the recipient's quiet
\* hours, whatever the clocks do; and it leaves as soon as they end, but on the
\* day on which the clocks go forward over the hour of their end: then it waits
\* for that hour of the next day.  ("Every hour of the day occurs within any
\* 24-hour span", quiet-hours.ts, is not true of that day.)
LeavesOutsideQuietHours ==
  /\ outcome = "now" /\ ~plan.exempt => ~Quiet(plan.at)
  /\ outcome = "later" =>
       /\ ~Quiet(candidate)
       /\ (\A t \in plan.at .. candidate - 1 : Quiet(t)) \/ EndWasSkipped

\* Types, and when a notification leaves.
QuietInv == QuietTypeOK /\ LeavesOutsideQuietHours

=============================================================================

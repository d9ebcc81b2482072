---------------------------- MODULE RateLimiter ----------------------------
(***************************************************************************)
(* The fixed-window rate limiter and one key of it: a counter in the       *)
(* shared cache, and on every replica the counter it falls back to and the *)
(* deadline it remembers.  A call to the cache is a step that takes effect *)
(* and answers, or fails with or without effect.                           *)
(***************************************************************************)
EXTENDS Naturals

CONSTANTS
  Attempts,   \* calls of consume being served at one time, each on one replica
  Replicas,   \* processes that share the cache
  Limit,      \* rule.limit
  Window,     \* rule.windowSeconds
  LastTick,   \* bound on the clock
  MaxCount,   \* bound on the counters
  Never       \* no expiry

ASSUME LimiterAssumption ==
  /\ {Limit, Window, MaxCount} \subseteq Nat \ {0}
  /\ LastTick \in Nat
  /\ Never \notin Nat

VARIABLES
  tick,      \* the clock
  counter,   \* the key in the cache
  fallback,  \* InProcessRateLimitCounters, on each replica
  deadline,  \* WindowDeadlines, on each replica; 0 when there is none
  attempt,   \* where each call stands
  orphaned,  \* history: the live counter was left without an expiry
  destroyed, \* history: some counter went before its time
  alarmed    \* history: an eviction has been reported

limiterVars ==
  <<tick, counter, fallback, deadline, attempt, orphaned, destroyed, alarmed>>

-----------------------------------------------------------------------------
\* A counter of 0 is an absent key.
NoCounter == [count |-> 0, expires |-> Never]
Alive(row) == row.count > 0 /\ row.expires \notin 0 .. tick
Current == IF Alive(counter) THEN counter ELSE NoCounter
Raised(row) == [row EXCEPT !.count = @ + 1]

AttemptState == [step : {"idle", "first", "expiring", "clearing", "local",
                         "resetting", "admitted", "refused"},
                 on : Replicas]
AttemptSteps(c, step) == attempt' = [attempt EXCEPT ![c].step = step]
\* consume: `count > rule.limit` is refused.
Verdict(n) == IF n > Limit THEN "refused" ELSE "admitted"
\* Attempts that have created a counter and not yet seen to its expiry.
Attending == {c \in Attempts : attempt[c].step \in {"first", "expiring", "clearing"}}

\* The counter goes, at a time other than its expiry.
Destroy ==
  /\ counter' = NoCounter
  /\ orphaned' = FALSE
  /\ destroyed' = (destroyed \/ Alive(counter))

-----------------------------------------------------------------------------
\* countInCache: incr.  The first count goes on to observe the window.
Count(c) ==
  /\ attempt[c].step = "idle" /\ Current.count < MaxCount
  /\ counter' = Raised(Current)
  /\ orphaned' = (orphaned /\ Alive(counter))
  /\ AttemptSteps(c, IF Current.count = 0 THEN "first" ELSE Verdict(Current.count + 1))
  /\ UNCHANGED <<tick, fallback, deadline, destroyed, alarmed>>

\* ... incr fails, and may have counted all the same: the limiter falls back.
CountFails(c) ==
  /\ attempt[c].step = "idle" /\ Current.count < MaxCount
  /\ \/ UNCHANGED <<counter, orphaned>>
     \/ /\ counter' = Raised(Current)
        /\ orphaned' = ((orphaned /\ Alive(counter)) \/ Current.count = 0)
  /\ AttemptSteps(c, "local")
  /\ UNCHANGED <<tick, fallback, deadline, destroyed, alarmed>>

\* ... observeWindowStart, which reports an eviction when the last deadline it
\* noted is still open, and the call of expire.
ObserveWindowStart(c) ==
  /\ attempt[c].step = "first"
  /\ LET i == attempt[c].on
     IN /\ alarmed' = (alarmed \/ deadline[i] > tick)
        /\ deadline' = [deadline EXCEPT ![i] = tick + Window]
  /\ AttemptSteps(c, "expiring")
  /\ UNCHANGED <<tick, counter, fallback, orphaned, destroyed>>

WithExpiry(row) == IF Alive(row) THEN [row EXCEPT !.expires = tick + Window] ELSE NoCounter

\* ... expire answers.
Expire(c) ==
  /\ attempt[c].step = "expiring"
  /\ counter' = WithExpiry(counter)
  /\ orphaned' = FALSE
  /\ AttemptSteps(c, Verdict(1))
  /\ UNCHANGED <<tick, fallback, deadline, destroyed, alarmed>>

\* ... expire fails, with or without effect: the counter is to be deleted.
\* Faulty: the failure goes straight to the fallback.
LeftInPlace == "local"
AfterFailure == "clearing"
ExpireFails(c) ==
  /\ attempt[c].step = "expiring"
  /\ \/ UNCHANGED <<counter, orphaned>>
     \/ counter' = WithExpiry(counter) /\ orphaned' = FALSE
  /\ AttemptSteps(c, AfterFailure)
  /\ UNCHANGED <<tick, fallback, deadline, destroyed, alarmed>>

\* ... the del that follows; when it fails too, "the TTL-less key is the
\* cache's problem now".
Clear(c) ==
  /\ attempt[c].step = "clearing"
  /\ \/ Destroy
     \/ /\ orphaned' = (orphaned \/ (Alive(counter) /\ counter.expires = Never))
        /\ UNCHANGED <<counter, destroyed>>
  /\ AttemptSteps(c, "local")
  /\ UNCHANGED <<tick, fallback, deadline, alarmed>>

\* activateFallback: the counter of this replica.
FallBack(c) ==
  /\ attempt[c].step = "local"
  /\ LET i == attempt[c].on
         open == Alive(fallback[i])
         n == IF open THEN fallback[i].count + 1 ELSE 1
     IN /\ n <= MaxCount
        /\ fallback' = [fallback EXCEPT ![i] =
             [count |-> n, expires |-> IF open THEN @.expires ELSE tick + Window]]
        /\ AttemptSteps(c, Verdict(n))
  /\ UNCHANGED <<tick, counter, deadline, orphaned, destroyed, alarmed>>

\* The caller takes the answer; after a success it may reset the key: the
\* replica's own counter and deadline go at once, the cache's with a later del.
Answered(c) ==
  /\ attempt[c].step \in {"admitted", "refused"}
  /\ \/ AttemptSteps(c, "idle") /\ UNCHANGED <<fallback, deadline>>
     \/ /\ attempt[c].step = "admitted"
        /\ LET i == attempt[c].on
           IN /\ fallback' = [fallback EXCEPT ![i] = NoCounter]
              /\ deadline' = [deadline EXCEPT ![i] = 0]
        /\ AttemptSteps(c, "resetting")
  /\ UNCHANGED <<tick, counter, orphaned, destroyed, alarmed>>

Reset(c) ==
  /\ attempt[c].step = "resetting"
  /\ Destroy \/ UNCHANGED <<counter, orphaned, destroyed>>
  /\ AttemptSteps(c, "idle")
  /\ UNCHANGED <<tick, fallback, deadline, alarmed>>

-----------------------------------------------------------------------------
\* The cache evicts the key or loses its data (allkeys-lru, a failover).
Evict ==
  /\ Alive(counter)
  /\ Destroy
  /\ UNCHANGED <<tick, fallback, deadline, attempt, alarmed>>

\* A replica restarts: what it remembered is gone, and so are its calls.
Restart(i) ==
  /\ fallback' = [fallback EXCEPT ![i] = NoCounter]
  /\ deadline' = [deadline EXCEPT ![i] = 0]
  /\ orphaned' = (orphaned \/ (/\ Alive(counter) /\ counter.expires = Never
                               /\ \E c \in Attending : attempt[c].on = i))
  /\ attempt' = [c \in Attempts |->
       IF attempt[c].on = i THEN [attempt[c] EXCEPT !.step = "idle"] ELSE attempt[c]]
  /\ UNCHANGED <<tick, counter, destroyed, alarmed>>

TickPasses ==
  /\ tick < LastTick
  /\ tick' = tick + 1
  /\ UNCHANGED <<counter, fallback, deadline, attempt, orphaned, destroyed, alarmed>>

-----------------------------------------------------------------------------
LimiterInit ==
  /\ tick = 0
  /\ counter = NoCounter
  /\ fallback = [i \in Replicas |-> NoCounter]
  /\ deadline = [i \in Replicas |-> 0]
  /\ attempt \in [Attempts -> {[step |-> "idle", on |-> i] : i \in Replicas}]
  /\ orphaned = FALSE /\ destroyed = FALSE /\ alarmed = FALSE

LimiterNext ==
  \/ \E c \in Attempts :
       \/ Count(c) \/ CountFails(c)
       \/ ObserveWindowStart(c) \/ Expire(c) \/ ExpireFails(c) \/ Clear(c)
       \/ FallBack(c) \/ Answered(c) \/ Reset(c)
  \/ Evict
  \/ \E i \in Replicas : Restart(i)
  \/ TickPasses

LimiterSpec == LimiterInit /\ [][LimiterNext]_limiterVars

-----------------------------------------------------------------------------
CounterRow == [count : Nat, expires : Nat \cup {Never}]

LimiterTypeOK ==
  /\ tick \in Nat
  /\ counter \in CounterRow
  /\ fallback \in [Replicas -> CounterRow]
  /\ deadline \in [Replicas -> Nat]
  /\ attempt \in [Attempts -> AttemptState]
  /\ {orphaned, destroyed, alarmed} \subseteq BOOLEAN

\* No lockout outlasts a window: a counter without an expiry is being attended
\* to, unless its incr lost the reply, its replica restarted, or its expire and
\* the del after it both failed; every other window closes in time.
LockoutsEnd ==
  /\ Alive(counter) /\ counter.expires = Never => Attending # {} \/ orphaned
  /\ counter.expires # Never => counter.expires <= tick + Window
  /\ \A i \in Replicas : /\ Alive(fallback[i]) => fallback[i].expires \in tick + 1 .. tick + Window
                         /\ deadline[i] <= tick + Window

\* An eviction is reported only when some counter went before its time.  (Not
\* always by eviction, as limiter.ts has it: the limiter's own del after a
\* failed expire, or a reset on another replica, is reported as well.)
AlarmsAreReal == alarmed => destroyed

\* Types, ends of lockouts, and honest reports.
LimiterInv == LimiterTypeOK /\ LockoutsEnd /\ AlarmsAreReal

=============================================================================

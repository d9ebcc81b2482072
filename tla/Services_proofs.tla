--------------------------- MODULE Services_proofs ---------------------------
(***************************************************************************)
(* Smaller protocols of the service: a worker's `stopped` row, the rate    *)
(* limiter of one key, a student's day with Foxy, a parent's weekly        *)
(* digest, and the HTTP process with its sink of metrics.  Each has an     *)
(* inductive invariant of its own.                                         *)
(***************************************************************************)
EXTENDS WorkerShutdown, RateLimiter, Tutor, WeeklyDigest, ServerShutdown,
        FiniteSetTheorems, SequenceTheorems, TLAPS

-----------------------------------------------------------------------------
(* The worker's shutdown.  A beat belongs to the loop; the last write is   *)
(* sent when the loop has ended or was not waited for.                     *)
ShutInv ==
  /\ ShutdownTypeOK
  /\ beat # "none" => loop \in {"firstBeat", "beat"}
  /\ final # "none" => stop \in {"stopping", "exited"}
  /\ stop \in {"drained", "stopping"} => loop = "ended" \/ overran
  /\ final # "none" => loop = "ended" \/ overran
  /\ final = "landed" => row = "stopped" \/ overran
  /\ row = "stopped" => final = "landed"

LEMMA ShutStep == ASSUME ShutInv, [ShutdownNext]_shutdownVars PROVE ShutInv'
<1> USE DEF ShutInv, ShutdownTypeOK, Runs, Exited, Stopping
<1>1. CASE Start \/ FinishJob \/ SendBeat
  <2>1. CASE Start
    BY <2>1 DEF Start
  <2>2. CASE FinishJob \/ SendBeat
    BY <2>2 DEF FinishJob, SendBeat
  <2> QED BY <1>1, <2>1, <2>2
<1>6. CASE BeginLoop \/ EndTick
  <2>1. loop' \in {"ended", "job"} /\ beat' = "none" /\ loop # "ended"
          /\ UNCHANGED <<stop, final, row, overran>>
    BY <1>6 DEF BeginLoop, EndTick
  <2> QED BY <2>1
<1>2. CASE Terminate
  BY <1>2 DEF Terminate, NothingToDrain
<1>3. CASE DrainEnds \/ DrainTimesOut \/ SendStopped \/ Exit
  BY <1>3 DEF DrainEnds, DrainTimesOut, SendStopped, Exit
<1>7. CASE Killed
  <2>1. stop' = "exited" /\ overran' \in BOOLEAN /\ (overran \/ final # "landed" => overran')
          /\ UNCHANGED <<loop, beat, final, row>>
    BY <1>7, Zenon DEF Killed
  <2> QED BY <2>1
<1>4. CASE BeatLands \/ BeatFails \/ StoppedLands \/ StoppedFails
  BY <1>4 DEF BeatLands, BeatFails, StoppedLands, StoppedFails, Land
<1>5. CASE UNCHANGED shutdownVars
  BY <1>5 DEF shutdownVars
<1> QED BY <1>1, <1>2, <1>3, <1>4, <1>5, <1>6, <1>7 DEF ShutdownNext

(* A `stopped` row is true, whenever the loop was waited for to its end.   *)
THEOREM StoppedRowsAreTrue == ShutdownSpec => []ShutdownInv
<1>1. ShutdownInit => ShutInv
  BY DEF ShutdownInit, ShutInv, ShutdownTypeOK
<1>2. ShutInv /\ [ShutdownNext]_shutdownVars => ShutInv'
  BY ShutStep
<1>3. ShutInv => ShutdownInv
  BY DEF ShutInv, ShutdownInv, ShutdownTypeOK, StoppedIsTrue
<1> QED BY <1>1, <1>2, <1>3, PTL DEF ShutdownSpec

-----------------------------------------------------------------------------
(* The rate limiter.  The reports are honest because a replica's open      *)
(* deadline ends with the counter, or before it, unless a counter went     *)
(* before its time.                                                        *)
Opening == {"first", "expiring"}
WindowsKnown ==
  /\ \A i \in Replicas : deadline[i] > tick =>
       Alive(counter) /\ (counter.expires = Never \/ counter.expires >= deadline[i])
  /\ \A c \in Attempts : attempt[c].step \in Opening =>
       /\ Alive(counter) /\ counter.expires = Never
       /\ \A d \in Attempts : attempt[d].step \in Opening => d = c
       /\ attempt[c].step = "first" => \A i \in Replicas : deadline[i] <= tick

LimInv ==
  /\ LimiterTypeOK
  /\ LockoutsEnd
  /\ AlarmsAreReal
  /\ destroyed \/ WindowsKnown

AttemptKinds == {"idle", "first", "expiring", "clearing", "local", "resetting",
                 "admitted", "refused"}

LEMMA WindowIsPositive == Window \in Nat /\ Window >= 1 /\ MaxCount \in Nat /\ Never \notin Nat
BY LimiterAssumption

(* What the operators on rows do.                                          *)
LEMMA AliveMeans ==
  ASSUME tick \in Nat, NEW counted \in CounterRow
  PROVE  Alive(counted) <=> counted.count > 0 /\ (counted.expires = Never \/ counted.expires > tick)
BY WindowIsPositive DEF Alive, CounterRow

LEMMA CounterRows ==
  ASSUME tick \in Nat, NEW counted \in CounterRow
  PROVE  /\ NoCounter \in CounterRow /\ NoCounter.count = 0 /\ NoCounter.expires = Never
         /\ ~Alive(NoCounter)
         /\ Raised(counted) \in CounterRow /\ Raised(counted).expires = counted.expires
         /\ Raised(counted).count = counted.count + 1
         /\ WithExpiry(counted) \in CounterRow
         /\ Alive(counted) => /\ WithExpiry(counted).expires = tick + Window
                          /\ Alive(WithExpiry(counted))
         /\ ~Alive(counted) => WithExpiry(counted) = NoCounter
<1>1. NoCounter \in CounterRow /\ NoCounter.count = 0 /\ NoCounter.expires = Never
  BY DEF NoCounter, CounterRow
<1>2. ~Alive(NoCounter)
  BY <1>1 DEF Alive
<1>3. Raised(counted) \in CounterRow /\ Raised(counted).expires = counted.expires
        /\ Raised(counted).count = counted.count + 1
  BY DEF Raised, CounterRow
<1>4. CASE Alive(counted)
  <2>1. WithExpiry(counted) = [counted EXCEPT !.expires = tick + Window]
    BY <1>4 DEF WithExpiry
  <2>2. /\ WithExpiry(counted) \in CounterRow /\ WithExpiry(counted).expires = tick + Window
        /\ WithExpiry(counted).count = counted.count
    BY <2>1, WindowIsPositive DEF CounterRow
  <2>3. Alive(WithExpiry(counted))
    BY <1>4, <2>2, AliveMeans, WindowIsPositive
  <2> QED BY <1>1, <1>2, <1>3, <1>4, <2>2, <2>3
<1>5. CASE ~Alive(counted)
  BY <1>1, <1>2, <1>3, <1>5 DEF WithExpiry
<1> QED BY <1>4, <1>5

LEMMA AttemptMoves ==
  ASSUME LimiterTypeOK, NEW c \in Attempts, NEW step \in AttemptKinds, AttemptSteps(c, step)
  PROVE  /\ attempt' \in [Attempts -> AttemptState]
         /\ \A d \in Attempts : attempt'[d].step = IF d = c THEN step ELSE attempt[d].step
         /\ \A d \in Attempts : attempt'[d].on = attempt[d].on
BY DEF LimiterTypeOK, AttemptSteps, AttemptState, AttemptKinds

LEMMA VerdictKinds == \A n : Verdict(n) \in {"admitted", "refused"}
BY DEF Verdict

LEMMA CurrentMeans ==
  ASSUME LimiterTypeOK
  PROVE  /\ Current \in CounterRow
         /\ Current.count = 0 <=> ~Alive(counter)
         /\ Alive(counter) => Current = counter
         /\ ~Alive(counter) => Current = NoCounter
<1>1. tick \in Nat /\ counter \in CounterRow
  BY DEF LimiterTypeOK
<1>2. NoCounter \in CounterRow /\ NoCounter.count = 0
  BY <1>1, CounterRows
<1>3. Alive(counter) => counter.count > 0
  BY DEF Alive
<1> QED BY <1>1, <1>2, <1>3 DEF Current

(* One attempt moves and the counter may change: what is left to show.     *)
LEMMA CounterStep ==
  ASSUME LimInv, NEW c \in Attempts, NEW step \in AttemptKinds, AttemptSteps(c, step),
         tick' = tick, fallback' = fallback, deadline' = deadline, alarmed' = alarmed,
         counter' \in CounterRow, orphaned' \in BOOLEAN, destroyed' \in BOOLEAN,
         destroyed => destroyed',
         counter'.expires # Never => counter'.expires <= tick + Window,
         Alive(counter)' /\ counter'.expires = Never => Attending' # {} \/ orphaned',
         destroyed' \/ WindowsKnown'
  PROVE  LimInv'
<1>1. LimiterTypeOK'
  BY AttemptMoves DEF LimInv, LimiterTypeOK
<1>2. LockoutsEnd'
  BY DEF LimInv, LockoutsEnd, Alive
<1>3. AlarmsAreReal'
  BY DEF LimInv, AlarmsAreReal
<1> QED BY <1>1, <1>2, <1>3 DEF LimInv

LEMMA CountStep == ASSUME LimInv, NEW c \in Attempts, Count(c) PROVE LimInv'
<1>1. LimiterTypeOK /\ tick \in Nat /\ counter \in CounterRow /\ tick' = tick
  BY DEF LimInv, LimiterTypeOK, Count
<1>2. CASE ~Alive(counter)
  <2>1. Current = NoCounter /\ Current.count = 0
    BY <1>1, <1>2, CurrentMeans
  <2>2. AttemptSteps(c, "first") /\ "first" \in AttemptKinds
    BY <2>1 DEF Count, AttemptKinds
  <2>3. counter' \in CounterRow /\ counter'.count = 1 /\ counter'.expires = Never
    BY <1>1, <2>1, CounterRows DEF Count
  <2>4. Alive(counter)'
    BY <1>1, <2>3, WindowIsPositive DEF Alive, LimiterTypeOK
  <2>5. \A d \in Attempts : attempt'[d].step = IF d = c THEN "first" ELSE attempt[d].step
    BY <1>1, <2>2, AttemptMoves
  <2>6. c \in Attending'
    BY <2>5 DEF Attending
  <2>7. WindowsKnown => WindowsKnown'
    BY <1>1, <1>2, <2>3, <2>4, <2>5 DEF WindowsKnown, Count, Opening, LimiterTypeOK
  <2>8. orphaned' \in BOOLEAN
    BY DEF Count
  <2> QED BY <1>1, <2>2, <2>3, <2>6, <2>7, <2>8, CounterStep DEF Count, LimInv, LimiterTypeOK
<1>3. CASE Alive(counter)
  <2>1. Current = counter /\ Current.count # 0
    BY <1>1, <1>3, CurrentMeans
  <2>2. PICK step \in {"admitted", "refused"} : AttemptSteps(c, step)
    BY <2>1, VerdictKinds DEF Count
  <2>3. step \in AttemptKinds
    BY DEF AttemptKinds
  <2>4. counter' \in CounterRow /\ counter'.count > 0 /\ counter'.expires = counter.expires
    BY <1>1, <2>1, CounterRows DEF Count, CounterRow
  <2>5. Alive(counter)'
    BY <1>1, <1>3, <2>4, AliveMeans DEF Alive
  <2>6. \A d \in Attempts : attempt'[d].step = IF d = c THEN step ELSE attempt[d].step
    BY <1>1, <2>2, <2>3, AttemptMoves
  <2>7. Attending \subseteq Attending'
    BY <2>6 DEF Attending, Count
  <2>8. orphaned' = orphaned /\ orphaned \in BOOLEAN
    BY <1>1, <1>3 DEF Count, LimiterTypeOK
  <2>9. WindowsKnown => WindowsKnown'
    BY <1>1, <1>3, <2>4, <2>5, <2>6 DEF WindowsKnown, Count, Opening
  <2> QED BY <1>1, <1>3, <2>2, <2>3, <2>4, <2>7, <2>8, <2>9, CounterStep
          DEF Count, LimInv, LimiterTypeOK, LockoutsEnd
<1> QED BY <1>2, <1>3

LEMMA CountFailsStep == ASSUME LimInv, NEW c \in Attempts, CountFails(c) PROVE LimInv'
<1>1. LimiterTypeOK /\ tick \in Nat /\ counter \in CounterRow /\ tick' = tick
  BY DEF LimInv, LimiterTypeOK, CountFails
<1>2. AttemptSteps(c, "local") /\ "local" \in AttemptKinds
  BY DEF CountFails, AttemptKinds
<1>3. \A d \in Attempts : attempt'[d].step = IF d = c THEN "local" ELSE attempt[d].step
  BY <1>1, <1>2, AttemptMoves
<1>4. Attending' = Attending
  BY <1>3 DEF Attending, CountFails
<1>5. CASE UNCHANGED <<counter, orphaned>>
  <2>1. WindowsKnown => WindowsKnown'
    BY <1>1, <1>3, <1>5 DEF WindowsKnown, CountFails, Opening, Alive
  <2>2. Alive(counter)' <=> Alive(counter)
    BY <1>1, <1>5 DEF Alive
  <2> QED BY <1>1, <1>2, <1>4, <1>5, <2>1, <2>2, CounterStep
          DEF CountFails, LimInv, LimiterTypeOK, LockoutsEnd
<1>6. CASE counter' = Raised(Current) /\ orphaned' = ((orphaned /\ Alive(counter)) \/ Current.count = 0)
  <2>1. Current \in CounterRow /\ (Current.count = 0 <=> ~Alive(counter))
          /\ (Alive(counter) => Current = counter)
          /\ (~Alive(counter) => Current = NoCounter)
    BY <1>1, CurrentMeans
  <2>2. counter' \in CounterRow /\ counter'.expires = Current.expires /\ counter'.count > 0
    BY <1>1, <1>6, <2>1, CounterRows DEF CounterRow
  <2>3. Current.expires = IF Alive(counter) THEN counter.expires ELSE Never
    BY <1>1, <2>1, CounterRows
  <2>4. Alive(counter)'
    BY <1>1, <2>2, <2>3, AliveMeans, WindowIsPositive DEF Alive
  <2>5. orphaned' \in BOOLEAN /\ (~Alive(counter) => orphaned') /\ (Alive(counter) => orphaned' = orphaned)
    BY <1>1, <1>6, <2>1 DEF LimiterTypeOK
  <2>6. WindowsKnown => WindowsKnown'
    BY <1>1, <1>3, <2>2, <2>3, <2>4 DEF WindowsKnown, CountFails, Opening
  <2>7. counter'.expires # Never => counter'.expires <= tick + Window
    BY <2>2, <2>3 DEF LimInv, LockoutsEnd
  <2>8. counter'.expires = Never => Attending' # {} \/ orphaned'
    BY <1>4, <2>2, <2>3, <2>5 DEF LimInv, LockoutsEnd
  <2>9. destroyed' = destroyed /\ destroyed \in BOOLEAN /\ (destroyed \/ WindowsKnown)
    BY DEF CountFails, LimInv, LimiterTypeOK
  <2> QED BY <1>1, <1>2, <2>2, <2>5, <2>6, <2>7, <2>8, <2>9, CounterStep DEF CountFails
<1> QED BY <1>5, <1>6 DEF CountFails

LEMMA ExpireStep ==
  ASSUME LimInv, NEW c \in Attempts, Expire(c) \/ ExpireFails(c) PROVE LimInv'
<1>1. LimiterTypeOK /\ tick \in Nat /\ counter \in CounterRow /\ tick' = tick
        /\ attempt[c].step = "expiring"
  BY DEF LimInv, LimiterTypeOK, Expire, ExpireFails
<1>2. PICK step \in {"admitted", "refused", "clearing"} :
        AttemptSteps(c, step) /\ (ExpireFails(c) => step = "clearing")
  BY VerdictKinds DEF Expire, ExpireFails, AfterFailure
<1>3. step \in AttemptKinds
  BY DEF AttemptKinds
<1>4. \A d \in Attempts : attempt'[d].step = IF d = c THEN step ELSE attempt[d].step
  BY <1>1, <1>2, <1>3, AttemptMoves
<1>5. /\ destroyed' = destroyed /\ destroyed \in BOOLEAN /\ (destroyed \/ WindowsKnown)
      /\ deadline' = deadline /\ fallback' = fallback /\ alarmed' = alarmed
  BY <1>1 DEF Expire, ExpireFails, LimInv, LimiterTypeOK
<1>6. CASE counter' = WithExpiry(counter) /\ orphaned' = FALSE
  <2>1. counter' \in CounterRow
    BY <1>1, <1>6, CounterRows
  <2>2. CASE Alive(counter)
    <3>1. counter'.expires = tick + Window /\ Alive(counter)'
      BY <1>1, <1>6, <2>2, CounterRows DEF Alive
    <3>2. \A i \in Replicas : deadline[i] <= tick + Window
      BY DEF LimInv, LockoutsEnd
    <3>3. WindowsKnown => WindowsKnown'
      BY <1>1, <1>2, <1>4, <1>5, <3>1, <3>2 DEF WindowsKnown, Opening
    <3>4. tick + Window # Never
      BY <1>1, WindowIsPositive
    <3>5. counter'.expires <= tick + Window /\ counter'.expires # Never
      BY <1>1, <3>1, <3>4, WindowIsPositive
    <3>6. destroyed' \/ WindowsKnown'
      BY <1>5, <3>3
    <3>7. orphaned' \in BOOLEAN /\ destroyed' \in BOOLEAN /\ (destroyed => destroyed')
      BY <1>5, <1>6
    <3> QED BY <1>1, <1>2, <1>3, <1>5, <2>1, <3>5, <3>6, <3>7, CounterStep
  <2>3. CASE ~Alive(counter)
    <3>1. counter' = NoCounter /\ counter'.expires = Never /\ ~Alive(counter)'
      BY <1>1, <1>6, <2>3, CounterRows DEF Alive
    <3>2. ~WindowsKnown
      BY <1>1, <2>3 DEF WindowsKnown, Opening
    <3> QED BY <1>1, <1>2, <1>3, <1>5, <1>6, <2>1, <3>1, <3>2, CounterStep
  <2> QED BY <2>2, <2>3
<1>7. CASE ExpireFails(c) /\ UNCHANGED <<counter, orphaned>>
  <2>1. c \in Attending'
    BY <1>2, <1>4, <1>7 DEF Attending
  <2>2. WindowsKnown => WindowsKnown'
    BY <1>1, <1>2, <1>4, <1>5, <1>7 DEF WindowsKnown, Opening, Alive
  <2>3. counter'.expires # Never => counter'.expires <= tick + Window
    BY <1>7 DEF LimInv, LockoutsEnd
  <2>4. orphaned' \in BOOLEAN
    BY <1>1, <1>7 DEF LimiterTypeOK
  <2> QED BY <1>1, <1>2, <1>3, <1>5, <1>7, <2>1, <2>2, <2>3, <2>4, CounterStep
<1> QED BY <1>6, <1>7 DEF Expire, ExpireFails

(* The counter is destroyed, or stays, by an attempt or by the cache.      *)
LEMMA DestroyedWindows ==
  ASSUME LimInv, Destroy
  PROVE  /\ counter' \in CounterRow /\ counter'.expires = Never
         /\ orphaned' = FALSE /\ destroyed' \in BOOLEAN /\ (destroyed => destroyed')
         /\ Alive(counter) => destroyed'
         /\ ~Alive(counter)'
<1>1. tick \in Nat /\ counter \in CounterRow /\ destroyed \in BOOLEAN
  BY DEF LimInv, LimiterTypeOK
<1>2. NoCounter \in CounterRow /\ NoCounter.expires = Never /\ NoCounter.count = 0
  BY <1>1, CounterRows
<1>3. counter' = NoCounter /\ orphaned' = FALSE /\ destroyed' = (destroyed \/ Alive(counter))
  BY DEF Destroy
<1>4. destroyed' \in BOOLEAN /\ (destroyed => destroyed') /\ (Alive(counter) => destroyed')
  BY <1>1, <1>3, Zenon
<1>5. ~Alive(counter)'
  BY <1>2, <1>3 DEF Alive
<1> QED BY <1>2, <1>3, <1>4, <1>5

LEMMA DeletingStep == ASSUME LimInv, NEW c \in Attempts, Clear(c) \/ Reset(c) PROVE LimInv'
<1>1. LimiterTypeOK /\ tick \in Nat /\ counter \in CounterRow /\ tick' = tick
        /\ attempt[c].step \in {"clearing", "resetting"}
  BY DEF LimInv, LimiterTypeOK, Clear, Reset
<1>2. PICK step \in {"local", "idle"} : AttemptSteps(c, step)
  BY DEF Clear, Reset
<1>3. step \in AttemptKinds
  BY DEF AttemptKinds
<1>4. \A d \in Attempts : attempt'[d].step = IF d = c THEN step ELSE attempt[d].step
  BY <1>1, <1>2, <1>3, AttemptMoves
<1>5. /\ destroyed \in BOOLEAN /\ orphaned \in BOOLEAN /\ (destroyed \/ WindowsKnown)
      /\ deadline' = deadline /\ fallback' = fallback /\ alarmed' = alarmed
  BY <1>1 DEF Clear, Reset, LimInv, LimiterTypeOK
<1>6. CASE Destroy
  <2>1. counter' \in CounterRow /\ counter'.expires = Never
          /\ orphaned' = FALSE /\ destroyed' \in BOOLEAN /\ (destroyed => destroyed')
          /\ (Alive(counter) => destroyed') /\ ~Alive(counter)'
    BY <1>6, DestroyedWindows
  <2>2. WindowsKnown /\ ~Alive(counter) => WindowsKnown'
    BY <1>1, <1>2, <1>4, <1>5 DEF WindowsKnown, Opening
  <2> QED BY <1>1, <1>2, <1>3, <1>5, <2>1, <2>2, CounterStep
<1>7. CASE UNCHANGED <<counter, destroyed>>
  <2>1. WindowsKnown => WindowsKnown'
    BY <1>1, <1>2, <1>4, <1>5, <1>7 DEF WindowsKnown, Opening, Alive
  <2>2. counter'.expires # Never => counter'.expires <= tick + Window
    BY <1>7 DEF LimInv, LockoutsEnd
  <2>3. Alive(counter)' <=> Alive(counter)
    BY <1>1, <1>7 DEF Alive
  <2>4. CASE Clear(c) /\ ~Destroy
    <3>2. orphaned' = (orphaned \/ (Alive(counter) /\ counter.expires = Never))
      BY <2>4 DEF Clear
    <3>1. orphaned' \in BOOLEAN /\ (Alive(counter) /\ counter.expires = Never => orphaned')
      BY <1>5, <3>2, Zenon
    <3> QED BY <1>1, <1>2, <1>3, <1>5, <1>7, <2>1, <2>2, <2>3, <3>1, CounterStep
  <2>5. CASE Reset(c) /\ ~Destroy
    <3>1. orphaned' = orphaned
      BY <2>5 DEF Reset
    <3>2. Attending' = Attending
      BY <1>2, <1>4, <2>5 DEF Attending, Reset
    <3>3. Alive(counter) /\ counter.expires = Never => Attending # {} \/ orphaned
      BY DEF LimInv, LockoutsEnd
    <3> QED BY <1>1, <1>2, <1>3, <1>5, <1>7, <2>1, <2>2, <2>3, <3>1, <3>2, <3>3, CounterStep
  <2> QED BY <1>6, <2>4, <2>5
<1> QED BY <1>6, <1>7 DEF Clear, Reset

LEMMA ObserveStep == ASSUME LimInv, NEW c \in Attempts, ObserveWindowStart(c) PROVE LimInv'
<1>1. LimiterTypeOK /\ tick \in Nat /\ attempt[c].step = "first" /\ attempt[c].on \in Replicas
  BY DEF LimInv, LimiterTypeOK, ObserveWindowStart, AttemptState
<1>2. PICK i \in Replicas : /\ alarmed' = (alarmed \/ deadline[i] > tick)
                            /\ deadline' = [deadline EXCEPT ![i] = tick + Window]
  BY <1>1 DEF ObserveWindowStart
<1>3. UNCHANGED <<tick, counter, fallback, orphaned, destroyed>>
  BY DEF ObserveWindowStart
<1>4. /\ attempt' \in [Attempts -> AttemptState]
      /\ \A d \in Attempts : attempt'[d].step = IF d = c THEN "expiring" ELSE attempt[d].step
  BY <1>1, AttemptMoves DEF ObserveWindowStart, AttemptKinds
<1>5. deadline' \in [Replicas -> Nat]
        /\ \A j \in Replicas : deadline'[j] = IF j = i THEN tick + Window ELSE deadline[j]
  BY <1>1, <1>2, WindowIsPositive DEF LimiterTypeOK
<1>6. alarmed' \in BOOLEAN
  BY <1>1, <1>2 DEF LimiterTypeOK
<1>7. LimiterTypeOK'
  BY <1>1, <1>3, <1>4, <1>5, <1>6 DEF LimiterTypeOK
<1>8. Attending' = Attending /\ (Alive(counter)' <=> Alive(counter))
        /\ \A j \in Replicas : Alive(fallback[j])' <=> Alive(fallback[j])
  BY <1>1, <1>3, <1>4 DEF Attending, Alive
<1>9. LockoutsEnd'
  <2>1. \A j \in Replicas : deadline'[j] <= tick + Window
    BY <1>1, <1>5, WindowIsPositive DEF LimInv, LockoutsEnd
  <2> QED BY <1>3, <1>8, <2>1 DEF LimInv, LockoutsEnd
<1>10. AlarmsAreReal' /\ (WindowsKnown => WindowsKnown')
  <2>1. WindowsKnown => ~(deadline[i] > tick)
    BY <1>1 DEF WindowsKnown, Opening, LimiterTypeOK
  <2>2. ~destroyed => ~(deadline[i] > tick)
    BY <2>1 DEF LimInv
  <2>3. alarmed' => destroyed
    BY <1>1, <1>2, <2>2, Zenon DEF LimInv, AlarmsAreReal
  <2>4. WindowsKnown => WindowsKnown'
    BY <1>1, <1>3, <1>4, <1>5, <1>8 DEF WindowsKnown, Opening
  <2> QED BY <1>3, <2>3, <2>4 DEF AlarmsAreReal
<1> QED BY <1>3, <1>7, <1>9, <1>10 DEF LimInv

(* What is remembered by a replica changes, and no window opens.           *)
LEMMA ReplicaStep ==
  ASSUME LimInv, UNCHANGED <<tick, counter, destroyed, alarmed>>, orphaned' \in BOOLEAN,
         attempt' \in [Attempts -> AttemptState],
         \A d \in Attempts : attempt'[d].step \in Opening => attempt'[d].step = attempt[d].step,
         Alive(counter) /\ counter.expires = Never => Attending' # {} \/ orphaned',
         fallback' \in [Replicas -> CounterRow], deadline' \in [Replicas -> Nat],
         \A i \in Replicas :
           /\ deadline'[i] \in {0, deadline[i]}
           /\ \/ fallback'[i] \in {NoCounter, fallback[i]}
              \/ fallback'[i].expires \in tick + 1 .. tick + Window
  PROVE  LimInv'
<1>1. LimiterTypeOK'
  BY DEF LimInv, LimiterTypeOK
<1>2. tick \in Nat /\ (Alive(counter)' <=> Alive(counter))
  BY DEF LimInv, LimiterTypeOK, Alive
<1>3. LockoutsEnd'
  <2>1. ASSUME NEW i \in Replicas
        PROVE  /\ Alive(fallback[i])' => fallback'[i].expires \in tick + 1 .. tick + Window
               /\ deadline'[i] <= tick + Window
    <3>1. deadline'[i] <= tick + Window
      BY <1>2, WindowIsPositive DEF LimInv, LockoutsEnd
    <3>2. CASE fallback'[i] = NoCounter
      BY <3>1, <3>2 DEF NoCounter, Alive
    <3>3. CASE fallback'[i] = fallback[i]
      BY <3>1, <3>3 DEF LimInv, LockoutsEnd, Alive
    <3> QED BY <3>1, <3>2, <3>3
  <2> QED BY <1>2, <2>1 DEF LimInv, LockoutsEnd
<1>4. WindowsKnown => WindowsKnown'
  BY <1>2 DEF WindowsKnown, Opening
<1>5. AlarmsAreReal'
  BY DEF LimInv, AlarmsAreReal
<1> QED BY <1>1, <1>3, <1>4, <1>5 DEF LimInv

LEMMA FallBackStep == ASSUME LimInv, NEW c \in Attempts, FallBack(c) PROVE LimInv'
<1>1. LimiterTypeOK /\ tick \in Nat /\ attempt[c].step = "local" /\ attempt[c].on \in Replicas
  BY DEF LimInv, LimiterTypeOK, FallBack, AttemptState
<1>2. PICK i \in Replicas, n \in Nat, e \in Nat \cup {Never} :
        /\ fallback' = [fallback EXCEPT ![i] = [count |-> n, expires |-> e]]
        /\ e \in tick + 1 .. tick + Window
        /\ AttemptSteps(c, Verdict(n))
  <2> DEFINE i == attempt[c].on
             n == IF Alive(fallback[i]) THEN fallback[i].count + 1 ELSE 1
             e == IF Alive(fallback[i]) THEN fallback[i].expires ELSE tick + Window
  <2>1. fallback[i] \in CounterRow
    BY <1>1 DEF LimiterTypeOK
  <2>2. n \in Nat /\ e \in Nat \cup {Never}
    BY <1>1, <2>1, WindowIsPositive DEF CounterRow
  <2>3. e \in tick + 1 .. tick + Window
    BY <1>1, WindowIsPositive DEF LimInv, LockoutsEnd
  <2>4. fallback' = [fallback EXCEPT ![i] = [count |-> n, expires |-> e]]
          /\ AttemptSteps(c, Verdict(n))
    BY <1>1, <2>1 DEF FallBack, LimiterTypeOK
  <2> HIDE DEF n, e
  <2> QED BY <1>1, <2>2, <2>3, <2>4
<1>3. fallback' \in [Replicas -> CounterRow]
        /\ \A j \in Replicas : j # i => fallback'[j] = fallback[j]
        /\ fallback'[i].expires = e
  BY <1>1, <1>2 DEF LimiterTypeOK, CounterRow
<1>4. attempt' \in [Attempts -> AttemptState]
        /\ \A d \in Attempts : attempt'[d].step = IF d = c THEN Verdict(n) ELSE attempt[d].step
  <2>1. Verdict(n) \in AttemptKinds
    BY VerdictKinds DEF AttemptKinds
  <2> QED BY <1>1, <1>2, <2>1, AttemptMoves
<1>5. Attending' = Attending
        /\ \A d \in Attempts : attempt'[d].step \in Opening => attempt'[d].step = attempt[d].step
  BY <1>1, <1>4, VerdictKinds DEF Attending, Opening
<1>6. UNCHANGED <<tick, counter, deadline, orphaned, destroyed, alarmed>>
  BY DEF FallBack
<1>7. deadline' \in [Replicas -> Nat] /\ orphaned' \in BOOLEAN
  BY <1>1, <1>6 DEF LimiterTypeOK
<1>8. Alive(counter) /\ counter.expires = Never => Attending' # {} \/ orphaned'
  BY <1>5, <1>6 DEF LimInv, LockoutsEnd
<1> QED BY <1>2, <1>3, <1>4, <1>5, <1>6, <1>7, <1>8, ReplicaStep

LEMMA AnsweredStep == ASSUME LimInv, NEW c \in Attempts, Answered(c) PROVE LimInv'
<1>1. LimiterTypeOK /\ tick \in Nat /\ attempt[c].step \in {"admitted", "refused"}
        /\ attempt[c].on \in Replicas
  BY DEF LimInv, LimiterTypeOK, Answered, AttemptState
<1>2. PICK step \in {"idle", "resetting"} : AttemptSteps(c, step)
  BY DEF Answered
<1>3. attempt' \in [Attempts -> AttemptState]
        /\ \A d \in Attempts : attempt'[d].step = IF d = c THEN step ELSE attempt[d].step
  <2>1. step \in AttemptKinds
    BY DEF AttemptKinds
  <2> QED BY <1>1, <1>2, <2>1, AttemptMoves
<1>4. Attending' = Attending
        /\ \A d \in Attempts : attempt'[d].step \in Opening => attempt'[d].step = attempt[d].step
  BY <1>1, <1>3 DEF Attending, Opening
<1>5. UNCHANGED <<tick, counter, orphaned, destroyed, alarmed>>
  BY DEF Answered
<1>6. /\ fallback' \in [Replicas -> CounterRow] /\ deadline' \in [Replicas -> Nat]
      /\ \A i \in Replicas : /\ deadline'[i] \in {0, deadline[i]}
                             /\ fallback'[i] \in {NoCounter, fallback[i]}
  <2>1. NoCounter \in CounterRow
    BY DEF NoCounter, CounterRow
  <2> QED BY <1>1, <2>1 DEF Answered, LimiterTypeOK
<1>7. orphaned' \in BOOLEAN
  BY <1>1, <1>5 DEF LimiterTypeOK
<1>8. Alive(counter) /\ counter.expires = Never => Attending' # {} \/ orphaned'
  BY <1>4, <1>5 DEF LimInv, LockoutsEnd
<1> QED BY <1>3, <1>4, <1>5, <1>6, <1>7, <1>8, ReplicaStep

LEMMA RestartStep == ASSUME LimInv, NEW i \in Replicas, Restart(i) PROVE LimInv'
<1>1. LimiterTypeOK /\ tick \in Nat
  BY DEF LimInv, LimiterTypeOK
<1>2. attempt' \in [Attempts -> AttemptState]
        /\ \A c \in Attempts : attempt'[c].step = IF attempt[c].on = i THEN "idle" ELSE attempt[c].step
  BY <1>1 DEF Restart, LimiterTypeOK, AttemptState
<1>3. UNCHANGED <<tick, counter, destroyed, alarmed>>
  BY DEF Restart
<1>4. /\ fallback' \in [Replicas -> CounterRow] /\ deadline' \in [Replicas -> Nat]
      /\ \A j \in Replicas : /\ deadline'[j] \in {0, deadline[j]}
                             /\ fallback'[j] \in {NoCounter, fallback[j]}
  <2>1. NoCounter \in CounterRow
    BY DEF NoCounter, CounterRow
  <2> QED BY <1>1, <2>1 DEF Restart, LimiterTypeOK
<1>5. orphaned' \in BOOLEAN
        /\ (orphaned => orphaned')
        /\ (Alive(counter) /\ counter.expires = Never
              /\ (\E c \in Attending : attempt[c].on = i) => orphaned')
  <2>1. orphaned \in BOOLEAN
    BY <1>1 DEF LimiterTypeOK
  <2> QED BY <2>1, Zenon DEF Restart
<1>6. Alive(counter) /\ counter.expires = Never => Attending' # {} \/ orphaned'
  <2> SUFFICES ASSUME Alive(counter), counter.expires = Never, ~orphaned' PROVE Attending' # {}
    OBVIOUS
  <2>1. Attending # {}
    BY <1>5 DEF LimInv, LockoutsEnd
  <2>2. PICK c \in Attending : attempt[c].on # i
    BY <1>5, <2>1
  <2>3. c \in Attending'
    BY <1>2, <2>2 DEF Attending
  <2> QED BY <2>3
<1>7. \A d \in Attempts : attempt'[d].step \in Opening => attempt'[d].step = attempt[d].step
  BY <1>2 DEF Opening
<1> QED BY <1>2, <1>3, <1>4, <1>5, <1>6, <1>7, ReplicaStep

LEMMA EvictStep == ASSUME LimInv, Evict PROVE LimInv'
<1>1. LimiterTypeOK /\ tick \in Nat /\ Destroy /\ Alive(counter)
        /\ UNCHANGED <<tick, fallback, deadline, attempt, alarmed>>
  BY DEF LimInv, LimiterTypeOK, Evict
<1>2. /\ counter' \in CounterRow /\ counter'.expires = Never /\ orphaned' = FALSE
      /\ destroyed' \in BOOLEAN /\ destroyed' /\ ~Alive(counter)'
  BY <1>1, DestroyedWindows
<1>3. LimiterTypeOK' /\ LockoutsEnd' /\ AlarmsAreReal'
  BY <1>1, <1>2 DEF LimInv, LimiterTypeOK, LockoutsEnd, AlarmsAreReal, Alive
<1> QED BY <1>2, <1>3 DEF LimInv

LEMMA TickStep == ASSUME LimInv, TickPasses PROVE LimInv'
<1>1. LimiterTypeOK /\ tick \in Nat /\ tick' = tick + 1 /\ counter \in CounterRow
        /\ UNCHANGED <<counter, fallback, deadline, attempt, orphaned, destroyed, alarmed>>
  BY DEF LimInv, LimiterTypeOK, TickPasses
<1>2. LimiterTypeOK' /\ AlarmsAreReal' /\ Attending' = Attending
  BY <1>1 DEF LimInv, LimiterTypeOK, AlarmsAreReal, Attending
<1>3. ASSUME NEW counted \in CounterRow
      PROVE  /\ Alive(counted) <=> counted.count > 0 /\ (counted.expires = Never \/ counted.expires > tick)
             /\ (counted.count > 0 /\ counted.expires \notin 0 .. tick')
                  <=> counted.count > 0 /\ (counted.expires = Never \/ counted.expires > tick + 1)
  BY <1>1, WindowIsPositive DEF Alive, CounterRow
<1>4. Alive(counter)' <=> counter.count > 0 /\ (counter.expires = Never \/ counter.expires > tick + 1)
  BY <1>1, <1>3 DEF Alive
<1>5. LockoutsEnd'
  <2>1. Alive(counter)' /\ counter.expires = Never => Attending # {} \/ orphaned
    BY <1>1, <1>3, <1>4 DEF LimInv, LockoutsEnd
  <2>2. counter.expires # Never => counter.expires <= tick + 1 + Window
    BY <1>1, WindowIsPositive DEF LimInv, LockoutsEnd, CounterRow
  <2>3. ASSUME NEW i \in Replicas
        PROVE  /\ Alive(fallback[i])' => fallback[i].expires \in tick + 2 .. tick + 1 + Window
               /\ deadline[i] <= tick + 1 + Window
    <3>1. fallback[i] \in CounterRow /\ deadline[i] \in Nat
      BY <1>1 DEF LimiterTypeOK
    <3>2. Alive(fallback[i])' <=>
            fallback[i].count > 0 /\ (fallback[i].expires = Never \/ fallback[i].expires > tick + 1)
      BY <1>1, <1>3, <3>1 DEF Alive
    <3>3. Alive(fallback[i]) => fallback[i].expires \in tick + 1 .. tick + Window
      BY DEF LimInv, LockoutsEnd
    <3>4. deadline[i] <= tick + Window
      BY DEF LimInv, LockoutsEnd
    <3> QED BY <1>1, <1>3, <3>1, <3>2, <3>3, <3>4, WindowIsPositive DEF CounterRow
  <2> QED BY <1>1, <1>2, <2>1, <2>2, <2>3 DEF LockoutsEnd
<1>6. WindowsKnown => WindowsKnown'
  <2> SUFFICES ASSUME WindowsKnown PROVE WindowsKnown'
    OBVIOUS
  <2>1. ASSUME NEW i \in Replicas, deadline[i] > tick + 1
        PROVE  Alive(counter)' /\ (counter.expires = Never \/ counter.expires >= deadline[i])
    <3>1. deadline[i] \in Nat /\ deadline[i] > tick
      BY <1>1, <2>1 DEF LimiterTypeOK
    <3>2. Alive(counter) /\ (counter.expires = Never \/ counter.expires >= deadline[i])
      BY <3>1 DEF WindowsKnown
    <3> QED BY <1>1, <1>3, <1>4, <2>1, <3>1, <3>2 DEF CounterRow
  <2>2. Alive(counter) /\ counter.expires = Never => Alive(counter)'
    BY <1>1, <1>3, <1>4
  <2>3. \A i \in Replicas : deadline[i] <= tick => deadline[i] <= tick + 1
    BY <1>1 DEF LimiterTypeOK
  <2> QED BY <1>1, <2>1, <2>2, <2>3 DEF WindowsKnown
<1> QED BY <1>1, <1>2, <1>5, <1>6 DEF LimInv

(* However attempts, failures of the cache, evictions, resets and restarts *)
(* overlap: no window outlasts its length, a counter that would never end  *)
(* is attended to or accounted for, and no eviction is reported when every *)
(* counter lived to its end.                                               *)
THEOREM LockoutsAlwaysEnd == LimiterSpec => []LimiterInv
<1>1. LimiterInit => LimInv
  <2> SUFFICES ASSUME LimiterInit PROVE LimInv
    OBVIOUS
  <2>1. LimiterTypeOK
    <3>1. NoCounter \in CounterRow
      BY DEF NoCounter, CounterRow
    <3>2. \A i \in Replicas : [step |-> "idle", on |-> i] \in AttemptState
      BY DEF AttemptState
    <3>3. attempt \in [Attempts -> AttemptState]
      BY <3>2 DEF LimiterInit
    <3> QED BY <3>1, <3>3 DEF LimiterInit, LimiterTypeOK
  <2>2. LockoutsEnd
    BY WindowIsPositive DEF LimiterInit, LockoutsEnd, NoCounter, Alive
  <2>3. AlarmsAreReal /\ WindowsKnown
    BY DEF LimiterInit, AlarmsAreReal, WindowsKnown, Opening
  <2> QED BY <2>1, <2>2, <2>3 DEF LimInv
<1>2. LimInv /\ [LimiterNext]_limiterVars => LimInv'
  <2>1. CASE UNCHANGED limiterVars
    <3>1. UNCHANGED <<tick, counter, fallback, deadline, attempt, orphaned, destroyed, alarmed>>
      BY <2>1 DEF limiterVars
    <3> QED BY <3>1 DEF LimInv, LimiterTypeOK, LockoutsEnd, AlarmsAreReal, WindowsKnown,
                        Alive, Attending
  <2> QED BY <2>1, CountStep, CountFailsStep, ObserveStep, ExpireStep, DeletingStep, FallBackStep,
             AnsweredStep, EvictStep, RestartStep, TickStep DEF LimiterNext
<1>3. LimInv => LimiterInv
  BY DEF LimInv, LimiterInv
<1> QED BY <1>1, <1>2, <1>3, PTL DEF LimiterSpec

-----------------------------------------------------------------------------
(* A student's day with Foxy.  The turns that the allowance pays for are   *)
(* those that have searched or may still; the counter and what refunds     *)
(* overwrote are enough for them.                                          *)
Paid(v) ==
  \/ v.search
  \/ v.stage \in {"admitted", "refunding", "repaying", "searching"}
  \/ v.stage = "counted" /\ v.position <= DailyLimit
Charged == {t \in Turns : Paid(turn[t])}

Early == {"new", "counted", "admitted", "refunding", "repaying", "searching"}
Both == <<"user", "assistant">>

(* The stream has ended, by done after both rows or by an error.           *)
Ended(t) ==
  \/ Finished(t) /\ messages[t] = Both
  \/ /\ frames[t] \in Seq({"token", "error"}) /\ frames[t] # <<>>
     /\ frames[t][Len(frames[t])] = "error"

StageFits(t) ==
  /\ turn[t].search => turn[t].stage \notin Early
  /\ At(t, "repaying") => turn[t].position > 0
  /\ ~At(t, "over") => frames[t] \in Seq({"token"})
  /\ turn[t].stage \in Early \cup {"abstaining", "asking"} => messages[t] = <<>>
  /\ turn[t].stage \in {"closing", "streaming", "storing"} => messages[t] = <<"user">>
  /\ turn[t].stage \in {"touching", "sealing"} => messages[t] = Both
  /\ At(t, "over") => Ended(t)

TutInv ==
  /\ TutorTypeOK
  /\ \A t \in Turns : StageFits(t)
  /\ IsFiniteSet(Charged)
  /\ Cardinality(Charged) <= used + slips
  /\ Cardinality(Charged) <= DailyLimit + slips

(* One turn moves; the counter stays, and no turn is paid for anew.        *)
LEMMA TurnMoves ==
  ASSUME TutInv, NEW t \in Turns, NEW v \in TurnState, turn' = [turn EXCEPT ![t] = v],
         Paid(v) => Paid(turn[t]), UNCHANGED <<used, slips>>,
         messages' \in [Turns -> Seq({"user", "assistant"})],
         frames' \in [Turns -> Seq(FrameTypes)],
         \A o \in Turns : o # t => messages'[o] = messages[o] /\ frames'[o] = frames[o],
         StageFits(t)'
  PROVE  TutInv'
<1>1. turn' \in [Turns -> TurnState] /\ \A o \in Turns : turn'[o] = IF o = t THEN v ELSE turn[o]
  BY DEF TutInv, TutorTypeOK
<1>2. TutorTypeOK'
  BY <1>1 DEF TutInv, TutorTypeOK
<1>3. ASSUME NEW o \in Turns PROVE StageFits(o)'
  <2>1. CASE o # t
    <3>1. turn'[o] = turn[o] /\ messages'[o] = messages[o] /\ frames'[o] = frames[o]
      BY <1>1, <2>1
    <3> QED BY <3>1 DEF TutInv, StageFits, At, Ended, Finished
  <2> QED BY <2>1
<1>4. Charged' \subseteq Charged
  BY <1>1 DEF Charged, Paid
<1>5. /\ IsFiniteSet(Charged') /\ Cardinality(Charged') <= Cardinality(Charged)
      /\ Cardinality(Charged') \in Nat /\ Cardinality(Charged) \in Nat
  BY <1>4, FS_Subset, FS_CardinalityType DEF TutInv
<1> QED BY <1>2, <1>3, <1>5, TutorAssumption DEF TutInv, TutorTypeOK

(* A turn moves and its messages and frames stay.                          *)
LEMMA StageMoves ==
  ASSUME TutInv, NEW t \in Turns, NEW v \in TurnState, turn' = [turn EXCEPT ![t] = v],
         Paid(v) => Paid(turn[t]), UNCHANGED <<used, slips, messages, frames>>,
         v.search => v.stage \notin Early, v.stage = "repaying" => v.position > 0,
         v.stage # "over", turn[t].stage # "over",
         \/ v.stage = "lost"
         \/ turn[t].stage \in Early /\ v.stage \in Early \cup {"abstaining", "asking"}
         \/ turn[t].stage = "streaming" /\ v.stage = "storing"
  PROVE  TutInv'
<1>1. turn'[t] = v
  BY DEF TutInv, TutorTypeOK
<1>2. StageFits(t)
  BY DEF TutInv
<1>3. StageFits(t)'
  BY <1>1, <1>2 DEF StageFits, At, Early
<1> QED BY <1>3, TurnMoves DEF TutInv, TutorTypeOK

LEMMA TurnRecords ==
  ASSUME NEW v \in TurnState, NEW s \in Stages, NEW n \in Nat, NEW b \in BOOLEAN
  PROVE  /\ [v EXCEPT !.stage = s] \in TurnState
         /\ [v EXCEPT !.stage = s, !.position = n] \in TurnState
         /\ [v EXCEPT !.stage = s, !.search = b] \in TurnState
         /\ [v EXCEPT !.stage = s, !.failed = b] \in TurnState
BY DEF TurnState

(* The allowance.                                                          *)
LEMMA CountUsageStep == ASSUME TutInv, NEW t \in Turns, CountUsage(t) PROVE TutInv'
<1>1. /\ used \in Nat /\ slips \in Nat /\ turn[t] \in TurnState /\ StageFits(t)
      /\ turn[t].stage = "new"
  BY DEF TutInv, TutorTypeOK, CountUsage, At
<1>2. PICK v : v = [turn[t] EXCEPT !.stage = "counted", !.position = used + 1]
  OBVIOUS
<1>3. /\ v \in TurnState /\ v.stage = "counted" /\ v.position = used + 1
      /\ v.search = turn[t].search
  <2>1. "counted" \in Stages /\ used + 1 \in Nat
    BY <1>1 DEF Stages
  <2>2. v \in TurnState
    BY <1>1, <1>2, <2>1, TurnRecords
  <2> QED BY <1>1, <1>2, <2>2 DEF TurnState
<1>4. /\ turn' = [turn EXCEPT ![t] = v] /\ used' = used + 1
      /\ UNCHANGED <<messages, frames, slips>>
  BY <1>2 DEF CountUsage, Reads, TutInv, TutorTypeOK
<1>5. turn' \in [Turns -> TurnState] /\ \A o \in Turns : turn'[o] = IF o = t THEN v ELSE turn[o]
  BY <1>3, <1>4 DEF TutInv, TutorTypeOK
<1>6. TutorTypeOK'
  BY <1>1, <1>4, <1>5 DEF TutInv, TutorTypeOK
<1>7. ASSUME NEW o \in Turns PROVE StageFits(o)'
  <2>1. CASE o = t
    BY <1>1, <1>3, <1>4, <1>5, <2>1 DEF StageFits, At, Early
  <2>2. CASE o # t
    <3>1. turn'[o] = turn[o] /\ StageFits(o)
      BY <1>5, <2>2 DEF TutInv
    <3> QED BY <1>4, <3>1 DEF StageFits, At, Ended, Finished
  <2> QED BY <2>1, <2>2
<1>8. Charged' \subseteq Charged \cup {t} /\ (t \in Charged' => used + 1 <= DailyLimit)
  <2>1. ~v.search
    BY <1>1, <1>3 DEF StageFits, Early
  <2> QED BY <1>3, <1>5, <2>1 DEF Charged, Paid
<1>9. IsFiniteSet(Charged) /\ Cardinality(Charged) \in Nat
  BY FS_CardinalityType DEF TutInv
<1>10. CASE t \notin Charged'
  <2>1. Charged' \subseteq Charged
    BY <1>8, <1>10
  <2>2. IsFiniteSet(Charged') /\ Cardinality(Charged') <= Cardinality(Charged)
          /\ Cardinality(Charged') \in Nat
    BY <1>9, <2>1, FS_Subset, FS_CardinalityType
  <2> QED BY <1>1, <1>4, <1>6, <1>7, <1>9, <2>2, TutorAssumption DEF TutInv
<1>11. CASE t \in Charged'
  <2> DEFINE grown == Charged \cup {t}
  <2>5. IsFiniteSet(grown)
          /\ Cardinality(grown) = IF t \in Charged THEN Cardinality(Charged) ELSE Cardinality(Charged) + 1
    BY <1>9, FS_AddElement, Zenon
  <2> HIDE DEF grown
  <2>1. IsFiniteSet(grown) /\ Cardinality(grown) <= Cardinality(Charged) + 1
          /\ Cardinality(grown) \in Nat
    BY <1>9, <2>5
  <2> USE DEF grown
  <2>2. IsFiniteSet(Charged') /\ Cardinality(Charged') <= Cardinality(grown)
          /\ Cardinality(Charged') \in Nat
    BY <1>8, <2>1, FS_Subset, FS_CardinalityType
  <2>3. Cardinality(Charged') <= used + slips + 1
    BY <1>1, <1>9, <2>1, <2>2 DEF TutInv
  <2>4. used + 1 <= DailyLimit
    BY <1>8, <1>11
  <2> QED BY <1>1, <1>4, <1>6, <1>7, <2>2, <2>3, <2>4, TutorAssumption DEF TutInv
<1> QED BY <1>10, <1>11

\* A turn is repaid: d turns of c are charged, for a counter w and slips z.
LEMMA RepaidBounds ==
  ASSUME NEW c \in Nat, NEW d \in Nat, NEW u \in Nat, NEW w \in Nat, NEW s \in Nat,
         NEW z \in Nat, NEW l \in Nat, d <= c - 1, z >= s, w + z >= u + s - 1,
         c <= u + s, c <= l + s
  PROVE  d <= w + z /\ d <= l + z
OBVIOUS

LEMMA RefundStep == ASSUME TutInv, NEW t \in Turns, Refund(t) PROVE TutInv'
<1> DEFINE n == turn[t].position
<1>1. /\ used \in Nat /\ slips \in Nat /\ turn[t] \in TurnState /\ StageFits(t)
      /\ turn[t].stage = "repaying" /\ n \in Nat /\ n > 0
  BY DEF TutInv, TutorTypeOK, Refund, At, StageFits, TurnState
<1>2. PICK v : v = [turn[t] EXCEPT !.stage = "abstaining", !.position = 0]
  OBVIOUS
<1>3. /\ v \in TurnState /\ v.stage = "abstaining" /\ v.search = turn[t].search
  BY <1>1, <1>2 DEF TurnState, Stages
<1>4. /\ turn' = [turn EXCEPT ![t] = v] /\ UNCHANGED <<messages, frames>>
      /\ used' = n - 1 /\ slips' = slips + (IF used > n THEN used - n ELSE 0)
  BY <1>2 DEF Refund, Reads, TutInv, TutorTypeOK
<1>5. turn' \in [Turns -> TurnState] /\ \A o \in Turns : turn'[o] = IF o = t THEN v ELSE turn[o]
  BY <1>3, <1>4 DEF TutInv, TutorTypeOK
<1> HIDE DEF n
<1>6. used' \in Nat /\ slips' \in Nat /\ slips' >= slips /\ used' + slips' >= used + slips - 1
  BY <1>1, <1>4
<1>7. TutorTypeOK'
  BY <1>4, <1>5, <1>6 DEF TutInv, TutorTypeOK
<1>8. ASSUME NEW o \in Turns PROVE StageFits(o)'
  <2>1. CASE o = t
    BY <1>1, <1>3, <1>4, <1>5, <2>1 DEF StageFits, At, Early
  <2>2. CASE o # t
    <3>1. turn'[o] = turn[o] /\ StageFits(o)
      BY <1>5, <2>2 DEF TutInv
    <3> QED BY <1>4, <3>1 DEF StageFits, At, Ended, Finished
  <2> QED BY <2>1, <2>2
<1>9. Charged' \subseteq Charged \ {t} /\ t \in Charged
  <2>1. ~v.search
    BY <1>1, <1>3 DEF StageFits, Early
  <2> QED BY <1>1, <1>3, <1>5, <2>1 DEF Charged, Paid
<1>10. /\ IsFiniteSet(Charged \ {t}) /\ Cardinality(Charged \ {t}) = Cardinality(Charged) - 1
       /\ Cardinality(Charged) \in Nat
  BY <1>9, FS_RemoveElement, FS_CardinalityType DEF TutInv
<1>11. /\ IsFiniteSet(Charged') /\ Cardinality(Charged') <= Cardinality(Charged) - 1
       /\ Cardinality(Charged') \in Nat
  BY <1>9, <1>10, FS_Subset, FS_CardinalityType
<1>12. Cardinality(Charged') <= used' + slips' /\ Cardinality(Charged') <= DailyLimit + slips'
  <2>1. Cardinality(Charged) <= used + slips /\ Cardinality(Charged) <= DailyLimit + slips
    BY DEF TutInv
  <2>2. DailyLimit \in Nat
    BY TutorAssumption
  <2> QED BY <1>1, <1>6, <1>10, <1>11, <2>1, <2>2, RepaidBounds
<1> QED BY <1>7, <1>8, <1>11, <1>12 DEF TutInv

LEMMA LoseUsageStep == ASSUME TutInv, LoseUsage PROVE TutInv'
<1>1. /\ UNCHANGED <<turn, messages, frames>> /\ used' = 0 /\ slips' = slips + used
      /\ used \in Nat /\ slips \in Nat /\ DailyLimit \in Nat
  BY TutorAssumption DEF TutInv, TutorTypeOK, LoseUsage
<1>2. TutorTypeOK'
  BY <1>1 DEF TutInv, TutorTypeOK
<1>3. \A t \in Turns : StageFits(t)'
  BY <1>1 DEF TutInv, StageFits, At, Ended, Finished
<1>4. Charged' = Charged
  BY <1>1 DEF Charged, Paid
<1>5. Cardinality(Charged) \in Nat
  BY FS_CardinalityType DEF TutInv
<1> QED BY <1>1, <1>2, <1>3, <1>4, <1>5 DEF TutInv

LEMMA AllowanceSteps ==
  ASSUME TutInv, NEW t \in Turns, JudgeUsage(t) \/ Screen(t) \/ ReadRefund(t) \/ Search(t)
  PROVE  TutInv'
<1>1. turn[t] \in TurnState /\ used \in Nat /\ StageFits(t)
        /\ turn[t].stage \in Early /\ ~turn[t].search /\ turn[t].search \in BOOLEAN
  BY DEF TutInv, TutorTypeOK, JudgeUsage, Screen, ReadRefund, Search, At, StageFits, Early,
         TurnState
<1>2. UNCHANGED <<used, slips, messages, frames>>
  BY DEF JudgeUsage, Screen, ReadRefund, Search
<1>3. CASE JudgeUsage(t)
  <2>1. PICK v : v = [turn[t] EXCEPT !.position = 0,
                        !.stage = IF turn[t].position <= DailyLimit THEN "admitted" ELSE "lost"]
    OBVIOUS
  <2>2. turn' = [turn EXCEPT ![t] = v]
    BY <1>3, <2>1 DEF JudgeUsage, Reads, TutInv, TutorTypeOK
  <2>3. /\ v \in TurnState /\ v.search = turn[t].search
        /\ v.stage = IF turn[t].position <= DailyLimit THEN "admitted" ELSE "lost"
    BY <1>1, <2>1 DEF TurnState, Stages
  <2>4. turn[t].stage = "counted"
    BY <1>3 DEF JudgeUsage, At
  <2>5. Paid(v) => Paid(turn[t])
    BY <1>1, <2>3, <2>4 DEF Paid
  <2> QED BY <1>1, <1>2, <2>2, <2>3, <2>5, StageMoves DEF Early
<1>4. CASE Screen(t)
  <2>1. PICK next \in {"refunding", "abstaining", "searching"} : Enters(t, next)
    BY <1>4 DEF Screen
  <2>2. PICK v : v = [turn[t] EXCEPT !.stage = next]
    OBVIOUS
  <2>3. turn' = [turn EXCEPT ![t] = v]
    BY <2>1, <2>2 DEF Enters, TutInv, TutorTypeOK
  <2>4. v \in TurnState /\ v.search = turn[t].search /\ v.stage = next
    BY <1>1, <2>2 DEF TurnState, Stages
  <2>5. Paid(turn[t])
    BY <1>4 DEF Screen, At, Paid
  <2> QED BY <1>1, <1>2, <2>1, <2>3, <2>4, <2>5, StageMoves DEF Early
<1>5. CASE ReadRefund(t)
  <2>1. Paid(turn[t])
    BY <1>5 DEF ReadRefund, At, Paid
  <2>2. CASE used > 0
    <3>1. PICK v : v = [turn[t] EXCEPT !.stage = "repaying", !.position = used]
      OBVIOUS
    <3>2. turn' = [turn EXCEPT ![t] = v]
      BY <1>5, <2>2, <3>1 DEF ReadRefund, Reads, TutInv, TutorTypeOK
    <3>3. /\ v \in TurnState /\ v.search = turn[t].search /\ v.stage = "repaying"
          /\ v.position = used
      BY <1>1, <3>1 DEF TurnState, Stages
    <3> QED BY <1>1, <1>2, <2>1, <2>2, <3>2, <3>3, StageMoves DEF Early
  <2>3. CASE ~(used > 0)
    <3>1. PICK v : v = [turn[t] EXCEPT !.stage = "abstaining"]
      OBVIOUS
    <3>2. turn' = [turn EXCEPT ![t] = v]
      BY <1>5, <2>3, <3>1 DEF ReadRefund, Enters, TutInv, TutorTypeOK
    <3>3. v \in TurnState /\ v.search = turn[t].search /\ v.stage = "abstaining"
      BY <1>1, <3>1 DEF TurnState, Stages
    <3> QED BY <1>1, <1>2, <2>1, <3>2, <3>3, StageMoves DEF Early
  <2> QED BY <2>2, <2>3
<1>6. CASE Search(t)
  <2>1. PICK next \in {"abstaining", "asking"} :
          turn' = [turn EXCEPT ![t].stage = next, ![t].search = TRUE]
    BY <1>6 DEF Search, Abstained
  <2>2. PICK v : v = [turn[t] EXCEPT !.stage = next, !.search = TRUE]
    OBVIOUS
  <2>3. turn' = [turn EXCEPT ![t] = v]
    BY <2>1, <2>2 DEF TutInv, TutorTypeOK
  <2>4. v \in TurnState /\ v.stage = next
    BY <1>1, <2>2 DEF TurnState, Stages
  <2>5. Paid(turn[t])
    BY <1>6 DEF Search, At, Paid
  <2> QED BY <1>1, <1>2, <2>1, <2>3, <2>4, <2>5, StageMoves DEF Early
<1> QED BY <1>3, <1>4, <1>5, <1>6

(* The streams.  A stream that ends keeps its rows; one that has not, has  *)
(* tokens only.                                                            *)
LEMMA StoredRows ==
  /\ Append(<<>>, "user") = <<"user">>
  /\ Append(<<"user">>, "assistant") = Both
<1>1. Append(<<>>, "user") = <<"user">>
  OBVIOUS
<1>2. Append(<<"user">>, "assistant") = <<"user", "assistant">>
  <2> DEFINE a == Append(<<"user">>, "assistant")
             b == <<"user", "assistant">>
  <2>1. <<"user">> \in Seq({"user", "assistant"})
    OBVIOUS
  <2>2. a \in Seq({"user", "assistant"}) /\ Len(a) = 2 /\ a[1] = "user" /\ a[2] = "assistant"
    BY <2>1
  <2>3. b \in Seq({"user", "assistant"}) /\ Len(b) = 2 /\ b[1] = "user" /\ b[2] = "assistant"
    OBVIOUS
  <2> HIDE DEF a, b
  <2>4. a = b
    BY <2>2, <2>3, SeqEqual
  <2> QED BY <2>4 DEF a, b
<1> QED BY <1>1, <1>2 DEF Both

LEMMA Associative ==
  ASSUME NEW a \in Seq(FrameTypes), NEW b \in Seq(FrameTypes), NEW c \in Seq(FrameTypes)
  PROVE  a \o (b \o c) = (a \o b) \o c
<1>1. PICK S : S = FrameTypes
  OBVIOUS
<1>2. a \in Seq(S) /\ b \in Seq(S) /\ c \in Seq(S)
  BY <1>1
<1>3. (a \o b) \o c = a \o (b \o c)
  BY <1>2, ConcatAssociative
<1> QED BY <1>3

LEMMA LastIsDone ==
  ASSUME NEW s \in Seq(FrameTypes)
  PROVE  LET w == s \o <<"done">>
         IN w \in Seq(FrameTypes) /\ w # <<>> /\ w[Len(w)] = "done"
BY DEF FrameTypes

LEMMA LastIsError ==
  ASSUME NEW s \in Seq({"token"})
  PROVE  LET w == s \o <<"error">>
         IN /\ w \in Seq({"token", "error"}) /\ w \in Seq(FrameTypes)
            /\ w # <<>> /\ w[Len(w)] = "error"
BY DEF FrameTypes

(* A turn with rows or frames to write has paid, and keeps what it paid.   *)
LEMMA WritingStep ==
  ASSUME TutInv, NEW t \in Turns, NEW s \in Stages \ (Early \cup {"abstaining", "asking"}),
         turn[t].stage \notin Early,
         Enters(t, s), UNCHANGED <<used, slips>>,
         messages' \in [Turns -> Seq({"user", "assistant"})],
         frames' \in [Turns -> Seq(FrameTypes)],
         \A o \in Turns : o # t => messages'[o] = messages[o] /\ frames'[o] = frames[o],
         s # "over" => frames'[t] \in Seq({"token"}),
         s \in {"closing", "streaming", "storing"} => messages'[t] = <<"user">>,
         s \in {"touching", "sealing"} => messages'[t] = Both,
         s = "over" => Ended(t)'
  PROVE  TutInv'
<1>1. turn[t] \in TurnState /\ StageFits(t)
  BY DEF TutInv, TutorTypeOK
<1>2. PICK v : v = [turn[t] EXCEPT !.stage = s]
  OBVIOUS
<1>3. v \in TurnState /\ v.stage = s /\ v.search = turn[t].search
  BY <1>1, <1>2 DEF TurnState
<1>4. turn' = [turn EXCEPT ![t] = v] /\ turn'[t] = v
  BY <1>2 DEF Enters, TutInv, TutorTypeOK
<1>5. Paid(v) => Paid(turn[t])
  BY <1>3 DEF Paid, Early
<1>6. StageFits(t)'
  BY <1>3, <1>4 DEF StageFits, At, Early
<1> QED BY <1>3, <1>4, <1>5, <1>6, TurnMoves

(* What a step that stores one row, or writes its last frames, leaves.     *)
LEMMA StoreKeeps ==
  ASSUME TutInv, NEW t \in Turns, NEW role \in {"user", "assistant"}, Stores(t, role)
  PROVE  /\ messages' \in [Turns -> Seq({"user", "assistant"})]
         /\ messages'[t] = Append(messages[t], role)
         /\ \A o \in Turns : o # t => messages'[o] = messages[o]
<1>1. messages \in [Turns -> Seq({"user", "assistant"})]
  BY DEF TutInv, TutorTypeOK
<1>2. Append(messages[t], role) \in Seq({"user", "assistant"})
  BY <1>1
<1> QED BY <1>1, <1>2 DEF Stores

LEMMA WriteKeeps ==
  ASSUME TutInv, NEW t \in Turns, NEW written \in Seq(FrameTypes), Writes(t, written)
  PROVE  /\ frames' \in [Turns -> Seq(FrameTypes)]
         /\ frames'[t] = frames[t] \o written
         /\ \A o \in Turns : o # t => frames'[o] = frames[o]
<1>1. frames \in [Turns -> Seq(FrameTypes)]
  BY DEF TutInv, TutorTypeOK
<1>2. frames[t] \o written \in Seq(FrameTypes)
  BY <1>1
<1> QED BY <1>1, <1>2 DEF Writes

LEMMA StoringSteps ==
  ASSUME TutInv, NEW t \in Turns,
         StoreEndedQuestion(t) \/ StoreAbstention(t) \/ StoreQuestion(t) \/ StoreAnswer(t)
  PROVE  TutInv'
<1>1. StageFits(t) /\ frames \in [Turns -> Seq(FrameTypes)]
        /\ UNCHANGED <<used, slips, frames>>
  BY DEF TutInv, TutorTypeOK, StoreEndedQuestion, StoreAbstention, StoreQuestion, StoreAnswer
<1>2. CASE StoreEndedQuestion(t) \/ StoreQuestion(t)
  <2>1. PICK s \in {"closing", "streaming"} : Enters(t, s)
    BY <1>2 DEF StoreEndedQuestion, StoreQuestion
  <2>2. turn[t].stage \in {"abstaining", "asking"} /\ Stores(t, "user")
    BY <1>2 DEF StoreEndedQuestion, StoreQuestion, At
  <2>3. messages[t] = <<>> /\ frames[t] \in Seq({"token"})
    BY <1>1, <2>2 DEF StageFits, At
  <2>4. messages' \in [Turns -> Seq({"user", "assistant"})] /\ messages'[t] = <<"user">>
          /\ \A o \in Turns : o # t => messages'[o] = messages[o]
    BY <2>2, <2>3, StoreKeeps, StoredRows
  <2>5. s \in Stages \ (Early \cup {"abstaining", "asking"})
    BY DEF Stages, Early
  <2> QED BY <1>1, <2>1, <2>2, <2>3, <2>4, <2>5, WritingStep DEF Early
<1>3. CASE StoreAbstention(t) \/ StoreAnswer(t)
  <2>1. PICK s \in {"touching", "sealing"} : Enters(t, s)
    BY <1>3 DEF StoreAbstention, StoreAnswer
  <2>2. turn[t].stage \in {"closing", "storing"} /\ Stores(t, "assistant")
    BY <1>3 DEF StoreAbstention, StoreAnswer, At
  <2>3. messages[t] = <<"user">> /\ frames[t] \in Seq({"token"})
    BY <1>1, <2>2 DEF StageFits, At
  <2>4. messages' \in [Turns -> Seq({"user", "assistant"})] /\ messages'[t] = Both
          /\ \A o \in Turns : o # t => messages'[o] = messages[o]
    BY <2>2, <2>3, StoreKeeps, StoredRows
  <2>5. s \in Stages \ (Early \cup {"abstaining", "asking"})
    BY DEF Stages, Early
  <2> QED BY <1>1, <2>1, <2>2, <2>3, <2>4, <2>5, WritingStep DEF Early
<1> QED BY <1>2, <1>3

LEMMA LastFramesEnd ==
  ASSUME NEW t \in Turns, NEW cited \in BOOLEAN
  PROVE  \E s \in Seq(FrameTypes) : LastFrames(t, cited) = s \o <<"done">>
<1>1. PICK a : a = IF cited THEN <<"citation">> ELSE <<>>
  OBVIOUS
<1>2. PICK b : b = IF turn[t].failed THEN <<"error">> ELSE <<>>
  OBVIOUS
<1>3. a \in Seq(FrameTypes) /\ b \in Seq(FrameTypes)
  <2>1. /\ <<>> \in Seq(FrameTypes) /\ <<"citation">> \in Seq(FrameTypes)
        /\ <<"error">> \in Seq(FrameTypes)
    BY DEF FrameTypes
  <2> QED BY <1>1, <1>2, <2>1, Zenon
<1>4. LastFrames(t, cited) = (a \o b) \o <<"done">>
  BY <1>1, <1>2 DEF LastFrames
<1>5. a \o b \in Seq(FrameTypes)
  BY <1>3
<1> QED BY <1>4, <1>5

LEMMA SealingSteps ==
  ASSUME TutInv, NEW t \in Turns, CloseEndedTurn(t) \/ Seal(t)
  PROVE  TutInv'
<1>1. StageFits(t) /\ frames \in [Turns -> Seq(FrameTypes)]
        /\ UNCHANGED <<used, slips, messages>> /\ Enters(t, "over")
        /\ turn[t].stage \in {"touching", "sealing"}
  BY DEF TutInv, TutorTypeOK, CloseEndedTurn, Seal, At
<1>2. PICK s \in Seq(FrameTypes) : Writes(t, s \o <<"done">>)
  <2>1. CASE CloseEndedTurn(t)
    <3>1. <<"abstention", "done">> = <<"abstention">> \o <<"done">>
            /\ <<"abstention">> \in Seq(FrameTypes)
      BY DEF FrameTypes
    <3> QED BY <2>1, <3>1 DEF CloseEndedTurn
  <2>2. CASE Seal(t)
    BY <2>2, LastFramesEnd DEF Seal
  <2> QED BY <2>1, <2>2
<1>3. s \o <<"done">> \in Seq(FrameTypes)
  BY LastIsDone
<1>4. /\ frames' \in [Turns -> Seq(FrameTypes)]
      /\ frames'[t] = frames[t] \o (s \o <<"done">>)
      /\ \A o \in Turns : o # t => frames'[o] = frames[o]
  BY <1>2, <1>3, WriteKeeps
<1>5. PICK u \in Seq(FrameTypes) : u = frames[t] \o s
  <2>1. frames[t] \in Seq(FrameTypes)
    BY <1>1
  <2>2. frames[t] \o s \in Seq(FrameTypes)
    BY <2>1, ConcatProperties
  <2> QED BY <2>2
<1>6. frames'[t] = u \o <<"done">>
  <2>1. frames[t] \in Seq(FrameTypes) /\ <<"done">> \in Seq(FrameTypes)
    BY <1>1 DEF FrameTypes
  <2>2. frames[t] \o (s \o <<"done">>) = (frames[t] \o s) \o <<"done">>
    BY <2>1, Associative, Zenon
  <2> QED BY <1>4, <1>5, <2>2
<1>7. Ended(t)'
  <2>1. frames'[t] # <<>> /\ frames'[t][Len(frames'[t])] = "done"
    BY <1>6, LastIsDone
  <2>2. messages'[t] = Both
    BY <1>1 DEF StageFits
  <2> QED BY <2>1, <2>2 DEF Ended, Finished
<1>8. messages' \in [Turns -> Seq({"user", "assistant"})]
  BY <1>1 DEF TutInv, TutorTypeOK
<1>9. "over" \in Stages \ (Early \cup {"abstaining", "asking"})
  BY DEF Stages, Early
<1> QED BY <1>1, <1>4, <1>7, <1>8, <1>9, WritingStep DEF Early

LEMMA StoreFailsStep == ASSUME TutInv, NEW t \in Turns, StoreFails(t) PROVE TutInv'
<1>1. StageFits(t) /\ UNCHANGED <<used, slips, messages>> /\ Enters(t, "over")
        /\ turn[t].stage \in {"storing", "sealing"} /\ Writes(t, <<"error">>)
  BY DEF TutInv, StoreFails, At
<1>2. frames[t] \in Seq({"token"}) /\ <<"error">> \in Seq(FrameTypes)
  BY <1>1 DEF StageFits, At, FrameTypes
<1>3. /\ frames' \in [Turns -> Seq(FrameTypes)]
      /\ frames'[t] = frames[t] \o <<"error">>
      /\ \A o \in Turns : o # t => frames'[o] = frames[o]
  BY <1>1, <1>2, WriteKeeps
<1>4. Ended(t)'
  <2>1. /\ frames'[t] \in Seq({"token", "error"}) /\ frames'[t] # <<>>
        /\ frames'[t][Len(frames'[t])] = "error"
    BY <1>2, <1>3, LastIsError
  <2> QED BY <2>1 DEF Ended
<1>5. messages' \in [Turns -> Seq({"user", "assistant"})]
  BY <1>1 DEF TutInv, TutorTypeOK
<1>6. "over" \in Stages \ (Early \cup {"abstaining", "asking"})
  BY DEF Stages, Early
<1> QED BY <1>1, <1>3, <1>4, <1>5, <1>6, WritingStep DEF Early

LEMMA StreamTokenStep == ASSUME TutInv, NEW t \in Turns, StreamToken(t) PROVE TutInv'
<1>1. /\ StageFits(t) /\ turn[t] \in TurnState /\ turn[t].stage = "streaming"
      /\ frames[t] = <<>> /\ Writes(t, <<"token">>) /\ UNCHANGED <<used, turn, messages, slips>>
  BY DEF TutInv, TutorTypeOK, StreamToken, At
<1>2. <<"token">> \in Seq(FrameTypes) /\ <<>> \o <<"token">> = <<"token">>
        /\ <<"token">> \in Seq({"token"})
  BY DEF FrameTypes
<1>3. /\ frames' \in [Turns -> Seq(FrameTypes)] /\ frames'[t] = <<"token">>
      /\ \A o \in Turns : o # t => frames'[o] = frames[o]
  BY <1>1, <1>2, WriteKeeps
<1>4. turn' = [turn EXCEPT ![t] = turn[t]]
  BY <1>1 DEF TutInv, TutorTypeOK
<1>5. StageFits(t)'
  BY <1>1, <1>2, <1>3 DEF StageFits, At, Early
<1>6. messages' \in [Turns -> Seq({"user", "assistant"})]
  BY <1>1 DEF TutInv, TutorTypeOK
<1> QED BY <1>1, <1>3, <1>4, <1>5, <1>6, TurnMoves

LEMMA LeavingSteps == ASSUME TutInv, NEW t \in Turns, EndModel(t) \/ TurnLost(t) PROVE TutInv'
<1>1. turn[t] \in TurnState /\ UNCHANGED <<used, messages, frames, slips>>
  BY DEF TutInv, TutorTypeOK, EndModel, TurnLost
<1>2. CASE EndModel(t)
  <2>1. PICK failed \in BOOLEAN :
          turn' = [turn EXCEPT ![t].stage = "storing", ![t].failed = failed]
    BY <1>2 DEF EndModel
  <2>2. PICK v : v = [turn[t] EXCEPT !.stage = "storing", !.failed = failed]
    OBVIOUS
  <2>3. turn' = [turn EXCEPT ![t] = v] /\ turn[t].stage = "streaming"
    BY <1>2, <2>1, <2>2 DEF EndModel, At, TutInv, TutorTypeOK
  <2>4. v \in TurnState /\ v.stage = "storing" /\ v.search = turn[t].search
    BY <1>1, <2>2 DEF TurnState, Stages
  <2>5. Paid(v) => Paid(turn[t])
    BY <2>4 DEF Paid
  <2> QED BY <1>1, <2>3, <2>4, <2>5, StageMoves DEF Early
<1>3. CASE TurnLost(t)
  <2>1. PICK v : v = [turn[t] EXCEPT !.stage = "lost", !.position = 0]
    OBVIOUS
  <2>2. turn' = [turn EXCEPT ![t] = v] /\ turn[t].stage # "over"
    BY <1>3, <2>1 DEF TurnLost, Reads, TutInv, TutorTypeOK
  <2>3. v \in TurnState /\ v.stage = "lost" /\ v.search = turn[t].search
    BY <1>1, <2>1 DEF TurnState, Stages
  <2>4. Paid(v) => Paid(turn[t])
    BY <2>3 DEF Paid
  <2> QED BY <1>1, <2>2, <2>3, <2>4, StageMoves DEF Early
<1> QED BY <1>2, <1>3

LEMMA StreamsFit == TutInv => StreamsAreTrue
<1> SUFFICES ASSUME TutInv, NEW t \in Turns
             PROVE  /\ "done" \in {frames[t][i] : i \in DOMAIN frames[t]} => Finished(t)
                    /\ Finished(t) => messages[t] = <<"user", "assistant">>
                    /\ \A i \in DOMAIN frames[t] :
                         frames[t][i] \in {"citation", "abstention"} => Finished(t)
                    /\ At(t, "over") => Finished(t) \/ frames[t][Len(frames[t])] = "error"
  BY DEF StreamsAreTrue
<1>1. StageFits(t)
  BY DEF TutInv
<1>2. CASE Finished(t) /\ messages[t] = Both
  BY <1>2 DEF Both
<1>3. CASE frames[t] \in Seq({"token", "error"})
             /\ (frames[t] # <<>> => frames[t][Len(frames[t])] # "done")
             /\ (At(t, "over") => frames[t][Len(frames[t])] = "error")
  <2>1. \A i \in DOMAIN frames[t] : frames[t][i] \in {"token", "error"}
    BY <1>3
  <2> QED BY <1>3, <2>1 DEF Finished
<1>4. CASE ~At(t, "over")
  <2>1. frames[t] \in Seq({"token"})
    BY <1>1, <1>4 DEF StageFits
  <2>2. frames[t] \in Seq({"token", "error"})
    BY <2>1
  <2>3. frames[t] # <<>> => frames[t][Len(frames[t])] = "token"
    BY <2>1
  <2> QED BY <1>3, <1>4, <2>2, <2>3
<1>5. CASE At(t, "over")
  BY <1>1, <1>2, <1>3, <1>5 DEF StageFits, Ended
<1> QED BY <1>4, <1>5

LEMMA AllowanceFits == TutInv => AllowanceHolds
<1> SUFFICES ASSUME TutInv PROVE AllowanceHolds
  OBVIOUS
<1> DEFINE S == {t \in Turns : turn[t].search}
<1>1. S \subseteq Charged
  BY DEF Charged, Paid
<1>2. /\ IsFiniteSet(S) /\ Cardinality(S) <= Cardinality(Charged)
      /\ Cardinality(S) \in Nat /\ Cardinality(Charged) \in Nat
  BY <1>1, FS_Subset, FS_CardinalityType DEF TutInv
<1> HIDE DEF S
<1>3. Cardinality(S) <= DailyLimit + slips
  BY <1>2, TutorAssumption DEF TutInv, TutorTypeOK
<1> QED BY <1>3 DEF AllowanceHolds, S

(* Whatever turns overlap, fail or die: a day's retrievals stay within the *)
(* plan and what refunds have overwritten or evictions lost, and a stream  *)
(* that ends with done belongs to a turn that is stored in full.           *)
THEOREM AllowanceAndStreams == TutorSpec => []TutorInv
<1>1. TutorInit => TutInv
  <2> SUFFICES ASSUME TutorInit PROVE TutInv
    OBVIOUS
  <2>1. NewTurn \in TurnState /\ ~Paid(NewTurn)
    BY DEF NewTurn, TurnState, Stages, Paid
  <2>2. TutorTypeOK
    BY <2>1 DEF TutorInit, TutorTypeOK
  <2>3. ASSUME NEW t \in Turns PROVE StageFits(t)
    BY DEF TutorInit, NewTurn, StageFits, At, Early
  <2>4. Charged = {}
    BY <2>1 DEF TutorInit, Charged
  <2>5. IsFiniteSet(Charged) /\ Cardinality(Charged) = 0
    BY <2>4, FS_EmptySet
  <2> QED BY <2>2, <2>3, <2>5, TutorAssumption DEF TutInv, TutorInit
<1>2. TutInv /\ [TutorNext]_tutorVars => TutInv'
  <2>1. CASE UNCHANGED tutorVars
    <3>1. UNCHANGED <<used, turn, messages, frames, slips>>
      BY <2>1 DEF tutorVars
    <3> QED BY <3>1 DEF TutInv, TutorTypeOK, StageFits, At, Ended, Finished, Charged, Paid
  <2> QED BY <2>1, CountUsageStep, RefundStep, LoseUsageStep, AllowanceSteps, StoringSteps, SealingSteps,
             StoreFailsStep, StreamTokenStep, LeavingSteps DEF TutorNext
<1>3. TutInv => TutorInv
  BY StreamsFit, AllowanceFits DEF TutInv, TutorInv
<1> QED BY <1>1, <1>2, <1>3, PTL DEF TutorSpec

-----------------------------------------------------------------------------
(* The weekly digest.  A counter admits one attempt, and each row was       *)
(* admitted by a counter of its own unless the cache failed.               *)
Active(a, w) == delivery[a].step # "idle" /\ delivery[a].week = w
Overlapped(w) == "overlapped" \in marks[w]
Uncapped(w) == "uncapped" \in marks[w]
BeforeCap(a) == delivery[a].step \in {"due", "drafted", "counting"}
CountersOf(w) == {d \in Counters : taken[d] = w}

\* The counters whose admission is not in use by an attempt that has yet to write.
Spent(w) ==
  {d \in CountersOf(w) :
     \A a \in Deliveries : Active(a, w) /\ Stands(a, "sending") => delivery[a].by # d}

AttemptFits(a, w) ==
  /\ runs[w] > 0
  /\ Stands(a, "sent") => rows[w] > 0
  /\ Stands(a, "drafted") => delivery[a].seen <= practised[w]
  /\ BeforeCap(a) /\ CountersOf(w) # {} => runs[w] > 1
  /\ Stands(a, "sending") => Uncapped(w) \/ delivery[a].by \in CountersOf(w)
  /\ rows[w] > 0 => Stands(a, "sent") \/ Overlapped(w)

PairFits(a, b, w) ==
  /\ runs[w] > 1 /\ Overlapped(w)
  /\ Stands(a, "sending") /\ Stands(b, "sending") =>
       Uncapped(w) \/ delivery[a].by # delivery[b].by

WeekFits(w) ==
  /\ CountersOf(w) # {} => runs[w] > 0
  /\ rows[w] > 1 => Overlapped(w)
  /\ Uncapped(w) \/ rows[w] <= Cardinality(Spent(w))

CounterFits(d) == taken[d] = Nil <=> cap[d] = 0

(* The inductive invariant.                                                *)
DigestBooks ==
  /\ DigestTypeOK /\ LostToTheCap /\ NothingInvented
  /\ \A d \in Counters : CounterFits(d)
  /\ \A w \in Weeks : WeekFits(w)
  /\ \A a \in Deliveries, w \in Weeks : Active(a, w) => AttemptFits(a, w)
  /\ \A a, b \in Deliveries, w \in Weeks :
       a # b /\ Active(a, w) /\ Active(b, w) => PairFits(a, b, w)

LEMMA DigestUnits ==
  /\ Nil \notin Nat /\ Nil \notin Deliveries
  /\ Weeks \subseteq Nat /\ Days \subseteq Nat
  /\ Resting \in Delivery
<1>1. Horizon \in Nat /\ DaysPerWeek \in Nat \ {0}
  BY DigestAssumption
<1>2. 0 \div DaysPerWeek = 0 /\ Horizon \div DaysPerWeek \in Nat
  BY <1>1
<1>3. 0 \in Weeks /\ 0 \in Days
  BY <1>1, <1>2 DEF Weeks, Days, WeekOf
<1> QED BY <1>1, <1>3, DigestAssumption DEF Weeks, Days, Resting, Delivery

LEMMA OneMore ==
  ASSUME NEW S, NEW f \in [S -> Nat], NEW k
  PROVE  /\ [f EXCEPT ![k] = @ + 1] \in [S -> Nat]
         /\ \A w \in S : f[w] <= [f EXCEPT ![k] = @ + 1][w]
<1>1. CASE k \in S
  BY <1>1
<1>2. CASE k \notin S
  <2>1. PICK v : v = f[k] + 1
    OBVIOUS
  <2>2. [f EXCEPT ![k] = v] = f
    BY <1>2
  <2>3. [f EXCEPT ![k] = @ + 1] = f
    BY <2>1, <2>2
  <2>4. \A w \in S : f[w] <= f[w]
    OBVIOUS
  <2> QED BY <2>3, <2>4
<1> QED BY <1>1, <1>2

LEMMA CountersAreFinite == IsFiniteSet(Counters)
<1>1. IsFiniteSet(Days) /\ IsFiniteSet(0 .. MaxEvicted)
  BY DigestAssumption, FS_Interval DEF Days
<1> QED BY <1>1, FS_Product DEF Counters

LEMMA CounterOfDay == ASSUME DigestTypeOK, NEW d \in Days PROVE CounterOf(d) \in Counters
BY DEF DigestTypeOK, CounterOf, Counters

LEMMA SpentIsFinite ==
  ASSUME NEW w
  PROVE  /\ IsFiniteSet(Spent(w)) /\ Cardinality(Spent(w)) \in Nat
         /\ IsFiniteSet(CountersOf(w)) /\ Cardinality(CountersOf(w)) \in Nat
         /\ Cardinality(Spent(w)) <= Cardinality(CountersOf(w))
<1>1. IsFiniteSet(Counters)
  BY CountersAreFinite
<1>2. CountersOf(w) \subseteq Counters /\ Spent(w) \subseteq CountersOf(w)
  BY DEF CountersOf, Spent
<1> QED BY <1>1, <1>2, FS_Subset, FS_CardinalityType

LEMMA SpentIsFiniteNext ==
  ASSUME NEW w
  PROVE  IsFiniteSet(Spent(w)') /\ Cardinality(Spent(w)') \in Nat
<1>1. IsFiniteSet(Counters) /\ Spent(w)' \subseteq Counters
  BY CountersAreFinite DEF CountersOf, Spent
<1> QED BY <1>1, FS_Subset, FS_CardinalityType

LEMMA RowsPaid ==
  ASSUME NEW n \in Nat, NEW m \in Nat, NEW k \in Nat, n <= m, m <= k
  PROVE  n <= k
OBVIOUS

LEMMA OneRowMore ==
  ASSUME NEW n \in Nat, NEW m \in Nat, NEW k \in Nat, n <= m, m + 1 <= k
  PROVE  n + 1 <= k
OBVIOUS

LEMMA DigestStart == DigestInit => DigestBooks
<1> SUFFICES ASSUME DigestInit PROVE DigestBooks
  OBVIOUS
<1>1. DigestTypeOK
  <2>1. 0 \in Days /\ 0 \in 0 .. MaxEvicted
    BY DigestAssumption DEF Days
  <2> QED BY <2>1, DigestUnits DEF DigestInit, DigestTypeOK, JobState, Marks
<1>2. \A w \in Weeks : CountersOf(w) = {}
  BY DigestUnits DEF DigestInit, CountersOf
<1>3. \A a \in Deliveries, w \in Weeks : ~Active(a, w)
  BY DEF DigestInit, Active, Resting
<1>4. \A w \in Weeks : WeekFits(w)
  BY <1>2, SpentIsFinite DEF DigestInit, WeekFits
<1> QED BY <1>1, <1>3, <1>4, DigestUnits
        DEF DigestInit, DigestBooks, LostToTheCap, NothingInvented, CounterFits

-----------------------------------------------------------------------------
\* One attempt moves: what it may change for the others, and for which week.
Moves(a) ==
  /\ \A b \in Deliveries : b # a => delivery'[b] = delivery[b]
  /\ \A w \in Weeks :
       /\ rows[w] <= rows'[w] /\ runs[w] <= runs'[w] /\ practised[w] <= practised'[w]
       /\ marks[w] \subseteq marks'[w]
       /\ ~Active(a, w) => /\ rows'[w] = rows[w]
                           /\ \A d \in Counters : taken'[d] = w => taken[d] = w
  /\ \A d \in Counters : taken[d] # Nil => taken'[d] = taken[d]

LEMMA OthersFit ==
  ASSUME DigestBooks, NEW a \in Deliveries, Moves(a), DigestTypeOK'
  PROVE  /\ \A b \in Deliveries \ {a}, w \in Weeks : Active(b, w)' => AttemptFits(b, w)'
         /\ \A b, c \in Deliveries \ {a}, w \in Weeks :
              b # c /\ Active(b, w)' /\ Active(c, w)' => PairFits(b, c, w)'
<1>1. ASSUME NEW b \in Deliveries \ {a}, NEW w \in Weeks, Active(b, w)'
      PROVE  /\ Active(b, w) /\ AttemptFits(b, w)
             /\ \A step : Stands(b, step)' <=> Stands(b, step)
             /\ delivery'[b] = delivery[b]
             /\ BeforeCap(b)' <=> BeforeCap(b)
             /\ Active(a, w) => PairFits(a, b, w)
             /\ rows[w] \in Nat /\ runs[w] \in Nat /\ practised[w] \in Nat
             /\ rows'[w] \in Nat /\ runs'[w] \in Nat /\ practised'[w] \in Nat
             /\ delivery[b].by \in Counters \cup {Nil} /\ delivery[b].seen \in Nat
  <2>1. delivery'[b] = delivery[b]
    BY DEF Moves
  <2>2. Active(b, w) /\ (BeforeCap(b)' <=> BeforeCap(b)) /\ \A step : Stands(b, step)' <=> Stands(b, step)
    BY <1>1, <2>1 DEF Active, Stands, BeforeCap
  <2>3. AttemptFits(b, w) /\ (Active(a, w) => PairFits(a, b, w))
    BY <2>2 DEF DigestBooks
  <2>4. rows[w] \in Nat /\ runs[w] \in Nat /\ practised[w] \in Nat
    BY DEF DigestBooks, DigestTypeOK
  <2>5. rows'[w] \in Nat /\ runs'[w] \in Nat /\ practised'[w] \in Nat
    BY DEF DigestTypeOK
  <2>6. delivery[b].by \in Counters \cup {Nil} /\ delivery[b].seen \in Nat
    BY DEF DigestBooks, DigestTypeOK, Delivery
  <2> QED BY <2>1, <2>2, <2>3, <2>4, <2>5, <2>6
<1>2. ASSUME NEW b \in Deliveries \ {a}, NEW w \in Weeks, Active(b, w)'
      PROVE  AttemptFits(b, w)'
  <2>1. runs'[w] > 0 /\ (Stands(b, "sent") => rows'[w] > 0)
        /\ (Stands(b, "drafted") => delivery[b].seen <= practised'[w])
    BY <1>1, <1>2 DEF Moves, AttemptFits
  <2>2. ASSUME BeforeCap(b), CountersOf(w)' # {} PROVE runs'[w] > 1
    <3>1. CASE Active(a, w)
      BY <1>1, <1>2, <3>1 DEF PairFits, Moves
    <3>2. CASE ~Active(a, w)
      <4>1. CountersOf(w) # {}
        BY <2>2, <3>2 DEF Moves, CountersOf
      <4> QED BY <1>1, <1>2, <2>2, <4>1 DEF AttemptFits, Moves
    <3> QED BY <3>1, <3>2
  <2>3. ASSUME Stands(b, "sending") PROVE Uncapped(w)' \/ delivery[b].by \in CountersOf(w)'
    <3>1. Uncapped(w) \/ delivery[b].by \in CountersOf(w)
      BY <1>1, <1>2, <2>3 DEF AttemptFits
    <3>2. w # Nil
      BY <1>1, <1>2, DigestUnits
    <3>3. Uncapped(w) => Uncapped(w)'
      BY DEF Uncapped, Moves
    <3> QED BY <3>1, <3>2, <3>3 DEF Moves, CountersOf
  <2>4. rows'[w] > 0 => Stands(b, "sent") \/ Overlapped(w)'
    BY <1>1, <1>2 DEF AttemptFits, PairFits, Moves, Overlapped
  <2> QED BY <1>1, <1>2, <2>1, <2>2, <2>3, <2>4 DEF AttemptFits
<1>3. ASSUME NEW b \in Deliveries \ {a}, NEW c \in Deliveries \ {a}, NEW w \in Weeks,
             b # c, Active(b, w)', Active(c, w)'
      PROVE  PairFits(b, c, w)'
  <2>1. PairFits(b, c, w)
    BY <1>1, <1>3 DEF DigestBooks
  <2> QED BY <1>1, <1>3, <2>1 DEF PairFits, Moves, Overlapped, Uncapped
<1> QED BY <1>2, <1>3

\* Unless an admission is put to use in vain, what was spent stays spent.
LEMMA SpentStays ==
  ASSUME DigestBooks, NEW a \in Deliveries, Moves(a), NEW w \in Weeks,
         Active(a, w)' /\ Stands(a, "sending")' => delivery'[a].by \notin Spent(w)
  PROVE  Spent(w) \subseteq Spent(w)' /\ Cardinality(Spent(w)) <= Cardinality(Spent(w)')
<1>1. \A d \in CountersOf(w) : d \in CountersOf(w)'
  BY DigestUnits DEF CountersOf, Moves
<1>2. ASSUME NEW d \in Spent(w), NEW b \in Deliveries, Active(b, w)', Stands(b, "sending")'
      PROVE  delivery'[b].by # d
  BY <1>2 DEF Spent, Moves, Active, Stands
<1>3. Spent(w) \subseteq Spent(w)'
  BY <1>1, <1>2 DEF Spent
<1> QED BY <1>3, SpentIsFiniteNext, FS_Subset

\* What is left to show of a step of one attempt.
LEMMA DeliveryMoves ==
  ASSUME DigestBooks, NEW a \in Deliveries, Moves(a), DigestTypeOK',
         LostToTheCap', NothingInvented',
         \A d \in Counters : CounterFits(d)',
         \A w \in Weeks : WeekFits(w)',
         \A w \in Weeks : Active(a, w)' => AttemptFits(a, w)',
         \A w \in Weeks, b \in Deliveries \ {a} :
           Active(a, w)' /\ Active(b, w)' => PairFits(a, b, w)'
  PROVE  DigestBooks'
<1>1. \A b \in Deliveries, w \in Weeks : Active(b, w)' => AttemptFits(b, w)'
  BY OthersFit
<1>2. ASSUME NEW b \in Deliveries, NEW c \in Deliveries, NEW w \in Weeks,
             b # c, Active(b, w)', Active(c, w)'
      PROVE  PairFits(b, c, w)'
  <2>1. CASE b # a /\ c # a
    BY <1>2, <2>1, OthersFit
  <2>2. CASE b = a
    BY <1>2, <2>2
  <2>3. CASE c = a
    <3>1. PairFits(c, b, w)'
      BY <1>2, <2>3
    <3> QED BY <3>1 DEF PairFits
  <2> QED BY <2>1, <2>2, <2>3
<1> QED BY <1>1, <1>2 DEF DigestBooks

\* A digest that was lost for a reason is lost for it for good.
LEMMA LossExplained ==
  ASSUME DigestBooks, NEW a \in Deliveries, Moves(a), DigestTypeOK',
         \A d \in Counters : cap[d] <= cap'[d],
         NEW w \in Weeks, digestJob[w] = "done", rows'[w] = 0
  PROVE  \/ "unlinked" \in marks'[w]
         \/ \E d \in Counters : cap'[d] > 1 /\ taken'[d] # Nil /\ (taken'[d] = w => runs'[w] > 1)
<1>1. rows[w] \in Nat /\ rows[w] <= rows'[w] /\ runs[w] \in Nat /\ runs'[w] \in Nat /\ runs[w] <= runs'[w]
  BY DEF DigestBooks, DigestTypeOK, Moves
<1>2. rows[w] = 0
  BY <1>1
<1>3. CASE "unlinked" \in marks[w]
  BY <1>3 DEF Moves
<1>4. CASE \E d \in Counters : cap[d] > 1 /\ taken[d] # Nil /\ (taken[d] = w => runs[w] > 1)
  <2>1. PICK d \in Counters : cap[d] > 1 /\ taken[d] # Nil /\ (taken[d] = w => runs[w] > 1)
    BY <1>4
  <2>2. taken'[d] = taken[d] /\ cap[d] <= cap'[d] /\ cap[d] \in 0 .. 2 /\ cap'[d] \in 0 .. 2
    BY <2>1 DEF Moves, DigestBooks, DigestTypeOK
  <2>3. cap'[d] > 1
    BY <2>1, <2>2
  <2> QED BY <1>1, <2>1, <2>2, <2>3
<1> QED BY <1>2, <1>3, <1>4 DEF DigestBooks, LostToTheCap

-----------------------------------------------------------------------------
\* Steps that no attempt makes.
LEMMA QuietSteps ==
  ASSUME DigestBooks, DigestTypeOK',
         UNCHANGED <<runs, stored, delivery, cap, rows, taken, marks>>,
         \A w \in Weeks : digestJob'[w] = "done" => digestJob[w] = "done",
         \A w \in Weeks : practised[w] <= practised'[w]
  PROVE  DigestBooks'
<1>1. /\ \A w : CountersOf(w)' = CountersOf(w)
      /\ \A a, w : Active(a, w)' <=> Active(a, w)
      /\ \A a, step : Stands(a, step)' <=> Stands(a, step)
  BY DEF CountersOf, Active, Stands
<1>2. \A w : Spent(w)' = Spent(w)
  BY DEF Spent, CountersOf, Active, Stands
<1>3. LostToTheCap' /\ (\A d \in Counters : CounterFits(d)') /\ \A w \in Weeks : WeekFits(w)'
  BY <1>1, <1>2 DEF DigestBooks, LostToTheCap, CounterFits, WeekFits, Overlapped, Uncapped
<1>4. NothingInvented'
  BY DigestUnits DEF DigestBooks, DigestTypeOK, NothingInvented
<1>5. \A a \in Deliveries, w \in Weeks : Active(a, w)' => AttemptFits(a, w)'
  <2> SUFFICES ASSUME NEW a \in Deliveries, NEW w \in Weeks, Active(a, w) PROVE AttemptFits(a, w)'
    BY <1>1
  <2>1. practised[w] \in Nat /\ practised'[w] \in Nat /\ delivery[a].seen \in Nat
    BY DEF DigestBooks, DigestTypeOK, Delivery
  <2>2. AttemptFits(a, w) /\ practised[w] <= practised'[w]
    BY DEF DigestBooks
  <2> QED BY <1>1, <2>1, <2>2 DEF AttemptFits, Overlapped, Uncapped, BeforeCap
<1>6. \A a, b \in Deliveries, w \in Weeks :
        a # b /\ Active(a, w)' /\ Active(b, w)' => PairFits(a, b, w)'
  BY <1>1 DEF DigestBooks, PairFits, Overlapped, Uncapped
<1> QED BY <1>3, <1>4, <1>5, <1>6 DEF DigestBooks

LEMMA ScanSteps ==
  ASSUME DigestBooks, EnsureScan \/ \E w \in Weeks : RunScan(w) \/ DigestDies(w)
  PROVE  DigestBooks'
<1>1. DigestTypeOK /\ \A w \in Weeks : practised[w] \in Nat
  BY DEF DigestBooks, DigestTypeOK
<1>2. CASE EnsureScan
  <2>1. DigestTypeOK'
    BY <1>1, <1>2 DEF DigestTypeOK, EnsureScan, JobState
  <2> QED BY <1>1, <1>2, <2>1, QuietSteps DEF EnsureScan
<1>3. CASE \E w \in Weeks : RunScan(w)
  <2>1. PICK w \in Weeks : RunScan(w)
    BY <1>3
  <2>2. /\ digestJob' \in [Weeks -> JobState]
        /\ \A v \in Weeks : digestJob'[v] = "done" => digestJob[v] = "done"
    BY <1>1, <2>1 DEF DigestTypeOK, RunScan, JobState
  <2>3. DigestTypeOK'
    BY <1>1, <2>1, <2>2 DEF DigestTypeOK, RunScan, JobState
  <2> QED BY <1>1, <2>1, <2>2, <2>3, QuietSteps DEF RunScan
<1>4. CASE \E w \in Weeks : DigestDies(w)
  <2>1. PICK w \in Weeks : DigestDies(w)
    BY <1>4
  <2>2. \A v \in Weeks : digestJob'[v] = "done" => digestJob[v] = "done"
    BY <1>1, <2>1 DEF DigestTypeOK, DigestDies
  <2>3. DigestTypeOK'
    BY <1>1, <2>1 DEF DigestTypeOK, DigestDies, JobState
  <2> QED BY <1>1, <2>1, <2>2, <2>3, QuietSteps DEF DigestDies
<1> QED BY <1>2, <1>3, <1>4

LEMMA WeekPasses ==
  ASSUME DigestBooks,
         Practise \/ EndLink \/ NextDay \/ (\E d \in Days : LoseCap(d)) \/ UNCHANGED digestVars
  PROVE  DigestBooks'
<1>1. DigestTypeOK /\ \A w \in Weeks : practised[w] \in Nat
  BY DEF DigestBooks, DigestTypeOK
<1>2. CASE Practise
  <2>1. practised' \in [Weeks -> Nat] /\ \A w \in Weeks : practised[w] <= practised'[w]
    <3>1. practised \in [Weeks -> Nat] /\ practised' = [practised EXCEPT ![ThisWeek] = @ + 1]
      BY <1>1, <1>2 DEF DigestTypeOK, Practise
    <3> QED BY <3>1, OneMore
  <2>2. DigestTypeOK'
    BY <1>1, <1>2, <2>1 DEF DigestTypeOK, Practise
  <2> QED BY <1>2, <2>1, <2>2, QuietSteps DEF Practise
<1>3. CASE EndLink
  <2>1. DigestTypeOK'
    BY <1>1, <1>3 DEF DigestTypeOK, EndLink
  <2> QED BY <1>1, <1>3, <2>1, QuietSteps DEF EndLink
<1>4. CASE NextDay
  <2>1. DigestTypeOK'
    BY <1>1, <1>4, DigestAssumption DEF DigestTypeOK, NextDay, Days
  <2> QED BY <1>1, <1>4, <2>1, QuietSteps DEF NextDay
<1>5. CASE \E d \in Days : LoseCap(d)
  <2>1. PICK d \in Days : LoseCap(d)
    BY <1>5
  <2>2. evicted' \in [Days -> 0 .. MaxEvicted]
    BY <1>1, <2>1, DigestAssumption DEF DigestTypeOK, LoseCap
  <2>3. DigestTypeOK'
    BY <1>1, <2>1, <2>2 DEF DigestTypeOK, LoseCap
  <2> QED BY <1>1, <2>1, <2>3, QuietSteps DEF LoseCap
<1>6. CASE UNCHANGED digestVars
  <2>1. DigestTypeOK'
    BY <1>1, <1>6 DEF DigestTypeOK, digestVars
  <2> QED BY <1>1, <1>6, <2>1, QuietSteps DEF digestVars
<1> QED BY <1>2, <1>3, <1>4, <1>5, <1>6

-----------------------------------------------------------------------------
\* An attempt ends, and the books stay as they were.
LEMMA AttemptEnds ==
  ASSUME DigestBooks, NEW a \in Deliveries, DigestTypeOK',
         \A b \in Deliveries : b # a => delivery'[b] = delivery[b],
         delivery'[a].step = "idle",
         UNCHANGED <<practised, stored, rows, taken>>,
         \A w \in Weeks : runs[w] <= runs'[w],
         \A d \in Counters : cap[d] <= cap'[d] /\ (cap'[d] = 0 <=> cap[d] = 0),
         \A w \in Weeks : marks[w] \subseteq marks'[w],
         \A w \in Weeks : digestJob'[w] = "done" /\ digestJob[w] # "done" =>
           \/ rows[w] > 0 \/ "unlinked" \in marks'[w]
           \/ \E d \in Counters : cap'[d] > 1 /\ taken[d] # Nil /\ (taken[d] = w => runs'[w] > 1)
  PROVE  DigestBooks'
<1>1. Moves(a)
  <2>1. \A w \in Weeks : rows[w] \in Nat /\ runs[w] \in Nat /\ practised[w] \in Nat
    BY DEF DigestBooks, DigestTypeOK
  <2>2. \A n \in Nat : n <= n
    OBVIOUS
  <2> QED BY <2>1, <2>2 DEF Moves
<1>2. \A w : ~ Active(a, w)'
  BY DEF Active
<1>3. LostToTheCap'
  <2> SUFFICES ASSUME NEW w \in Weeks, digestJob'[w] = "done", rows'[w] = 0
               PROVE  \/ "unlinked" \in marks'[w]
                      \/ \E d \in Counters : cap'[d] > 1 /\ taken'[d] # Nil /\ (taken'[d] = w => runs'[w] > 1)
    BY DEF LostToTheCap
  <2>1. CASE digestJob[w] = "done"
    BY <1>1, <2>1, LossExplained
  <2>2. CASE digestJob[w] # "done"
    BY <2>2
  <2> QED BY <2>1, <2>2
<1>4. NothingInvented' /\ \A d \in Counters : CounterFits(d)'
  BY DEF DigestBooks, NothingInvented, CounterFits
<1>5. ASSUME NEW w \in Weeks PROVE WeekFits(w)'
  <2>1. Cardinality(Spent(w)) <= Cardinality(Spent(w)')
    BY <1>1, <1>2, SpentStays
  <2>2. WeekFits(w) /\ rows[w] \in Nat /\ runs[w] \in Nat /\ runs'[w] \in Nat /\ runs[w] <= runs'[w]
    BY DEF DigestBooks, DigestTypeOK
  <2>3. CountersOf(w)' = CountersOf(w)
    BY DEF CountersOf
  <2>4. (Uncapped(w) => Uncapped(w)') /\ (Overlapped(w) => Overlapped(w)')
    BY DEF Uncapped, Overlapped
  <2>5. Cardinality(Spent(w)) \in Nat /\ Cardinality(Spent(w)') \in Nat
    BY SpentIsFinite, SpentIsFiniteNext
  <2>6. CountersOf(w)' # {} => runs'[w] > 0
    BY <2>2, <2>3 DEF WeekFits
  <2>7. rows'[w] > 1 => Overlapped(w)'
    BY <2>2, <2>4 DEF WeekFits
  <2> QED BY <2>1, <2>2, <2>4, <2>5, <2>6, <2>7, RowsPaid DEF WeekFits
<1> QED BY <1>1, <1>2, <1>3, <1>4, <1>5, DeliveryMoves

LEMMA EndingSteps ==
  ASSUME DigestBooks, NEW a \in Deliveries,
         NothingToSay(a) \/ FinishDelivery(a) \/ DeliveryFails(a)
  PROVE  DigestBooks'
<1> DEFINE w == delivery[a].week
<1>1. /\ DigestTypeOK /\ w \in Weeks /\ delivery[a] \in Delivery
      /\ \A d \in Counters : cap[d] \in 0 .. 2
  BY DEF DigestBooks, DigestTypeOK, Delivery
<1>2. (\A n \in 0 .. 2 : n <= n) /\ (\A v \in Weeks : runs[v] <= runs[v])
  BY <1>1 DEF DigestTypeOK
<1> DEFINE Rests == /\ \A b \in Deliveries : b # a => delivery'[b] = delivery[b]
                    /\ delivery'[a].step = "idle"
                    /\ delivery' \in [Deliveries -> Delivery]
<1>6. ASSUME Proceeds(a, Resting) PROVE Rests
  <2>1. Resting \in Delivery /\ Resting.step = "idle"
    BY DigestUnits DEF Resting
  <2>2. delivery \in [Deliveries -> Delivery] /\ delivery' = [delivery EXCEPT ![a] = Resting]
    BY <1>1, <1>6 DEF DigestTypeOK, Proceeds
  <2> QED BY <2>1, <2>2
<1> HIDE DEF w
<1>3. CASE NothingToSay(a)
  <2>1. /\ digestJob' \in [Weeks -> JobState] /\ holder' \in [Weeks -> Deliveries \cup {Nil}]
        /\ \A v \in Weeks \ {w} : digestJob'[v] = digestJob[v]
    BY <1>1, <1>3 DEF DigestTypeOK, NothingToSay, Completes, JobState, w
  <2>2. /\ marks' \in [Weeks -> SUBSET Marks] /\ "unlinked" \in marks'[w]
        /\ \A v \in Weeks : marks[v] \subseteq marks'[v]
    BY <1>1, <1>3 DEF DigestTypeOK, NothingToSay, Marked, Marks, w
  <2>3. Rests /\ UNCHANGED <<today, linked, practised, scanJob, runs, stored, evicted, cap, rows, taken>>
    BY <1>3, <1>6 DEF NothingToSay, Completes
  <2>4. DigestTypeOK'
    BY <1>1, <2>1, <2>2, <2>3, DigestUnits DEF DigestTypeOK
  <2> QED BY <1>1, <1>2, <2>1, <2>2, <2>3, <2>4, AttemptEnds
<1>4. CASE FinishDelivery(a)
  <2>1. /\ digestJob' \in [Weeks -> JobState] /\ holder' \in [Weeks -> Deliveries \cup {Nil}]
        /\ \A v \in Weeks \ {w} : digestJob'[v] = digestJob[v]
    BY <1>1, <1>4 DEF DigestTypeOK, FinishDelivery, Completes, JobState, w
  <2>2. /\ Rests
        /\ UNCHANGED <<today, linked, practised, scanJob, runs, stored, evicted, cap, rows, taken, marks>>
    BY <1>4, <1>6 DEF FinishDelivery, Completes
  <2>3. rows[w] > 0
    BY <1>1, <1>4 DEF DigestBooks, AttemptFits, Active, FinishDelivery, Stands, w
  <2>4. DigestTypeOK'
    BY <1>1, <2>1, <2>2, DigestUnits DEF DigestTypeOK
  <2> QED BY <1>1, <1>2, <2>1, <2>2, <2>3, <2>4, AttemptEnds
<1>5. CASE DeliveryFails(a)
  <2>1. /\ Rests
        /\ UNCHANGED <<today, linked, practised, scanJob, digestJob, holder, runs, stored, evicted, cap,
                       rows, taken, marks>>
    BY <1>5, <1>6 DEF DeliveryFails
  <2>2. DigestTypeOK'
    BY <1>1, <2>1, DigestUnits DEF DigestTypeOK
  <2> QED BY <1>1, <1>2, <2>1, <2>2, AttemptEnds
<1> QED BY <1>3, <1>4, <1>5

LEMMA Proceeding ==
  ASSUME DigestTypeOK, NEW a \in Deliveries, NEW state \in Delivery, Proceeds(a, state)
  PROVE  /\ delivery' \in [Deliveries -> Delivery] /\ delivery'[a] = state
         /\ \A b \in Deliveries : b # a => delivery'[b] = delivery[b]
BY DEF DigestTypeOK, Proceeds

\* An attempt reads, and writes its digest: nothing that others rely on.
LEMMA WritingSteps ==
  ASSUME DigestBooks, NEW a \in Deliveries, ReadEvidence(a) \/ InsertDigest(a)
  PROVE  DigestBooks'
<1>0. PICK w \in Weeks : w = delivery[a].week
  BY DEF DigestBooks, DigestTypeOK, Delivery
<1> DEFINE fresh == delivery'[a]
<1>1. /\ DigestTypeOK /\ delivery[a] \in Delivery
      /\ \A v \in Weeks : rows[v] \in Nat /\ runs[v] \in Nat /\ practised[v] \in Nat
      /\ \A v \in Weeks : rows[v] <= rows[v] /\ runs[v] <= runs[v] /\ practised[v] <= practised[v]
  BY DEF DigestBooks, DigestTypeOK, Delivery
<1>2. AttemptFits(a, w) /\ Active(a, w) /\ BeforeCap(a)
  BY <1>0, <1>1 DEF DigestBooks, ReadEvidence, InsertDigest, Stands, Active, BeforeCap
<1>3. /\ delivery' \in [Deliveries -> Delivery] /\ fresh.week = w /\ fresh.step \in {"drafted", "counting"}
      /\ \A b \in Deliveries : b # a => delivery'[b] = delivery[b]
      /\ fresh.step = "drafted" => fresh.seen <= practised[w]
  <2>1. Sending(a) \in Delivery /\ Sending(a).week = w /\ Sending(a).step = "counting"
    BY <1>0, <1>1 DEF Sending, Moved, Delivery, DigestTypeOK
  <2>2. CASE InsertDigest(a)
    BY <1>0, <1>1, <2>1, <2>2, Proceeding DEF InsertDigest
  <2>3. CASE ReadEvidence(a)
    <3>1. CASE stored[w] # Nil
      BY <1>0, <1>1, <2>1, <2>3, <3>1, Proceeding DEF ReadEvidence
    <3>2. CASE stored[w] = Nil
      <4> DEFINE drafted == [Moved(a, "drafted") EXCEPT !.seen = practised[w]]
      <4>1. drafted \in Delivery /\ drafted.week = w /\ drafted.step = "drafted" /\ drafted.seen = practised[w]
        BY <1>0, <1>1 DEF Moved, Delivery
      <4>2. Proceeds(a, drafted)
        BY <1>0, <2>3, <3>2 DEF ReadEvidence
      <4> HIDE DEF drafted
      <4> QED BY <1>1, <4>1, <4>2, Proceeding
    <3> QED BY <3>1, <3>2
  <2> QED BY <2>2, <2>3
<1>4. UNCHANGED <<today, practised, linked, scanJob, digestJob, holder, runs, evicted, cap, rows, taken, marks>>
  BY DEF ReadEvidence, InsertDigest
<1>5. /\ stored' \in [Weeks -> Nat \cup {Nil}]
      /\ \A v \in Weeks : stored'[v] # Nil => stored'[v] <= practised[v]
  <2>1. \A v \in Weeks : stored[v] # Nil => stored[v] <= practised[v]
    BY DEF DigestBooks, NothingInvented
  <2>2. CASE ReadEvidence(a)
    BY <1>1, <2>1, <2>2 DEF ReadEvidence, DigestTypeOK
  <2>3. CASE InsertDigest(a)
    <3>1. delivery[a].seen \in Nat /\ delivery[a].seen <= practised[w]
      BY <1>0, <1>1, <1>2, <2>3 DEF AttemptFits, InsertDigest, Delivery
    <3>2. stored' = [stored EXCEPT ![w] = delivery[a].seen] \/ stored' = stored
      BY <1>0, <2>3 DEF InsertDigest
    <3> QED BY <1>1, <2>1, <3>1, <3>2 DEF DigestTypeOK
  <2> QED BY <2>2, <2>3
<1> HIDE DEF fresh
<1>6. DigestTypeOK'
  BY <1>1, <1>3, <1>4, <1>5 DEF DigestTypeOK
<1>7. Moves(a)
  BY <1>1, <1>3, <1>4 DEF Moves
<1>8. \A v \in Weeks : Active(a, v)' => v = w /\ Active(a, v)
  BY <1>0, <1>2, <1>3 DEF Active, fresh
<1>9. ASSUME Active(a, w)' PROVE AttemptFits(a, w)'
  <2>1. CountersOf(w)' = CountersOf(w)
    BY <1>4 DEF CountersOf
  <2> QED BY <1>1, <1>2, <1>3, <1>4, <2>1
          DEF AttemptFits, Stands, Overlapped, Uncapped, BeforeCap, fresh
<1>10. ASSUME NEW b \in Deliveries \ {a}, Active(b, w)' PROVE PairFits(a, b, w)'
  <2>1. PairFits(a, b, w)
    BY <1>1, <1>2, <1>3, <1>10 DEF DigestBooks, Active
  <2> QED BY <1>3, <1>4, <2>1 DEF PairFits, Stands, Overlapped, fresh
<1>11. ASSUME NEW v \in Weeks PROVE WeekFits(v)'
  <2>1. Cardinality(Spent(v)) <= Cardinality(Spent(v)')
    BY <1>3, <1>7, SpentStays DEF Stands, fresh
  <2>2. WeekFits(v) /\ rows[v] \in Nat /\ rows'[v] = rows[v] /\ runs'[v] = runs[v]
        /\ CountersOf(v)' = CountersOf(v) /\ Cardinality(Spent(v)) \in Nat /\ Cardinality(Spent(v)') \in Nat
    BY <1>1, <1>4, SpentIsFinite, SpentIsFiniteNext DEF DigestBooks, CountersOf
  <2> QED BY <1>4, <2>1, <2>2, RowsPaid DEF WeekFits, Uncapped, Overlapped
<1>12. LostToTheCap' /\ NothingInvented' /\ \A d \in Counters : CounterFits(d)'
  BY <1>4, <1>5 DEF DigestBooks, LostToTheCap, NothingInvented, CounterFits
<1> QED BY <1>6, <1>7, <1>8, <1>9, <1>10, <1>11, <1>12, DeliveryMoves

LEMMA CounterBounds ==
  /\ \A n \in 0 .. 2 : Counted(n) \in 0 .. 2 /\ Counted(n) # 0 /\ n <= Counted(n)
  /\ \A n \in 0 .. 2 : n # 0 => Counted(n) = 2
  /\ \A n \in 0 .. 2 : n <= n
BY DEF Counted

\* The day's second is suppressed, and its job is done.
LEMMA SuppressedStep ==
  ASSUME DigestBooks, NEW a \in Deliveries, CountDigest(a), cap[CounterOf(delivery[a].on)] # 0
  PROVE  DigestBooks'
<1>1. PICK w \in Weeks, d \in Counters : w = delivery[a].week /\ d = CounterOf(delivery[a].on)
  BY CounterOfDay DEF DigestBooks, DigestTypeOK, Delivery
<1>2. DigestTypeOK /\ Resting \in Delivery /\ Resting.step = "idle"
  BY DigestUnits DEF DigestBooks, Resting
<1>3. /\ delivery' \in [Deliveries -> Delivery] /\ delivery'[a].step = "idle"
      /\ \A b \in Deliveries : b # a => delivery'[b] = delivery[b]
  BY <1>2, Proceeding DEF CountDigest, Completes
<1>4. /\ digestJob' \in [Weeks -> JobState] /\ holder' \in [Weeks -> Deliveries \cup {Nil}]
      /\ \A v \in Weeks \ {w} : digestJob'[v] = digestJob[v]
  BY <1>1, <1>2 DEF DigestTypeOK, CountDigest, Completes, JobState
<1>5. /\ cap' = [cap EXCEPT ![d] = Counted(@)] /\ cap \in [Counters -> 0 .. 2] /\ cap[d] # 0
      /\ UNCHANGED <<today, practised, linked, scanJob, runs, stored, evicted, rows, taken, marks>>
  BY <1>1, <1>2 DEF CountDigest, DigestTypeOK
<1>6. /\ cap' \in [Counters -> 0 .. 2] /\ cap'[d] = 2
      /\ \A e \in Counters : cap[e] <= cap'[e] /\ (cap'[e] = 0 <=> cap[e] = 0)
  BY <1>1, <1>5, CounterBounds
<1>7. DigestTypeOK'
  BY <1>2, <1>3, <1>4, <1>5, <1>6 DEF DigestTypeOK
<1>8. taken[d] # Nil
  BY <1>1, <1>5 DEF DigestBooks, CounterFits
<1>9. taken[d] = w => runs[w] > 1
  BY <1>1 DEF DigestBooks, AttemptFits, Active, CountDigest, Stands, BeforeCap, CountersOf
<1>10. \A v \in Weeks : runs[v] <= runs[v]
  BY <1>2 DEF DigestTypeOK
<1> QED BY <1>1, <1>3, <1>4, <1>5, <1>6, <1>7, <1>8, <1>9, <1>10, AttemptEnds

\* The day's first, or one that the counter did not hear of.
LEMMA AdmittedStep ==
  ASSUME DigestBooks, NEW a \in Deliveries,
         CapFails(a) \/ (CountDigest(a) /\ cap[CounterOf(delivery[a].on)] = 0)
  PROVE  DigestBooks'
<1>1. PICK w \in Weeks, d \in Counters : w = delivery[a].week /\ d = CounterOf(delivery[a].on)
  BY CounterOfDay DEF DigestBooks, DigestTypeOK, Delivery
<1>2. DigestTypeOK /\ Stands(a, "counting") /\ Active(a, w) /\ AttemptFits(a, w)
  BY <1>1 DEF DigestBooks, CapFails, CountDigest, Stands, Active
<1>3. /\ delivery' \in [Deliveries -> Delivery]
      /\ delivery'[a].week = w /\ delivery'[a].step = "sending"
      /\ CapFails(a) \/ delivery'[a].by = d
      /\ \A b \in Deliveries : b # a => delivery'[b] = delivery[b]
  <2>1. delivery[a] \in Delivery
    BY <1>2 DEF DigestTypeOK
  <2>2. Moved(a, "sending") \in Delivery /\ Moved(a, "sending").week = w
        /\ Moved(a, "sending").step = "sending"
    BY <1>1, <2>1 DEF Moved, Delivery
  <2>3. Admitted(a, d) \in Delivery /\ Admitted(a, d).week = w
        /\ Admitted(a, d).step = "sending" /\ Admitted(a, d).by = d
    BY <1>1, <2>2 DEF Admitted, Delivery
  <2>4. CASE CapFails(a)
    BY <1>2, <2>2, <2>4, Proceeding DEF CapFails
  <2>5. CASE CountDigest(a) /\ cap[d] = 0
    BY <1>1, <1>2, <2>3, <2>5, Proceeding DEF CountDigest
  <2> QED BY <1>1, <2>4, <2>5
<1>4. /\ UNCHANGED <<today, practised, linked, scanJob, digestJob, holder, runs, stored, evicted, rows>>
      /\ \A v \in Weeks : rows[v] \in Nat /\ runs[v] \in Nat /\ practised[v] \in Nat
      /\ \A v \in Weeks : rows[v] <= rows[v] /\ runs[v] <= runs[v] /\ practised[v] <= practised[v]
  BY <1>2 DEF CapFails, CountDigest, DigestTypeOK
<1>5. /\ cap' \in {cap, [cap EXCEPT ![d] = Counted(@)]}
      /\ taken' = IF cap' # cap /\ cap[d] = 0 THEN [taken EXCEPT ![d] = w] ELSE taken
      /\ cap \in [Counters -> 0 .. 2] /\ taken \in [Counters -> Weeks \cup {Nil}]
  <2>1. cap \in [Counters -> 0 .. 2] /\ taken \in [Counters -> Weeks \cup {Nil}]
    BY <1>2 DEF DigestTypeOK
  <2>2. CASE CapFails(a)
    BY <1>1, <2>1, <2>2 DEF CapFails
  <2>3. CASE CountDigest(a) /\ cap[d] = 0
    <3>1. cap' = [cap EXCEPT ![d] = Counted(@)] /\ taken' = [taken EXCEPT ![d] = w]
      BY <1>1, <2>3 DEF CountDigest
    <3>2. cap'[d] # cap[d]
      BY <2>1, <2>3, <3>1, CounterBounds
    <3> QED BY <2>1, <2>3, <3>1, <3>2
  <2> QED BY <1>1, <2>2, <2>3
<1>6. \/ UNCHANGED taken /\ \A e \in Counters : cap'[e] = 0 <=> cap[e] = 0
      \/ /\ taken' = [taken EXCEPT ![d] = w] /\ cap[d] = 0 /\ cap'[d] # 0
         /\ \A e \in Counters : e # d => cap'[e] = cap[e]
  <2>1. CASE cap' = cap
    BY <1>5, <2>1
  <2>2. CASE cap' = [cap EXCEPT ![d] = Counted(@)] /\ cap[d] # 0
    BY <1>5, <2>2, CounterBounds
  <2>3. CASE cap' = [cap EXCEPT ![d] = Counted(@)] /\ cap[d] = 0
    <3>1. cap'[d] # 0
      BY <1>5, <2>3, CounterBounds
    <3> QED BY <1>5, <2>3, <3>1
  <2> QED BY <1>5, <2>1, <2>2, <2>3
<1>7. cap' \in [Counters -> 0 .. 2] /\ \A e \in Counters : cap[e] <= cap'[e]
  BY <1>5, CounterBounds
<1>8. /\ marks' \in [Weeks -> SUBSET Marks]
      /\ \A v \in Weeks : marks[v] \subseteq marks'[v]
      /\ Uncapped(w)' \/ (cap[d] = 0 /\ taken'[d] = w /\ delivery'[a].by = d)
  <2>1. CASE CapFails(a)
    BY <1>1, <1>2, <2>1 DEF CapFails, Marked, Marks, DigestTypeOK, Uncapped
  <2>2. CASE CountDigest(a) /\ cap[d] = 0
    <3>1. UNCHANGED marks /\ taken' = [taken EXCEPT ![d] = w] /\ Proceeds(a, Admitted(a, d))
      BY <1>1, <2>2 DEF CountDigest
    <3>2. delivery'[a].by = d
      BY <1>2, <3>1 DEF Proceeds, DigestTypeOK, Admitted, Moved, Delivery
    <3> QED BY <1>2, <1>5, <2>2, <3>1, <3>2 DEF DigestTypeOK
  <2> QED BY <1>1, <2>1, <2>2
<1>9. DigestTypeOK'
  BY <1>2, <1>3, <1>4, <1>5, <1>7, <1>8 DEF DigestTypeOK
<1>10. /\ \A e \in Counters : CounterFits(e) /\ CounterFits(e)'
       /\ \A e \in Counters : taken[e] # Nil => taken'[e] = taken[e]
       /\ cap[d] = 0 => taken[d] = Nil
       /\ \A e \in Counters : \A v \in Weeks : v # w /\ taken'[e] = v => taken[e] = v
  <2>1. \A e \in Counters : CounterFits(e)
    BY DEF DigestBooks
  <2>2. w # Nil
    BY DigestUnits
  <2> QED BY <1>5, <1>6, <2>1, <2>2 DEF CounterFits
<1>11. Moves(a)
  BY <1>2, <1>3, <1>4, <1>8, <1>10 DEF Moves, Active
<1>12. \A v \in Weeks : Active(a, v)' => v = w
  BY <1>3 DEF Active
<1>13. AttemptFits(a, w)'
  <2>1. ~Stands(a, "sent")' /\ ~Stands(a, "drafted")' /\ ~BeforeCap(a)'
    BY <1>3 DEF Stands, BeforeCap
  <2>2. rows[w] > 0 => Overlapped(w)
    BY <1>2 DEF AttemptFits, Stands
  <2>3. Overlapped(w) => Overlapped(w)'
    BY <1>8 DEF Overlapped
  <2>4. runs[w] > 0
    BY <1>2 DEF AttemptFits
  <2>5. Uncapped(w)' \/ delivery'[a].by \in CountersOf(w)'
    BY <1>1, <1>8 DEF CountersOf
  <2> QED BY <1>3, <1>4, <2>1, <2>2, <2>3, <2>4, <2>5 DEF AttemptFits
<1>14. ASSUME NEW b \in Deliveries \ {a}, Active(b, w)' PROVE PairFits(a, b, w)'
  <2>1. Active(b, w) /\ delivery'[b] = delivery[b]
    BY <1>3, <1>14 DEF Active
  <2>2. PairFits(a, b, w) /\ AttemptFits(b, w)
    BY <1>2, <2>1 DEF DigestBooks
  <2>3. Overlapped(w)' /\ (Uncapped(w) => Uncapped(w)')
    BY <1>8, <2>2 DEF Overlapped, Uncapped, PairFits
  <2>4. ASSUME Stands(b, "sending"), ~ Uncapped(w)' PROVE delivery[b].by # d
    <3>1. taken[delivery[b].by] = w
      BY <2>2, <2>3, <2>4 DEF AttemptFits, CountersOf
    <3>2. taken[d] = Nil /\ w # Nil
      BY <1>8, <1>10, <2>4, DigestUnits
    <3> QED BY <3>1, <3>2
  <2>5. Uncapped(w)' \/ delivery'[a].by = d
    BY <1>8
  <2> QED BY <1>3, <1>4, <2>1, <2>2, <2>3, <2>4, <2>5 DEF PairFits, Stands
<1>15. ASSUME NEW v \in Weeks PROVE WeekFits(v)'
  <2>1. Cardinality(Spent(v)) \in Nat /\ Cardinality(Spent(v)') \in Nat /\ rows[v] \in Nat /\ WeekFits(v)
    BY <1>4, SpentIsFinite, SpentIsFiniteNext DEF DigestBooks
  <2>2. (Overlapped(v) => Overlapped(v)') /\ (Uncapped(v) => Uncapped(v)')
    BY <1>8 DEF Overlapped, Uncapped
  <2>3. CountersOf(v)' # {} => runs[v] > 0
    <3>1. CASE v = w
      BY <1>2, <3>1 DEF AttemptFits
    <3>2. CASE v # w
      BY <1>10, <2>1, <3>2 DEF WeekFits, CountersOf
    <3> QED BY <3>1, <3>2
  <2>4. ASSUME ~ Uncapped(v)' PROVE Cardinality(Spent(v)) <= Cardinality(Spent(v)')
    <3>1. ASSUME v = w PROVE d \notin Spent(w)
      BY <1>8, <1>10, <2>4, <3>1, DigestUnits DEF Spent, CountersOf
    <3>2. v = w => delivery'[a].by = d
      BY <1>8, <2>4
    <3> QED BY <1>11, <1>12, <3>1, <3>2, SpentStays
  <2> QED BY <1>4, <2>1, <2>2, <2>3, <2>4, RowsPaid DEF WeekFits
<1>16. NothingInvented'
  BY <1>4 DEF DigestBooks, NothingInvented
<1>17. LostToTheCap'
  BY <1>4, <1>7, <1>9, <1>11, LossExplained DEF LostToTheCap
<1> QED BY <1>9, <1>10, <1>11, <1>12, <1>13, <1>14, <1>15, <1>16, <1>17, DeliveryMoves

\* The row that is written uses up the counter that admitted its attempt.
LEMMA WriteRowStep == ASSUME DigestBooks, NEW a \in Deliveries, WriteRow(a) PROVE DigestBooks'
<1>1. PICK w \in Weeks, d \in Counters \cup {Nil} : w = delivery[a].week /\ d = delivery[a].by
  BY DEF DigestBooks, DigestTypeOK, Delivery
<1>2. DigestTypeOK /\ Stands(a, "sending") /\ Active(a, w) /\ AttemptFits(a, w)
  BY <1>1 DEF DigestBooks, WriteRow, Stands, Active
<1>3. /\ delivery' \in [Deliveries -> Delivery]
      /\ delivery'[a].week = w /\ delivery'[a].step = "sent"
      /\ \A b \in Deliveries : b # a => delivery'[b] = delivery[b]
  <2>1. delivery[a] \in Delivery
    BY <1>2 DEF DigestTypeOK
  <2>2. Moved(a, "sent") \in Delivery /\ Moved(a, "sent").week = w /\ Moved(a, "sent").step = "sent"
    BY <1>1, <2>1 DEF Moved, Delivery
  <2> QED BY <1>2, <2>2, Proceeding DEF WriteRow
<1>4. /\ UNCHANGED <<today, practised, linked, scanJob, digestJob, holder, runs, stored, evicted, cap,
                     taken, marks>>
      /\ \A v \in Weeks : runs[v] \in Nat /\ practised[v] \in Nat /\ rows[v] \in Nat
      /\ \A v \in Weeks : runs[v] <= runs[v] /\ practised[v] <= practised[v]
  BY <1>2 DEF WriteRow, DigestTypeOK
<1>5. /\ rows' \in [Weeks -> Nat] /\ rows'[w] = rows[w] + 1 /\ rows'[w] > 0
      /\ \A v \in Weeks : rows[v] <= rows'[v] /\ (v # w => rows'[v] = rows[v])
  BY <1>1, <1>2 DEF WriteRow, DigestTypeOK
<1>6. DigestTypeOK'
  BY <1>2, <1>3, <1>4, <1>5 DEF DigestTypeOK
<1>7. Moves(a)
  BY <1>2, <1>3, <1>4, <1>5 DEF Moves, Active
<1>8. \A v \in Weeks : Active(a, v)' => v = w
  BY <1>3 DEF Active
<1>9. AttemptFits(a, w)'
  BY <1>2, <1>3, <1>4, <1>5 DEF AttemptFits, Stands, BeforeCap
<1>10. ASSUME NEW b \in Deliveries \ {a}, Active(b, w)' PROVE PairFits(a, b, w)'
  <2>1. PairFits(a, b, w)
    BY <1>2, <1>3, <1>10 DEF DigestBooks, Active
  <2> QED BY <1>3, <1>4, <2>1 DEF PairFits, Stands, Overlapped
<1>11. ASSUME NEW v \in Weeks PROVE WeekFits(v)'
  <2>1. /\ Cardinality(Spent(v)) \in Nat /\ Cardinality(Spent(v)') \in Nat
        /\ WeekFits(v) /\ Spent(v) \subseteq Spent(v)'
        /\ Cardinality(Spent(v)) <= Cardinality(Spent(v)') /\ CountersOf(v)' = CountersOf(v)
    <3>1. ~ Stands(a, "sending")'
      BY <1>3 DEF Stands
    <3> QED BY <1>4, <1>7, <3>1, SpentIsFinite, SpentIsFiniteNext, SpentStays DEF DigestBooks, CountersOf
  <2>2. CASE v # w
    BY <1>4, <1>5, <2>1, <2>2, RowsPaid DEF WeekFits, Overlapped, Uncapped
  <2>3. CASE v = w
    <3>1. CountersOf(w)' # {} => runs'[w] > 0
      BY <1>2, <1>4 DEF AttemptFits
    <3>2. rows'[w] > 1 => Overlapped(w)'
      <4>1. rows[w] > 0 => Overlapped(w)
        BY <1>2 DEF AttemptFits, Stands
      <4> QED BY <1>4, <1>5, <4>1 DEF Overlapped
    <3>3. ASSUME ~ Uncapped(w) PROVE rows[w] + 1 <= Cardinality(Spent(w)')
      <4>1. d \in CountersOf(w)
        BY <1>1, <1>2, <3>3 DEF AttemptFits
      <4>2. d \notin Spent(w)
        BY <1>1, <1>2 DEF Spent
      <4>3. d \in Spent(w)'
        <5>1. d \in CountersOf(w)'
          BY <1>4, <4>1 DEF CountersOf
        <5>2. ASSUME NEW b \in Deliveries, Active(b, w)', Stands(b, "sending")' PROVE delivery'[b].by # d
          <6>1. b # a /\ delivery'[b] = delivery[b]
            BY <1>3, <5>2 DEF Stands
          <6>2. Active(b, w) /\ Stands(b, "sending")
            BY <5>2, <6>1 DEF Active, Stands
          <6>3. PairFits(a, b, w)
            BY <1>2, <6>1, <6>2 DEF DigestBooks
          <6> QED BY <1>1, <1>2, <3>3, <6>1, <6>2, <6>3 DEF PairFits
        <5> QED BY <5>1, <5>2 DEF Spent
      <4>4. Cardinality(Spent(w)) + 1 <= Cardinality(Spent(w)')
        <5>1. Cardinality(Spent(w) \cup {d}) = Cardinality(Spent(w)) + 1
          BY <4>2, SpentIsFinite, FS_AddElement
        <5>2. Cardinality(Spent(w) \cup {d}) <= Cardinality(Spent(w)')
          BY <2>1, <2>3, <4>3, SpentIsFiniteNext, FS_Subset
        <5> QED BY <5>1, <5>2
      <4>5. rows[w] <= Cardinality(Spent(w))
        BY <2>1, <2>3, <3>3 DEF WeekFits
      <4> QED BY <1>4, <2>1, <2>3, <4>4, <4>5, OneRowMore
    <3> QED BY <1>4, <1>5, <2>3, <3>1, <3>2, <3>3 DEF WeekFits, Uncapped
  <2> QED BY <2>2, <2>3
<1>12. NothingInvented' /\ \A e \in Counters : CounterFits(e)'
  BY <1>4 DEF DigestBooks, NothingInvented, CounterFits
<1>13. LostToTheCap'
  <2>1. \A e \in Counters : cap[e] <= cap'[e]
    BY <1>2, <1>4, CounterBounds DEF DigestTypeOK
  <2> QED BY <1>4, <1>6, <1>7, <2>1, LossExplained DEF LostToTheCap
<1> QED BY <1>6, <1>7, <1>8, <1>9, <1>10, <1>11, <1>12, <1>13, DeliveryMoves

LEMMA ClaimDigestStep ==
  ASSUME DigestBooks, NEW a \in Deliveries, NEW w \in Weeks, ClaimDigest(a, w)
  PROVE  DigestBooks'
<1>1. /\ DigestTypeOK /\ Stands(a, "idle") /\ \A v : ~Active(a, v)
      /\ \A v \in Weeks : rows[v] \in Nat /\ practised[v] \in Nat /\ runs[v] \in Nat
      /\ \A v \in Weeks : rows[v] <= rows[v] /\ practised[v] <= practised[v]
  BY DEF DigestBooks, DigestTypeOK, ClaimDigest, Stands, Active
<1>2. /\ runs' \in [Weeks -> Nat] /\ runs'[w] = runs[w] + 1
      /\ \A v \in Weeks : runs[v] <= runs'[v]
  BY <1>1 DEF ClaimDigest, DigestTypeOK
<1>3. UNCHANGED <<today, practised, linked, scanJob, stored, evicted, cap, rows, taken>>
  BY DEF ClaimDigest
<1>4. CASE HasDigestFor(w)
  <2>1. /\ delivery' = delivery /\ marks' = marks
        /\ digestJob' \in [Weeks -> JobState] /\ holder' \in [Weeks -> Deliveries \cup {Nil}]
        /\ \A v \in Weeks \ {w} : digestJob'[v] = digestJob[v]
    BY <1>1, <1>4 DEF ClaimDigest, DigestTypeOK, JobState
  <2>2. DigestTypeOK' /\ rows[w] > 0
    BY <1>1, <1>2, <1>3, <1>4, <2>1 DEF DigestTypeOK, HasDigestFor
  <2>3. delivery'[a].step = "idle" /\ \A e \in Counters : cap[e] <= cap'[e]
    BY <1>1, <1>3, <2>1, CounterBounds DEF Stands, DigestTypeOK
  <2> QED BY <1>2, <1>3, <2>1, <2>2, <2>3, AttemptEnds
<1>5. CASE ~HasDigestFor(w)
  <2>1. rows[w] = 0
    BY <1>1, <1>5 DEF HasDigestFor
  <2>2. /\ delivery' \in [Deliveries -> Delivery]
        /\ delivery'[a].week = w /\ delivery'[a].step = "due"
        /\ \A b \in Deliveries : b # a => delivery'[b] = delivery[b]
    <3> DEFINE due == [Resting EXCEPT !.step = "due", !.week = w]
    <3>1. due \in Delivery /\ due.week = w /\ due.step = "due"
      BY DigestUnits DEF Resting, Delivery
    <3>2. Proceeds(a, due)
      BY <1>5 DEF ClaimDigest
    <3> HIDE DEF due
    <3> QED BY <1>1, <3>1, <3>2, Proceeding
  <2>3. /\ digestJob' = digestJob /\ holder' \in [Weeks -> Deliveries \cup {Nil}]
        /\ marks' = IF \E b \in Deliveries : Active(b, w)
                    THEN [marks EXCEPT ![w] = @ \cup {"overlapped"}] ELSE marks
    BY <1>1, <1>5 DEF ClaimDigest, DigestTypeOK, Marked, Stands, Active
  <2>4. /\ marks' \in [Weeks -> SUBSET Marks]
        /\ \A v \in Weeks : marks[v] \subseteq marks'[v]
        /\ \A b \in Deliveries : Active(b, w) => Overlapped(w)'
    BY <1>1, <2>3 DEF DigestTypeOK, Marks, Overlapped
  <2>5. DigestTypeOK'
    BY <1>1, <1>2, <1>3, <2>2, <2>3, <2>4 DEF DigestTypeOK
  <2>6. Moves(a)
    BY <1>1, <1>2, <1>3, <2>2, <2>4 DEF Moves
  <2>7. \A v \in Weeks : Active(a, v)' => v = w
    BY <2>2 DEF Active
  <2>8. AttemptFits(a, w)'
    <3>1. CountersOf(w)' # {} => runs[w] > 0
      <4>1. CountersOf(w)' = CountersOf(w) /\ WeekFits(w)
        BY <1>3 DEF CountersOf, DigestBooks
      <4> QED BY <4>1 DEF WeekFits
    <3> QED BY <1>1, <1>2, <1>3, <2>1, <2>2, <3>1 DEF AttemptFits, Stands
  <2>9. ASSUME NEW b \in Deliveries \ {a}, Active(b, w)' PROVE PairFits(a, b, w)'
    <3>1. Active(b, w)
      BY <2>2, <2>9 DEF Active
    <3>2. AttemptFits(b, w)
      BY <3>1 DEF DigestBooks
    <3> QED BY <1>1, <1>2, <2>2, <2>4, <3>1, <3>2 DEF PairFits, Stands, AttemptFits
  <2>10. ASSUME NEW v \in Weeks PROVE WeekFits(v)'
    <3>1. ~ Stands(a, "sending")'
      BY <2>2 DEF Stands
    <3>2. /\ Cardinality(Spent(v)) \in Nat /\ Cardinality(Spent(v)') \in Nat
          /\ Cardinality(Spent(v)) <= Cardinality(Spent(v)')
          /\ CountersOf(v)' = CountersOf(v) /\ WeekFits(v)
      BY <1>3, <2>6, <3>1, SpentStays, SpentIsFinite, SpentIsFiniteNext DEF CountersOf, DigestBooks
    <3>3. (Overlapped(v) => Overlapped(v)') /\ (Uncapped(v) => Uncapped(v)')
      BY <2>4 DEF Overlapped, Uncapped
    <3>4. CountersOf(v)' # {} => runs'[v] > 0
      <4>1. runs'[v] \in Nat /\ runs[v] <= runs'[v]
        BY <1>2
      <4> QED BY <1>1, <3>2, <4>1 DEF WeekFits
    <3> QED BY <1>1, <1>3, <3>2, <3>3, <3>4, RowsPaid DEF WeekFits
  <2>11. NothingInvented' /\ \A e \in Counters : CounterFits(e)'
    BY <1>3 DEF DigestBooks, NothingInvented, CounterFits
  <2>12. LostToTheCap'
    <3>1. \A e \in Counters : cap[e] <= cap'[e]
      BY <1>1, <1>3, CounterBounds DEF DigestTypeOK
    <3> QED BY <2>3, <2>5, <2>6, <3>1, LossExplained DEF LostToTheCap
  <2> QED BY <2>5, <2>6, <2>7, <2>8, <2>9, <2>10, <2>11, <2>12, DeliveryMoves
<1> QED BY <1>4, <1>5

LEMMA DigestStep == DigestBooks /\ [DigestNext]_digestVars => DigestBooks'
<1> SUFFICES ASSUME DigestBooks, [DigestNext]_digestVars PROVE DigestBooks'
  OBVIOUS
<1>1. CASE EnsureScan \/ \E w \in Weeks : RunScan(w) \/ DigestDies(w)
  BY <1>1, ScanSteps
<1>2. CASE Practise \/ EndLink \/ NextDay \/ (\E d \in Days : LoseCap(d)) \/ UNCHANGED digestVars
  BY <1>2, WeekPasses
<1>3. ASSUME NEW a \in Deliveries, NEW w \in Weeks, ClaimDigest(a, w) PROVE DigestBooks'
  BY <1>3, ClaimDigestStep
<1>4. ASSUME NEW a \in Deliveries, NothingToSay(a) \/ FinishDelivery(a) \/ DeliveryFails(a)
      PROVE  DigestBooks'
  BY <1>4, EndingSteps
<1>5. ASSUME NEW a \in Deliveries, ReadEvidence(a) \/ InsertDigest(a) PROVE DigestBooks'
  BY <1>5, WritingSteps
<1>6. ASSUME NEW a \in Deliveries, CountDigest(a) \/ CapFails(a) PROVE DigestBooks'
  BY <1>6, SuppressedStep, AdmittedStep
<1>7. ASSUME NEW a \in Deliveries, WriteRow(a) PROVE DigestBooks'
  BY <1>7, WriteRowStep
<1> QED BY <1>1, <1>2, <1>3, <1>4, <1>5, <1>6, <1>7 DEF DigestNext

\* Two rows for a week need two counters, or one that failed.
LEMMA DigestEnds == DigestBooks => DigestInv
<1> SUFFICES ASSUME DigestBooks, NEW w \in Weeks, rows[w] > 1
             PROVE  Overlapped(w) /\ (Uncapped(w) \/ Cardinality(CountersOf(w)) > 1)
  BY DEF DigestInv, DigestBooks, SentOnce, Overlapped, Uncapped, CountersOf
<1>1. WeekFits(w) /\ rows[w] \in Nat
  BY DEF DigestBooks, DigestTypeOK
<1>2. /\ Cardinality(Spent(w)) \in Nat /\ Cardinality(CountersOf(w)) \in Nat
      /\ Cardinality(Spent(w)) <= Cardinality(CountersOf(w))
  BY SpentIsFinite
<1> QED BY <1>1, <1>2 DEF WeekFits

(* For any number of overlapping attempts, days and weeks: a week's digest *)
(* reaches the parent twice only when attempts overlapped and the cap was  *)
(* not between them, is lost only to the cap or to an ended link, and      *)
(* reports nothing that did not happen.                                    *)
THEOREM DigestsAreSentOnce == DigestSpec => []DigestInv
<1>1. DigestInit => DigestBooks
  BY DigestStart
<1>2. DigestBooks /\ [DigestNext]_digestVars => DigestBooks'
  BY DigestStep
<1>3. DigestBooks => DigestInv
  BY DigestEnds
<1> QED BY <1>1, <1>2, <1>3, PTL DEF DigestSpec

-----------------------------------------------------------------------------
(* The HTTP process to its exit.  Until the pools close, what was recorded *)
(* is in the table, with a batch or in the buffer.                         *)
Kept(n, landed, lost, batches, k) ==
  \/ n \in Range(landed) \cup lost
  \/ \E b \in DOMAIN batches : b <= k /\ n \in Range(batches[b])
Held(n, k) == Kept(n, table, refused, chain, k)

SinkFits ==
  /\ stage \in {"up", "draining"} =>
       /\ awaited = 0
       /\ \A n \in Numbers : Held(n, Len(chain)) \/ n \in Range(buffer)
  /\ stage = "flushing" => awaited <= Len(chain) /\ \A n \in 1 .. sealed : Held(n, awaited)
  /\ stage \in {"closing", "exited"} => 1 .. sealed \subseteq Range(table) \cup refused

\* Once the drain has left nobody behind, nobody observes.
DrainFits ==
  stage \in {"flushing", "closing", "exited"} /\ ~strays =>
    observed = sealed /\ serving = {} /\ mailing = {}

(* The inductive invariant.                                                *)
SinkBooks == ServerTypeOK /\ LandsInOrder /\ SomethingWrites /\ SinkFits /\ DrainFits

Batches == Seq(Seq(Nat))

\* The order of the rows, for each thing that happens to them.
LEMMA OrderBuffers ==
  ASSUME NEW landed \in Seq(Nat), NEW batches \in Batches, NEW n \in Nat,
         NEW waiting \in Seq(1 .. n), InOrder(landed, batches, waiting),
         Range(landed) \subseteq 1 .. n,
         \A b \in DOMAIN batches : Range(batches[b]) \subseteq 1 .. n
  PROVE  InOrder(landed, batches, Append(waiting, n + 1))
<1> DEFINE more == Append(waiting, n + 1)
<1>1. /\ Len(waiting) \in Nat /\ DOMAIN waiting = 1 .. Len(waiting)
      /\ DOMAIN more = 1 .. Len(waiting) + 1
      /\ \A i \in 1 .. Len(waiting) : more[i] = waiting[i] /\ waiting[i] \in 1 .. n
      /\ more[Len(waiting) + 1] = n + 1
  OBVIOUS
<1> HIDE DEF more
<1>5. \A j \in DOMAIN more : j = Len(waiting) + 1 \/ j \in DOMAIN waiting
  BY <1>1
<1>2. Increasing(more)
  <2> SUFFICES ASSUME NEW i \in DOMAIN more, NEW j \in DOMAIN more, i < j PROVE more[i] < more[j]
    BY DEF Increasing
  <2>1. CASE j = Len(waiting) + 1
    <3>1. i \in 1 .. Len(waiting)
      BY <1>1, <2>1
    <3> QED BY <1>1, <2>1, <3>1
  <2>2. CASE j # Len(waiting) + 1
    <3>1. i \in DOMAIN waiting /\ j \in DOMAIN waiting
      BY <1>1, <2>2
    <3>2. waiting[i] < waiting[j]
      BY <3>1 DEF InOrder, Increasing
    <3> QED BY <1>1, <3>1, <3>2
  <2> QED BY <2>1, <2>2
<1>3. ASSUME NEW batch \in Seq(Nat), Range(batch) \subseteq 1 .. n, Precede(batch, waiting)
      PROVE  Precede(batch, more)
  <2> SUFFICES ASSUME NEW i \in DOMAIN batch, NEW j \in DOMAIN more PROVE batch[i] < more[j]
    BY DEF Precede
  <2>1. batch[i] \in 1 .. n
    BY <1>3 DEF Range
  <2>2. CASE j = Len(waiting) + 1
    BY <1>1, <2>1, <2>2
  <2>3. CASE j # Len(waiting) + 1
    <3>1. j \in DOMAIN waiting
      BY <1>5, <2>3
    <3>2. batch[i] < waiting[j]
      BY <1>3, <3>1 DEF Precede
    <3> QED BY <1>1, <3>1, <3>2
  <2> QED BY <2>2, <2>3
<1>4. \A b \in DOMAIN batches : batches[b] \in Seq(Nat)
  BY DEF Batches
<1> QED BY <1>2, <1>3, <1>4 DEF InOrder, more

LEMMA OrderHands ==
  ASSUME NEW landed \in Seq(Nat), NEW batches \in Batches, NEW waiting \in Seq(Nat),
         InOrder(landed, batches, waiting)
  PROVE  InOrder(landed, Append(batches, waiting), <<>>) /\ InOrder(landed, batches, <<>>)
<1> DEFINE more == Append(batches, waiting)
<1>1. /\ Len(batches) \in Nat /\ DOMAIN batches = 1 .. Len(batches)
      /\ DOMAIN more = 1 .. Len(batches) + 1
      /\ \A b \in 1 .. Len(batches) : more[b] = batches[b]
      /\ more[Len(batches) + 1] = waiting
  BY DEF Batches
<1> HIDE DEF more
<1>2. Increasing(<<>>) /\ \A batch : Precede(batch, <<>>)
  BY DEF Increasing, Precede
<1>3. ASSUME NEW b \in DOMAIN more
      PROVE  /\ Precede(landed, more[b]) /\ Increasing(more[b])
             /\ \A c \in DOMAIN more : b < c => Precede(more[b], more[c])
  <2>1. CASE b = Len(batches) + 1
    BY <1>1, <2>1 DEF InOrder
  <2>2. CASE b # Len(batches) + 1
    <3>1. b \in DOMAIN batches
      BY <1>1, <2>2
    <3>2. ASSUME NEW c \in DOMAIN more, b < c PROVE Precede(more[b], more[c])
      <4>1. CASE c = Len(batches) + 1
        BY <1>1, <3>1, <4>1 DEF InOrder
      <4>2. CASE c # Len(batches) + 1
        <5>1. c \in DOMAIN batches
          BY <1>1, <4>2
        <5> QED BY <1>1, <3>1, <3>2, <5>1 DEF InOrder
      <4> QED BY <4>1, <4>2
    <3> QED BY <1>1, <3>1, <3>2 DEF InOrder
  <2> QED BY <2>1, <2>2
<1> QED BY <1>2, <1>3 DEF InOrder, more

LEMMA OrderLands ==
  ASSUME NEW landed \in Seq(Nat), NEW batches \in Batches, NEW waiting \in Seq(Nat),
         batches # <<>>, InOrder(landed, batches, waiting)
  PROVE  /\ InOrder(landed \o Head(batches), Tail(batches), waiting)
         /\ InOrder(landed, Tail(batches), waiting)
         /\ InOrder(landed, <<Head(batches)>>, waiting)
<1> DEFINE first == Head(batches)
           rest == Tail(batches)
           all == landed \o first
<1>1. /\ Len(batches) \in Nat \ {0} /\ DOMAIN batches = 1 .. Len(batches)
      /\ DOMAIN rest = 1 .. Len(batches) - 1
      /\ \A b \in DOMAIN rest : rest[b] = batches[b + 1] /\ b + 1 \in DOMAIN batches
      /\ first = batches[1] /\ 1 \in DOMAIN batches
      /\ first \in Seq(Nat) /\ rest \in Batches
  BY HeadTailProperties, LenProperties, EmptySeq DEF Batches
<1> HIDE DEF first, rest
<1>2. /\ Len(landed) \in Nat /\ Len(first) \in Nat
      /\ DOMAIN landed = 1 .. Len(landed) /\ DOMAIN first = 1 .. Len(first)
      /\ DOMAIN all = 1 .. Len(landed) + Len(first)
      /\ \A i \in DOMAIN all : all[i] = IF i <= Len(landed) THEN landed[i] ELSE first[i - Len(landed)]
  BY <1>1, ConcatProperties, LenProperties
<1> HIDE DEF all
<1>3. Increasing(all)
  <2> SUFFICES ASSUME NEW i \in DOMAIN all, NEW j \in DOMAIN all, i < j PROVE all[i] < all[j]
    BY DEF Increasing
  <2>1. CASE j <= Len(landed)
    <3>1. i \in DOMAIN landed /\ j \in DOMAIN landed /\ i <= Len(landed)
      BY <1>2, <2>1
    <3> QED BY <1>2, <2>1, <3>1 DEF InOrder, Increasing
  <2>2. CASE ~ (j <= Len(landed)) /\ i <= Len(landed)
    <3>1. i \in DOMAIN landed /\ j - Len(landed) \in DOMAIN first
      BY <1>2, <2>2
    <3>2. landed[i] < first[j - Len(landed)]
      BY <1>1, <3>1 DEF InOrder, Precede
    <3> QED BY <1>2, <2>2, <3>2
  <2>3. CASE ~ (i <= Len(landed))
    <3>1. ~ (j <= Len(landed))
      BY <1>2, <2>3
    <3>2. /\ i - Len(landed) \in DOMAIN first /\ j - Len(landed) \in DOMAIN first
          /\ i - Len(landed) < j - Len(landed)
      BY <1>2, <2>3, <3>1
    <3>3. first[i - Len(landed)] < first[j - Len(landed)]
      BY <1>1, <3>2 DEF InOrder, Increasing
    <3> QED BY <1>2, <2>3, <3>1, <3>3
  <2> QED BY <1>2, <2>1, <2>2, <2>3
<1>4. ASSUME NEW later, Precede(landed, later), Precede(first, later) PROVE Precede(all, later)
  <2> SUFFICES ASSUME NEW i \in DOMAIN all, NEW j \in DOMAIN later PROVE all[i] < later[j]
    BY DEF Precede
  <2>1. CASE i <= Len(landed)
    <3>1. i \in DOMAIN landed
      BY <1>2, <2>1
    <3> QED BY <1>2, <1>4, <2>1, <3>1 DEF Precede
  <2>2. CASE ~ (i <= Len(landed))
    <3>1. i - Len(landed) \in DOMAIN first
      BY <1>2, <2>2
    <3> QED BY <1>2, <1>4, <2>2, <3>1 DEF Precede
  <2> QED BY <2>1, <2>2
<1>5. ASSUME NEW b \in DOMAIN rest
      PROVE  /\ Precede(landed, rest[b]) /\ Precede(first, rest[b]) /\ Increasing(rest[b])
             /\ Precede(rest[b], waiting)
             /\ \A c \in DOMAIN rest : b < c => Precede(rest[b], rest[c])
  <2>1. b + 1 \in DOMAIN batches /\ 1 < b + 1 /\ rest[b] = batches[b + 1] /\ first = batches[1]
        /\ 1 \in DOMAIN batches /\ b \in Nat
    BY <1>1
  <2>2. ASSUME NEW c \in DOMAIN rest, b < c PROVE Precede(rest[b], rest[c])
    <3>1. c + 1 \in DOMAIN batches /\ rest[c] = batches[c + 1] /\ c \in Nat
      BY <1>1
    <3>2. b + 1 < c + 1
      BY <2>1, <2>2, <3>1
    <3> QED BY <2>1, <3>1, <3>2 DEF InOrder
  <2> QED BY <2>1, <2>2 DEF InOrder
<1>6. Precede(first, waiting) /\ Precede(landed, first) /\ Increasing(first)
  BY <1>1 DEF InOrder
<1>7. DOMAIN <<first>> = {1} /\ <<first>>[1] = first /\ ~ (1 < 1)
  OBVIOUS
<1>8. Precede(landed, waiting) /\ Increasing(landed) /\ Increasing(waiting)
  BY DEF InOrder
<1>9. InOrder(all, rest, waiting)
  BY <1>3, <1>4, <1>5, <1>6, <1>8 DEF InOrder
<1>10. InOrder(landed, rest, waiting)
  BY <1>5, <1>8 DEF InOrder
<1>11. InOrder(landed, <<first>>, waiting)
  BY <1>6, <1>7, <1>8 DEF InOrder
<1> QED BY <1>9, <1>10, <1>11 DEF all, rest, first

\* What is kept, for each thing that happens to the batches.
LEMMA KeptWhenHanded ==
  ASSUME NEW n, NEW landed, NEW lost, NEW batches \in Batches, NEW batch \in Seq(Nat), NEW k \in Nat
  PROVE  /\ Kept(n, landed, lost, batches, k) => Kept(n, landed, lost, Append(batches, batch), k)
         /\ Len(Append(batches, batch)) = Len(batches) + 1
         /\ n \in Range(batch) => Kept(n, landed, lost, Append(batches, batch), Len(batches) + 1)
         /\ Kept(n, landed, lost, batches, Len(batches)) =>
              Kept(n, landed, lost, Append(batches, batch), Len(batches) + 1)
<1> DEFINE more == Append(batches, batch)
<1>1. /\ Len(batches) \in Nat /\ DOMAIN batches = 1 .. Len(batches)
      /\ DOMAIN more = 1 .. Len(batches) + 1 /\ Len(more) = Len(batches) + 1
      /\ \A b \in 1 .. Len(batches) : more[b] = batches[b]
      /\ more[Len(batches) + 1] = batch
  BY DEF Batches
<1> HIDE DEF more
<1>2. \A b \in DOMAIN batches : b \in DOMAIN more /\ more[b] = batches[b] /\ b <= Len(batches) + 1
  BY <1>1
<1>3. Len(batches) + 1 \in DOMAIN more /\ Len(batches) + 1 <= Len(batches) + 1
  BY <1>1
<1> QED BY <1>1, <1>2, <1>3 DEF Kept, more

LEMMA KeptWhenWritten ==
  ASSUME NEW n, NEW landed \in Seq(Nat), NEW lost, NEW batches \in Batches, batches # <<>>,
         NEW k \in Nat, Kept(n, landed, lost, batches, k)
  PROVE  LET left == IF k > 0 THEN k - 1 ELSE 0
         IN /\ Kept(n, landed \o Head(batches), lost, Tail(batches), left)
            /\ Kept(n, landed, lost \cup Range(Head(batches)), Tail(batches), left)
            /\ Len(Tail(batches)) = Len(batches) - 1 /\ Len(batches) > 0
<1> DEFINE first == Head(batches)
           rest == Tail(batches)
           left == IF k > 0 THEN k - 1 ELSE 0
           all == landed \o first
<1>1. /\ Len(batches) \in Nat \ {0} /\ DOMAIN batches = 1 .. Len(batches)
      /\ DOMAIN rest = 1 .. Len(batches) - 1 /\ Len(rest) = Len(batches) - 1
      /\ \A b \in DOMAIN rest : rest[b] = batches[b + 1]
      /\ first = batches[1] /\ first \in Seq(Nat)
  BY HeadTailProperties, LenProperties, EmptySeq DEF Batches
<1>2. Range(all) = Range(landed) \cup Range(first)
  <2>1. /\ Len(landed) \in Nat /\ Len(first) \in Nat
        /\ DOMAIN landed = 1 .. Len(landed) /\ DOMAIN first = 1 .. Len(first)
        /\ DOMAIN all = 1 .. Len(landed) + Len(first)
        /\ \A i \in DOMAIN all : all[i] = IF i <= Len(landed) THEN landed[i] ELSE first[i - Len(landed)]
    BY <1>1, ConcatProperties, LenProperties
  <2> HIDE DEF all, first
  <2>2. \A i \in DOMAIN all : all[i] \in Range(landed) \cup Range(first)
    <3> SUFFICES ASSUME NEW i \in DOMAIN all PROVE all[i] \in Range(landed) \cup Range(first)
      OBVIOUS
    <3>1. CASE i <= Len(landed)
      BY <2>1, <3>1 DEF Range
    <3>2. CASE ~ (i <= Len(landed))
      <4>1. i - Len(landed) \in DOMAIN first
        BY <2>1, <3>2
      <4> QED BY <2>1, <3>2, <4>1 DEF Range
    <3> QED BY <3>1, <3>2
  <2>3. \A i \in DOMAIN landed : landed[i] = all[i] /\ i \in DOMAIN all
    BY <2>1
  <2>4. \A i \in DOMAIN first : first[i] = all[i + Len(landed)] /\ i + Len(landed) \in DOMAIN all
    BY <2>1
  <2> QED BY <2>2, <2>3, <2>4 DEF Range
<1> HIDE DEF first, rest, all
<1>3. CASE n \in Range(landed) \cup lost
  BY <1>1, <1>2, <1>3 DEF Kept, all, first, rest
<1>4. ASSUME NEW b \in DOMAIN batches, b <= k, n \in Range(batches[b])
      PROVE  n \in Range(first) \/ \E c \in DOMAIN rest : c <= left /\ n \in Range(rest[c])
  <2>1. CASE b = 1
    BY <1>1, <1>4, <2>1
  <2>2. CASE b # 1
    <3>1. b - 1 \in DOMAIN rest /\ b - 1 <= left /\ (b - 1) + 1 = b
      BY <1>1, <1>4, <2>2
    <3> QED BY <1>1, <1>4, <3>1
  <2> QED BY <2>1, <2>2
<1>5. n \in Range(all) \cup lost \/ \E c \in DOMAIN rest : c <= left /\ n \in Range(rest[c])
  BY <1>2, <1>4 DEF Kept
<1>6. n \in Range(landed) \cup (lost \cup Range(first)) \/ \E c \in DOMAIN rest : c <= left /\ n \in Range(rest[c])
  BY <1>4 DEF Kept
<1> HIDE DEF left
<1>7. Kept(n, all, lost, rest, left) /\ Kept(n, landed, lost \cup Range(first), rest, left)
  BY <1>5, <1>6 DEF Kept
<1> QED BY <1>1, <1>7 DEF all, first, rest, left

-----------------------------------------------------------------------------
LEMMA ServerUnits ==
  ASSUME ServerTypeOK
  PROVE  /\ observed \in Nat /\ sealed \in Nat /\ awaited \in Nat
         /\ table \in Seq(Nat) /\ buffer \in Seq(Nat) /\ chain \in Batches
         /\ Range(table) \subseteq Numbers /\ Range(buffer) \subseteq Numbers
         /\ \A b \in DOMAIN chain : chain[b] \in Seq(Numbers) /\ Range(chain[b]) \subseteq Numbers
         /\ Len(chain) \in Nat
<1>1. observed \in Nat /\ sealed \in Nat /\ awaited \in Nat
  BY DEF ServerTypeOK
<1>2. Numbers \subseteq Nat
  BY <1>1 DEF Numbers
<1>3. table \in Seq(Numbers) /\ buffer \in Seq(Numbers) /\ chain \in Seq(Seq(Numbers))
  BY DEF ServerTypeOK
<1>4. table \in Seq(Nat) /\ buffer \in Seq(Nat) /\ Seq(Numbers) \subseteq Seq(Nat)
  BY <1>2, <1>3, SeqMonotonic
<1>5. chain \in Batches
  BY <1>3, <1>4, SeqMonotonic DEF Batches
<1>6. \A b \in DOMAIN chain : chain[b] \in Seq(Numbers)
  BY <1>3
<1>7. Len(chain) \in Nat
  BY <1>3
<1> QED BY <1>1, <1>3, <1>4, <1>5, <1>6, <1>7, RangeOfSeq

LEMMA ServerStart == ServerInit => SinkBooks
<1> SUFFICES ASSUME ServerInit PROVE SinkBooks
  OBVIOUS
<1>1. ServerTypeOK
  <2>1. <<>> \in Seq(Numbers) /\ <<>> \in Seq(Seq(Numbers))
    OBVIOUS
  <2>2. /\ serving \in SUBSET Clients /\ mailing \in SUBSET Clients
        /\ observed \in Nat /\ awaited \in Nat /\ sealed \in Nat /\ refused \subseteq Numbers
    BY DEF ServerInit
  <2>3. timer \in BOOLEAN /\ strays \in BOOLEAN
    BY DEF ServerInit
  <2> QED BY <2>1, <2>2, <2>3 DEF ServerInit, ServerTypeOK
<1>2. LandsInOrder
  BY DEF ServerInit, LandsInOrder, InOrder, Increasing, Precede
<1>3. SomethingWrites /\ SinkFits /\ DrainFits
  BY DEF ServerInit, SomethingWrites, SinkFits, DrainFits, Numbers
<1> QED BY <1>1, <1>2, <1>3 DEF SinkBooks

\* Handing over what waits: the order stands, and nothing is lost while the
\* pools are open.
LEMMA HandsOver ==
  ASSUME NEW S, S \subseteq Nat, NEW landed \in Seq(Nat), NEW lost, NEW batch \in Seq(S),
         chain \in Seq(Seq(S)), InOrder(landed, chain, batch), Handed(batch)
  PROVE  /\ chain' \in Seq(Seq(S)) /\ InOrder(landed, chain', <<>>)
         /\ Len(chain') \in Nat /\ Len(chain) \in Nat
         /\ \A n, k : k \in Nat /\ Kept(n, landed, lost, chain, k) => Kept(n, landed, lost, chain', k)
         /\ Len(chain) <= Len(chain')
         /\ PoolsOpen =>
              /\ \A n \in Range(batch) : Kept(n, landed, lost, chain', Len(chain'))
              /\ \A n : Kept(n, landed, lost, chain, Len(chain)) => Kept(n, landed, lost, chain', Len(chain'))
              /\ Len(chain') = Len(chain) + (IF batch = <<>> THEN 0 ELSE 1)
<1>1. /\ batch \in Seq(Nat) /\ chain \in Batches
      /\ Len(chain) \in Nat
  <2>1. batch \in Seq(Nat) /\ Seq(S) \subseteq Seq(Nat)
    BY SeqMonotonic
  <2> QED BY <2>1, SeqMonotonic, LenProperties DEF Batches
<1>2. CASE chain' = chain /\ (batch = <<>> \/ ~PoolsOpen)
  <2>1. InOrder(landed, chain', <<>>) /\ chain' \in Seq(Seq(S))
    BY <1>1, <1>2, OrderHands
  <2>2. batch = <<>> => Range(batch) = {}
    BY DEF Range
  <2> QED BY <1>1, <1>2, <2>1, <2>2
<1>3. CASE chain' = Append(chain, batch) /\ batch # <<>>
  <2>1. chain' \in Seq(Seq(S))
    BY <1>3
  <2>2. InOrder(landed, chain', <<>>)
    BY <1>1, <1>3, OrderHands
  <2>3. Len(chain') = Len(chain) + 1
    BY <1>1, <1>3, KeptWhenHanded
  <2>4. ASSUME NEW n, NEW k \in Nat, Kept(n, landed, lost, chain, k) PROVE Kept(n, landed, lost, chain', k)
    BY <1>1, <1>3, <2>4, KeptWhenHanded
  <2>5. ASSUME NEW n, n \in Range(batch) \/ Kept(n, landed, lost, chain, Len(chain))
        PROVE  Kept(n, landed, lost, chain', Len(chain'))
    BY <1>1, <1>3, <2>3, <2>5, KeptWhenHanded, 0 \in Nat
  <2> QED BY <1>1, <1>3, <2>1, <2>2, <2>3, <2>4, <2>5
<1> QED BY <1>2, <1>3 DEF Handed

LEMMA RecordStep ==
  ASSUME SinkBooks, NEW important \in BOOLEAN, Record(important), ~Down,
         serving # {} \/ mailing # {},
         serving' \subseteq serving, mailing' \subseteq mailing,
         UNCHANGED <<stage, awaited, table, refused, sealed, strays>>
  PROVE  SinkBooks'
<1> DEFINE waiting == Append(buffer, observed + 1)
           S == 1 .. observed + 1
<1>1. ServerTypeOK
  BY DEF SinkBooks
<1>2. /\ observed \in Nat /\ observed' = observed + 1 /\ Numbers' = S /\ S \subseteq Nat
      /\ Numbers \subseteq S /\ observed + 1 \in S
  BY <1>1 DEF Record, ServerTypeOK, Numbers
<1>3. /\ buffer \in Seq(S) /\ table \in Seq(S) /\ chain \in Seq(Seq(S)) /\ refused \subseteq S
      /\ table' \in Seq(S) /\ refused' \subseteq S
  <2>1. buffer \in Seq(Numbers) /\ table \in Seq(Numbers) /\ chain \in Seq(Seq(Numbers))
        /\ refused \subseteq Numbers
    BY <1>1 DEF ServerTypeOK
  <2>2. Seq(Numbers) \subseteq Seq(S)
    BY <1>2, SeqMonotonic
  <2> QED BY <1>2, <2>1, <2>2, SeqMonotonic
<1>4. waiting \in Seq(S) /\ Range(waiting) = Range(buffer) \cup {observed + 1}
  <2>1. waiting \in Seq(S)
    BY <1>2, <1>3
  <2>2. /\ Len(buffer) \in Nat /\ DOMAIN buffer = 1 .. Len(buffer)
        /\ DOMAIN waiting = 1 .. Len(buffer) + 1
        /\ \A i \in 1 .. Len(buffer) : waiting[i] = buffer[i]
        /\ waiting[Len(buffer) + 1] = observed + 1
    BY <1>2, <1>3
  <2> HIDE DEF waiting
  <2>3. \A i \in DOMAIN waiting : i = Len(buffer) + 1 \/ i \in DOMAIN buffer
    BY <2>2
  <2>4. Len(buffer) + 1 \in DOMAIN waiting /\ \A i \in DOMAIN buffer : i \in DOMAIN waiting
    BY <2>2
  <2> QED BY <2>1, <2>2, <2>3, <2>4 DEF Range
<1>5. InOrder(table, chain, waiting)
  BY <1>1, <1>2, ServerUnits, OrderBuffers DEF SinkBooks, LandsInOrder, Numbers, ServerTypeOK
<1>6. PoolsOpen' = PoolsOpen /\ Stopped' = Stopped
  BY DEF PoolsOpen, Stopped
<1> HIDE DEF waiting, S
<1>7. \/ chain' = chain /\ buffer' = waiting /\ timer' = ~Stopped
      \/ Handed(waiting) /\ buffer' = <<>> /\ timer' = timer
  BY DEF Record, waiting
<1>8. /\ chain' \in Seq(Seq(S)) /\ buffer' \in Seq(S) /\ InOrder(table, chain', buffer')
      /\ Len(chain') \in Nat /\ Len(chain) \in Nat /\ Len(chain) <= Len(chain')
      /\ \A n, k : k \in Nat /\ Kept(n, table, refused, chain, k) => Kept(n, table, refused, chain', k)
      /\ PoolsOpen => \A n :
           n \in Range(buffer) \cup {observed + 1} \/ Kept(n, table, refused, chain, Len(chain)) =>
             Kept(n, table, refused, chain', Len(chain')) \/ n \in Range(buffer')
  <2>1. table \in Seq(Nat) /\ Len(chain) \in Nat
    BY <1>1, ServerUnits
  <2>2. CASE chain' = chain /\ buffer' = waiting /\ timer' = ~Stopped
    BY <1>3, <1>4, <1>5, <2>1, <2>2
  <2>3. CASE Handed(waiting) /\ buffer' = <<>>
    <3>1. /\ chain' \in Seq(Seq(S)) /\ InOrder(table, chain', <<>>)
          /\ Len(chain') \in Nat /\ Len(chain) \in Nat /\ Len(chain) <= Len(chain')
          /\ \A n, k : k \in Nat /\ Kept(n, table, refused, chain, k) => Kept(n, table, refused, chain', k)
          /\ PoolsOpen =>
               /\ \A n \in Range(waiting) : Kept(n, table, refused, chain', Len(chain'))
               /\ \A n : Kept(n, table, refused, chain, Len(chain)) => Kept(n, table, refused, chain', Len(chain'))
      BY <1>2, <1>3, <1>4, <1>5, <2>1, <2>3, HandsOver
    <3> QED BY <1>4, <2>3, <3>1
  <2> QED BY <1>7, <2>2, <2>3
<1>9. ServerTypeOK'
  BY <1>1, <1>2, <1>3, <1>7, <1>8 DEF ServerTypeOK, Stopped
<1>10. LandsInOrder'
  BY <1>8 DEF LandsInOrder
<1>11. SomethingWrites'
  BY <1>6, <1>7 DEF SomethingWrites, Stopped
<1>12. SinkFits'
  <2>1. CASE stage \in {"up", "draining"}
    <3>1. \A n \in Numbers' : n \in Numbers \/ n = observed + 1
      BY <1>2 DEF Numbers, S
    <3> QED BY <1>8, <2>1, <3>1 DEF SinkBooks, SinkFits, Held, PoolsOpen
  <2>2. CASE stage = "flushing"
    <3>1. awaited \in Nat /\ awaited <= Len(chain)
      BY <1>1, <2>2, ServerUnits DEF SinkBooks, SinkFits
    <3>2. awaited <= Len(chain')
      BY <1>8, <3>1
    <3> QED BY <1>8, <2>2, <3>1, <3>2 DEF SinkBooks, SinkFits, Held
  <2>3. CASE stage \notin {"up", "draining", "flushing"}
    BY <2>3 DEF SinkBooks, SinkFits
  <2> QED BY <2>1, <2>2, <2>3
<1>13. DrainFits'
  BY DEF SinkBooks, DrainFits
<1> QED BY <1>9, <1>10, <1>11, <1>12, <1>13 DEF SinkBooks

LEMMA TrafficSteps ==
  ASSUME SinkBooks, NEW r \in Clients,
         \/ Arrive(r) \/ Observe(r) \/ DeferMail(r) \/ Respond(r) \/ MailSent(r) \/ MailFails(r)
  PROVE  SinkBooks'
<1>1. CASE Observe(r)
  <2>1. PICK important \in BOOLEAN : Record(important)
    BY <1>1 DEF Observe
  <2>2. /\ ~Down /\ serving # {} /\ serving' \subseteq serving /\ mailing' \subseteq mailing
        /\ UNCHANGED <<stage, awaited, table, refused, sealed, strays>>
    BY <1>1 DEF Observe, traffic, flushMarks
  <2> QED BY <2>1, <2>2, RecordStep
<1>2. CASE MailFails(r)
  <2>1. /\ ~Down /\ mailing # {} /\ serving' \subseteq serving /\ mailing' \subseteq mailing
        /\ Record(FALSE)
        /\ UNCHANGED <<stage, awaited, table, refused, sealed, strays>>
    BY <1>2 DEF MailFails, flushMarks
  <2> QED BY <2>1, RecordStep
<1>3. CASE Arrive(r) \/ DeferMail(r) \/ Respond(r) \/ MailSent(r)
  <2>1. UNCHANGED <<stage, sink, flushMarks>>
    BY <1>3 DEF Arrive, DeferMail, Respond, MailSent
  <2>2. ServerTypeOK'
    BY <1>3, <2>1 DEF SinkBooks, ServerTypeOK, Arrive, DeferMail, Respond, MailSent, sink, flushMarks, Numbers
  <2>3. LandsInOrder' /\ SomethingWrites' /\ SinkFits'
    BY <2>1 DEF SinkBooks, LandsInOrder, SomethingWrites, SinkFits, Held, Numbers, Stopped, sink, flushMarks
  <2>4. DrainFits'
    BY <1>3, <2>1 DEF SinkBooks, DrainFits, Arrive, DeferMail, Respond, MailSent, sink, flushMarks
  <2> QED BY <2>2, <2>3, <2>4 DEF SinkBooks
<1> QED BY <1>1, <1>2, <1>3

LEMMA TimerFiresStep == ASSUME SinkBooks, TimerFires PROVE SinkBooks'
<1>1. ServerTypeOK /\ UNCHANGED <<stage, traffic, observed, awaited, table, refused, flushMarks>>
      /\ buffer' = <<>> /\ Numbers' = Numbers /\ Numbers \subseteq Nat
  BY DEF SinkBooks, TimerFires, Numbers, ServerTypeOK
<1>2. /\ chain' \in Seq(Seq(Numbers)) /\ InOrder(table, chain', <<>>)
      /\ Len(chain') \in Nat /\ Len(chain) \in Nat /\ Len(chain) <= Len(chain')
      /\ \A n, k : k \in Nat /\ Kept(n, table, refused, chain, k) => Kept(n, table, refused, chain', k)
      /\ PoolsOpen =>
           /\ \A n \in Range(buffer) : Kept(n, table, refused, chain', Len(chain'))
           /\ \A n : Kept(n, table, refused, chain, Len(chain)) => Kept(n, table, refused, chain', Len(chain'))
  <2>1. buffer \in Seq(Numbers) /\ chain \in Seq(Seq(Numbers)) /\ table \in Seq(Nat)
    BY <1>1, ServerUnits DEF ServerTypeOK
  <2>2. InOrder(table, chain, buffer) /\ Handed(buffer)
    BY DEF SinkBooks, LandsInOrder, TimerFires
  <2> QED BY <1>1, <2>1, <2>2, HandsOver
<1>3. ServerTypeOK'
  <2>1. timer' \in BOOLEAN /\ <<>> \in Seq(Numbers)
    BY DEF TimerFires
  <2> QED BY <1>1, <1>2, <2>1 DEF ServerTypeOK, traffic, flushMarks
<1>4. LandsInOrder' /\ SomethingWrites'
  BY <1>1, <1>2 DEF LandsInOrder, SomethingWrites
<1>5. SinkFits'
  <2>1. CASE stage \in {"up", "draining"}
    BY <1>1, <1>2, <2>1 DEF SinkBooks, SinkFits, Held, PoolsOpen
  <2>2. CASE stage = "flushing"
    <3>1. awaited \in Nat /\ awaited <= Len(chain)
      BY <1>1, <2>2, ServerUnits DEF SinkBooks, SinkFits
    <3>2. awaited <= Len(chain')
      BY <1>2, <3>1
    <3> QED BY <1>1, <1>2, <2>2, <3>1, <3>2 DEF SinkBooks, SinkFits, Held, flushMarks
  <2>3. CASE stage \notin {"up", "draining", "flushing"}
    BY <1>1, <2>3 DEF SinkBooks, SinkFits, flushMarks
  <2> QED BY <2>1, <2>2, <2>3
<1>6. DrainFits'
  BY <1>1 DEF SinkBooks, DrainFits, flushMarks, traffic
<1> QED BY <1>3, <1>4, <1>5, <1>6 DEF SinkBooks

LEMMA WriteEndsStep == ASSUME SinkBooks, WriteEnds PROVE SinkBooks'
<1>1. /\ ServerTypeOK /\ UNCHANGED <<stage, traffic, observed, buffer, timer, flushMarks>>
      /\ Numbers' = Numbers /\ Numbers \subseteq Nat /\ chain # <<>> /\ chain' = Tail(chain)
      /\ awaited' = IF awaited > 0 THEN awaited - 1 ELSE 0
  BY DEF SinkBooks, WriteEnds, Numbers, ServerTypeOK
<1>2. /\ chain \in Seq(Seq(Numbers)) /\ table \in Seq(Numbers) /\ refused \subseteq Numbers
      /\ buffer \in Seq(Numbers) /\ awaited \in Nat /\ sealed \in Nat /\ observed \in Nat
  BY <1>1 DEF ServerTypeOK
<1>3. Head(chain) \in Seq(Numbers) /\ Tail(chain) \in Seq(Seq(Numbers))
  BY <1>1, <1>2, HeadTailProperties
<1>4. \/ table' = table \o Head(chain) /\ refused' = refused
      \/ table' = table /\ refused' = refused \cup Range(Head(chain))
  BY DEF WriteEnds
<1>5. table' \in Seq(Numbers) /\ refused' \subseteq Numbers /\ awaited' \in Nat
  <2>1. table \o Head(chain) \in Seq(Numbers)
    BY <1>2, <1>3, ConcatProperties
  <2>2. Range(Head(chain)) \subseteq Numbers
    BY <1>3, RangeOfSeq
  <2>3. awaited' \in Nat
    BY <1>1, <1>2
  <2>4. table' \in Seq(Numbers) /\ refused' \subseteq Numbers
    BY <1>2, <1>4, <2>1, <2>2
  <2> QED BY <2>3, <2>4
<1>6. ServerTypeOK'
  BY <1>1, <1>2, <1>3, <1>5 DEF ServerTypeOK, traffic, flushMarks
<1>7. table \in Seq(Nat) /\ buffer \in Seq(Nat) /\ chain \in Batches /\ Len(chain) \in Nat
  BY <1>1, ServerUnits
<1>8. LandsInOrder' /\ SomethingWrites'
  <2>1. InOrder(table, chain, buffer)
    BY DEF SinkBooks, LandsInOrder
  <2>2. InOrder(table \o Head(chain), Tail(chain), buffer) /\ InOrder(table, Tail(chain), buffer)
    BY <1>1, <1>7, <2>1, OrderLands
  <2> QED BY <1>1, <1>4, <2>2 DEF SinkBooks, LandsInOrder, SomethingWrites, Stopped
<1>9. ASSUME NEW n, NEW k \in Nat, Held(n, k)
      PROVE  /\ Kept(n, table', refused', chain', IF k > 0 THEN k - 1 ELSE 0)
             /\ Len(chain') = Len(chain) - 1 /\ Len(chain) > 0
  <2>1. Kept(n, table, refused, chain, k)
    BY <1>9 DEF Held
  <2>2. PICK left : left = IF k > 0 THEN k - 1 ELSE 0
    OBVIOUS
  <2>3. /\ Kept(n, table \o Head(chain), refused, Tail(chain), left)
        /\ Kept(n, table, refused \cup Range(Head(chain)), Tail(chain), left)
        /\ Len(Tail(chain)) = Len(chain) - 1 /\ Len(chain) > 0
    BY <1>1, <1>7, <2>1, <2>2, KeptWhenWritten
  <2> QED BY <1>1, <1>4, <2>2, <2>3
<1>10. SinkFits'
  <2>1. CASE stage \in {"up", "draining"}
    <3>1. Len(chain') = Len(chain) - 1 /\ Len(chain) > 0
      BY <1>1, <1>7, HeadTailProperties, EmptySeq DEF Batches
    <3>2. \A n \in Numbers : Held(n, Len(chain)) \/ n \in Range(buffer)
      BY <2>1 DEF SinkBooks, SinkFits
    <3>3. \A n \in Numbers : Kept(n, table', refused', chain', Len(chain')) \/ n \in Range(buffer')
      BY <1>1, <1>7, <1>9, <3>1, <3>2
    <3>4. awaited' = 0
      BY <1>1, <2>1 DEF SinkBooks, SinkFits
    <3> QED BY <1>1, <2>1, <3>3, <3>4 DEF SinkFits, Held
  <2>2. CASE stage = "flushing"
    <3>1. awaited <= Len(chain) /\ \A n \in 1 .. sealed : Held(n, awaited)
      BY <2>2 DEF SinkBooks, SinkFits
    <3>2. Len(chain') = Len(chain) - 1 /\ Len(chain) > 0
      BY <1>1, <1>7, HeadTailProperties, EmptySeq DEF Batches
    <3>3. awaited' <= Len(chain')
      BY <1>1, <1>2, <1>7, <3>1, <3>2
    <3>4. \A n \in 1 .. sealed : Kept(n, table', refused', chain', awaited')
      BY <1>1, <1>2, <1>9, <3>1
    <3> QED BY <1>1, <2>2, <3>3, <3>4 DEF SinkFits, Held, flushMarks
  <2>3. CASE stage \in {"closing", "exited"}
    <3>1. \A n \in 1 .. sealed : n \in Range(table) \cup refused
      BY <2>3 DEF SinkBooks, SinkFits
    <3>2. Range(table) \cup refused \subseteq Range(table') \cup refused'
      <4>1. ASSUME NEW n \in Range(table) PROVE n \in Range(table \o Head(chain))
        <5>1. PICK i \in DOMAIN table : n = table[i]
          BY DEF Range
        <5>2. i \in DOMAIN (table \o Head(chain)) /\ (table \o Head(chain))[i] = n
          BY <1>2, <1>3, <5>1, ConcatProperties, LenProperties
        <5> QED BY <5>2 DEF Range
      <4> QED BY <1>4, <4>1
    <3> QED BY <1>1, <2>3, <3>1, <3>2 DEF SinkFits, flushMarks
  <2>4. CASE stage = "killed"
    BY <1>1, <2>4 DEF SinkFits
  <2> QED BY <1>1, <2>1, <2>2, <2>3, <2>4 DEF ServerTypeOK
<1>11. DrainFits'
  BY <1>1 DEF SinkBooks, DrainFits, flushMarks, traffic
<1> QED BY <1>6, <1>8, <1>10, <1>11 DEF SinkBooks

LEMMA StopServingStep == ASSUME SinkBooks, StopServing PROVE SinkBooks'
<1>1. /\ ServerTypeOK /\ UNCHANGED <<traffic, observed, table, refused>>
      /\ buffer' = <<>> /\ timer' = FALSE /\ stage = "draining" /\ stage' = "flushing"
      /\ sealed' = observed /\ awaited' = LastFlush /\ strays' = (serving \cup mailing # {})
      /\ Numbers' = Numbers /\ Numbers \subseteq Nat
  BY DEF SinkBooks, StopServing, Numbers, ServerTypeOK
<1>2. /\ chain' \in Seq(Seq(Numbers)) /\ InOrder(table, chain', <<>>) /\ Len(chain') \in Nat
      /\ \A n \in Range(buffer) : Kept(n, table, refused, chain', Len(chain'))
      /\ \A n : Kept(n, table, refused, chain, Len(chain)) => Kept(n, table, refused, chain', Len(chain'))
      /\ Len(chain') = LastFlush
  <2>1. buffer \in Seq(Numbers) /\ chain \in Seq(Seq(Numbers)) /\ table \in Seq(Nat)
    BY <1>1, ServerUnits DEF ServerTypeOK
  <2>2. InOrder(table, chain, buffer) /\ Handed(buffer) /\ PoolsOpen
    BY <1>1 DEF SinkBooks, LandsInOrder, StopServing, PoolsOpen
  <2>3. /\ chain' \in Seq(Seq(Numbers)) /\ InOrder(table, chain', <<>>) /\ Len(chain') \in Nat
        /\ \A n \in Range(buffer) : Kept(n, table, refused, chain', Len(chain'))
        /\ \A n : Kept(n, table, refused, chain, Len(chain)) => Kept(n, table, refused, chain', Len(chain'))
        /\ Len(chain') = Len(chain) + (IF buffer = <<>> THEN 0 ELSE 1)
    BY <1>1, <2>1, <2>2, HandsOver
  <2> QED BY <2>3 DEF LastFlush
<1>3. ServerTypeOK'
  <2>1. <<>> \in Seq(Numbers) /\ awaited' \in Nat /\ sealed' \in Nat /\ strays' \in BOOLEAN
    BY <1>1, <1>2, ServerUnits
  <2> QED BY <1>1, <1>2, <2>1 DEF ServerTypeOK, traffic
<1>4. LandsInOrder' /\ SomethingWrites'
  BY <1>1, <1>2 DEF LandsInOrder, SomethingWrites
<1>5. SinkFits'
  <2>1. \A n \in Numbers : Held(n, Len(chain)) \/ n \in Range(buffer)
    BY <1>1 DEF SinkBooks, SinkFits
  <2>2. \A n \in 1 .. sealed' : Kept(n, table', refused', chain', awaited')
    BY <1>1, <1>2, <2>1 DEF Held, Numbers
  <2>3. awaited' <= Len(chain')
    BY <1>1, <1>2
  <2> QED BY <1>1, <2>2, <2>3 DEF SinkFits, Held
<1>6. DrainFits'
  BY <1>1 DEF DrainFits, traffic
<1> QED BY <1>3, <1>4, <1>5, <1>6 DEF SinkBooks

LEMMA ClosingSteps ==
  ASSUME SinkBooks, Signal \/ ClosePools \/ ExitServer \/ Kill \/ UNCHANGED serverVars
  PROVE  SinkBooks'
<1>1. ServerTypeOK /\ Numbers \subseteq Nat
  BY DEF SinkBooks, ServerTypeOK, Numbers
<1>2. CASE ClosePools
  <2>1. /\ UNCHANGED <<traffic, observed, buffer, timer, awaited, table, refused, flushMarks>>
        /\ stage = "flushing" /\ awaited = 0 /\ stage' = "closing" /\ Numbers' = Numbers
    BY <1>2 DEF ClosePools, Numbers
  <2>2. chain' = IF chain = <<>> THEN <<>> ELSE <<Head(chain)>>
    BY <1>2 DEF ClosePools
  <2>3. chain \in Seq(Seq(Numbers)) /\ table \in Seq(Nat) /\ buffer \in Seq(Nat) /\ chain \in Batches
    BY <1>1, ServerUnits DEF ServerTypeOK
  <2>4. chain' \in Seq(Seq(Numbers))
    <3>1. CASE chain = <<>>
      BY <2>2, <2>3, <3>1
    <3>2. CASE chain # <<>>
      <4>1. Head(chain) \in Seq(Numbers)
        BY <2>3, <3>2, HeadTailProperties
      <4> QED BY <2>2, <3>2, <4>1
    <3> QED BY <3>1, <3>2
  <2>5. LandsInOrder'
    <3>1. InOrder(table, chain, buffer)
      BY DEF SinkBooks, LandsInOrder
    <3>2. InOrder(table, chain', buffer)
      BY <2>2, <2>3, <3>1, OrderLands
    <3> QED BY <2>1, <3>2 DEF LandsInOrder
  <2>6. ServerTypeOK'
    BY <1>1, <2>1, <2>4 DEF ServerTypeOK, traffic, flushMarks
  <2>7. SinkFits'
    <3>1. \A n \in 1 .. sealed : Held(n, 0)
      BY <2>1 DEF SinkBooks, SinkFits
    <3>2. \A b \in DOMAIN chain : ~ (b <= 0)
      BY <2>3, LenProperties
    <3>3. 1 .. sealed \subseteq Range(table) \cup refused
      BY <3>1, <3>2 DEF Held, Kept
    <3> QED BY <2>1, <3>3 DEF SinkFits, flushMarks
  <2>8. SomethingWrites' /\ DrainFits'
    BY <2>1 DEF SinkBooks, SomethingWrites, Stopped, DrainFits, flushMarks, traffic
  <2> QED BY <2>5, <2>6, <2>7, <2>8 DEF SinkBooks
<1>3. CASE Signal \/ ExitServer \/ Kill \/ UNCHANGED serverVars
  <2>1. UNCHANGED <<traffic, sink, flushMarks>>
    BY <1>3 DEF Signal, ExitServer, Kill, serverVars, traffic, sink, flushMarks
  <2>2. \/ stage' = "killed"
        \/ stage' = stage
        \/ stage = "up" /\ stage' = "draining"
        \/ stage = "closing" /\ stage' = "exited"
    BY <1>3 DEF Signal, ExitServer, Kill, serverVars
  <2>3. ServerTypeOK'
    BY <1>1, <2>1, <2>2 DEF ServerTypeOK, Numbers, traffic, sink, flushMarks
  <2>4. LandsInOrder' /\ SomethingWrites' /\ SinkFits' /\ DrainFits'
    BY <2>1, <2>2 DEF SinkBooks, LandsInOrder, SomethingWrites, Stopped, SinkFits, DrainFits, Held,
                      Numbers, traffic, sink, flushMarks
  <2> QED BY <2>3, <2>4 DEF SinkBooks
<1> QED BY <1>2, <1>3

LEMMA ServerStep == SinkBooks /\ [ServerNext]_serverVars => SinkBooks'
<1> SUFFICES ASSUME SinkBooks, [ServerNext]_serverVars PROVE SinkBooks'
  OBVIOUS
<1>1. ASSUME NEW r \in Clients,
             \/ Arrive(r) \/ Observe(r) \/ DeferMail(r) \/ Respond(r) \/ MailSent(r) \/ MailFails(r)
      PROVE  SinkBooks'
  BY <1>1, TrafficSteps
<1>2. CASE TimerFires
  BY <1>2, TimerFiresStep
<1>3. CASE WriteEnds
  BY <1>3, WriteEndsStep
<1>4. CASE StopServing
  BY <1>4, StopServingStep
<1>5. CASE Signal \/ ClosePools \/ ExitServer \/ Kill \/ UNCHANGED serverVars
  BY <1>5, ClosingSteps
<1> QED BY <1>1, <1>2, <1>3, <1>4, <1>5 DEF ServerNext

LEMMA ServerEnds == SinkBooks => ServerInv
<1> SUFFICES ASSUME SinkBooks PROVE NothingDropped
  BY DEF SinkBooks, ServerInv
<1>1. sealed \in Nat /\ ~ (sealed > sealed)
  BY ServerUnits DEF SinkBooks
<1> QED BY <1>1 DEF SinkBooks, SinkFits, DrainFits, NothingDropped

(* For buffers and traffic of any size: observations land once and in      *)
(* order, none waits without the interval, and a process that exits has    *)
(* written what was recorded before its last flush.                        *)
THEOREM ObservationsLand == ServerSpec => []ServerInv
<1>1. ServerInit => SinkBooks
  BY ServerStart
<1>2. SinkBooks /\ [ServerNext]_serverVars => SinkBooks'
  BY ServerStep
<1>3. SinkBooks => ServerInv
  BY ServerEnds
<1> QED BY <1>1, <1>2, <1>3, PTL DEF ServerSpec

=============================================================================

------------------------- MODULE PortGuard_proofs -------------------------
(***************************************************************************)
(* The guarded port, for every number of callers, slots and trials and for *)
(* every policy.  The inductive invariant adds to the properties that an   *)
(* attempt still in flight while the breaker is open is at least as old as *)
(* the open interval: with deadlines shorter than the wait, none is left   *)
(* when the trials begin.                                                  *)
(***************************************************************************)
EXTENDS PortGuard, FiniteSetTheorems, SequenceTheorems, TLAPS

LateAreOld ==
  state = "open" => \A c \in At("trying") : call[c].age >= sinceOpened

RetriesRemain == \A c \in Calls : call[c].pc = "waiting" => call[c].left > 0

GuardInv ==
  /\ TypeOK
  /\ SlotsHeld
  /\ RetriesRemain
  /\ LateAreOld
  /\ TrialsAccounted

(* The constants, one by one.                                              *)
LEMMA Constants ==
  /\ MaxInFlight \in Nat \ {0} /\ Timeout \in Nat \ {0}
  /\ FailureWindow \in Nat \ {0} /\ RollingWindow \in Nat \ {0}
  /\ OpenInterval \in Nat \ {0} /\ MaxOpen \in Nat \ {0}
  /\ HalfOpenTrials \in Nat \ {0} /\ Retries \in Nat
  /\ OpenInterval =< MaxOpen /\ IsFiniteSet(Calls)
BY PortGuardAssumption

(* Sets of callers can be counted.                                         *)
LEMMA Counting ==
  ASSUME NEW stage
  PROVE  /\ IsFiniteSet(At(stage)) /\ Cardinality(At(stage)) \in Nat
         /\ IsFiniteSet(InFlight) /\ Cardinality(InFlight) \in Nat
<1>1. At(stage) \in SUBSET Calls /\ InFlight \in SUBSET Calls
  BY DEF At, InFlight
<1>2. IsFiniteSet(At(stage)) /\ IsFiniteSet(InFlight)
  BY <1>1, Constants, FS_Subset
<1> QED BY <1>2, FS_CardinalityType

(* What prune keeps of the outcomes is a window of them.                   *)
LEMMA LastOfIsAWindow ==
  ASSUME NEW outcomes \in Seq(BOOLEAN)
  PROVE  LastOf(outcomes) \in Seq(BOOLEAN) /\ Len(LastOf(outcomes)) =< RollingWindow
<1> DEFINE n == Len(outcomes)
           m == IF n > RollingWindow THEN n - RollingWindow + 1 ELSE 1
<1>1. n \in Nat /\ RollingWindow \in Nat \ {0}
  BY Constants, LenProperties
<1>2. m \in 1 .. n + 1 BY <1>1
<1>3. LastOf(outcomes) = SubSeq(outcomes, m, n)
  BY DEF LastOf
<1>4. /\ SubSeq(outcomes, m, n) \in Seq(BOOLEAN)
      /\ Len(SubSeq(outcomes, m, n)) = IF m <= n THEN n - m + 1 ELSE 0
  BY <1>1, <1>2, SubSeqProperties
<1> HIDE DEF n
<1> QED BY <1>1, <1>3, <1>4

(* What an admitted attempt starts from is a state of a call.              *)
LEMMA TryingState ==
  ASSUME NEW left \in 0 .. Retries, NEW streams \in BOOLEAN, NEW isTrial \in BOOLEAN
  PROVE  [pc |-> "trying", left |-> left, age |-> 0, streams |-> streams,
          trial |-> isTrial] \in CallStates
<1>1. 0 \in 0 .. Timeout BY Constants
<1> QED BY <1>1, Zenon DEF CallStates

(* So is what is left of a call whose attempt has ended.                   *)
LEMMA RestingState ==
  ASSUME NEW stage \in {"idle", "done", "streaming", "waiting"}, NEW left \in 0 .. Retries
  PROVE  /\ Resting(stage, left) \in CallStates
         /\ Resting(stage, left).pc = stage /\ Resting(stage, left).left = left
<1>1. 0 \in 0 .. Timeout BY Constants
<1> QED BY <1>1, Zenon DEF Resting, CallStates

(* Nobody calls at the start.                                              *)
LEMMA InitGuardInv == Init => GuardInv
<1> SUFFICES ASSUME Init PROVE GuardInv
  OBVIOUS
<1> USE Constants DEF Init
<1>1. \A c \in Calls : call[c] = Idle
  OBVIOUS
<1>2. Idle \in CallStates
  BY RestingState DEF Idle
<1>3. TypeOK
  BY <1>1, <1>2 DEF TypeOK, Ages
<1>4. InFlight = {}
  BY <1>1 DEF InFlight, Idle, Resting
<1>5. SlotsHeld
  BY <1>4, FS_EmptySet DEF SlotsHeld
<1> QED BY <1>1, <1>3, <1>5 DEF GuardInv, RetriesRemain, LateAreOld, TrialsAccounted, Idle, Resting

(* When the trials begin, no attempt is in flight.                         *)
LEMMA NothingLate ==
  ASSUME TypeOK, LateAreOld, Punctual, Elapsed
  PROVE  At("trying") = {}
<1> SUFFICES ASSUME NEW c \in At("trying") PROVE FALSE
  OBVIOUS
<1>1. c \in Calls /\ call[c] \in CallStates
  BY DEF At, TypeOK
<1>2. call[c].age \in 0 .. Timeout
  BY <1>1 DEF CallStates
<1>3. call[c].age >= sinceOpened /\ sinceOpened >= openFor /\ openFor >= OpenInterval
  BY Constants DEF LateAreOld, Elapsed, TypeOK
<1>4. Timeout < OpenInterval
  BY DEF Punctual
<1> QED BY <1>2, <1>3, <1>4, Constants DEF TypeOK

(* An attempt admitted or refused keeps what the breaker knows.            *)
LEMMA AttemptKeeps ==
  ASSUME GuardInv, active' \in Nat, NEW c \in Calls, NEW left \in 0 .. Retries,
         NEW streams \in BOOLEAN, call[c].pc \in {"idle", "waiting"},
         Attempt(c, left, streams)
  PROVE  /\ TypeOK' /\ RetriesRemain' /\ LateAreOld' /\ TrialsAccounted'
         /\ InFlight' = InFlight \cup {c}
         /\ (state' = "open" => At("trying")' = At("trying"))
<1> USE Constants DEF GuardInv
<1> DEFINE isTrial == StateNow = "half-open"
           tried == [pc |-> "trying", left |-> left, age |-> 0,
                     streams |-> streams, trial |-> isTrial]
           refused == Resting("done", 0)
<1>1. call \in [Calls -> CallStates] BY DEF TypeOK
<1>2. tried \in CallStates /\ refused \in CallStates
  <2>1. isTrial \in BOOLEAN OBVIOUS
  <2> HIDE DEF isTrial
  <2>2. tried \in CallStates BY <2>1, TryingState
  <2>3. refused \in CallStates BY Constants, RestingState
  <2> QED BY <2>2, <2>3
<1>3. /\ Admits => call' = [call EXCEPT ![c] = tried]
      /\ ~Admits => call' = [call EXCEPT ![c] = refused]
  BY DEF Attempt
<1>4. tried.pc = "trying" /\ tried.trial = (StateNow = "half-open") /\ tried.age = 0
      /\ refused.pc = "done"
  BY DEF Resting
<1> HIDE DEF tried, refused
<1>5. call' \in [Calls -> CallStates] /\ call'[c] = (IF Admits THEN tried ELSE refused)
      /\ \A d \in Calls : d # c => call'[d] = call[d]
  BY <1>1, <1>2, <1>3
<1>6. At("trying")' = IF Admits THEN At("trying") \cup {c} ELSE At("trying")
  BY <1>4, <1>5 DEF At
<1>7. c \notin At("trying")
  BY DEF At
<1>8. InFlight' = InFlight \cup {c}
  BY <1>4, <1>5 DEF InFlight
<1>9. state \in {"closed", "open", "half-open"} /\ halfOpenStarted \in 0 .. HalfOpenTrials
  BY DEF TypeOK
<1>10. /\ state' = StateNow /\ StateNow \in {"closed", "open", "half-open"}
       /\ halfOpenStarted' = IF Admits /\ StateNow = "half-open" THEN StartedNow + 1 ELSE StartedNow
       /\ StartedNow \in 0 .. HalfOpenTrials
       /\ Admits /\ StateNow = "half-open" => StartedNow < HalfOpenTrials
  BY <1>9 DEF Attempt, MaybeHalfOpen, StateNow, StartedNow, Elapsed, Admits
<1>11. TypeOK'
  BY <1>5, <1>10 DEF TypeOK, Attempt, MaybeHalfOpen, window
<1>12. RetriesRemain'
  BY <1>4, <1>5 DEF RetriesRemain
<1>13. state' = "open" => ~Admits /\ ~Elapsed /\ state = "open"
  BY <1>9, <1>10 DEF StateNow, Admits, Elapsed
<1>14. LateAreOld'
  <2> SUFFICES ASSUME state' = "open", NEW d \in At("trying")' PROVE call'[d].age >= sinceOpened'
    BY DEF LateAreOld
  <2>1. d \in At("trying") /\ d # c /\ d \in Calls
    BY <1>6, <1>7, <1>13 DEF At
  <2>2. sinceOpened' = sinceOpened
    BY <1>13 DEF Attempt, MaybeHalfOpen
  <2> QED BY <1>5, <1>13, <2>1, <2>2 DEF LateAreOld
<1>15. TrialsAccounted'
  <2> SUFFICES ASSUME Punctual, state' = "half-open"
               PROVE  /\ \A d \in At("trying")' : call'[d].trial
                      /\ halfOpenStarted' = halfOpenSucceeded' + Cardinality(At("trying")')
                      /\ halfOpenSucceeded' = trialsWon' /\ trialsWon' < HalfOpenTrials
    BY DEF TrialsAccounted, Punctual
  <2>1. /\ \A d \in At("trying") : call[d].trial
        /\ StartedNow = halfOpenSucceeded' + Cardinality(At("trying"))
        /\ halfOpenSucceeded' = trialsWon' /\ trialsWon' < HalfOpenTrials
        /\ halfOpenSucceeded' \in Nat
    <3>1. CASE Elapsed
      <4>1. At("trying") = {} BY <3>1, NothingLate
      <4>2. Cardinality(At("trying")) = 0 BY <4>1, FS_EmptySet
      <4> QED BY <3>1, <4>1, <4>2 DEF Attempt, MaybeHalfOpen, StartedNow
    <3>2. CASE ~Elapsed
      <4>1. state = "half-open" BY <1>10, <3>2 DEF StateNow
      <4> QED BY <3>2, <4>1 DEF TrialsAccounted, Attempt, MaybeHalfOpen, StartedNow, TypeOK
    <3> QED BY <3>1, <3>2
  <2>2. CASE Admits
    <3>1. Cardinality(At("trying") \cup {c}) = Cardinality(At("trying")) + 1
      BY <1>7, Counting, FS_AddElement
    <3>2. Cardinality(At("trying")) \in Nat BY Counting
    <3>3. \A d \in At("trying")' : call'[d].trial
      <4> SUFFICES ASSUME NEW d \in At("trying")' PROVE call'[d].trial
        OBVIOUS
      <4>1. CASE d = c BY <1>4, <1>5, <1>10, <2>2, <4>1
      <4>2. CASE d # c
        BY <1>5, <1>6, <2>1, <2>2, <4>2 DEF At
      <4> QED BY <4>1, <4>2
    <3>4. halfOpenStarted' = StartedNow + 1 BY <1>10, <2>2
    <3>5. Cardinality(At("trying")') = Cardinality(At("trying")) + 1
      BY <1>6, <2>2, <3>1
    <3>6. StartedNow = halfOpenSucceeded' + Cardinality(At("trying")) /\ halfOpenSucceeded' \in Nat
      BY <2>1
    <3> HIDE DEF isTrial
    <3>7. halfOpenStarted' = halfOpenSucceeded' + Cardinality(At("trying")')
      BY <3>2, <3>4, <3>5, <3>6
    <3> QED BY <2>1, <3>3, <3>7
  <2>3. CASE ~Admits
    <3>1. \A d \in At("trying")' : call'[d].trial
      BY <1>5, <1>6, <1>7, <2>1, <2>3 DEF At
    <3> QED BY <1>6, <1>10, <2>1, <2>3, <3>1
  <2> QED BY <2>2, <2>3
<1> QED BY <1>6, <1>8, <1>11, <1>12, <1>13, <1>14, <1>15

(* What a step may not do: restart a wait under way, start an attempt      *)
(* while open, or close before every trial has succeeded.                  *)
Restrained ==
  /\ (Punctual /\ state # "closed" /\ state' = "closed") =>
       trialsWon' = HalfOpenTrials /\ At("trying")' = {}
  /\ (state = "open" /\ state' = "open") =>
       /\ At("trying")' \subseteq At("trying")
       /\ openFor' = openFor
       /\ sinceOpened' >= sinceOpened

(* The end of an attempt takes its call from the attempts in flight and    *)
(* leaves the other calls as they were, but for the mark of a trial.       *)
LEMMA EndOfAttempt ==
  ASSUME TypeOK, RetriesRemain, NEW c \in At("trying"),
         NEW stage \in {"done", "streaming", "waiting"}, NEW left \in 0 .. Retries,
         stage = "waiting" => left > 0,
         NEW calls, calls = [call EXCEPT ![c] = Resting(stage, left)],
         call' = calls \/ call' = NoTrials(calls)
  PROVE  /\ call' \in [Calls -> CallStates]
         /\ RetriesRemain'
         /\ InFlight' = InFlight
         /\ At("trying")' = At("trying") \ {c}
         /\ Cardinality(At("trying")') = Cardinality(At("trying")) - 1
         /\ \A d \in At("trying")' : call'[d].age = call[d].age
         /\ call' = calls => \A d \in At("trying")' : call'[d] = call[d]
<1>1. c \in Calls /\ call[c].pc = "trying" /\ call \in [Calls -> CallStates]
  BY DEF At, TypeOK
<1>2. /\ Resting(stage, left) \in CallStates
      /\ Resting(stage, left).pc = stage /\ Resting(stage, left).left = left
  BY RestingState
<1>3. calls \in [Calls -> CallStates] /\ calls[c].pc = stage /\ calls[c].left = left
      /\ \A d \in Calls : d # c => calls[d] = call[d]
  BY <1>1, <1>2
<1>4. \A d \in Calls : [calls[d] EXCEPT !.trial = FALSE] \in CallStates
  BY <1>3 DEF CallStates
<1>5. \A d \in Calls : /\ call'[d] \in CallStates
                      /\ call'[d].pc = calls[d].pc /\ call'[d].left = calls[d].left
                      /\ call'[d].age = calls[d].age
  BY <1>3, <1>4 DEF NoTrials, CallStates
<1>6. call' \in [Calls -> CallStates]
  BY <1>3, <1>4 DEF NoTrials
<1>7. RetriesRemain' BY <1>3, <1>5 DEF RetriesRemain
<1>8. InFlight' = InFlight BY <1>1, <1>3, <1>5 DEF InFlight
<1>9. At("trying")' = At("trying") \ {c} BY <1>1, <1>3, <1>5 DEF At
<1>10. Cardinality(At("trying")') = Cardinality(At("trying")) - 1
  BY <1>9, Counting, FS_RemoveElement
<1>11. \A d \in At("trying")' : d \in Calls /\ d # c BY <1>9 DEF At
<1> QED BY <1>3, <1>5, <1>6, <1>7, <1>8, <1>9, <1>10, <1>11

(* A success keeps the invariant, and closes only after the last trial.    *)
LEMMA SuccessKeeps ==
  ASSUME GuardInv, UNCHANGED active, NEW c \in At("trying"),
         NEW stage \in {"done", "streaming"}, NEW calls,
         calls = [call EXCEPT ![c] = Resting(stage, 0)],
         RecordSuccess(c, calls)
  PROVE  GuardInv' /\ Restrained
<1> USE Constants DEF GuardInv
<1> DEFINE inFlight == Cardinality(At("trying"))
<1>1. call' = calls \/ call' = NoTrials(calls)
  BY DEF RecordSuccess, Close, Stays
<1>2. /\ call' \in [Calls -> CallStates] /\ RetriesRemain' /\ InFlight' = InFlight
      /\ At("trying")' = At("trying") \ {c}
      /\ Cardinality(At("trying")') = inFlight - 1
      /\ \A d \in At("trying")' : call'[d].age = call[d].age
      /\ call' = calls => \A d \in At("trying")' : call'[d] = call[d]
  <2>1. 0 \in 0 .. Retries /\ stage # "waiting" OBVIOUS
  <2> QED BY <1>1, <2>1, EndOfAttempt
<1>3. SlotsHeld' BY <1>2 DEF SlotsHeld
<1>4. inFlight \in Nat /\ Cardinality(At("trying")') \in Nat /\ IsFiniteSet(At("trying")')
  BY <1>2, Counting, FS_Subset, FS_CardinalityType
<1>5. Append(recent, FALSE) \in Seq(BOOLEAN) BY DEF TypeOK
<1>6. (Punctual /\ state = "half-open") =>
        /\ trialsWon' = halfOpenSucceeded + 1
        /\ halfOpenStarted = halfOpenSucceeded + inFlight
        /\ halfOpenSucceeded < HalfOpenTrials
  BY DEF TrialsAccounted, RecordSuccess
<1>7. CASE state = "half-open" /\ LastTrial /\ Close(calls)
  <2>1. TypeOK'
    <3>1. trialsWon' \in Nat BY DEF RecordSuccess, TypeOK
    <3>2. /\ state' = "closed" /\ openFor' = OpenInterval
          /\ failures' \in [Ages -> Nat] /\ recent' = <<>>
          /\ halfOpenStarted' = 0 /\ halfOpenSucceeded' = 0
          /\ UNCHANGED <<active, sinceOpened>>
      BY <1>7 DEF Close
    <3>3. recent' \in Seq(BOOLEAN) /\ Len(recent') =< RollingWindow
      BY <3>2
    <3>4. /\ openFor' \in OpenInterval .. MaxOpen /\ sinceOpened' \in 0 .. MaxOpen
          /\ halfOpenStarted' \in 0 .. HalfOpenTrials /\ halfOpenSucceeded' \in Nat
          /\ active' \in Nat
      BY <3>2 DEF TypeOK
    <3> QED BY <1>2, <3>1, <3>2, <3>3, <3>4 DEF TypeOK
  <2>2. Punctual => trialsWon' = HalfOpenTrials /\ Cardinality(At("trying")') = 0
    BY <1>2, <1>4, <1>6, <1>7 DEF LastTrial, TypeOK
  <2>3. Punctual => At("trying")' = {}
    BY <1>4, <2>2, FS_EmptySet
  <2>4. Restrained BY <1>7, <2>2, <2>3 DEF Restrained
  <2> QED BY <1>2, <1>3, <1>7, <2>1, <2>4 DEF Close, LateAreOld, TrialsAccounted
<1>8. CASE ~(state = "half-open" /\ LastTrial)
  <2>1. /\ Stays(calls) /\ call' = calls
        /\ recent' = LastOf(Append(recent, FALSE)) /\ UNCHANGED failures
        /\ halfOpenSucceeded' = halfOpenSucceeded + (IF state = "half-open" THEN 1 ELSE 0)
        /\ UNCHANGED <<state, openFor, sinceOpened, halfOpenStarted>>
    BY <1>8 DEF RecordSuccess, Stays
  <2>2. TypeOK'
    <3>1. recent' \in Seq(BOOLEAN) /\ Len(recent') =< RollingWindow
      BY <1>5, <2>1, LastOfIsAWindow
    <3>2. trialsWon' \in Nat BY DEF RecordSuccess, TypeOK
    <3>3. halfOpenSucceeded' \in Nat BY <2>1 DEF TypeOK
    <3> QED BY <1>2, <2>1, <3>1, <3>2, <3>3 DEF TypeOK
  <2>3. LateAreOld' BY <1>2, <2>1 DEF LateAreOld
  <2>4. TrialsAccounted'
    <3> SUFFICES ASSUME Punctual, state = "half-open"
                 PROVE  /\ \A d \in At("trying")' : call'[d].trial
                        /\ halfOpenStarted' = halfOpenSucceeded' + Cardinality(At("trying")')
                        /\ halfOpenSucceeded' = trialsWon' /\ trialsWon' < HalfOpenTrials
      BY <2>1 DEF TrialsAccounted, Punctual
    <3>1. \A d \in At("trying")' : call'[d].trial
      BY <1>2, <2>1 DEF TrialsAccounted
    <3>2. halfOpenSucceeded' = halfOpenSucceeded + 1 /\ ~LastTrial /\ halfOpenSucceeded \in Nat
      BY <1>8, <2>1 DEF TypeOK
    <3>3. halfOpenSucceeded + 1 < HalfOpenTrials BY <3>2 DEF LastTrial
    <3> HIDE DEF inFlight
    <3> QED BY <1>2, <1>4, <1>6, <2>1, <3>1, <3>2, <3>3
  <2>5. Restrained BY <1>2, <2>1 DEF Restrained, TypeOK
  <2> QED BY <1>2, <1>3, <2>2, <2>3, <2>4, <2>5
<1> QED BY <1>7, <1>8 DEF RecordSuccess

(* A failure keeps the invariant, and moves nothing while open.            *)
LEMMA FailureKeeps ==
  ASSUME GuardInv, UNCHANGED active, NEW c \in At("trying"),
         NEW stage \in {"done", "waiting"}, NEW left \in 0 .. Retries,
         stage = "waiting" => left > 0, NEW calls,
         calls = [call EXCEPT ![c] = Resting(stage, left)],
         RecordFailure(calls)
  PROVE  GuardInv' /\ Restrained
<1> USE Constants DEF GuardInv
<1> DEFINE trips == state = "closed" /\ ShouldTrip(failures', recent')
<1>1. call' = calls \/ call' = NoTrials(calls)
  BY DEF RecordFailure, Open, Stays
<1>2. /\ call' \in [Calls -> CallStates] /\ RetriesRemain' /\ InFlight' = InFlight
      /\ At("trying")' = At("trying") \ {c}
      /\ \A d \in At("trying")' : call'[d].age = call[d].age
  BY <1>1, EndOfAttempt
<1>3. SlotsHeld' BY <1>2 DEF SlotsHeld
<1>4. failures' \in [Ages -> Nat]
  <2>1. 0 \in Ages BY DEF Ages
  <2> QED BY <2>1 DEF RecordFailure, TypeOK
<1>5. recent' \in Seq(BOOLEAN) /\ Len(recent') =< RollingWindow
  <2>1. Append(recent, TRUE) \in Seq(BOOLEAN) BY DEF TypeOK
  <2> QED BY <2>1, LastOfIsAWindow DEF RecordFailure
<1>6. CASE /\ state # "open" /\ Open(calls)
           /\ openFor' \in OpenInterval .. MaxOpen
  <2>1. /\ state' = "open" /\ sinceOpened' = 0
        /\ halfOpenStarted' = 0 /\ halfOpenSucceeded' = 0 /\ trialsWon' = trialsWon
    BY <1>6 DEF Open
  <2>2. /\ sinceOpened' \in 0 .. MaxOpen /\ halfOpenStarted' \in 0 .. HalfOpenTrials
        /\ halfOpenSucceeded' \in Nat /\ trialsWon' \in Nat /\ active' \in Nat
    BY <2>1 DEF TypeOK
  <2>3. TypeOK' BY <1>2, <1>4, <1>5, <1>6, <2>1, <2>2 DEF TypeOK
  <2>4. LateAreOld'
    <3> SUFFICES ASSUME NEW d \in At("trying")' PROVE call'[d].age >= sinceOpened'
      BY DEF LateAreOld
    <3>1. d \in Calls BY <1>2 DEF At
    <3>2. call'[d] \in CallStates BY <1>2, <3>1
    <3>3. call'[d].age \in 0 .. Timeout BY <3>2 DEF CallStates
    <3> QED BY <2>1, <3>3
  <2>5. Restrained BY <1>6, <2>1 DEF Restrained
  <2> QED BY <1>2, <1>3, <2>1, <2>3, <2>4, <2>5 DEF TrialsAccounted
<1>7. CASE state = "half-open"
  <2>1. openFor' = Doubled /\ Open(calls)
    BY <1>7 DEF RecordFailure
  <2>2. Doubled \in OpenInterval .. MaxOpen
    BY DEF Doubled, TypeOK
  <2> QED BY <1>6, <1>7, <2>1, <2>2
<1>8. CASE trips
  <2>1. Open(calls) /\ openFor' = openFor
    BY <1>8 DEF RecordFailure
  <2> QED BY <1>6, <1>8, <2>1 DEF TypeOK
<1>9. CASE ~trips /\ state # "half-open"
  <2>1. UNCHANGED <<state, openFor, sinceOpened, halfOpenStarted, halfOpenSucceeded, trialsWon>>
    BY <1>9 DEF RecordFailure, Stays
  <2>2. TypeOK' BY <1>2, <1>4, <1>5, <2>1 DEF TypeOK
  <2>3. LateAreOld' BY <1>2, <2>1 DEF LateAreOld
  <2>4. Restrained BY <1>2, <2>1 DEF Restrained, TypeOK
  <2> QED BY <1>2, <1>3, <1>9, <2>1, <2>2, <2>3, <2>4 DEF TrialsAccounted
<1> QED BY <1>7, <1>8, <1>9

(* Time ages attempts and the open interval alike.                         *)
LEMMA TickKeeps ==
  ASSUME GuardInv, Tick
  PROVE  GuardInv' /\ Restrained
<1> USE Constants DEF GuardInv
<1>1. call \in [Calls -> CallStates] BY DEF TypeOK
<1>2. \A c \in Calls :
        /\ call'[c] \in CallStates
        /\ call'[c].pc = call[c].pc /\ call'[c].left = call[c].left
        /\ call'[c].trial = call[c].trial
        /\ call[c].pc = "trying" => call'[c].age = call[c].age + 1
  <2> SUFFICES ASSUME NEW c \in Calls
               PROVE  /\ call'[c] \in CallStates
                      /\ call'[c].pc = call[c].pc /\ call'[c].left = call[c].left
                      /\ call'[c].trial = call[c].trial
                      /\ call[c].pc = "trying" => call'[c].age = call[c].age + 1
    OBVIOUS
  <2>1. CASE call[c].pc = "trying"
    <3>1. call'[c] = [call[c] EXCEPT !.age = call[c].age + 1]
      BY <2>1 DEF Tick
    <3>2. call[c].age \in 0 .. Timeout /\ call[c].age < Timeout
      BY <1>1, <2>1 DEF Tick, At, CallStates
    <3>3. call[c].age + 1 \in 0 .. Timeout BY <3>2
    <3>4. call[c] \in CallStates BY <1>1
    <3> QED BY <3>1, <3>3, <3>4 DEF CallStates
  <2>2. CASE call[c].pc # "trying"
    BY <1>1, <2>2 DEF Tick
  <2> QED BY <2>1, <2>2
<1>3. call' \in [Calls -> CallStates] BY <1>2 DEF Tick
<1>4. At("trying")' = At("trying") /\ InFlight' = InFlight
  BY <1>2 DEF At, InFlight
<1>5. UNCHANGED <<active, state, openFor, recent, halfOpenStarted, halfOpenSucceeded, trialsWon>>
  BY DEF Tick, trials
<1>6. sinceOpened' \in 0 .. MaxOpen /\ sinceOpened' >= sinceOpened /\ sinceOpened' =< sinceOpened + 1
  BY DEF Tick, TypeOK
<1>7. failures' \in [Ages -> Nat]
  <2>1. failures' = [a \in Ages |-> IF a = 0 THEN 0 ELSE failures[a - 1]]
    BY DEF Tick
  <2>2. \A a \in Ages : a # 0 => a - 1 \in Ages BY DEF Ages
  <2> QED BY <2>1, <2>2 DEF TypeOK
<1>8. TypeOK' BY <1>3, <1>5, <1>6, <1>7 DEF TypeOK
<1>9. LateAreOld'
  <2> SUFFICES ASSUME state = "open", NEW d \in At("trying")
               PROVE  call'[d].age >= sinceOpened'
    BY <1>4, <1>5 DEF LateAreOld
  <2>1. d \in Calls /\ call[d].pc = "trying" /\ call[d].age >= sinceOpened
    BY DEF At, LateAreOld
  <2>2. call[d].age \in 0 .. Timeout BY <1>1, <2>1 DEF CallStates
  <2> QED BY <1>2, <1>6, <2>1, <2>2 DEF TypeOK
<1>10. TrialsAccounted'
  <2>1. \A d \in At("trying") : call[d].trial = call'[d].trial BY <1>2 DEF At
  <2> QED BY <1>4, <1>5, <2>1 DEF TrialsAccounted, Punctual
<1>11. SlotsHeld' /\ RetriesRemain'
  BY <1>2, <1>4, <1>5 DEF SlotsHeld, RetriesRemain
<1> QED BY <1>4, <1>5, <1>6, <1>8, <1>9, <1>10, <1>11 DEF Restrained

(* Every step keeps the invariant and is restrained.                       *)
LEMMA StepKeeps ==
  ASSUME GuardInv, [Next]_vars
  PROVE  GuardInv' /\ (Restrained \/ UNCHANGED vars)
<1> USE Constants DEF GuardInv
<1>0. call \in [Calls -> CallStates] BY DEF TypeOK
<1>1. CASE UNCHANGED vars
  BY <1>1 DEF vars, breaker, window, trials, TypeOK, SlotsHeld, RetriesRemain, LateAreOld,
              TrialsAccounted, At, InFlight, Punctual
<1>2. CASE Tick BY <1>2, TickKeeps
<1>3. CASE Observe
  <2>1. UNCHANGED <<active, call, openFor, failures, recent>> /\ Elapsed
        /\ state' = "half-open" /\ sinceOpened' = 0 /\ halfOpenSucceeded' = 0
        /\ trialsWon' = 0 /\ halfOpenStarted' = 0
    BY <1>3 DEF Observe, MaybeHalfOpen, window, StateNow
  <2>2. TypeOK' BY <2>1 DEF TypeOK
  <2>3. At("trying")' = At("trying") /\ InFlight' = InFlight BY <2>1 DEF At, InFlight
  <2>4. Punctual => At("trying") = {} BY <2>1, NothingLate
  <2>5. Cardinality({}) = 0 BY FS_EmptySet
  <2>6. TrialsAccounted' BY <2>1, <2>3, <2>4, <2>5 DEF TrialsAccounted, Punctual
  <2> QED BY <2>1, <2>2, <2>3, <2>6 DEF SlotsHeld, RetriesRemain, LateAreOld, Restrained
<1>4. ASSUME NEW c \in Calls, Call(c) PROVE GuardInv' /\ Restrained
  <2>1. active' = active + 1 /\ active < MaxInFlight /\ active \in Nat
        /\ call[c].pc \in {"idle", "waiting"}
    BY <1>4 DEF Call, HasSlot, TypeOK
  <2>2. PICK left \in 0 .. Retries, streams \in BOOLEAN : Attempt(c, left, streams)
    <3>1. {0, Retries} \subseteq 0 .. Retries OBVIOUS
    <3>2. (\E left \in {0, Retries} : Attempt(c, left, FALSE)) \/ Attempt(c, 0, TRUE)
      BY <1>4 DEF Call
    <3> QED BY <3>1, <3>2, Zenon
  <2>3. /\ TypeOK' /\ RetriesRemain' /\ LateAreOld' /\ TrialsAccounted'
        /\ InFlight' = InFlight \cup {c}
        /\ (state' = "open" => At("trying")' = At("trying"))
    BY <2>1, <2>2, AttemptKeeps
  <2>4. Cardinality(InFlight') = Cardinality(InFlight) + 1
    <3>1. c \notin InFlight BY <1>4 DEF Call, InFlight
    <3> QED BY <2>3, <3>1, Counting, FS_AddElement
  <2>5. SlotsHeld' BY <2>1, <2>4 DEF SlotsHeld
  <2>6. Restrained
    BY <2>2, <2>3 DEF Restrained, Attempt, MaybeHalfOpen, StateNow, Elapsed, TypeOK
  <2> QED BY <2>3, <2>5, <2>6
<1>5. ASSUME NEW c \in Calls, Wakes(c) PROVE GuardInv' /\ Restrained
  <2>1. active' = active /\ active' \in Nat /\ call[c].pc = "waiting"
    BY <1>5 DEF Wakes, TypeOK
  <2>2. call[c].left - 1 \in 0 .. Retries
    <3>1. call[c].left \in 0 .. Retries BY <1>0 DEF CallStates
    <3> QED BY <2>1, <3>1 DEF RetriesRemain
  <2>3. Attempt(c, call[c].left - 1, FALSE) BY <1>5 DEF Wakes
  <2>4. /\ TypeOK' /\ RetriesRemain' /\ LateAreOld' /\ TrialsAccounted'
        /\ InFlight' = InFlight \cup {c}
        /\ (state' = "open" => At("trying")' = At("trying"))
    BY <2>1, <2>2, <2>3, AttemptKeeps
  <2>5. InFlight \cup {c} = InFlight BY <2>1 DEF InFlight
  <2>6. SlotsHeld' BY <2>1, <2>4, <2>5 DEF SlotsHeld
  <2>7. Restrained
    BY <2>3, <2>4 DEF Restrained, Attempt, MaybeHalfOpen, StateNow, Elapsed, TypeOK
  <2> QED BY <2>4, <2>6, <2>7
<1>6. ASSUME NEW c \in Calls, Succeed(c) PROVE GuardInv' /\ Restrained
  <2>1. UNCHANGED active /\ c \in At("trying")
    BY <1>6 DEF Succeed, At
  <2>2. PICK stage \in {"done", "streaming"} :
          RecordSuccess(c, [call EXCEPT ![c] = Resting(stage, 0)])
    BY <1>6 DEF Succeed, Ends
  <2> QED BY <2>1, <2>2, SuccessKeeps
<1>7. ASSUME NEW c \in Calls, NEW retryable \in BOOLEAN, FailsWith(c, retryable)
      PROVE  GuardInv' /\ Restrained
  <2>1. UNCHANGED active /\ c \in At("trying")
    BY <1>7 DEF FailsWith, At
  <2>2. call[c].left \in 0 .. Retries /\ 0 \in 0 .. Retries
    BY <1>0 DEF CallStates
  <2>3. CASE retryable /\ call[c].left > 0
    <3>1. RecordFailure([call EXCEPT ![c] = Resting("waiting", call[c].left)])
      BY <1>7, <2>3 DEF FailsWith
    <3> QED BY <2>1, <2>2, <2>3, <3>1, FailureKeeps
  <2>4. CASE ~(retryable /\ call[c].left > 0)
    <3>1. RecordFailure([call EXCEPT ![c] = Resting("done", 0)])
      BY <1>7, <2>4 DEF FailsWith, Ends
    <3> QED BY <2>1, <2>2, <3>1, FailureKeeps
  <2> QED BY <2>3, <2>4
<1>8. ASSUME NEW c \in Calls, StreamEnds(c) \/ Release(c) PROVE GuardInv' /\ Restrained
  <2>1. PICK stage \in {"done", "idle"} : call' = [call EXCEPT ![c] = Resting(stage, 0)]
    BY <1>8 DEF StreamEnds, Release, Ends, Idle
  <2>2. UNCHANGED <<state, openFor, sinceOpened, failures, recent,
                    halfOpenStarted, halfOpenSucceeded, trialsWon>>
    BY <1>8 DEF StreamEnds, Release, breaker, window, trials
  <2>3. Resting(stage, 0) \in CallStates /\ Resting(stage, 0).pc = stage
    BY RestingState
  <2>4. /\ call' \in [Calls -> CallStates] /\ call'[c].pc = stage
        /\ \A d \in Calls : d # c => call'[d] = call[d]
    BY <1>0, <2>1, <2>3
  <2>5. call[c].pc \in {"streaming", "done"}
    BY <1>8 DEF StreamEnds, Release
  <2>6. /\ At("trying")' = At("trying")
        /\ \A d \in At("trying") : call'[d] = call[d]
    BY <2>4, <2>5 DEF At
  <2>7. RetriesRemain' /\ LateAreOld' /\ TrialsAccounted'
    BY <2>2, <2>4, <2>6 DEF RetriesRemain, LateAreOld, TrialsAccounted, Punctual
  <2>8. SlotsHeld' /\ active' \in Nat
    <3>1. CASE StreamEnds(c)
      <4>1. call'[c].pc = "done" /\ active' = active
        BY <1>0, <2>3, <3>1 DEF StreamEnds, Ends, Resting
      <4>2. InFlight' = InFlight BY <2>4, <2>5, <4>1 DEF InFlight
      <4> QED BY <4>1, <4>2 DEF SlotsHeld, TypeOK
    <3>2. CASE Release(c)
      <4>1. call'[c].pc = "idle" /\ active' = active - 1
        BY <1>0, <3>2 DEF Release, Idle, Resting
      <4>2. InFlight' = InFlight \ {c} /\ c \in InFlight
        BY <2>4, <2>5, <4>1 DEF InFlight
      <4>3. /\ Cardinality(InFlight') = Cardinality(InFlight) - 1
            /\ Cardinality(InFlight') \in Nat /\ Cardinality(InFlight) \in Nat
        BY <4>2, Counting, FS_RemoveElement, FS_CardinalityType
      <4> QED BY <4>1, <4>3 DEF SlotsHeld, TypeOK
    <3> QED BY <1>8, <3>1, <3>2
  <2>9. TypeOK' BY <2>2, <2>4, <2>8 DEF TypeOK
  <2>10. Restrained BY <2>2, <2>6 DEF Restrained, TypeOK
  <2> QED BY <2>7, <2>8, <2>9, <2>10
<1> QED BY <1>1, <1>2, <1>3, <1>4, <1>5, <1>6, <1>7, <1>8
        DEF Next, Fails, TimesOut

(* The invariant holds of every behaviour.                                 *)
THEOREM GuardInvariant == Spec => []GuardInv
<1> QED BY InitGuardInv, StepKeeps, PTL DEF Spec

(* A slot is held once by each call, through retries and for a stream's    *)
(* life, and the limit is never exceeded; the wait stays between the       *)
(* interval and its ceiling, and no attempt outlives its deadline.         *)
THEOREM SlotsAreConserved == Spec => []PortInv
<1> QED BY GuardInvariant, PTL DEF GuardInv, PortInv

(* With deadlines shorter than the wait, the half-open counters account    *)
(* for every attempt in flight, and each is a trial.                       *)
THEOREM TrialsAreAccounted == Spec => []TrialsAccounted
<1> QED BY GuardInvariant, PTL DEF GuardInv

(* The breaker closes only after every trial has succeeded.                *)
THEOREM TrialsClose == Spec => OnlyTrialsClose
<1>1. GuardInv /\ [Next]_vars =>
        [(Punctual /\ state # "closed" /\ state' = "closed") =>
           trialsWon' = HalfOpenTrials /\ At("trying")' = {}]_vars
  BY StepKeeps DEF Restrained
<1> QED BY <1>1, GuardInvariant, PTL DEF Spec, OnlyTrialsClose

(* While the breaker stays open, nothing starts and the wait goes on.      *)
THEOREM OpenIsQuiet == Spec => QuietWhileOpen
<1>1. GuardInv /\ [Next]_vars =>
        [(state = "open" /\ state' = "open") =>
           /\ At("trying")' \subseteq At("trying")
           /\ openFor' = openFor
           /\ sinceOpened' >= sinceOpened]_vars
  BY StepKeeps DEF Restrained
<1> QED BY <1>1, GuardInvariant, PTL DEF Spec, QuietWhileOpen

(* The breaker closes after its trials only and rests while it is open.    *)
THEOREM BreakerTurns == Spec => TurnsAreEarned
<1> QED BY TrialsClose, OpenIsQuiet DEF TurnsAreEarned

-----------------------------------------------------------------------------
(* The failures of the window can be counted, and a tick adds none.        *)
LEMMA WindowIsFinite ==
  ASSUME NEW byAge \in [Ages -> Nat]
  PROVE  IsFiniteSet(InWindow(byAge)) /\ Cardinality(InWindow(byAge)) \in Nat
<1>1. IsFiniteSet(Ages)
  BY Constants, FS_Interval DEF Ages
<1>2. ASSUME NEW a \in Ages PROVE IsFiniteSet({a} \X (1 .. byAge[a]))
  <2>1. IsFiniteSet({a}) /\ IsFiniteSet(1 .. byAge[a])
    <3>1. IsFiniteSet({a})
      BY FS_Singleton
    <3>2. byAge[a] \in Int
      OBVIOUS
    <3>3. IsFiniteSet(1 .. byAge[a])
      BY <3>2, FS_Interval
    <3> QED BY <3>1, <3>3
  <2> QED BY <2>1, FS_Product
<1>3. PICK cells : cells = {{a} \X (1 .. byAge[a]) : a \in Ages}
  OBVIOUS
<1>4. PICK cellOf : cellOf = [a \in Ages |-> {a} \X (1 .. byAge[a])]
  OBVIOUS
<1>5. cellOf \in Surjection(Ages, cells)
  BY <1>3, <1>4 DEF Surjection
<1>6. IsFiniteSet(cells)
  BY <1>1, <1>5, FS_Surjection
<1>7. IsFiniteSet(UNION cells)
  BY <1>2, <1>3, <1>6, FS_UNION
<1>8. UNION cells = InWindow(byAge)
  BY <1>3 DEF InWindow
<1> QED BY <1>7, <1>8, FS_CardinalityType

LEMMA InWindowMeans ==
  ASSUME NEW byAge, NEW failure
  PROVE  failure \in InWindow(byAge)
           <=> \E a \in Ages : \E k \in 1 .. byAge[a] : failure = <<a, k>>
  BY DEF InWindow

LEMMA NothingInWindow == Cardinality(InWindow([a \in Ages |-> 0])) = 0
<1>1. InWindow([a \in Ages |-> 0]) = {}
  BY InWindowMeans
<1> QED BY <1>1, FS_EmptySet

LEMMA TickForgets ==
  ASSUME NEW byAge \in [Ages -> Nat], NEW older \in [Ages -> Nat],
         older = [a \in Ages |-> IF a = 0 THEN 0 ELSE byAge[a - 1]]
  PROVE  Cardinality(InWindow(older)) <= Cardinality(InWindow(byAge))
<1>1. PICK before : before = [failure \in InWindow(older) |-> <<failure[1] - 1, failure[2]>>]
  OBVIOUS
<1>2. ASSUME NEW failure \in InWindow(older)
      PROVE  /\ before[failure] \in InWindow(byAge)
             /\ before[failure] = <<failure[1] - 1, failure[2]>>
             /\ failure = <<failure[1], failure[2]>> /\ failure[1] \in Nat
  <2> PICK a \in Ages : \E k \in 1 .. older[a] : failure = <<a, k>>
    BY InWindowMeans
  <2>1. PICK k \in 1 .. older[a] : failure = <<a, k>>
    OBVIOUS
  <2>2. a \in Nat /\ a # 0 /\ a - 1 \in Ages
    BY <2>1, Constants DEF Ages
  <2>3. k \in 1 .. byAge[a - 1]
    BY <2>1, <2>2
  <2>4. before[failure] = <<a - 1, k>>
    BY <1>1, <2>1
  <2> QED BY <2>1, <2>2, <2>3, <2>4, InWindowMeans
<1>3. before \in [InWindow(older) -> InWindow(byAge)]
  BY <1>1, <1>2
<1>4. ASSUME NEW f \in InWindow(older), NEW g \in InWindow(older), before[f] = before[g]
      PROVE  f = g
  <2>1. f[1] - 1 = g[1] - 1 /\ f[2] = g[2]
    BY <1>2, <1>4
  <2>2. f[1] = g[1]
    BY <1>2, <2>1
  <2> QED BY <1>2, <2>1, <2>2
<1>5. before \in Injection(InWindow(older), InWindow(byAge))
  BY <1>3, <1>4 DEF Injection, IsInjective
<1> QED BY <1>5, WindowIsFinite, FS_Injection

LEMMA ThresholdStart == Init => BelowThreshold
  BY NothingInWindow, Constants, PortGuardAssumption DEF Init, BelowThreshold

LEMMA ThresholdStep ==
  ASSUME TypeOK, BelowThreshold, [Next]_vars
  PROVE  BelowThreshold'
<1>1. failures \in [Ages -> Nat] /\ FailureThreshold \in Nat \ {0}
  BY PortGuardAssumption DEF TypeOK
<1>2. SUFFICES ASSUME state' = "closed"
               PROVE  Cardinality(InWindow(failures')) < FailureThreshold
  BY DEF BelowThreshold, InWindow, Ages
<1>3. CASE state = "closed" /\ failures' = failures
  BY <1>3 DEF BelowThreshold
<1>4. CASE Tick
  <2>1. /\ state = "closed"
        /\ failures' = [a \in Ages |-> IF a = 0 THEN 0 ELSE failures[a - 1]]
    BY <1>2, <1>4 DEF Tick
  <2>2. failures' \in [Ages -> Nat]
    BY <1>1, <2>1, Constants DEF Ages
  <2>3. PICK older \in [Ages -> Nat] : older = failures'
    BY <2>2
  <2>4. Cardinality(InWindow(older)) <= Cardinality(InWindow(failures))
    BY <1>1, <2>1, <2>3, TickForgets
  <2>5. /\ Cardinality(InWindow(older)) \in Nat /\ Cardinality(InWindow(failures)) \in Nat
        /\ Cardinality(InWindow(failures)) < FailureThreshold
    BY <1>1, <2>1, WindowIsFinite DEF BelowThreshold
  <2> QED BY <1>1, <2>3, <2>4, <2>5
<1>5. ASSUME NEW c \in Calls, NEW calls, RecordSuccess(c, calls)
      PROVE  Cardinality(InWindow(failures')) < FailureThreshold
  <2>1. CASE Close(calls)
    BY <1>1, <2>1, NothingInWindow DEF Close
  <2>2. CASE state = "closed" /\ failures' = failures
    BY <1>3, <2>2
  <2> QED BY <1>2, <1>5, <2>1, <2>2 DEF RecordSuccess, Stays
<1>6. ASSUME NEW calls, RecordFailure(calls)
      PROVE  Cardinality(InWindow(failures')) < FailureThreshold
  <2>1. state = "closed" /\ ~ShouldTrip(failures', recent')
    BY <1>2, <1>6 DEF RecordFailure, Open, Stays
  <2>2. failures' \in [Ages -> Nat]
    BY <1>1, <1>6, Constants DEF RecordFailure, Ages
  <2>3. Cardinality(InWindow(failures')) \in Nat
    BY <2>2, WindowIsFinite
  <2> QED BY <1>1, <2>1, <2>3 DEF ShouldTrip
<1>7. CASE \E c \in Calls : Succeed(c)
  BY <1>5, <1>7 DEF Succeed
<1>8. CASE \E c \in Calls : Fails(c) \/ TimesOut(c)
  BY <1>6, <1>8 DEF Fails, TimesOut, FailsWith
<1>9. CASE \/ Observe \/ UNCHANGED vars
           \/ \E c \in Calls : Call(c) \/ Wakes(c) \/ StreamEnds(c) \/ Release(c)
  <2>1. CASE MaybeHalfOpen
    BY <1>2, <1>3, <2>1 DEF MaybeHalfOpen, StateNow, Elapsed, window
  <2>2. CASE UNCHANGED <<state, failures>>
    BY <1>2, <1>3, <2>2
  <2> QED BY <1>9, <2>1, <2>2
          DEF Observe, Call, Wakes, Attempt, StreamEnds, Release, breaker, window, vars
<1> QED BY <1>4, <1>7, <1>8, <1>9 DEF Next

(* A closed breaker has fewer failures in its window than trip it: what it *)
(* counted before it opened is gone when it closes.                        *)
THEOREM ClosedIsBelowThreshold == Spec => []BelowThreshold
<1>1. Init => BelowThreshold
  BY ThresholdStart
<1>2. TypeOK /\ BelowThreshold /\ [Next]_vars => BelowThreshold'
  BY ThresholdStep
<1>3. GuardInv => TypeOK
  BY DEF GuardInv
<1> QED BY <1>1, <1>2, <1>3, GuardInvariant, PTL DEF Spec
=============================================================================

--------------------------- MODULE JobQueue_proofs ---------------------------
(* Machine-checked proofs about JobQueue, for every value of its constants. *)
EXTENDS JobQueue, FiniteSetTheorems, TLAPS

\* What the statements make of a row has the type of a row.
LEMMA RowTypes ==
    ASSUME NEW r \in Rows, NEW t \in Int, NEW delay \in Nat
    PROVE  /\ SucceededRow(r) \in Rows
           /\ ReleasedRow(r) \in Rows
           /\ FailedRow(r, t, delay) \in Rows
           /\ ReapedRow(r, t) \in Rows
  <1>1. r.attempts \in Nat /\ r.runAt \in Int
    BY DEF Rows
  <1>2. \A status \in Statuses, at \in Int, n \in Nat : Unlocked(status, at, n) \in Rows
    BY DEF Unlocked, Rows
  <1>3. SucceededRow(r) \in Rows
    BY <1>1, <1>2 DEF SucceededRow, Statuses
  <1>4. ReleasedRow(r) \in Rows
    BY <1>1, <1>2 DEF ReleasedRow, Statuses
  <1>5. FailedRow(r, t, delay) \in Rows
    BY <1>1, <1>2 DEF FailedRow, Statuses
  <1>6. ReapedRow(r, t) \in Rows
    BY <1>1, <1>2 DEF ReapedRow, Statuses
  <1> QED
    BY <1>3, <1>4, <1>5, <1>6

\* Every jittered delay is a natural number.
LEMMA DelayType == \A n : Delays(n) \subseteq Nat
  BY LimitsAssumption DEF Delays

\* The initial states satisfy the invariant.
LEMMA InitQueueInv == Init => QueueInv
  <1> SUFFICES ASSUME Init PROVE QueueInv
    OBVIOUS
  <1>1. TypeOK
    <2>1. Unlocked("absent", 0, 0) \in Rows
      BY DEF Unlocked, Rows, Statuses
    <2> QED
      BY <2>1 DEF Init, TypeOK, Steps
  <1> QED
    BY <1>1, NullAssumption DEF Init, QueueInv, Unlocked, Holding

\* A statement that is answered or fails leaves the old rows or the new ones.
LEMMA StatementEffect ==
    ASSUME NEW w \in Workers, NEW new, TypeOK, Answered(new) \/ Errored(w, new)
    PROVE  /\ row' \in {row, new}
           /\ faults' \in Nat
           /\ faulted' \in [Workers -> BOOLEAN]
  <1>1. CASE Answered(new)
    BY <1>1 DEF Answered, TypeOK
  <1>2. CASE Errored(w, new)
    <2>1. row' \in {row, new} /\ faults' \in Nat
      BY <1>2 DEF Errored, TypeOK
    <2>2. faulted' \in [Workers -> BOOLEAN]
      BY <1>2 DEF Errored, TypeOK
    <2> QED
      BY <2>1, <2>2
  <1> QED
    BY <1>1, <1>2

\* A fenced write changes the held row alone.
LEMMA FencedType ==
    ASSUME NEW w \in Workers, TypeOK, held[w] # NoLease, NEW r \in Rows
    PROVE  Fenced(w, r) \in [Jobs -> Rows]
  BY DEF Fenced, TypeOK

\* What the reaper and the scheduler make of the table has its type.
LEMMA TableTypes ==
    ASSUME TypeOK, NEW t \in Int, NEW S \in SUBSET Jobs
    PROVE  /\ Reaped(t) \in [Jobs -> Rows]
           /\ Enqueued(S, t) \in [Jobs -> Rows]
  <1>1. \A j \in Jobs : ReapedRow(row[j], t) \in Rows
    BY RowTypes DEF TypeOK, Statuses
  <1>2. Unlocked("pending", t, 0) \in Rows
    BY DEF Unlocked, Rows, Statuses
  <1> QED
    BY <1>1, <1>2 DEF Reaped, Enqueued, TypeOK

\* Type correctness is preserved on its own, one action at a time.
LEMMA StepTypeOK == QueueInv /\ [Next]_vars => TypeOK'
  <1> SUFFICES ASSUME QueueInv, [Next]_vars PROVE TypeOK'
    OBVIOUS
  <1> USE DEF Goto, Drop, process, history
  <1>0. TypeOK
    BY DEF QueueInv
  <1>a. \A w \in Workers : Clock(w) \in Int /\ Id(w) \in Owners
    BY <1>0, SkewAssumption DEF TypeOK, Clock, Id, Owners
  <1>b. \A w \in Workers : pc[w] \in Holding =>
          held[w] \in Leases /\ held[w].job \in Jobs /\ row[held[w].job] \in Rows
    BY <1>0 DEF QueueInv, TypeOK, Leases
  <1>1. CASE UNCHANGED vars
    BY <1>0, <1>1 DEF TypeOK, vars
  <1>2. CASE TimePasses
    BY <1>0, <1>2 DEF TypeOK, TimePasses
  <1>3. ASSUME NEW j \in Jobs, Enqueue(j) PROVE TypeOK'
    <2>1. row' \in [Jobs -> Rows]
      <3>1. PICK at \in {0, now + 1} : row' = Enqueued({j}, at)
        BY <1>3 DEF Enqueue
      <3> QED
        BY <1>0, <3>1, TableTypes DEF TypeOK
    <2> QED
      BY <1>0, <1>3, <2>1 DEF TypeOK, Enqueue
  <1>4. ASSUME NEW w \in Workers, Start(w) PROVE TypeOK'
    BY <1>0, <1>4 DEF TypeOK, Start, Steps
  <1>5. ASSUME NEW w \in Workers, Sigterm(w) PROVE TypeOK'
    BY <1>0, <1>5, LimitsAssumption DEF TypeOK, Sigterm
  <1>6. ASSUME NEW w \in Workers, Exit(w) \/ Crash(w) PROVE TypeOK'
    <2>1. /\ stopping' \in [Workers -> BOOLEAN]
          /\ faulted' \in [Workers -> BOOLEAN]
      BY <1>0, <1>6 DEF TypeOK, Exit, Crash, MemoryLost
    <2>2. /\ pc' \in [Workers -> Steps]
          /\ held' \in [Workers -> Leases \cup {NoLease}]
          /\ deadline' \in [Workers -> Int]
      BY <1>0, <1>6 DEF TypeOK, Exit, Crash, MemoryLost, Steps
    <2>3. /\ row' \in [Jobs -> Rows] /\ now' \in Nat /\ inc' \in [Workers -> Nat]
          /\ faults' \in Nat /\ begun' \in [Jobs -> Nat] /\ finished' \in [Jobs -> BOOLEAN]
      BY <1>0, <1>6 DEF TypeOK, Exit, Crash
    <2> QED
      BY <2>1, <2>2, <2>3 DEF TypeOK
  <1>7. ASSUME NEW w \in Workers, LoopEnds(w) \/ SkipClaim(w) \/ NothingToClaim(w) PROVE TypeOK'
    BY <1>0, <1>7 DEF TypeOK, LoopEnds, SkipClaim, NothingToClaim, Steps
  <1>8. ASSUME NEW w \in Workers, Reap(w) PROVE TypeOK'
    <2>1. Reaped(Clock(w)) \in [Jobs -> Rows]
      BY <1>0, <1>a, TableTypes
    <2>2. row' \in [Jobs -> Rows] /\ faults' \in Nat /\ faulted' \in [Workers -> BOOLEAN]
      BY <1>0, <1>8, <2>1, StatementEffect DEF Reap, TypeOK
    <2> QED
      BY <1>0, <1>8, <2>2 DEF TypeOK, Reap, Steps
  <1>9. ASSUME NEW w \in Workers, Claim(w) PROVE TypeOK'
    <2>1. PICK j \in NextJobs(w, Clock(w)) :
            LET new == [row EXCEPT ![j] = ClaimedRow(j, w, Clock(w))] IN
            \/ /\ Answered(new)
               /\ held' = [held EXCEPT ![w] = [job |-> j, at |-> Clock(w),
                                               attempts |-> row[j].attempts + 1]]
               /\ Goto(w, "claimed")
            \/ Errored(w, new) /\ Goto(w, "tick") /\ UNCHANGED held
      BY <1>9 DEF Claim
    <2>2. j \in Jobs
      BY DEF NextJobs
    <2>3. row[j].attempts + 1 \in Nat /\ row[j].runAt \in Int
      BY <1>0, <2>2 DEF TypeOK, Rows
    <2>4. ClaimedRow(j, w, Clock(w)) \in Rows
      BY <1>a, <2>3 DEF ClaimedRow, Rows, Statuses
    <2>5. [job |-> j, at |-> Clock(w), attempts |-> row[j].attempts + 1] \in Leases
      BY <1>a, <2>2, <2>3 DEF Leases
    <2>6. [row EXCEPT ![j] = ClaimedRow(j, w, Clock(w))] \in [Jobs -> Rows]
      BY <1>0, <2>2, <2>4 DEF TypeOK
    <2>7. row' \in [Jobs -> Rows] /\ faults' \in Nat /\ faulted' \in [Workers -> BOOLEAN]
      BY <1>0, <2>1, <2>6, StatementEffect DEF TypeOK
    <2>8. held' \in [Workers -> Leases \cup {NoLease}] /\ pc' \in [Workers -> Steps]
      BY <1>0, <2>1, <2>5 DEF TypeOK, Steps
    <2> QED
      BY <1>0, <1>9, <2>7, <2>8 DEF TypeOK, Claim
  <1>10. ASSUME NEW w \in Workers, Receive(w) PROVE TypeOK'
    <2>1. held[w].job \in Jobs
      BY <1>b, <1>10 DEF Receive, Holding
    <2> QED
      BY <1>0, <1>10, <2>1 DEF TypeOK, Receive, Steps
  <1>11. ASSUME NEW w \in Workers, Release(w) PROVE TypeOK'
    <2>0. held[w] # NoLease /\ row[held[w].job] \in Rows
      BY <1>11, <1>b DEF QueueInv, Release, Holding
    <2>1. ReleasedRow(row[held[w].job]) \in Rows
      BY <1>a, <2>0, RowTypes
    <2>2. Fenced(w, ReleasedRow(row[held[w].job])) \in [Jobs -> Rows]
      BY <1>0, <2>0, <2>1, FencedType
    <2>3. row' \in [Jobs -> Rows] /\ faults' \in Nat /\ faulted' \in [Workers -> BOOLEAN]
      BY <1>0, <1>11, <2>2, StatementEffect DEF Release, TypeOK
    <2> QED
      BY <1>0, <1>11, <2>3 DEF TypeOK, Release, Steps
  <1>12. ASSUME NEW w \in Workers, HandlerReturns(w) PROVE TypeOK'
    BY <1>0, <1>12 DEF TypeOK, HandlerReturns, Steps
  <1>13. ASSUME NEW w \in Workers, HandlerThrows(w) PROVE TypeOK'
    BY <1>0, <1>13 DEF TypeOK, HandlerThrows, Steps
  <1>14. ASSUME NEW w \in Workers, Succeed(w) PROVE TypeOK'
    <2>1. held[w] # NoLease /\ SucceededRow(row[held[w].job]) \in Rows
      BY <1>14, <1>b, RowTypes DEF QueueInv, Succeed, Holding
    <2>2. Fenced(w, SucceededRow(row[held[w].job])) \in [Jobs -> Rows]
      BY <1>0, <2>1, FencedType
    <2>3. row' \in [Jobs -> Rows] /\ faults' \in Nat /\ faulted' \in [Workers -> BOOLEAN]
      BY <1>0, <1>14, <2>2, StatementEffect DEF Succeed, TypeOK
    <2>4. held' \in [Workers -> Leases \cup {NoLease}] /\ pc' \in [Workers -> Steps]
      BY <1>0, <1>14 DEF TypeOK, Succeed, Steps
    <2> QED
      BY <1>0, <1>14, <2>3, <2>4 DEF TypeOK, Succeed
  <1>15. ASSUME NEW w \in Workers, Fail(w) PROVE TypeOK'
    <2>1. held[w] # NoLease /\ row[held[w].job] \in Rows
      BY <1>15, <1>b DEF QueueInv, Fail, Holding
    <2>2. PICK delay \in Delays(held[w].attempts - 1) :
            LET new == Fenced(w, FailedRow(row[held[w].job], Clock(w), delay)) IN
            Answered(new) \/ Errored(w, new)
      BY <1>15 DEF Fail
    <2>3. FailedRow(row[held[w].job], Clock(w), delay) \in Rows
      BY <1>a, <2>1, DelayType, RowTypes
    <2>4. row' \in [Jobs -> Rows] /\ faults' \in Nat /\ faulted' \in [Workers -> BOOLEAN]
      BY <1>0, <2>1, <2>2, <2>3, FencedType, StatementEffect DEF TypeOK
    <2> QED
      BY <1>0, <1>15, <2>4 DEF TypeOK, Fail, Steps
  <1>16. ASSUME NEW w \in Workers, OnTick(w) PROVE TypeOK'
    <2>1. PICK S \in SUBSET Jobs : Answered(Enqueued(S, 0)) \/ Errored(w, Enqueued(S, 0))
      BY <1>16, JobsAssumption DEF OnTick
    <2>2. row' \in [Jobs -> Rows] /\ faults' \in Nat /\ faulted' \in [Workers -> BOOLEAN]
      BY <1>0, <2>1, TableTypes, StatementEffect DEF TypeOK
    <2> QED
      BY <1>0, <1>16, <2>2 DEF TypeOK, OnTick, Steps
  <1> QED
    BY <1>1, <1>2, <1>3, <1>4, <1>5, <1>6, <1>7, <1>8, <1>9, <1>10, <1>11, <1>12, <1>13,
       <1>14, <1>15, <1>16 DEF Next

-----------------------------------------------------------------------------
(* What one step can do to a row and to a claim.  The safety proofs below   *)
(* use these two facts and not the actions.                                *)

Created(j) == row[j].status = "absent" /\ \E at \in Int : row'[j] = Unlocked("pending", at, 0)

TakenBy(j, w) == /\ pc[w] = "reaped"
                 /\ row[j].status \in {"pending", "failed"}
                 /\ row'[j] = ClaimedRow(j, w, Clock(w))

ReclaimedBy(j, w) == /\ Stuck(row[j], Clock(w))
                     /\ row'[j] = ReapedRow(row[j], Clock(w))

CompletedBy(j, w) ==
    /\ held[w] # NoLease
    /\ held[w].job = j
    /\ Fence(w)
    /\ \/ /\ pc[w] = "release" /\ pc'[w] = "tick"
          /\ row'[j] = ReleasedRow(row[j])
       \/ /\ pc[w] = "succeeding" /\ pc'[w] \in {"tick", "failing"}
          /\ row'[j] = SucceededRow(row[j])
       \/ /\ pc[w] = "failing" /\ pc'[w] = "tick"
          /\ \E t \in Int, d \in Nat : row'[j] = FailedRow(row[j], t, d)

RowStep(j) == \/ row'[j] = row[j]
              \/ Created(j)
              \/ \E w \in Workers : TakenBy(j, w) \/ ReclaimedBy(j, w) \/ CompletedBy(j, w)

\* A fenced write is no change or a completion of the held job.
LEMMA FencedStep ==
    ASSUME QueueInv, NEW w \in Workers, NEW r, held[w] # NoLease, row' \in {row, Fenced(w, r)},
           NEW j \in Jobs
    PROVE  \/ row'[j] = row[j]
           \/ held[w].job = j /\ Fence(w) /\ row'[j] = r
  <1>1. CASE row' = row
    BY <1>1
  <1>2. CASE row' = Fenced(w, r) /\ ~Fence(w)
    BY <1>2 DEF Fenced
  <1>3. CASE row' = Fenced(w, r) /\ Fence(w)
    BY <1>3 DEF Fenced, QueueInv, TypeOK
  <1> QED
    BY <1>1, <1>2, <1>3

\* An insert that ignores conflicts changes absent rows only.
LEMMA EnqueuedStep ==
    ASSUME NEW S \in SUBSET Jobs, NEW at \in Int, row' \in {row, Enqueued(S, at)}, NEW j \in Jobs
    PROVE  row'[j] = row[j] \/ Created(j)
  BY DEF Enqueued, Created

\* Every step changes a row in one of these ways.
LEMMA RowSteps == QueueInv /\ [Next]_vars => \A j \in Jobs : RowStep(j)
  <1> SUFFICES ASSUME QueueInv, [Next]_vars, NEW j \in Jobs PROVE RowStep(j)
    OBVIOUS
  <1>0. TypeOK /\ (\A w \in Workers : pc[w] \in Holding => held[w] # NoLease)
    BY DEF QueueInv
  <1>a. \A w \in Workers : Clock(w) \in Int
    BY <1>0, SkewAssumption DEF TypeOK, Clock
  <1>1. CASE UNCHANGED row
    BY <1>1 DEF RowStep
  <1>2. ASSUME NEW k \in Jobs, Enqueue(k) PROVE RowStep(j)
    <2>1. PICK at \in Int : row' \in {row, Enqueued({k}, at)}
      BY <1>0, <1>2 DEF Enqueue, TypeOK
    <2> QED
      BY <2>1, EnqueuedStep DEF RowStep
  <1>3. ASSUME NEW w \in Workers, Reap(w) PROVE RowStep(j)
    <2>1. row' \in {row, Reaped(Clock(w))}
      BY <1>3 DEF Reap, Answered, Errored
    <2>2. row'[j] = row[j] \/ ReclaimedBy(j, w)
      BY <2>1 DEF Reaped, ReclaimedBy
    <2> QED
      BY <2>2 DEF RowStep
  <1>4. ASSUME NEW w \in Workers, Claim(w) PROVE RowStep(j)
    <2>1. PICK k \in NextJobs(w, Clock(w)) :
            row' \in {row, [row EXCEPT ![k] = ClaimedRow(k, w, Clock(w))]}
      BY <1>4 DEF Claim, Answered, Errored
    <2>2. row[k].status \in {"pending", "failed"} /\ k \in Jobs
      BY DEF NextJobs, Claimable
    <2>3. row'[j] = row[j] \/ (j = k /\ row'[j] = ClaimedRow(j, w, Clock(w)))
      BY <1>0, <2>1, <2>2 DEF TypeOK
    <2>4. row'[j] = row[j] \/ TakenBy(j, w)
      BY <1>4, <2>2, <2>3 DEF TakenBy, Claim
    <2> QED
      BY <2>4 DEF RowStep
  <1>5. ASSUME NEW w \in Workers, Release(w) PROVE RowStep(j)
    <2>1. held[w] # NoLease /\ row' \in {row, Fenced(w, ReleasedRow(row[held[w].job]))}
      BY <1>0, <1>5 DEF Release, Answered, Errored, Holding
    <2>2. row'[j] = row[j] \/ (held[w].job = j /\ Fence(w) /\ row'[j] = ReleasedRow(row[j]))
      BY <2>1, FencedStep
    <2>3. row'[j] = row[j] \/ CompletedBy(j, w)
      BY <1>0, <1>5, <2>1, <2>2 DEF CompletedBy, Release, Goto, TypeOK
    <2> QED
      BY <2>3 DEF RowStep
  <1>6. ASSUME NEW w \in Workers, Succeed(w) PROVE RowStep(j)
    <2>1. held[w] # NoLease /\ row' \in {row, Fenced(w, SucceededRow(row[held[w].job]))}
      BY <1>0, <1>6 DEF Succeed, Answered, Errored, Holding
    <2>2. row'[j] = row[j] \/ (held[w].job = j /\ Fence(w) /\ row'[j] = SucceededRow(row[j]))
      BY <2>1, FencedStep
    <2>3. row'[j] = row[j] \/ CompletedBy(j, w)
      BY <1>0, <1>6, <2>1, <2>2 DEF CompletedBy, Succeed, Goto, TypeOK
    <2> QED
      BY <2>3 DEF RowStep
  <1>7. ASSUME NEW w \in Workers, Fail(w) PROVE RowStep(j)
    <2>1. held[w] # NoLease
      BY <1>0, <1>7 DEF Fail, Holding
    <2>2. PICK d \in Nat : row' \in {row, Fenced(w, FailedRow(row[held[w].job], Clock(w), d))}
      BY <1>7, DelayType DEF Fail, Answered, Errored
    <2>3. row'[j] = row[j] \/ (held[w].job = j /\ Fence(w) /\ row'[j] = FailedRow(row[j], Clock(w), d))
      BY <2>1, <2>2, FencedStep
    <2>4. row'[j] = row[j] \/ CompletedBy(j, w)
      BY <1>0, <1>7, <1>a, <2>1, <2>3 DEF CompletedBy, Fail, Goto, TypeOK
    <2> QED
      BY <2>4 DEF RowStep
  <1>8. ASSUME NEW w \in Workers, OnTick(w) PROVE RowStep(j)
    <2>1. PICK S \in SUBSET Jobs : row' \in {row, Enqueued(S, 0)}
      BY <1>8, JobsAssumption DEF OnTick, Answered, Errored
    <2> QED
      BY <2>1, EnqueuedStep DEF RowStep
  <1>9. CASE UNCHANGED vars \/ TimePasses
    BY <1>1, <1>9 DEF vars, TimePasses
  <1>10. ASSUME NEW w \in Workers,
                Start(w) \/ Sigterm(w) \/ Exit(w) \/ Crash(w) \/ LoopEnds(w) \/ SkipClaim(w)
                  \/ NothingToClaim(w) \/ Receive(w) \/ HandlerReturns(w) \/ HandlerThrows(w)
         PROVE  RowStep(j)
    BY <1>1, <1>10 DEF Start, Sigterm, Exit, Crash, LoopEnds, SkipClaim, NothingToClaim,
                       Receive, HandlerReturns, HandlerThrows
  <1> QED
    BY <1>2, <1>3, <1>4, <1>5, <1>6, <1>7, <1>8, <1>9, <1>10 DEF Next

\* A claim is dropped, kept by the same start of the process, or new: then the
\* row is the one the claim has just written.
HeldStep(w) ==
    \/ held'[w] = NoLease
    \/ held'[w] = held[w] /\ inc'[w] = inc[w]
    \/ /\ pc[w] = "reaped" /\ inc'[w] = inc[w]
       /\ \E j \in Jobs : /\ row'[j] = ClaimedRow(j, w, Clock(w))
                          /\ held'[w] = [job |-> j, at |-> Clock(w), attempts |-> row[j].attempts + 1]

\* Every step changes a claim in one of these ways.
LEMMA HeldSteps == QueueInv /\ [Next]_vars => \A w \in Workers : HeldStep(w)
  <1> SUFFICES ASSUME QueueInv, [Next]_vars, NEW w \in Workers PROVE HeldStep(w)
    OBVIOUS
  <1>0. TypeOK /\ (pc[w] \notin Holding => held[w] = NoLease)
    BY DEF QueueInv
  <1>1. CASE UNCHANGED <<held, inc>>
    BY <1>1 DEF HeldStep
  <1>2. ASSUME NEW v \in Workers, Claim(v) PROVE HeldStep(w)
    <2>1. PICK k \in NextJobs(v, Clock(v)) :
            LET new == [row EXCEPT ![k] = ClaimedRow(k, v, Clock(v))] IN
            \/ /\ row' = new
               /\ held' = [held EXCEPT ![v] = [job |-> k, at |-> Clock(v),
                                               attempts |-> row[k].attempts + 1]]
            \/ UNCHANGED held
      BY <1>2 DEF Claim, Answered
    <2>2. UNCHANGED inc /\ k \in Jobs /\ pc[v] = "reaped"
      BY <1>2 DEF Claim, process, NextJobs
    <2> QED
      BY <1>0, <2>1, <2>2 DEF TypeOK, HeldStep
  <1>3. ASSUME NEW v \in Workers, Start(v) PROVE HeldStep(w)
    BY <1>0, <1>3 DEF Start, HeldStep, TypeOK, Holding
  <1>4. ASSUME NEW v \in Workers, Exit(v) \/ Crash(v) \/ Release(v) \/ Succeed(v) \/ Fail(v)
        PROVE  HeldStep(w)
    <2>1. UNCHANGED inc /\ (held' = [held EXCEPT ![v] = NoLease] \/ UNCHANGED held)
      BY <1>4 DEF Exit, Crash, MemoryLost, Release, Succeed, Fail, Drop, process
    <2> QED
      BY <1>0, <2>1 DEF HeldStep, TypeOK
  <1>5. CASE UNCHANGED vars \/ TimePasses \/ \E j \in Jobs : Enqueue(j)
    BY <1>1, <1>5 DEF vars, TimePasses, Enqueue, process
  <1>6. ASSUME NEW v \in Workers,
               Sigterm(v) \/ LoopEnds(v) \/ Reap(v) \/ SkipClaim(v) \/ NothingToClaim(v)
                 \/ Receive(v) \/ HandlerReturns(v) \/ HandlerThrows(v) \/ OnTick(v)
        PROVE  HeldStep(w)
    BY <1>1, <1>6 DEF Sigterm, LoopEnds, Reap, SkipClaim, NothingToClaim, Receive,
                      HandlerReturns, HandlerThrows, OnTick, process
  <1> QED
    BY <1>2, <1>3, <1>4, <1>5, <1>6 DEF Next

\* Every way a row leaves an owner leaves it with none.
LEMMA UnlockedRows ==
    ASSUME NEW j \in Jobs, NEW w \in Workers, ReclaimedBy(j, w) \/ CompletedBy(j, w), QueueInv
    PROVE  /\ row[j].status = "running"
           /\ row'[j].lockedBy = NoOwner
           /\ row'[j].status \in {"pending", "succeeded", "failed", "dead"}
  <1> DEFINE Loose(r) == r.lockedBy = NoOwner /\ r.status \in {"pending", "succeeded", "failed", "dead"}
  <1>1. \A at, n, s : s \in {"pending", "succeeded", "failed", "dead"} => Loose(Unlocked(s, at, n))
    BY DEF Unlocked
  <1>2. CASE ReclaimedBy(j, w)
    <2>1. Loose(ReapedRow(row[j], Clock(w)))
      BY <1>1 DEF ReapedRow
    <2> QED
      BY <1>2, <2>1 DEF ReclaimedBy, Stuck
  <1>3. CASE CompletedBy(j, w)
    <2>1. /\ Loose(ReleasedRow(row[j]))
          /\ Loose(SucceededRow(row[j]))
          /\ \A t, d : Loose(FailedRow(row[j], t, d))
      BY <1>1 DEF ReleasedRow, SucceededRow, FailedRow
    <2> QED
      BY <1>3, <2>1 DEF CompletedBy, Fence
  <1> QED
    BY <1>2, <1>3

\* The conjuncts of QueueInv about one row.
LEMMA StepRows ==
    QueueInv /\ [Next]_vars =>
      \A j \in Jobs :
        /\ row'[j].status = "running" <=> row'[j].lockedBy # NoOwner
        /\ row'[j].lockedBy # NoOwner => row'[j].lockedBy[2] <= inc'[row'[j].lockedBy[1]]
        /\ row'[j].status = "absent" => row'[j].attempts = 0
        /\ row[j].status # "absent" => row'[j].status # "absent"
  <1> SUFFICES ASSUME QueueInv, [Next]_vars, NEW j \in Jobs
               PROVE  /\ row'[j].status = "running" <=> row'[j].lockedBy # NoOwner
                      /\ row'[j].lockedBy # NoOwner => row'[j].lockedBy[2] <= inc'[row'[j].lockedBy[1]]
                      /\ row'[j].status = "absent" => row'[j].attempts = 0
                      /\ row[j].status # "absent" => row'[j].status # "absent"
    OBVIOUS
  <1>0. TypeOK /\ TypeOK'
    BY StepTypeOK DEF QueueInv
  <1>1. \A w \in Workers : inc[w] \in Nat /\ inc'[w] \in Nat /\ inc[w] <= inc'[w]
    <2>1. UNCHANGED inc \/ \E w \in Workers : inc' = [inc EXCEPT ![w] = @ + 1]
      BY DEF Next, vars, TimePasses, Enqueue, Start, Sigterm, Exit, Crash, MemoryLost, LoopEnds, Reap,
             SkipClaim, Claim, NothingToClaim, Receive, Release, HandlerReturns, HandlerThrows,
             Succeed, Fail, OnTick, process
    <2> QED
      BY <1>0, <2>1 DEF TypeOK
  <1>2. CASE row'[j] = row[j]
    <2>1. row[j].lockedBy # NoOwner =>
            row[j].lockedBy[1] \in Workers /\ row[j].lockedBy[2] \in Nat
      BY <1>0 DEF TypeOK, Rows, Owners
    <2> QED
      BY <1>1, <1>2, <2>1 DEF QueueInv
  <1>3. CASE Created(j)
    BY <1>3 DEF Created, Unlocked
  <1>4. ASSUME NEW w \in Workers, TakenBy(j, w)
        PROVE  /\ row'[j].status = "running" /\ row[j].status # "absent"
               /\ row'[j].lockedBy = <<w, inc[w]>>
    BY <1>4 DEF TakenBy, ClaimedRow, Id
  <1>5. CASE \E w \in Workers : TakenBy(j, w)
    <2>1. PICK w \in Workers : TakenBy(j, w)
      BY <1>5
    <2>2. row'[j].lockedBy # NoOwner
      BY <1>1, <1>4, <2>1, NullAssumption
    <2> QED
      BY <1>1, <1>4, <2>1, <2>2
  <1>6. CASE \E w \in Workers : ReclaimedBy(j, w) \/ CompletedBy(j, w)
    BY <1>6, UnlockedRows
  <1> QED
    BY <1>2, <1>3, <1>5, <1>6, RowSteps DEF RowStep

\* The conjunct of QueueInv about one claim and the row it claimed.
LEMMA StepHeldRows ==
    QueueInv /\ [Next]_vars =>
      \A w \in Workers : held'[w] # NoLease =>
         LET r == row'[held'[w].job] IN
         /\ r.status # "absent"
         /\ r.lockedBy = <<w, inc'[w]>> =>
              r.lockedAt = held'[w].at /\ r.attempts = held'[w].attempts
  <1> SUFFICES ASSUME QueueInv, [Next]_vars, NEW w \in Workers, held'[w] # NoLease
               PROVE  LET r == row'[held'[w].job] IN
                      /\ r.status # "absent"
                      /\ r.lockedBy = <<w, inc'[w]>> =>
                           r.lockedAt = held'[w].at /\ r.attempts = held'[w].attempts
    OBVIOUS
  <1>0. TypeOK /\ TypeOK'
    BY StepTypeOK DEF QueueInv
  <1>1. CASE held'[w] = held[w] /\ inc'[w] = inc[w]
    <2> DEFINE j == held[w].job
    <2>1. j \in Jobs /\ pc[w] \in Holding /\ row[j].status # "absent"
          /\ (row[j].lockedBy = <<w, inc[w]>> =>
                row[j].lockedAt = held[w].at /\ row[j].attempts = held[w].attempts)
      BY <1>0, <1>1 DEF QueueInv, TypeOK, Leases, Id
    <2>2. CASE row'[j] = row[j]
      BY <1>1, <2>1, <2>2
    <2>3. CASE Created(j)
      BY <2>1, <2>3 DEF Created
    <2>4. CASE \E v \in Workers : TakenBy(j, v)
      <3>1. PICK v \in Workers : TakenBy(j, v)
        BY <2>4
      <3>2. v # w
        BY <2>1, <3>1 DEF TakenBy, Holding
      <3> QED
        BY <1>1, <3>1, <3>2 DEF TakenBy, ClaimedRow, Id
    <2>5. CASE \E v \in Workers : ReclaimedBy(j, v) \/ CompletedBy(j, v)
      <3>1. row'[j].lockedBy = NoOwner /\ row'[j].status # "absent"
        BY <2>1, <2>5, UnlockedRows
      <3>2. <<w, inc[w]>> # NoOwner
        BY <1>0, NullAssumption DEF TypeOK
      <3> QED
        BY <1>1, <3>1, <3>2
    <2> QED
      BY <2>1, <2>2, <2>3, <2>4, <2>5, RowSteps DEF RowStep
  <1>2. ASSUME NEW j \in Jobs, row'[j] = ClaimedRow(j, w, Clock(w)),
               held'[w] = [job |-> j, at |-> Clock(w), attempts |-> row[j].attempts + 1]
        PROVE  LET r == row'[held'[w].job] IN
               r.status # "absent" /\ r.lockedAt = held'[w].at /\ r.attempts = held'[w].attempts
    BY <1>2 DEF ClaimedRow
  <1> QED
    BY <1>1, <1>2, HeldSteps DEF HeldStep

\* The conjunct of QueueInv about the step a process stands at.
LEMMA StepHolding ==
    QueueInv /\ [Next]_vars => \A w \in Workers : held'[w] # NoLease <=> pc'[w] \in Holding
  <1> SUFFICES ASSUME QueueInv, [Next]_vars, NEW w \in Workers
               PROVE  held'[w] # NoLease <=> pc'[w] \in Holding
    OBVIOUS
  <1> USE DEF Goto, Drop, Holding
  <1>0. TypeOK /\ TypeOK' /\ (held[w] # NoLease <=> pc[w] \in Holding)
    BY StepTypeOK DEF QueueInv
  <1>1. CASE UNCHANGED <<held, pc>>
    BY <1>0, <1>1
  <1>2. ASSUME NEW v \in Workers, Claim(v) PROVE held'[w] # NoLease <=> pc'[w] \in Holding
    <2>1. PICK k \in NextJobs(v, Clock(v)) :
            \/ /\ held' = [held EXCEPT ![v] = [job |-> k, at |-> Clock(v),
                                               attempts |-> row[k].attempts + 1]]
               /\ pc' = [pc EXCEPT ![v] = "claimed"]
            \/ UNCHANGED held /\ pc' = [pc EXCEPT ![v] = "tick"] /\ pc[v] = "reaped"
      BY <1>2 DEF Claim
    <2>2. /\ row[k].attempts + 1 \in Nat
          /\ Clock(v) \in Int
          /\ k \in Jobs
      BY <1>0, SkewAssumption DEF TypeOK, Rows, Clock, NextJobs
    <2>3. [job |-> k, at |-> Clock(v), attempts |-> row[k].attempts + 1] # NoLease
      BY <2>2, NullAssumption
    <2> QED
      BY <1>0, <2>1, <2>3 DEF TypeOK
  <1>3. ASSUME NEW v \in Workers, Start(v) \/ LoopEnds(v) \/ Reap(v) \/ SkipClaim(v)
                 \/ NothingToClaim(v) \/ OnTick(v)
        PROVE  held'[w] # NoLease <=> pc'[w] \in Holding
    BY <1>0, <1>3 DEF TypeOK, Start, LoopEnds, Reap, SkipClaim, NothingToClaim, OnTick
  <1>4. ASSUME NEW v \in Workers, Exit(v) \/ Crash(v) \/ Release(v) \/ Fail(v)
        PROVE  held'[w] # NoLease <=> pc'[w] \in Holding
    BY <1>0, <1>4 DEF TypeOK, Exit, Crash, MemoryLost, Release, Fail
  <1>5. ASSUME NEW v \in Workers, Receive(v) \/ HandlerReturns(v) \/ HandlerThrows(v) \/ Succeed(v)
        PROVE  held'[w] # NoLease <=> pc'[w] \in Holding
    BY <1>0, <1>5 DEF TypeOK, Receive, HandlerReturns, HandlerThrows, Succeed
  <1>6. CASE UNCHANGED vars \/ TimePasses \/ (\E j \in Jobs : Enqueue(j))
               \/ \E v \in Workers : Sigterm(v)
    BY <1>1, <1>6 DEF vars, TimePasses, Enqueue, Sigterm
  <1> QED
    BY <1>2, <1>3, <1>4, <1>5, <1>6 DEF Next

\* Every step keeps the invariant.
LEMMA StepQueueInv == QueueInv /\ [Next]_vars => QueueInv'
  <1> SUFFICES ASSUME QueueInv, [Next]_vars PROVE QueueInv'
    OBVIOUS
  <1> QED
    BY StepTypeOK, StepHolding, StepRows, StepHeldRows DEF QueueInv, Id

\* The structure of the queue's leases holds in every reachable state, for any
\* fleet, any clock skew and any limits.
THEOREM QueueInvariant == Spec => []QueueInv
  BY InitQueueInv, StepQueueInv, PTL DEF Spec

-----------------------------------------------------------------------------
(* Leases.                                                                 *)

\* Clocks do not go back.
LEMMA ClocksAdvance ==
    ASSUME QueueInv, [Next]_vars, NEW t \in Int, Expired(t)
    PROVE  Expired(t)'
  <1>1. now \in Nat /\ (now' = now \/ now' = now + 1)
    BY DEF QueueInv, TypeOK, Next, vars, TimePasses, Enqueue, Start, Sigterm, Exit, Crash, LoopEnds,
           Reap, SkipClaim, Claim, NothingToClaim, Receive, Release, HandlerReturns, HandlerThrows,
           Succeed, Fail, OnTick
  <1> QED
    BY <1>1, SkewAssumption, LimitsAssumption DEF Expired, Clock

\* A process that records a failure does nothing else until it has.
LEMMA FailingStays ==
    ASSUME QueueInv, [Next]_vars, NEW w \in Workers, pc[w] = "failing"
    PROVE  pc'[w] \in {"failing", "tick", "down"}
  BY DEF QueueInv, TypeOK, Next, vars, TimePasses, Enqueue, Start, Sigterm, Exit, Crash, MemoryLost,
         LoopEnds, Reap, SkipClaim, Claim, NothingToClaim, Receive, Release, HandlerReturns,
         HandlerThrows, Succeed, Fail, OnTick, Goto

\* What can happen to the row of a claim that is kept.
LEMMA KeptClaim ==
    ASSUME QueueInv, [Next]_vars, NEW w \in Workers, held[w] # NoLease, held'[w] = held[w]
    PROVE  /\ inc'[w] = inc[w]
           /\ LET j == held[w].job IN
              \/ row'[j] = row[j]
              \/ row'[j].status = "running" /\ row'[j].lockedBy # <<w, inc[w]>>
                   /\ row[j].status \in {"pending", "failed"}
              \/ row'[j].status # "running" /\ row[j].status = "running"
                   /\ \/ \E v \in Workers : Stuck(row[j], Clock(v))
                      \/ Fence(w) => pc'[w] = "failing" /\ row'[j].status = "succeeded"
  <1> DEFINE j == held[w].job
  <1>0. TypeOK /\ j \in Jobs /\ pc[w] \in Holding /\ pc'[w] \in Holding /\ row[j].status # "absent"
    BY StepHolding DEF QueueInv, TypeOK, Leases
  <1>1. inc'[w] = inc[w]
    BY <1>0, HeldSteps DEF HeldStep, Holding
  <1>2. CASE \E v \in Workers : TakenBy(j, v)
    <2>1. PICK v \in Workers : TakenBy(j, v)
      BY <1>2
    <2>2. v # w
      BY <1>0, <2>1 DEF TakenBy, Holding
    <2> QED
      BY <1>1, <2>1, <2>2 DEF TakenBy, ClaimedRow, Id
  <1>3. ASSUME NEW v \in Workers, ReclaimedBy(j, v)
        PROVE  row'[j].status # "running" /\ row[j].status = "running" /\ Stuck(row[j], Clock(v))
    BY <1>0, <1>3, UnlockedRows DEF ReclaimedBy
  <1>4. ASSUME NEW v \in Workers, CompletedBy(j, v)
        PROVE  /\ row'[j].status # "running" /\ row[j].status = "running"
               /\ Fence(w) => pc'[w] = "failing" /\ row'[j].status = "succeeded"
    <2>1. row'[j].status # "running" /\ row[j].status = "running"
      BY <1>0, <1>4, UnlockedRows
    <2>2. ASSUME Fence(w) PROVE pc'[w] = "failing" /\ row'[j].status = "succeeded"
      <3>1. v = w
        BY <1>4, <2>2 DEF CompletedBy, Fence, Id
      <3>2. pc[w] = "succeeding" /\ pc'[w] = "failing" /\ row'[j] = SucceededRow(row[j])
        BY <1>0, <1>4, <3>1 DEF CompletedBy, Holding
      <3> QED
        BY <3>2 DEF SucceededRow, Unlocked
    <2> QED
      BY <2>1, <2>2
  <1>5. ~Created(j)
    BY <1>0 DEF Created
  <1> QED
    BY <1>0, <1>1, <1>2, <1>3, <1>4, <1>5, RowSteps DEF RowStep

\* Every step keeps LeaseLostOnlyByExpiry.
LEMMA StepLeaseLost ==
    QueueInv /\ LeaseLostOnlyByExpiry /\ [Next]_vars => LeaseLostOnlyByExpiry'
  <1> SUFFICES ASSUME QueueInv, LeaseLostOnlyByExpiry, [Next]_vars,
                      NEW w \in Workers, held'[w] # NoLease, ~Fence(w)'
               PROVE  \/ Expired(held[w].at)'
                      \/ pc'[w] = "failing" /\ row'[held'[w].job].status = "succeeded"
    BY DEF LeaseLostOnlyByExpiry
  <1> DEFINE j == held[w].job
  <1>1. CASE held'[w] = held[w]
    <2>0. held[w].at \in Int /\ pc'[w] \in Holding
      BY <1>1, StepHolding DEF QueueInv, TypeOK, Leases
    <2>1. CASE Fence(w)
      <3>1. CASE row'[j] = row[j]
        BY <1>1, <2>1, <3>1, KeptClaim DEF Fence, Id
      <3>2. CASE \E v \in Workers : Stuck(row[j], Clock(v))
        <4>1. PICK v \in Workers : Stuck(row[j], Clock(v))
          BY <3>2
        <4>2. held[w].at < Clock(v) - LockTimeout
          BY <2>1, <4>1 DEF Stuck, Fence
        <4>3. Clock(v) \in Int
          BY SkewAssumption DEF QueueInv, TypeOK, Clock
        <4>4. Expired(held[w].at)
          BY <2>0, <4>2, <4>3, LimitsAssumption DEF Expired
        <4> QED
          BY <1>1, <2>0, <4>4, ClocksAdvance
      <3> QED
        BY <1>1, <2>1, <3>1, <3>2, KeptClaim DEF Fence
    <2>2. CASE ~Fence(w)
      <3>1. CASE Expired(held[w].at)
        BY <1>1, <2>0, <3>1, ClocksAdvance
      <3>2. CASE pc[w] = "failing" /\ row[j].status = "succeeded"
        <4>1. row'[j] = row[j]
          BY <1>1, <3>2, KeptClaim
        <4>2. pc'[w] = "failing"
          BY <2>0, <3>2, FailingStays DEF Holding
        <4> QED
          BY <1>1, <3>2, <4>1, <4>2
      <3> QED
        BY <1>1, <2>2, <3>1, <3>2 DEF LeaseLostOnlyByExpiry
    <2> QED
      BY <2>1, <2>2
  <1>2. CASE held'[w] # held[w]
    <2>1. PICK k \in Jobs : /\ row'[k] = ClaimedRow(k, w, Clock(w))
                            /\ held'[w] = [job |-> k, at |-> Clock(w), attempts |-> row[k].attempts + 1]
                            /\ inc'[w] = inc[w]
      BY <1>2, HeldSteps DEF HeldStep
    <2> QED
      BY <2>1 DEF Fence, Id, ClaimedRow
  <1> QED
    BY <1>1, <1>2

\* A lease is lost only when it has run out on some clock of the fleet.
THEOREM LeaseSafety == Spec => []LeaseLostOnlyByExpiry
  <1>1. Init => LeaseLostOnlyByExpiry
    BY DEF Init, LeaseLostOnlyByExpiry
  <1> QED
    BY <1>1, QueueInvariant, StepLeaseLost, PTL DEF Spec

\* Two handlers run one job at once only after a lease has run out.
THEOREM HandlerExclusion == Spec => []HandlersOverlapOnlyAfterExpiry
  <1>1. QueueInv /\ LeaseLostOnlyByExpiry => HandlersOverlapOnlyAfterExpiry
    <2> SUFFICES ASSUME QueueInv, LeaseLostOnlyByExpiry, NEW w \in Workers, NEW v \in Workers,
                        w # v, pc[w] = "running", pc[v] = "running", held[w].job = held[v].job
                 PROVE  Expired(held[w].at) \/ Expired(held[v].at)
      BY DEF HandlersOverlapOnlyAfterExpiry
    <2>1. held[w] # NoLease /\ held[v] # NoLease
      BY DEF QueueInv, Holding
    <2>2. ~Fence(w) \/ ~Fence(v)
      BY DEF Fence, Id
    <2> QED
      BY <2>1, <2>2 DEF LeaseLostOnlyByExpiry
  <1> QED
    BY <1>1, QueueInvariant, LeaseSafety, PTL

\* A lease keeps its job to one process until it runs out.
THEOREM LeasesKeepJobs == Spec => []LeasesHold
  <1>1. LeaseLostOnlyByExpiry /\ HandlersOverlapOnlyAfterExpiry => LeasesHold
    BY DEF LeasesHold
  <1> QED
    BY <1>1, LeaseSafety, HandlerExclusion, PTL

\* A late completion stays refused for ever.
THEOREM LostLeases == Spec => LostLeaseStaysLost
  <1>1. QueueInv /\ [Next]_vars =>
          [\A w \in Workers : held[w] # NoLease /\ held'[w] = held[w] /\ ~Fence(w) => ~Fence(w)']_vars
    <2> SUFFICES ASSUME QueueInv, [Next]_vars, NEW w \in Workers,
                        held[w] # NoLease, held'[w] = held[w], ~Fence(w)
                 PROVE  ~Fence(w)'
      OBVIOUS
    <2> QED
      BY KeptClaim DEF Fence, Id
  <1> QED
    BY <1>1, QueueInvariant, PTL DEF Spec, LostLeaseStaysLost

-----------------------------------------------------------------------------
(* Attempts.                                                               *)

\* The part of the budget that needs only the rows.
Budget == \A j \in Jobs :
    /\ row[j].attempts <= MaxAttempts
    /\ row[j].status \in {"pending", "failed"} => row[j].attempts < MaxAttempts
    /\ row[j].status = "running" => row[j].attempts > 0

\* What each way of writing a row does to the attempts.
LEMMA AttemptSteps ==
    ASSUME QueueInv, NEW j \in Jobs, NEW w \in Workers
    PROVE  /\ TakenBy(j, w) => /\ row'[j].status = "running"
                               /\ row'[j].attempts = row[j].attempts + 1
           /\ ReclaimedBy(j, w) =>
                /\ row'[j].attempts = row[j].attempts
                /\ row'[j].status = IF row[j].attempts >= MaxAttempts THEN "dead" ELSE "pending"
           /\ CompletedBy(j, w) =>
                \/ /\ pc[w] = "release" /\ pc'[w] = "tick" /\ held[w] # NoLease /\ held[w].job = j
                   /\ row'[j].status = "pending"
                   /\ row'[j].attempts = IF row[j].attempts > 0 THEN row[j].attempts - 1 ELSE 0
                \/ row'[j].status = "succeeded" /\ row'[j].attempts = row[j].attempts
                \/ /\ row'[j].attempts = row[j].attempts
                   /\ row'[j].status = IF row[j].attempts >= MaxAttempts THEN "dead" ELSE "failed"
  <1>1. TakenBy(j, w) => row'[j].status = "running" /\ row'[j].attempts = row[j].attempts + 1
    BY DEF TakenBy, ClaimedRow
  <1>2. ReclaimedBy(j, w) =>
          /\ row'[j].attempts = row[j].attempts
          /\ row'[j].status = IF row[j].attempts >= MaxAttempts THEN "dead" ELSE "pending"
    BY DEF ReclaimedBy, ReapedRow, Unlocked
  <1>3. ASSUME CompletedBy(j, w), pc[w] = "release"
        PROVE  /\ pc'[w] = "tick" /\ held[w] # NoLease /\ held[w].job = j /\ row'[j].status = "pending"
               /\ row'[j].attempts = IF row[j].attempts > 0 THEN row[j].attempts - 1 ELSE 0
    BY <1>3 DEF CompletedBy, ReleasedRow, Unlocked
  <1>4. ASSUME CompletedBy(j, w), pc[w] # "release", pc[w] # "failing"
        PROVE  row'[j].status = "succeeded" /\ row'[j].attempts = row[j].attempts
    BY <1>4 DEF CompletedBy, SucceededRow, Unlocked
  <1>5. ASSUME CompletedBy(j, w), pc[w] = "failing"
        PROVE  /\ row'[j].attempts = row[j].attempts
               /\ row'[j].status = IF row[j].attempts >= MaxAttempts THEN "dead" ELSE "failed"
    <2>1. PICK t \in Int, d \in Nat : row'[j] = FailedRow(row[j], t, d)
      BY <1>5 DEF CompletedBy
    <2> QED
      BY <2>1 DEF FailedRow, Unlocked
  <1> QED
    BY <1>1, <1>2, <1>3, <1>4, <1>5

\* Every step keeps the attempts within max_attempts.
LEMMA StepBudget == QueueInv /\ Budget /\ [Next]_vars => Budget'
  <1> SUFFICES ASSUME QueueInv, Budget, [Next]_vars, NEW j \in Jobs
               PROVE  /\ row'[j].attempts <= MaxAttempts
                      /\ row'[j].status \in {"pending", "failed"} => row'[j].attempts < MaxAttempts
                      /\ row'[j].status = "running" => row'[j].attempts > 0
    BY DEF Budget
  <1>0. row[j].attempts \in Nat
    BY DEF QueueInv, TypeOK, Rows
  <1>1. CASE row'[j] = row[j]
    BY <1>1 DEF Budget
  <1>2. CASE Created(j)
    BY <1>2, LimitsAssumption DEF Created, Unlocked
  <1>3. ASSUME NEW w \in Workers, TakenBy(j, w)
        PROVE  /\ row'[j].status = "running"
               /\ row'[j].attempts <= MaxAttempts /\ row'[j].attempts > 0
    BY <1>0, <1>3, AttemptSteps, LimitsAssumption DEF Budget, TakenBy
  <1>4. ASSUME NEW w \in Workers, ReclaimedBy(j, w) \/ CompletedBy(j, w)
        PROVE  /\ row'[j].attempts <= MaxAttempts
               /\ row'[j].status # "running"
               /\ row'[j].status \in {"pending", "failed"} => row'[j].attempts < MaxAttempts
    <2>1. row[j].status = "running" /\ row'[j].status # "running" /\ row[j].attempts > 0
      BY <1>4, UnlockedRows DEF Budget
    <2> QED
      BY <1>0, <1>4, <2>1, AttemptSteps, LimitsAssumption DEF Budget
  <1> QED
    BY <1>1, <1>2, <1>3, <1>4, RowSteps DEF RowStep

\* The attempts in a row never exceed max_attempts, and a job that waits has some
\* left (claim, fail and reapStuck).
THEOREM AttemptBudget == Spec => []Budget
  <1>1. Init => Budget
    BY LimitsAssumption DEF Init, Budget, Unlocked
  <1> QED
    BY <1>1, QueueInvariant, StepBudget, PTL DEF Spec

\* Each way of writing a row is a step of the lifecycle, or none.
LEMMA StepLifecycle ==
    QueueInv /\ Budget /\ [Next]_vars => [Life!LifeNext]_<<phases, tries>>
  <1> SUFFICES ASSUME QueueInv, Budget, [Next]_vars, NEW j \in Jobs PROVE Life!LifeStep(j)
    BY DEF Life!LifeNext
  <1> USE DEF Life!LifeStep, Life!Move
  <1>0. row[j].attempts \in Nat
    BY DEF QueueInv, TypeOK, Rows
  <1>a. /\ phases[j] = PhaseOf(row[j].status) /\ phases'[j] = PhaseOf(row'[j].status)
        /\ tries[j] = row[j].attempts /\ tries'[j] = row'[j].attempts
    BY DEF phases, tries
  <1>1. CASE row'[j] = row[j]
    BY <1>1, <1>a DEF Life!Stays
  <1>2. CASE Created(j)
    BY <1>2, <1>a DEF Created, Unlocked, PhaseOf, Life!Submit
  <1>3. ASSUME NEW w \in Workers, TakenBy(j, w) PROVE Life!LifeStep(j)
    <2>1. PhaseOf(row[j].status) = "waiting" /\ row[j].attempts < MaxAttempts
      BY <1>3 DEF TakenBy, PhaseOf, Budget
    <2>2. PhaseOf(row'[j].status) = "taken" /\ row'[j].attempts = row[j].attempts + 1
      BY <1>3, AttemptSteps DEF PhaseOf
    <2> QED
      BY <1>a, <2>1, <2>2 DEF Life!Take
  <1>4. ASSUME NEW w \in Workers, ReclaimedBy(j, w) \/ CompletedBy(j, w) PROVE Life!LifeStep(j)
    <2>1. PhaseOf(row[j].status) = "taken" /\ row[j].attempts > 0
      BY <1>4, UnlockedRows DEF PhaseOf, Budget
    <2>2. \/ PhaseOf(row'[j].status) = "waiting" /\ row[j].attempts = row'[j].attempts + 1
          \/ PhaseOf(row'[j].status) = "done" /\ row'[j].attempts = row[j].attempts
          \/ /\ row'[j].attempts = row[j].attempts
             /\ PhaseOf(row'[j].status) = IF row[j].attempts >= MaxAttempts THEN "dead" ELSE "waiting"
      BY <1>0, <1>4, <2>1, AttemptSteps DEF PhaseOf
    <2> QED
      BY <1>0, <1>a, <2>1, <2>2, LimitsAssumption DEF Life!GiveBack, Life!Finish, Life!Bury, Life!Retry
  <1> QED
    BY <1>1, <1>2, <1>3, <1>4, RowSteps DEF RowStep

\* The queue implements the lifecycle of job.port.ts.
THEOREM QueueImplementsLifecycle == Spec => Lifecycle
  <1>1. Init => Life!LifeInit
    BY DEF Init, Life!LifeInit, Unlocked, PhaseOf, phases, tries
  <1> QED
    BY <1>1, StepLifecycle, QueueInvariant, AttemptBudget, PTL DEF Spec, Lifecycle, Life!LifeSpec

-----------------------------------------------------------------------------
(* Handler starts.                                                         *)

\* Only three actions change which claims of a job are still unstarted.
LEMMA UnstartedSteps ==
    ASSUME QueueInv, [Next]_vars, NEW j \in Jobs
    PROVE  \/ Unstarted(j)' \subseteq Unstarted(j) /\ begun'[j] = begun[j]
           \/ \E w \in Workers : /\ Unstarted(j)' = Unstarted(j) \cup {w} /\ TakenBy(j, w)
                                 /\ begun'[j] = begun[j]
           \/ \E w \in Unstarted(j) : /\ Unstarted(j)' = Unstarted(j) \ {w} /\ UNCHANGED row
                                      /\ begun'[j] = begun[j] + 1
  <1> DEFINE Kept == Unstarted(j)' \subseteq Unstarted(j) /\ begun'[j] = begun[j]
             Started(w) == /\ w \in Unstarted(j) /\ Unstarted(j)' = Unstarted(j) \ {w}
                           /\ UNCHANGED row /\ begun'[j] = begun[j] + 1
             Added(w) == /\ Unstarted(j)' = Unstarted(j) \cup {w} /\ TakenBy(j, w)
                         /\ begun'[j] = begun[j]
  <1> USE DEF Goto, Drop, process, history
  <1>0. TypeOK
    BY DEF QueueInv
  <1>1. CASE UNCHANGED <<pc, held, begun>>
    BY <1>1 DEF Unstarted
  <1>2. ASSUME NEW v \in Workers, Claim(v) PROVE Kept \/ Added(v)
    <2>1. PICK k \in NextJobs(v, Clock(v)) :
            \/ /\ row' = [row EXCEPT ![k] = ClaimedRow(k, v, Clock(v))]
               /\ held' = [held EXCEPT ![v] = [job |-> k, at |-> Clock(v),
                                               attempts |-> row[k].attempts + 1]]
               /\ pc' = [pc EXCEPT ![v] = "claimed"]
            \/ UNCHANGED held /\ pc' = [pc EXCEPT ![v] = "tick"]
      BY <1>2 DEF Claim, Answered
    <2>2. pc[v] = "reaped" /\ begun' = begun /\ k \in Jobs /\ row[k].status \in {"pending", "failed"}
      BY <1>2 DEF Claim, NextJobs, Claimable
    <2>3. CASE UNCHANGED held /\ pc' = [pc EXCEPT ![v] = "tick"]
      BY <1>0, <2>2, <2>3 DEF Unstarted, TypeOK
    <2>4. CASE /\ row' = [row EXCEPT ![k] = ClaimedRow(k, v, Clock(v))]
               /\ held' = [held EXCEPT ![v] = [job |-> k, at |-> Clock(v),
                                               attempts |-> row[k].attempts + 1]]
               /\ pc' = [pc EXCEPT ![v] = "claimed"]
      <3>1. held'[v].job = k /\ \A w \in Workers \ {v} : held'[w] = held[w] /\ pc'[w] = pc[w]
        BY <1>0, <2>4 DEF TypeOK
      <3>2. pc'[v] = "claimed" /\ v \notin Unstarted(j)
        BY <1>0, <2>2, <2>4 DEF TypeOK, Unstarted
      <3>3. CASE k = j
        <4>1. Unstarted(j)' = Unstarted(j) \cup {v}
          BY <3>1, <3>2, <3>3 DEF Unstarted
        <4>2. TakenBy(j, v)
          BY <1>0, <2>2, <2>4, <3>3 DEF TypeOK, TakenBy
        <4> QED
          BY <2>2, <4>1, <4>2
      <3>4. CASE k # j
        BY <2>2, <3>1, <3>2, <3>4 DEF Unstarted
      <3> QED
        BY <3>3, <3>4
    <2> QED
      BY <2>1, <2>3, <2>4
  <1>3. ASSUME NEW v \in Workers, Receive(v) PROVE Kept \/ Started(v)
    <2>1. held' = held /\ row' = row /\ pc[v] = "claimed"
      BY <1>3 DEF Receive
    <2>2. CASE stopping[v]
      BY <1>0, <1>3, <2>1, <2>2 DEF Receive, Unstarted, TypeOK
    <2>3. CASE ~stopping[v]
      <3>1. pc' = [pc EXCEPT ![v] = "running"] /\ begun' = [begun EXCEPT ![held[v].job] = @ + 1]
        BY <1>3, <2>3 DEF Receive
      <3>2. Unstarted(j)' = Unstarted(j) \ {v}
        BY <1>0, <2>1, <3>1 DEF Unstarted, TypeOK
      <3>3. begun'[j] = IF held[v].job = j THEN begun[j] + 1 ELSE begun[j]
        BY <1>0, <3>1 DEF TypeOK
      <3> QED
        BY <2>1, <3>2, <3>3 DEF Unstarted
    <2> QED
      BY <2>2, <2>3
  <1>4. ASSUME NEW v \in Workers, Exit(v) \/ Crash(v) \/ Release(v) \/ Fail(v) \/ Succeed(v)
        PROVE  Kept
    <2>1. /\ \E step \in {"down", "tick", "failing"} : pc' = [pc EXCEPT ![v] = step]
          /\ held' = [held EXCEPT ![v] = NoLease] \/ UNCHANGED held
          /\ begun' = begun
      BY <1>4 DEF Exit, Crash, MemoryLost, Release, Fail, Succeed
    <2>2. ASSUME NEW w \in Workers
          PROVE  \/ pc'[w] \in {"down", "tick", "failing"}
                 \/ pc'[w] = pc[w] /\ held'[w] = held[w]
      <3>1. CASE w = v
        BY <1>0, <2>1, <3>1 DEF TypeOK
      <3>2. CASE w # v
        <4>1. pc'[w] = pc[w]
          BY <1>0, <2>1, <3>2 DEF TypeOK
        <4>2. held'[w] = held[w]
          BY <1>0, <2>1, <3>2 DEF TypeOK
        <4> QED
          BY <4>1, <4>2
      <3> QED
        BY <3>1, <3>2
    <2> QED
      BY <2>1, <2>2 DEF Unstarted
  <1>5. ASSUME NEW v \in Workers, Start(v) \/ LoopEnds(v) \/ Reap(v) \/ SkipClaim(v)
                 \/ NothingToClaim(v) \/ OnTick(v) \/ HandlerReturns(v) \/ HandlerThrows(v)
        PROVE  Kept
    <2>1. /\ \E step \in {"poll", "ended", "reaped", "tick", "succeeding", "failing"} :
                pc' = [pc EXCEPT ![v] = step]
          /\ held' = held /\ begun' = begun
      BY <1>5 DEF Start, LoopEnds, Reap, SkipClaim, NothingToClaim, OnTick, HandlerReturns, HandlerThrows
    <2>2. \A w \in Workers : \/ pc'[w] \notin {"claimed", "release"}
                              \/ pc'[w] = pc[w]
      BY <1>0, <2>1 DEF TypeOK
    <2> QED
      BY <2>1, <2>2 DEF Unstarted
  <1>6. CASE UNCHANGED vars \/ TimePasses \/ (\E k \in Jobs : Enqueue(k))
               \/ \E v \in Workers : Sigterm(v)
    BY <1>1, <1>6 DEF vars, TimePasses, Enqueue, Sigterm
  <1> QED
    BY <1>2, <1>3, <1>4, <1>5, <1>6 DEF Next

Starts == \A j \in Jobs : begun[j] + Cardinality(Unstarted(j)) <= row[j].attempts

\* Only the release of an unstarted claim takes an attempt back.
LEMMA AttemptsKept ==
    ASSUME QueueInv, [Next]_vars, NEW j \in Jobs
    PROVE  \/ row'[j].attempts >= row[j].attempts
           \/ /\ row'[j].attempts >= row[j].attempts - 1
              /\ \E w \in Unstarted(j) : w \notin Unstarted(j)'
  <1>0. row[j].attempts \in Nat
    BY DEF QueueInv, TypeOK, Rows
  <1>1. CASE row'[j] = row[j]
    BY <1>0, <1>1
  <1>2. CASE Created(j)
    BY <1>2 DEF Created, Unlocked, QueueInv
  <1>3. ASSUME NEW w \in Workers, TakenBy(j, w) \/ ReclaimedBy(j, w)
        PROVE  row'[j].attempts >= row[j].attempts
    BY <1>0, <1>3, AttemptSteps
  <1>4. ASSUME NEW w \in Workers, CompletedBy(j, w)
        PROVE  \/ row'[j].attempts >= row[j].attempts
               \/ /\ row'[j].attempts >= row[j].attempts - 1
                  /\ w \in Unstarted(j) /\ w \notin Unstarted(j)'
    BY <1>0, <1>4, AttemptSteps DEF Unstarted
  <1> QED
    BY <1>1, <1>2, <1>3, <1>4, RowSteps DEF RowStep

\* Every step keeps one attempt for each start and each unstarted claim.
LEMMA StepStarts == QueueInv /\ Starts /\ [Next]_vars => Starts'
  <1> SUFFICES ASSUME QueueInv, Starts, [Next]_vars, NEW j \in Jobs
               PROVE  begun'[j] + Cardinality(Unstarted(j)') <= row'[j].attempts
    BY DEF Starts
  <1> DEFINE U == Unstarted(j)
  <1>0. /\ IsFiniteSet(U) /\ Cardinality(U) \in Nat
        /\ row[j].attempts \in Nat /\ row'[j].attempts \in Nat /\ begun[j] \in Nat
        /\ begun[j] + Cardinality(U) <= row[j].attempts
    <2>1. IsFiniteSet(U) /\ Cardinality(U) \in Nat
      BY WorkersAssumption, FS_Subset, FS_CardinalityType DEF Unstarted
    <2> QED
      BY <2>1, StepTypeOK DEF QueueInv, TypeOK, Rows, Starts
  <1>1. CASE U' \subseteq U /\ begun'[j] = begun[j]
    <2>1. IsFiniteSet(U') /\ Cardinality(U') \in Nat /\ Cardinality(U') <= Cardinality(U)
      BY <1>0, <1>1, FS_Subset, FS_CardinalityType
    <2>2. CASE row'[j].attempts >= row[j].attempts
      BY <1>0, <1>1, <2>1, <2>2
    <2>3. ASSUME NEW w \in U, w \notin U', row'[j].attempts >= row[j].attempts - 1
          PROVE  begun'[j] + Cardinality(U') <= row'[j].attempts
      <3>1. U' \subseteq U \ {w} /\ IsFiniteSet(U \ {w}) /\ Cardinality(U \ {w}) = Cardinality(U) - 1
        BY <1>0, <1>1, <2>3, FS_RemoveElement
      <3>2. Cardinality(U') <= Cardinality(U) - 1
        BY <3>1, FS_Subset
      <3> QED
        BY <1>0, <1>1, <2>1, <2>3, <3>2
    <2> QED
      BY <2>2, <2>3, AttemptsKept
  <1>2. ASSUME NEW w \in Workers, U' = U \cup {w}, TakenBy(j, w), begun'[j] = begun[j]
        PROVE  begun'[j] + Cardinality(U') <= row'[j].attempts
    <2>1. Cardinality(U') \in Nat /\ Cardinality(U') <= Cardinality(U) + 1
      <3>1. Cardinality(U \cup {w}) = IF w \in U THEN Cardinality(U) ELSE Cardinality(U) + 1
        BY <1>0, FS_AddElement
      <3> QED
        BY <1>0, <1>2, <3>1
    <2>2. row'[j].attempts = row[j].attempts + 1
      BY <1>2, AttemptSteps
    <2> QED
      BY <1>0, <1>2, <2>1, <2>2
  <1>3. ASSUME NEW w \in U, U' = U \ {w}, UNCHANGED row, begun'[j] = begun[j] + 1
        PROVE  begun'[j] + Cardinality(U') <= row'[j].attempts
    <2>1. Cardinality(U') = Cardinality(U) - 1
      BY <1>0, <1>3, FS_RemoveElement
    <2> QED
      BY <1>0, <1>3, <2>1
  <1> QED
    BY <1>1, <1>2, <1>3, UnstartedSteps

\* A job's handler is never started more often than max_attempts, whatever
\* crashes, releases and reaps happen on the way.
THEOREM StartBudget == Spec => []StartsWithinBudget
  <1>1. Init => Starts
    <2> SUFFICES ASSUME Init, NEW j \in Jobs
                 PROVE  begun[j] + Cardinality(Unstarted(j)) <= row[j].attempts
      BY DEF Starts
    <2>1. Unstarted(j) = {}
      BY DEF Init, Unstarted
    <2>2. Cardinality(Unstarted(j)) = 0
      BY <2>1, FS_EmptySet
    <2> QED
      BY <2>2 DEF Init, Unlocked
  <1>2. Budget /\ Starts => StartsWithinBudget
    BY DEF Budget, Starts, StartsWithinBudget
  <1> QED
    BY <1>1, <1>2, QueueInvariant, AttemptBudget, StepStarts, PTL DEF Spec

-----------------------------------------------------------------------------
(* Leases of live processes.                                               *)

\* A process that is up and free of failures either has just started, or was
\* both before the step.
LEMMA CleanProcess ==
    ASSUME QueueInv, [Next]_vars, NEW w \in Workers, pc'[w] # "down", ~faulted'[w]
    PROVE  \/ inc'[w] = inc[w] + 1
           \/ pc[w] # "down" /\ ~faulted[w] /\ inc'[w] = inc[w]
  <1> USE DEF Goto, process, history
  <1>0. TypeOK
    BY DEF QueueInv
  <1>1. CASE UNCHANGED vars \/ TimePasses \/ \E j \in Jobs : Enqueue(j)
    BY <1>1 DEF vars, TimePasses, Enqueue
  <1>2. ASSUME NEW v \in Workers, Start(v) \/ Exit(v) \/ Crash(v)
        PROVE  \/ inc'[w] = inc[w] + 1
               \/ pc[w] # "down" /\ ~faulted[w] /\ inc'[w] = inc[w]
    BY <1>0, <1>2 DEF Start, Exit, Crash, MemoryLost, TypeOK
  <1>3. ASSUME NEW v \in Workers,
               Sigterm(v) \/ LoopEnds(v) \/ SkipClaim(v) \/ NothingToClaim(v) \/ Receive(v)
                 \/ HandlerReturns(v) \/ HandlerThrows(v)
        PROVE  pc[w] # "down" /\ ~faulted[w] /\ inc'[w] = inc[w]
    BY <1>0, <1>3 DEF Sigterm, LoopEnds, SkipClaim, NothingToClaim, Receive, HandlerReturns,
                      HandlerThrows, TypeOK, Alive
  <1>4. ASSUME NEW v \in Workers,
               Reap(v) \/ Claim(v) \/ Release(v) \/ Succeed(v) \/ Fail(v) \/ OnTick(v)
        PROVE  pc[w] # "down" /\ ~faulted[w] /\ inc'[w] = inc[w]
    <2>1. /\ UNCHANGED inc /\ pc[v] # "down"
          /\ UNCHANGED faulted \/ faulted' = [faulted EXCEPT ![v] = TRUE]
          /\ \E step \in Steps : pc' = [pc EXCEPT ![v] = step]
      BY <1>4 DEF Reap, Claim, Release, Succeed, Fail, OnTick, Answered, Errored, Steps
    <2> QED
      BY <1>0, <2>1 DEF TypeOK
  <1> QED
    BY <1>1, <1>2, <1>3, <1>4 DEF Next

\* A claim is dropped by a process that stays up only with the answer to the
\* statement that settles it.
LEMMA DroppedClaim ==
    ASSUME QueueInv, [Next]_vars, NEW w \in Workers, held[w] # NoLease, held'[w] = NoLease,
           pc'[w] # "down", ~faulted'[w], Fence(w)
    PROVE  row'[held[w].job].lockedBy = NoOwner
  <1> USE DEF Goto, process, history
  <1>0. TypeOK /\ held[w].job \in Jobs /\ pc[w] \in Holding
    BY DEF QueueInv, TypeOK, Leases
  <1>1. ASSUME NEW r, r.lockedBy = NoOwner, row' = Fenced(w, r)
        PROVE  row'[held[w].job].lockedBy = NoOwner
    BY <1>0, <1>1 DEF Fenced, TypeOK
  <1>2. \A s, at, n : Unlocked(s, at, n).lockedBy = NoOwner
    BY DEF Unlocked
  <1>3. CASE UNCHANGED held
    BY <1>3
  <1>4. ASSUME NEW v \in Workers, v # w, held' = [held EXCEPT ![v] = held'[v]]
        PROVE  FALSE
    BY <1>0, <1>4 DEF TypeOK
  <1>5. ASSUME NEW new, NEW v \in Workers, Answered(new) \/ Errored(v, new), v = w
        PROVE  row' = new
    BY <1>0, <1>5 DEF Answered, Errored, TypeOK
  <1>6. CASE Release(w)
    <2>1. row' = Fenced(w, ReleasedRow(row[held[w].job]))
      BY <1>5, <1>6 DEF Release
    <2> QED
      BY <1>1, <1>2, <2>1 DEF ReleasedRow
  <1>7. CASE Succeed(w)
    <2>1. row' = Fenced(w, SucceededRow(row[held[w].job]))
      BY <1>5, <1>7 DEF Succeed
    <2> QED
      BY <1>1, <1>2, <2>1 DEF SucceededRow
  <1>8. CASE Fail(w)
    <2>1. PICK d : row' = Fenced(w, FailedRow(row[held[w].job], Clock(w), d))
      BY <1>5, <1>8 DEF Fail
    <2> QED
      BY <1>1, <1>2, <2>1 DEF FailedRow
  <1>9. ASSUME NEW v \in Workers, Exit(v) \/ Crash(v) PROVE FALSE
    BY <1>0, <1>4, <1>9 DEF Exit, Crash, MemoryLost, Drop, TypeOK
  <1>10. ASSUME NEW v \in Workers, v # w, Release(v) \/ Succeed(v) \/ Fail(v) PROVE FALSE
    BY <1>0, <1>10 DEF Release, Succeed, Fail, Drop, TypeOK
  <1>11. ASSUME NEW v \in Workers, Claim(v) PROVE FALSE
    <2>1. v # w
      BY <1>0, <1>11 DEF Claim, Holding
    <2>2. UNCHANGED held \/ \E l : held' = [held EXCEPT ![v] = l]
      BY <1>11 DEF Claim
    <2> QED
      BY <1>0, <2>1, <2>2 DEF TypeOK
  <1>12. CASE UNCHANGED vars \/ TimePasses \/ \E j \in Jobs : Enqueue(j)
    BY <1>3, <1>12 DEF vars, TimePasses, Enqueue
  <1>13. ASSUME NEW v \in Workers,
                Start(v) \/ Sigterm(v) \/ LoopEnds(v) \/ Reap(v) \/ SkipClaim(v) \/ NothingToClaim(v)
                  \/ Receive(v) \/ HandlerReturns(v) \/ HandlerThrows(v) \/ OnTick(v)
         PROVE  FALSE
    BY <1>13 DEF Start, Sigterm, LoopEnds, Reap, SkipClaim, NothingToClaim, Receive,
                 HandlerReturns, HandlerThrows, OnTick
  <1> QED
    BY <1>6, <1>7, <1>8, <1>9, <1>10, <1>11, <1>12, <1>13 DEF Next

\* The row of a claim whose reply has come is the job in the claimer's memory.
LEMMA TakenIsHeld ==
    ASSUME QueueInv, [Next]_vars, NEW j \in Jobs, NEW w \in Workers,
           TakenBy(j, w), row'[j] # row[j], ~faulted'[w]
    PROVE  held'[w] # NoLease /\ held'[w].job = j
  <1> USE DEF Goto, process, history
  <1>0. TypeOK /\ row'[j].status = "running" /\ row'[j].lockedBy = Id(w) /\ pc[w] = "reaped"
    BY DEF QueueInv, TakenBy, ClaimedRow
  <1>1. ASSUME NEW v \in Workers, Claim(v) PROVE held'[w] # NoLease /\ held'[w].job = j
    <2>1. PICK k \in Jobs :
            LET new == [row EXCEPT ![k] = ClaimedRow(k, v, Clock(v))] IN
            \/ /\ Answered(new)
               /\ held' = [held EXCEPT ![v] = [job |-> k, at |-> Clock(v),
                                               attempts |-> row[k].attempts + 1]]
            \/ Errored(v, new)
      BY <1>1 DEF Claim, NextJobs
    <2>2. row' \in {row, [row EXCEPT ![k] = ClaimedRow(k, v, Clock(v))]}
      BY <2>1 DEF Answered, Errored
    <2>3. k = j
      BY <1>0, <2>2 DEF TypeOK
    <2>4. v = w
      BY <1>0, <2>2, <2>3 DEF TypeOK, ClaimedRow, Id
    <2>5. ~Errored(v, [row EXCEPT ![k] = ClaimedRow(k, v, Clock(v))])
      BY <1>0, <2>4 DEF Errored, TypeOK
    <2>6. [job |-> k, at |-> Clock(v), attempts |-> row[k].attempts + 1] \in Leases
      BY <1>0, SkewAssumption DEF Leases, TypeOK, Rows, Clock
    <2> QED
      BY <1>0, <2>1, <2>3, <2>4, <2>5, <2>6, NullAssumption DEF TypeOK, Leases
  <1>2. ASSUME NEW S \in SUBSET Jobs, NEW at \in Int, row' \in {row, Enqueued(S, at)} PROVE FALSE
    <2>1. Created(j)
      BY <1>2, EnqueuedStep
    <2>2. PICK a \in Int : row'[j] = Unlocked("pending", a, 0)
      BY <2>1 DEF Created
    <2> QED
      BY <1>0, <2>2 DEF Unlocked
  <1>3. ASSUME NEW k \in Jobs, Enqueue(k) PROVE FALSE
    <2>1. PICK at \in {0, now + 1} : row' = Enqueued({k}, at)
      BY <1>3 DEF Enqueue
    <2>2. at \in Int /\ {k} \in SUBSET Jobs
      BY <1>0 DEF TypeOK
    <2> QED
      BY <1>2, <2>1, <2>2
  <1>4. ASSUME NEW v \in Workers, OnTick(v) PROVE FALSE
    <2>1. PICK S \in SUBSET (Recurring \cap Handles[v]) : row' \in {row, Enqueued(S, 0)}
      BY <1>4 DEF OnTick, Answered, Errored
    <2> QED
      BY <1>2, <2>1, JobsAssumption
  <1>5. ASSUME NEW v \in Workers, Reap(v) PROVE FALSE
    <2>1. row' \in {row, Reaped(Clock(v))}
      BY <1>5 DEF Reap, Answered, Errored
    <2> QED
      BY <1>0, <2>1 DEF Reaped, ReapedRow, Unlocked
  <1>6. ASSUME NEW v \in Workers, Release(v) \/ Succeed(v) \/ Fail(v) PROVE FALSE
    <2>1. \A s, at, n : Unlocked(s, at, n).lockedBy = NoOwner
      BY DEF Unlocked
    <2>2. Id(w) # NoOwner /\ held[v] # NoLease
      BY <1>0, <1>6, NullAssumption DEF Id, TypeOK, QueueInv, Holding, Release, Succeed, Fail
    <2>3. PICK r : r.lockedBy = NoOwner /\ row' \in {row, Fenced(v, r)}
      BY <1>6, <2>1 DEF Release, Succeed, Fail, ReleasedRow, SucceededRow, FailedRow, Answered, Errored
    <2> QED
      BY <1>0, <2>2, <2>3, FencedStep
  <1>7. ASSUME NEW v \in Workers,
               Start(v) \/ Sigterm(v) \/ Exit(v) \/ Crash(v) \/ LoopEnds(v) \/ SkipClaim(v)
                 \/ NothingToClaim(v) \/ Receive(v) \/ HandlerReturns(v) \/ HandlerThrows(v)
        PROVE  FALSE
    BY <1>7 DEF Start, Sigterm, Exit, Crash, LoopEnds, SkipClaim, NothingToClaim, Receive,
                HandlerReturns, HandlerThrows
  <1>8. CASE UNCHANGED vars \/ TimePasses
    BY <1>8 DEF vars, TimePasses
  <1> QED
    BY <1>1, <1>3, <1>4, <1>5, <1>6, <1>7, <1>8 DEF Next

\* The step of OwnedIsHeld, from QueueInv alone.
LEMMA StepOwned == QueueInv /\ OwnedIsHeld /\ [Next]_vars => OwnedIsHeld'
  <1> SUFFICES ASSUME QueueInv, OwnedIsHeld, [Next]_vars, NEW w \in Workers, NEW j \in Jobs,
                      pc'[w] # "down", ~faulted'[w], row'[j].lockedBy = <<w, inc'[w]>>
               PROVE  held'[w] # NoLease /\ held'[w].job = j
    BY DEF OwnedIsHeld, Alive, Id
  <1>0. TypeOK /\ TypeOK' /\ <<w, inc'[w]>> # NoOwner /\ inc[w] \in Nat
    BY StepTypeOK, NullAssumption DEF QueueInv, TypeOK
  <1>1. CASE row'[j] = row[j]
    <2>1. inc'[w] = inc[w] /\ pc[w] # "down" /\ ~faulted[w]
      <3>1. inc'[w] <= inc[w]
        <4>1. <<w, inc'[w]>>[2] <= inc[<<w, inc'[w]>>[1]]
          BY <1>0, <1>1 DEF QueueInv
        <4> QED
          BY <4>1
      <3> QED
        BY <1>0, <3>1, CleanProcess
    <2>2. held[w] # NoLease /\ held[w].job = j /\ row[j].lockedBy = Id(w)
      BY <1>1, <2>1 DEF OwnedIsHeld, Alive, Id
    <2>3. Fence(w)
      BY <1>0, <2>1, <2>2 DEF QueueInv, Fence, Id
    <2>4. held'[w] # NoLease
      BY <1>0, <2>2, <2>3, DroppedClaim
    <2>5. pc[w] # "reaped"
      BY <2>2 DEF QueueInv, Holding
    <2> QED
      BY <2>2, <2>4, <2>5, HeldSteps DEF HeldStep
  <1>2. CASE row'[j] # row[j]
    <2>1. ASSUME Created(j) PROVE FALSE
      <3>1. PICK a \in Int : row'[j] = Unlocked("pending", a, 0)
        BY <2>1 DEF Created
      <3> QED
        BY <1>0, <3>1 DEF Unlocked
    <2>2. ASSUME NEW v \in Workers, ReclaimedBy(j, v) \/ CompletedBy(j, v) PROVE FALSE
      BY <1>0, <2>2, UnlockedRows
    <2>3. PICK v \in Workers : TakenBy(j, v)
      BY <1>2, <2>1, <2>2, RowSteps DEF RowStep
    <2>4. v = w
      BY <2>3 DEF TakenBy, ClaimedRow, Id
    <2> QED
      BY <1>2, <2>3, <2>4, TakenIsHeld
  <1> QED
    BY <1>1, <1>2

\* A live worker without a failed statement works on every job leased to it, so
\* a clean shutdown leaves nothing to the reaper.
THEOREM CleanOwners == Spec => []OwnedIsHeld
  <1>1. Init => OwnedIsHeld
    BY DEF Init, OwnedIsHeld, Alive
  <1> QED
    BY <1>1, QueueInvariant, StepOwned, PTL DEF Spec

\* Every start has an attempt of its own, and every lease a process that works.
THEOREM AttemptsHaveOwners == Spec => []AttemptsAreOwned
  <1>1. StartsWithinBudget /\ OwnedIsHeld => AttemptsAreOwned
    BY DEF AttemptsAreOwned
  <1> QED
    BY <1>1, StartBudget, CleanOwners, PTL
=============================================================================

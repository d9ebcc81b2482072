------------------------ MODULE NotifyDelivery_proofs ------------------------
(***************************************************************************)
(* Delivery uses the queue as it is: every behaviour of NotifyDelivery is  *)
(* one of JobQueue, so the queue's theorems hold of it; and `delivered` is *)
(* never written for a message no channel took, for every number of        *)
(* notifications, workers, attempts and failures.                          *)
(***************************************************************************)
EXTENDS NotifyDelivery, JobQueue_proofs

(* Whatever delivery does, the queue takes one of its own steps or none.   *)
LEMMA QueueSteps == [NotifyNext]_<<vars, notifyVars>> => [Next]_vars
<1> SUFFICES ASSUME NotifyNext PROVE [Next]_vars
  BY DEF vars
<1>1. CASE TimePasses
  BY <1>1 DEF Next
<1>2. ASSUME NEW j \in Jobs,
             WriteInApp(j) \/ EnqueueDelivery(j) \/ EnqueueRefused(j) \/ RecordRefused(j)
      PROVE  [Next]_vars
  <2>1. Enqueue(j) \/ UNCHANGED vars
    BY <1>2 DEF WriteInApp, EnqueueDelivery, EnqueueRefused, RecordRefused
  <2> QED BY <2>1 DEF Next
<1>3. ASSUME NEW w \in Workers, QueueStep(w) \/ ProcessEnds(w) \/ BeginDeliver(w)
                                \/ DeliverReturns(w) \/ DeliverThrows(w)
      PROVE  Next
  BY <1>3 DEF QueueStep, ProcessEnds, BeginDeliver, DeliverReturns, DeliverThrows, Next
<1>4. ASSUME NEW w \in Workers,
             ClaimDelivery(w) \/ ReadRecipient(w) \/ Dispatch(w) \/ RecordOutcome(w)
      PROVE  UNCHANGED vars
  BY <1>4 DEF ClaimDelivery, ReadRecipient, Dispatch, RecordOutcome
<1> QED BY <1>1, <1>2, <1>3, <1>4 DEF NotifyNext

(* Delivery implements the queue's specification: JobQueue is all it uses. *)
THEOREM DeliveryUsesTheQueue == NotifySpec => Spec
<1>1. NotifyInit => Init BY DEF NotifyInit
<1> QED BY <1>1, QueueSteps, PTL DEF NotifySpec, Spec

(* A handler about to record `delivered` has had the message taken.        *)
DeliverInv ==
    /\ NotifyInv
    /\ \A w \in Workers : stage[w] = "delivered" => mails[held[w].job] > 0
    /\ DeliveredIsTrue

(* Nothing is running, claimed or sent at the start.                       *)
LEMMA InitDeliverInv == NotifyInit => DeliverInv
BY DEF NotifyInit, Init, DeliverInv, NotifyInv, NotifyTypeOK, DeliveredIsTrue, Markers, Stages,
       Unlocked

(* No queue step of a worker touches a handler in progress, and no worker  *)
(* other than the one that steps is touched at all.                        *)
LEMMA QueueStepEffect ==
    ASSUME QueueInv, QueueInv', NEW w \in Workers, QueueStep(w), NEW v \in Workers
    PROVE  /\ pc'[v] = "running" <=> pc[v] = "running"
           /\ pc[v] = "running" => held'[v] = held[v]
<1>0. pc \in [Workers -> Steps] /\ held \in [Workers -> Leases \cup {NoLease}]
  BY DEF QueueInv, TypeOK
<1>1. CASE v # w
  BY <1>0, <1>1 DEF QueueStep, Start, Sigterm, LoopEnds, Reap, SkipClaim, Claim, NothingToClaim,
                    Release, Succeed, Fail, OnTick, Goto, Drop
<1>2. CASE v = w
  BY <1>0, <1>2 DEF QueueStep, Start, Sigterm, LoopEnds, Reap, SkipClaim, Claim, NothingToClaim,
                    Release, Succeed, Fail, OnTick, Goto, Drop
<1> QED BY <1>1, <1>2

(* No queue step of a worker creates a job.                                *)
LEMMA QueueStepRows ==
    ASSUME QueueInv, NEW w \in Workers, QueueStep(w), NEW j \in Jobs, row[j].status = "absent"
    PROVE  row'[j].status = "absent"
<1>0. row \in [Jobs -> Rows] BY DEF QueueInv, TypeOK
<1>1. CASE Reap(w)
  <2>1. Reaped(Clock(w))[j] = row[j] BY DEF Reaped, Stuck
  <2> QED BY <1>1, <2>1 DEF Reap, Answered, Errored
<1>2. CASE Claim(w)
  <2>1. PICK k \in NextJobs(w, Clock(w)) :
          row' = row \/ row' = [row EXCEPT ![k] = ClaimedRow(k, w, Clock(w))]
    BY <1>2 DEF Claim, Answered, Errored
  <2>2. k # j BY <2>1 DEF NextJobs, Claimable
  <2> QED BY <1>0, <2>1, <2>2
<1>3. ASSUME NEW r, pc[w] \in Holding, row' = row \/ row' = Fenced(w, r)
      PROVE  row'[j].status = "absent"
  <2>1. held[w] # NoLease /\ row[held[w].job].status # "absent"
    BY <1>3 DEF QueueInv
  <2> QED BY <1>0, <1>3, <2>1 DEF Fenced
<1>4. CASE Release(w)
  <2>1. PICK r : row' = row \/ row' = Fenced(w, r)
    BY <1>4 DEF Release, Answered, Errored
  <2> QED BY <1>3, <1>4, <2>1 DEF Release, Holding
<1>5. CASE Succeed(w)
  <2>1. PICK r : row' = row \/ row' = Fenced(w, r)
    BY <1>5 DEF Succeed, Answered, Errored
  <2> QED BY <1>3, <1>5, <2>1 DEF Succeed, Holding
<1>6. CASE Fail(w)
  <2>1. PICK r : row' = row \/ row' = Fenced(w, r)
    BY <1>6 DEF Fail, Answered, Errored
  <2> QED BY <1>3, <1>6, <2>1 DEF Fail, Holding
<1>7. CASE OnTick(w)
  <2>1. \A S : S \subseteq Recurring \cap Handles[w] => Enqueued(S, 0) = row
    BY <1>0, DeliveryAssumption DEF Enqueued
  <2> QED BY <1>7, <2>1 DEF OnTick, Answered, Errored
<1>8. CASE Start(w) \/ Sigterm(w) \/ LoopEnds(w) \/ SkipClaim(w) \/ NothingToClaim(w)
  BY <1>8 DEF Start, Sigterm, LoopEnds, SkipClaim, NothingToClaim
<1> QED BY <1>1, <1>2, <1>4, <1>5, <1>6, <1>7, <1>8 DEF QueueStep

(* Steps outside the handler keep the invariant: time, the sender, the     *)
(* queue's own steps, and the two ways a process ends.                     *)
LEMMA OutsideStep ==
    ASSUME QueueInv, QueueInv', DeliverInv,
           \/ TimePasses /\ UNCHANGED notifyVars
           \/ \E j \in Jobs : WriteInApp(j) \/ EnqueueDelivery(j) \/ EnqueueRefused(j) \/ RecordRefused(j)
           \/ \E w \in Workers : QueueStep(w) \/ ProcessEnds(w)
    PROVE  DeliverInv'
<1> USE DEF DeliverInv, NotifyInv
<1>0. /\ row \in [Jobs -> Rows] /\ pc \in [Workers -> Steps]
      /\ held \in [Workers -> Leases \cup {NoLease}] /\ NotifyTypeOK
  BY DEF QueueInv, TypeOK
<1>1. CASE TimePasses /\ UNCHANGED notifyVars
  BY <1>1 DEF TimePasses, notifyVars, NotifyTypeOK, DeliveredIsTrue
<1>2. ASSUME NEW j \in Jobs, WriteInApp(j) PROVE DeliverInv'
  BY <1>0, <1>2 DEF WriteInApp, Sender, vars, NotifyTypeOK, DeliveredIsTrue
<1>3. ASSUME NEW j \in Jobs, EnqueueDelivery(j) PROVE DeliverInv'
  <2>1. \A k \in Jobs : k # j => row'[k].status = row[k].status
    <3>1. PICK at : row' = Enqueued({j}, at) BY <1>3 DEF EnqueueDelivery, Enqueue
    <3> QED BY <3>1 DEF Enqueued
  <2>2. sender[j] # "new" /\ sender'[j] # "new" /\ (\A k \in Jobs : k # j => sender'[k] = sender[k])
        /\ sender' \in [Jobs -> {"new", "written", "refused", "done"}]
    BY <1>0, <1>3 DEF EnqueueDelivery, Sender, NotifyTypeOK
  <2>3. UNCHANGED <<pc, held, marker, stage, errors, mails, muddled>>
    BY <1>3 DEF EnqueueDelivery, Enqueue
  <2>4. \A k \in Jobs : row'[k].status # "absent" \/ marker'[k].outcome # "none" => sender'[k] # "new"
    BY <2>1, <2>2, <2>3
  <2> QED BY <1>0, <2>2, <2>3, <2>4 DEF NotifyTypeOK, DeliveredIsTrue
<1>4. ASSUME NEW j \in Jobs, EnqueueRefused(j) PROVE DeliverInv'
  BY <1>0, <1>4 DEF EnqueueRefused, Sender, vars, NotifyTypeOK, DeliveredIsTrue
<1>5. ASSUME NEW j \in Jobs, RecordRefused(j) PROVE DeliverInv'
  <2>1. /\ marker' \in [Jobs -> Markers]
        /\ marker'[j].outcome = "dead_letter"
        /\ \A k \in Jobs : k # j => marker'[k] = marker[k] /\ sender'[k] = sender[k]
    BY <1>0, <1>5 DEF RecordRefused, Sender, NotifyTypeOK, Markers, Outcomes
  <2>2. sender' \in [Jobs -> {"new", "written", "refused", "done"}] /\ sender'[j] = "done"
    BY <1>0, <1>5 DEF RecordRefused, Sender, NotifyTypeOK
  <2>3. UNCHANGED <<row, pc, held, stage, errors, mails, muddled>>
    BY <1>5 DEF RecordRefused, vars
  <2>4. DeliveredIsTrue' BY <2>1, <2>3 DEF DeliveredIsTrue
  <2> QED BY <1>0, <2>1, <2>2, <2>3, <2>4 DEF NotifyTypeOK
<1>6. ASSUME NEW w \in Workers, QueueStep(w) PROVE DeliverInv'
  <2>1. UNCHANGED <<sender, marker, stage, errors, mails, muddled>>
    BY <1>6 DEF QueueStep, notifyVars
  <2>2. \A v \in Workers : (pc'[v] = "running" <=> pc[v] = "running")
                           /\ (pc[v] = "running" => held'[v] = held[v])
    BY <1>6, QueueStepEffect
  <2>3. \A j \in Jobs : row[j].status = "absent" => row'[j].status = "absent"
    BY <1>6, QueueStepRows
  <2>4. \A v \in Workers : stage'[v] = "delivered" => mails'[held'[v].job] > 0
    BY <2>1, <2>2
  <2> QED BY <1>0, <2>1, <2>2, <2>3, <2>4 DEF NotifyTypeOK, DeliveredIsTrue
<1>7. ASSUME NEW w \in Workers, ProcessEnds(w) PROVE DeliverInv'
  <2>1. UNCHANGED <<row, sender, marker, errors, mails, muddled>>
    BY <1>7 DEF ProcessEnds, Exit, Crash
  <2>2. /\ pc' = [pc EXCEPT ![w] = "down"] /\ held' = [held EXCEPT ![w] = NoLease]
        /\ stage' = [stage EXCEPT ![w] = "none"]
    BY <1>7 DEF ProcessEnds, Exit, Crash, MemoryLost, Goto, Drop, Moves
  <2>3. stage' \in [Workers -> Stages] BY <1>0, <2>2 DEF NotifyTypeOK, Stages
  <2>4. \A v \in Workers : stage'[v] # "none" <=> pc'[v] = "running"
    BY <1>0, <2>2 DEF NotifyTypeOK
  <2>5. \A v \in Workers : stage'[v] = "delivered" => mails'[held'[v].job] > 0
    BY <1>0, <2>1, <2>2 DEF NotifyTypeOK
  <2> QED BY <1>0, <2>1, <2>3, <2>4, <2>5 DEF NotifyTypeOK, DeliveredIsTrue
<1> QED BY <1>1, <1>2, <1>3, <1>4, <1>5, <1>6, <1>7

(* The handler's steps keep it: a message is taken before `delivered` is   *)
(* written, and only the worker that steps moves.                          *)
LEMMA HandlerStep ==
    ASSUME QueueInv, QueueInv', DeliverInv, NEW w \in Workers,
           \/ BeginDeliver(w) \/ ClaimDelivery(w) \/ ReadRecipient(w) \/ Dispatch(w)
           \/ RecordOutcome(w) \/ DeliverReturns(w) \/ DeliverThrows(w)
    PROVE  DeliverInv'
<1> USE DEF DeliverInv, NotifyInv
<1>0. /\ pc \in [Workers -> Steps] /\ held \in [Workers -> Leases \cup {NoLease}]
      /\ NotifyTypeOK
  BY DEF QueueInv, TypeOK
<1> DEFINE j == held[w].job
<1>1. pc[w] = "running" => j \in Jobs /\ row[j].status # "absent" /\ sender[j] # "new"
  <2>1. pc[w] = "running" => held[w] # NoLease BY DEF QueueInv, Holding
  <2>2. held[w] # NoLease => j \in Jobs BY <1>0 DEF Leases
  <2>3. held[w] # NoLease => row[j].status # "absent" BY DEF QueueInv
  <2> QED BY <2>1, <2>2, <2>3
(* A step of w's handler that leaves the queue alone. *)
<1>2. ASSUME UNCHANGED <<vars, sender>>, pc[w] = "running",
             NEW to \in Stages \ {"none"}, stage' = [stage EXCEPT ![w] = to],
             marker' \in [Jobs -> Markers], mails' \in [Jobs -> Nat],
             errors' \in Nat, muddled' \subseteq Jobs,
             \A k \in Jobs : k # j => marker'[k] = marker[k],
             \A k \in Jobs : mails'[k] >= mails[k],
             to = "delivered" => mails'[j] > 0,
             marker'[j].outcome = "delivered" => mails'[j] > 0
      PROVE  DeliverInv'
  <2>1. stage' \in [Workers -> Stages] BY <1>0, <1>2 DEF NotifyTypeOK
  <2>2. \A v \in Workers : stage'[v] # "none" <=> pc'[v] = "running"
    BY <1>0, <1>2 DEF NotifyTypeOK, vars
  <2>3. \A v \in Workers : stage'[v] = "delivered" => mails'[held'[v].job] > 0
    <3> SUFFICES ASSUME NEW v \in Workers, v # w, stage[v] = "delivered"
                 PROVE  mails'[held[v].job] > 0
      BY <1>0, <1>2 DEF NotifyTypeOK, vars
    <3>1. pc[v] = "running" OBVIOUS
    <3>2. held[v].job \in Jobs BY <1>0, <3>1 DEF QueueInv, Holding, Leases
    <3>3. mails[held[v].job] > 0 OBVIOUS
    <3> QED BY <1>0, <1>2, <3>2, <3>3 DEF NotifyTypeOK
  <2>4. DeliveredIsTrue'
    <3> SUFFICES ASSUME NEW k \in Jobs, k # j, marker'[k].outcome = "delivered" PROVE mails'[k] > 0
      BY <1>2 DEF DeliveredIsTrue
    <3>1. marker[k].outcome = "delivered" BY <1>2
    <3>2. mails[k] > 0 BY <3>1 DEF DeliveredIsTrue
    <3> QED BY <1>0, <1>2, <3>2 DEF NotifyTypeOK
  <2>5. \A k \in Jobs : row'[k].status # "absent" \/ marker'[k].outcome # "none" => sender'[k] # "new"
    BY <1>1, <1>2 DEF vars
  <2> QED BY <1>0, <1>2, <2>1, <2>2, <2>3, <2>4, <2>5 DEF NotifyTypeOK
(* A step that starts or ends w's handler. *)
<1>3. ASSUME UNCHANGED <<row, held, sender, marker, errors, mails, muddled>>,
             NEW to \in {"claim", "none"}, stage' = [stage EXCEPT ![w] = to],
             NEW step \in Steps, pc' = [pc EXCEPT ![w] = step],
             to = "claim" <=> step = "running"
      PROVE  DeliverInv'
  <2>1. stage' \in [Workers -> Stages] BY <1>0, <1>3 DEF NotifyTypeOK, Stages
  <2>2. \A v \in Workers : stage'[v] # "none" <=> pc'[v] = "running"
    BY <1>0, <1>3 DEF NotifyTypeOK
  <2>3. \A v \in Workers : stage'[v] = "delivered" => mails'[held'[v].job] > 0
    BY <1>0, <1>3 DEF NotifyTypeOK
  <2> QED BY <1>0, <1>3, <2>1, <2>2, <2>3 DEF NotifyTypeOK, DeliveredIsTrue
<1>4. CASE BeginDeliver(w)
  <2>1. CASE stopping[w]
    <3>1. pc' = [pc EXCEPT ![w] = "release"] BY <1>4, <2>1 DEF BeginDeliver, Receive, Goto
    <3>2. stage' = [stage EXCEPT ![w] = "none"]
      BY <1>0, <1>4, <3>1 DEF BeginDeliver, Moves
    <3>3. UNCHANGED <<row, held, sender, marker, errors, mails, muddled>>
      BY <1>4 DEF BeginDeliver, Receive
    <3>4. "release" \in Steps BY DEF Steps
    <3> QED BY <1>3, <3>1, <3>2, <3>3, <3>4
  <2>2. CASE ~stopping[w]
    <3>1. pc' = [pc EXCEPT ![w] = "running"] BY <1>4, <2>2 DEF BeginDeliver, Receive, Goto
    <3>2. stage' = [stage EXCEPT ![w] = "claim"]
      BY <1>0, <1>4, <3>1 DEF BeginDeliver, Moves
    <3>3. UNCHANGED <<row, held, sender, marker, errors, mails, muddled>>
      BY <1>4 DEF BeginDeliver, Receive
    <3>4. "running" \in Steps BY DEF Steps
    <3> QED BY <1>3, <3>1, <3>2, <3>3, <3>4
  <2> QED BY <2>1, <2>2
<1>5. CASE DeliverReturns(w) \/ DeliverThrows(w)
  <2>1. stage' = [stage EXCEPT ![w] = "none"]
    BY <1>5 DEF DeliverReturns, DeliverThrows, Moves
  <2>2. \E step \in {"succeeding", "failing"} : pc' = [pc EXCEPT ![w] = step]
    BY <1>5 DEF DeliverReturns, DeliverThrows, HandlerReturns, HandlerThrows, Goto
  <2>3. UNCHANGED <<row, held, sender, marker, errors, mails, muddled>>
    BY <1>5 DEF DeliverReturns, DeliverThrows, HandlerReturns, HandlerThrows
  <2>4. {"succeeding", "failing"} \subseteq Steps \ {"running"} BY DEF Steps
  <2> QED BY <1>3, <2>1, <2>2, <2>3, <2>4
<1>6. CASE ClaimDelivery(w)
  <2>1. pc[w] = "running" BY <1>6 DEF ClaimDelivery
  <2>2. Clock(w) \in Int BY SkewAssumption DEF Clock, QueueInv, TypeOK
  <2>3. PICK to \in {"send", "return", "throw"} : stage' = [stage EXCEPT ![w] = to]
    BY <1>6 DEF ClaimDelivery, HandlerError, Moves
  <2>4. marker' \in {marker, [marker EXCEPT ![j] = [outcome |-> "in_progress", claimedAt |-> Clock(w)]]}
    BY <1>6 DEF ClaimDelivery
  <2>5. marker' \in [Jobs -> Markers] BY <1>0, <2>2, <2>4 DEF NotifyTypeOK, Markers
  <2>6. \A k \in Jobs : k # j => marker'[k] = marker[k] BY <1>0, <2>4 DEF NotifyTypeOK
  <2>7. errors' \in Nat /\ muddled' \subseteq Jobs /\ UNCHANGED <<vars, sender, mails>>
    BY <1>0, <1>1, <1>6, <2>1 DEF ClaimDelivery, HandlerError, NotifyTypeOK
  <2>8. marker'[j].outcome = "delivered" => mails'[j] > 0
    BY <1>0, <1>1, <2>1, <2>4, <2>7 DEF NotifyTypeOK, DeliveredIsTrue
  <2>9. to \in Stages \ {"none"} /\ to # "delivered" BY <2>3 DEF Stages
  <2>10. mails' \in [Jobs -> Nat] /\ \A k \in Jobs : mails'[k] >= mails[k]
    BY <1>0, <2>7 DEF NotifyTypeOK
  <2> QED BY <1>2, <2>1, <2>3, <2>5, <2>6, <2>7, <2>8, <2>9, <2>10
<1>7. CASE ReadRecipient(w)
  <2>1. pc[w] = "running" BY <1>7 DEF ReadRecipient
  <2>2. PICK to \in {"undelivered", "throw"} : stage' = [stage EXCEPT ![w] = to]
    BY <1>7 DEF ReadRecipient, HandlerError, Moves
  <2>3. errors' \in Nat /\ UNCHANGED <<vars, sender, marker, mails, muddled>>
    BY <1>0, <1>7 DEF ReadRecipient, HandlerError, NotifyTypeOK
  <2>4. to \in Stages \ {"none"} /\ to # "delivered" BY <2>2 DEF Stages, Outcomes
  <2>5. mails' \in [Jobs -> Nat] /\ (\A k \in Jobs : mails'[k] >= mails[k])
        /\ marker' \in [Jobs -> Markers] /\ muddled' \subseteq Jobs
    BY <1>0, <2>3 DEF NotifyTypeOK
  <2>6. marker'[j].outcome = "delivered" => mails'[j] > 0
    BY <1>1, <2>1, <2>3 DEF DeliveredIsTrue
  <2> QED BY <1>2, <2>1, <2>2, <2>3, <2>4, <2>5, <2>6
<1>8. CASE Dispatch(w)
  <2>1. pc[w] = "running" BY <1>8 DEF Dispatch
  <2>2. PICK to \in {"delivered", "failed", "dead_letter"} : stage' = [stage EXCEPT ![w] = to]
    BY <1>8 DEF Dispatch, NotSent, Moves
  <2>3. UNCHANGED <<vars, sender, marker>> /\ errors' \in Nat /\ muddled' \subseteq Jobs
    BY <1>0, <1>1, <1>8, <2>1 DEF Dispatch, NotifyTypeOK
  <2>4. mails' \in {mails, [mails EXCEPT ![j] = @ + 1]} BY <1>8 DEF Dispatch
  <2>5. mails' \in [Jobs -> Nat] /\ \A k \in Jobs : mails'[k] >= mails[k]
    BY <1>0, <1>1, <2>1, <2>4 DEF NotifyTypeOK
  <2>6. to = "delivered" => mails'[j] > 0
    <3>1. to = "delivered" => mails' = [mails EXCEPT ![j] = @ + 1]
      <4>1. stage'[w] = to BY <1>0, <2>2 DEF NotifyTypeOK
      <4> QED BY <1>0, <1>8, <4>1 DEF Dispatch, NotSent, Moves, NotifyTypeOK
    <3> QED BY <1>0, <1>1, <2>1, <3>1 DEF NotifyTypeOK
  <2>7. marker'[j].outcome = "delivered" => mails'[j] > 0
    BY <1>0, <1>1, <2>1, <2>3, <2>5 DEF DeliveredIsTrue, NotifyTypeOK
  <2>8. to \in Stages \ {"none"} BY <2>2 DEF Stages, Outcomes
  <2>9. marker' \in [Jobs -> Markers] BY <1>0, <2>3 DEF NotifyTypeOK
  <2> QED BY <1>2, <2>1, <2>2, <2>3, <2>5, <2>6, <2>7, <2>8, <2>9
<1>9. CASE RecordOutcome(w)
  <2>1. pc[w] = "running" /\ stage[w] \in Outcomes
    BY <1>9 DEF RecordOutcome, Outcomes
  <2>2. PICK to \in {"return", "throw"} : stage' = [stage EXCEPT ![w] = to]
    BY <1>9 DEF RecordOutcome, HandlerError, Moves
  <2>3. UNCHANGED <<vars, sender, mails, muddled>> /\ errors' \in Nat
    BY <1>0, <1>9 DEF RecordOutcome, HandlerError, NotifyTypeOK
  <2>4. marker' \in {marker, [marker EXCEPT ![j].outcome = stage[w]]}
    BY <1>9 DEF RecordOutcome
  <2>5. marker' \in [Jobs -> Markers] BY <1>0, <2>1, <2>4 DEF NotifyTypeOK, Markers
  <2>6. \A k \in Jobs : k # j => marker'[k] = marker[k] BY <1>0, <2>4 DEF NotifyTypeOK
  <2>7. marker'[j].outcome = "delivered" => mails'[j] > 0
    <3>1. CASE marker' = marker BY <1>1, <2>1, <2>3, <3>1 DEF DeliveredIsTrue
    <3>2. CASE marker' = [marker EXCEPT ![j].outcome = stage[w]]
      <4>1. marker'[j].outcome = stage[w] BY <1>0, <1>1, <2>1, <3>2 DEF NotifyTypeOK, Markers
      <4> QED BY <2>3, <4>1
    <3> QED BY <2>4, <3>1, <3>2
  <2>8. to \in Stages \ {"none"} /\ to # "delivered" BY <2>2 DEF Stages
  <2>9. mails' \in [Jobs -> Nat] /\ (\A k \in Jobs : mails'[k] >= mails[k]) /\ muddled' \subseteq Jobs
    BY <1>0, <2>3 DEF NotifyTypeOK
  <2> QED BY <1>2, <2>1, <2>2, <2>3, <2>5, <2>6, <2>7, <2>8, <2>9
<1> QED BY <1>4, <1>5, <1>6, <1>7, <1>8, <1>9

(* The invariant holds in every reachable state, with the queue's beside it. *)
LEMMA DeliverInvariance == NotifySpec => [](QueueInv /\ DeliverInv)
<1>1. QueueInv /\ QueueInv' /\ DeliverInv /\ [NotifyNext]_<<vars, notifyVars>> => DeliverInv'
  <2> SUFFICES ASSUME QueueInv, QueueInv', DeliverInv, [NotifyNext]_<<vars, notifyVars>>
               PROVE  DeliverInv'
    OBVIOUS
  <2>1. CASE UNCHANGED <<vars, notifyVars>>
    BY <2>1 DEF vars, notifyVars, DeliverInv, NotifyInv, NotifyTypeOK, DeliveredIsTrue
  <2>2. CASE NotifyNext
    <3>1. CASE \/ TimePasses /\ UNCHANGED notifyVars
               \/ \E j \in Jobs : WriteInApp(j) \/ EnqueueDelivery(j) \/ EnqueueRefused(j) \/ RecordRefused(j)
               \/ \E w \in Workers : QueueStep(w) \/ ProcessEnds(w)
      BY <3>1, OutsideStep
    <3>2. ASSUME NEW w \in Workers,
                 \/ BeginDeliver(w) \/ ClaimDelivery(w) \/ ReadRecipient(w) \/ Dispatch(w)
                 \/ RecordOutcome(w) \/ DeliverReturns(w) \/ DeliverThrows(w)
          PROVE  DeliverInv'
      BY <3>2, HandlerStep
    <3> QED BY <2>2, <3>1, <3>2 DEF NotifyNext
  <2> QED BY <2>1, <2>2
<1> QED BY <1>1, InitDeliverInv, DeliveryUsesTheQueue, QueueInvariant, PTL DEF NotifySpec

(* A queued job always finds its in-app row, handlers run exactly where    *)
(* the runner says, and no notification is marked delivered that no        *)
(* channel took.                                                           *)
THEOREM DeliveredMeansTaken == NotifySpec => []DeliveriesAreTrue
<1>1. DeliverInv => DeliveriesAreTrue BY DEF DeliverInv, DeliveriesAreTrue
<1> QED BY <1>1, DeliverInvariance, PTL

(* Until a notification is muddled it has one sender at a time; it can be  *)
(* claimed, or is settled as delivered, only while it has none; and once a *)
(* channel has taken it, its marker keeps every other claim out.           *)
SendsOf(w, j) == stage[w] \in Sending /\ held[w].job = j

Sole(j) ==
    j \notin muddled =>
      /\ mails[j] <= 1
      /\ mails[j] > 0 => marker[j].outcome \notin {"none", "failed"}
      /\ \A w \in Workers : SendsOf(w, j) => marker[j].outcome \notin {"none", "failed", "delivered"}
      /\ \A w, v \in Workers : SendsOf(w, j) /\ SendsOf(v, j) => w = v
      /\ \A w \in Workers : SendsOf(w, j) /\ stage[w] # "delivered" => mails[j] = 0

SoleInv == \A j \in Jobs : Sole(j)

(* Nothing is sent at the start.                                           *)
LEMMA InitSoleInv == NotifyInit => SoleInv
BY DEF NotifyInit, SoleInv, Sole, SendsOf, Sending, Outcomes

(* A step that makes no sender keeps it, if markers and sends stay.        *)
LEMMA NoNewSender ==
    ASSUME SoleInv, UNCHANGED <<marker, mails, muddled>>,
           \A w \in Workers, j \in Jobs :
             SendsOf(w, j)' => SendsOf(w, j) /\ (stage[w] = "delivered" => stage'[w] = "delivered")
    PROVE  SoleInv'
<1> SUFFICES ASSUME NEW j \in Jobs PROVE Sole(j)'
  BY DEF SoleInv
<1>1. Sole(j) BY DEF SoleInv
<1> QED BY <1>1 DEF Sole

(* Every step keeps it.                                                    *)
LEMMA StepSoleInv == QueueInv /\ QueueInv' /\ DeliverInv /\ SoleInv /\ NotifyNext => SoleInv'
<1> SUFFICES ASSUME QueueInv, QueueInv', DeliverInv, SoleInv, NotifyNext PROVE SoleInv'
  OBVIOUS
<1>0. /\ pc \in [Workers -> Steps] /\ held \in [Workers -> Leases \cup {NoLease}]
      /\ NotifyTypeOK
      /\ \A w \in Workers : stage[w] # "none" <=> pc[w] = "running"
  BY DEF QueueInv, TypeOK, DeliverInv, NotifyInv
<1>01. \A w \in Workers : pc[w] = "running" => held[w].job \in Jobs
  <2>1. \A w \in Workers : pc[w] = "running" => held[w] # NoLease BY DEF QueueInv, Holding
  <2> QED BY <1>0, <2>1 DEF Leases
<1>1. CASE \/ TimePasses /\ UNCHANGED notifyVars
           \/ \E j \in Jobs : WriteInApp(j) \/ EnqueueDelivery(j) \/ EnqueueRefused(j)
  <2>1. UNCHANGED <<stage, held, marker, mails, muddled>>
    BY <1>1 DEF TimePasses, WriteInApp, EnqueueDelivery, Enqueue, EnqueueRefused, vars, notifyVars
  <2> QED BY <2>1, NoNewSender DEF SendsOf
<1>2. ASSUME NEW j \in Jobs, RecordRefused(j) PROVE SoleInv'
  <2> SUFFICES ASSUME NEW k \in Jobs PROVE Sole(k)'
    BY DEF SoleInv
  <2>1. UNCHANGED <<stage, held, mails, muddled>> BY <1>2 DEF RecordRefused, vars
  <2>2. marker'[k].outcome \in {marker[k].outcome, "dead_letter"}
    BY <1>0, <1>2 DEF RecordRefused, NotifyTypeOK, Markers
  <2>3. Sole(k) BY DEF SoleInv
  <2> QED BY <2>1, <2>2, <2>3 DEF Sole, SendsOf
<1>3. ASSUME NEW w \in Workers, QueueStep(w) PROVE SoleInv'
  <2>1. UNCHANGED <<stage, marker, mails, muddled>> BY <1>3 DEF QueueStep, notifyVars
  <2>2. \A v \in Workers : pc[v] = "running" => held'[v] = held[v]
    BY <1>3, QueueStepEffect
  <2>3. \A v \in Workers : stage[v] \in Sending => pc[v] = "running"
    BY <1>0 DEF Sending, Outcomes
  <2> QED BY <2>1, <2>2, <2>3, NoNewSender DEF SendsOf
<1>4. ASSUME NEW w \in Workers, \/ ProcessEnds(w) \/ BeginDeliver(w) \/ ReadRecipient(w)
                                \/ DeliverReturns(w) \/ DeliverThrows(w)
      PROVE  SoleInv'
  <2>1. UNCHANGED <<marker, mails, muddled>>
    BY <1>4 DEF ProcessEnds, BeginDeliver, ReadRecipient, DeliverReturns, DeliverThrows
  <2>2. PICK to \in {"none", "claim", "undelivered", "throw"} :
          /\ stage' = [stage EXCEPT ![w] = to]
          /\ to = "undelivered" => stage[w] = "send"
    BY <1>4 DEF ProcessEnds, BeginDeliver, ReadRecipient, HandlerError, DeliverReturns, DeliverThrows, Moves
  <2>3. \A v \in Workers : v # w => held'[v] = held[v]
    BY <1>0, <1>4 DEF ProcessEnds, Exit, Crash, MemoryLost, Drop, BeginDeliver, Receive, ReadRecipient,
                      DeliverReturns, HandlerReturns, DeliverThrows, HandlerThrows, vars
  <2>4. stage[w] = "send" => held'[w] = held[w] \/ to = "none"
    BY <1>0, <1>4, <2>2 DEF ProcessEnds, BeginDeliver, Receive, ReadRecipient, DeliverReturns, DeliverThrows,
                            HandlerReturns, HandlerThrows, vars, Moves, NotifyTypeOK
  <2>5. \A v \in Workers, j \in Jobs :
          SendsOf(v, j)' => SendsOf(v, j) /\ (stage[v] = "delivered" => stage'[v] = "delivered")
    <3> SUFFICES ASSUME NEW v \in Workers, NEW j \in Jobs, SendsOf(v, j)'
                 PROVE  SendsOf(v, j) /\ (stage[v] = "delivered" => stage'[v] = "delivered")
      OBVIOUS
    <3>1. CASE v = w BY <1>0, <2>2, <2>4, <3>1 DEF SendsOf, Sending, Outcomes, NotifyTypeOK
    <3>2. CASE v # w BY <1>0, <2>2, <2>3, <3>2 DEF SendsOf, NotifyTypeOK
    <3> QED BY <3>1, <3>2
  <2> QED BY <2>1, <2>5, NoNewSender
<1>5. ASSUME NEW w \in Workers, ClaimDelivery(w) PROVE SoleInv'
  <2> DEFINE j == held[w].job
  <2>1. j \in Jobs /\ UNCHANGED <<held, mails>> /\ stage[w] = "claim"
    BY <1>0, <1>01, <1>5 DEF ClaimDelivery, vars
  <2>2. PICK to \in {"send", "return", "throw"} : stage' = [stage EXCEPT ![w] = to]
    BY <1>5 DEF ClaimDelivery, HandlerError, Moves
  <2>3. \A v \in Workers, k \in Jobs :
          SendsOf(v, k)' => (SendsOf(v, k) /\ stage'[v] = stage[v])
                            \/ (v = w /\ k = j /\ to = "send" /\ stage'[v] = "send")
    <3> SUFFICES ASSUME NEW v \in Workers, NEW k \in Jobs, SendsOf(v, k)'
                 PROVE  (SendsOf(v, k) /\ stage'[v] = stage[v])
                        \/ (v = w /\ k = j /\ to = "send" /\ stage'[v] = "send")
      OBVIOUS
    <3>1. CASE v = w
      BY <1>0, <2>1, <2>2, <3>1 DEF SendsOf, Sending, Outcomes, NotifyTypeOK
    <3>2. CASE v # w
      BY <1>0, <2>1, <2>2, <3>2 DEF SendsOf, NotifyTypeOK
    <3> QED BY <3>1, <3>2
  <2>4. CASE ~Deliverable(marker[j], Clock(w))
    <3>1. to # "send"
      <4>1. stage'[w] \in {"return", "throw"}
        BY <1>0, <1>5, <2>4 DEF ClaimDelivery, HandlerError, Moves, NotifyTypeOK
      <4>2. stage'[w] = to BY <1>0, <2>2 DEF NotifyTypeOK
      <4> QED BY <4>1, <4>2
    <3>2. UNCHANGED <<marker, mails, muddled>> BY <1>5, <2>4 DEF ClaimDelivery
    <3> QED BY <2>3, <3>1, <3>2, NoNewSender
  <2>5. CASE Deliverable(marker[j], Clock(w))
    <3> SUFFICES ASSUME NEW k \in Jobs PROVE Sole(k)'
      BY DEF SoleInv
    <3>1. Sole(k) BY DEF SoleInv
    <3>2. CASE k # j
      <4>1. marker'[k] = marker[k] /\ (k \in muddled' <=> k \in muddled)
        BY <1>0, <1>5, <2>5, <3>2 DEF ClaimDelivery, NotifyTypeOK
      <4> QED BY <2>1, <2>3, <3>1, <3>2, <4>1 DEF Sole
    <3>3. CASE k = j
      <4>1. CASE marker' = marker
        <5>1. to # "send"
          <6>1. marker[j].outcome = "in_progress" => marker[j].claimedAt < Clock(w) - ClaimLock
            BY <2>5 DEF Deliverable, Stale
          <6>2. marker[j] # [outcome |-> "in_progress", claimedAt |-> Clock(w)]
            BY <6>1, ClaimAssumption, SkewAssumption DEF Clock, QueueInv, TypeOK
          <6>3. stage'[w] = "throw"
            BY <1>0, <1>5, <2>1, <2>5, <4>1, <6>2 DEF ClaimDelivery, HandlerError, Moves, NotifyTypeOK
          <6>4. stage'[w] = to BY <1>0, <2>2 DEF NotifyTypeOK
          <6> QED BY <6>3, <6>4
        <5>2. muddled \subseteq muddled' BY <1>5, <2>5 DEF ClaimDelivery
        <5> QED BY <2>1, <2>3, <3>1, <4>1, <5>1, <5>2 DEF Sole
      <4>2. CASE marker' = [marker EXCEPT ![j] = [outcome |-> "in_progress", claimedAt |-> Clock(w)]]
        <5>1. marker'[j].outcome = "in_progress" BY <1>0, <2>1, <4>2 DEF NotifyTypeOK
        <5>2. CASE marker[j].outcome = "in_progress"
          <6>1. j \in muddled' BY <1>5, <2>5, <4>2, <5>2 DEF ClaimDelivery, Deliverable, Stale
          <6> QED BY <3>3, <6>1 DEF Sole
        <5>3. CASE marker[j].outcome \in {"none", "failed"}
          <6>1. muddled' = muddled BY <1>5, <2>5, <5>3 DEF ClaimDelivery, Stale
          <6>2. j \notin muddled => mails[j] = 0 /\ \A v \in Workers : ~SendsOf(v, j)
            BY <1>0, <2>1, <3>1, <3>3, <5>3 DEF Sole, NotifyTypeOK
          <6> QED BY <2>1, <2>3, <3>3, <5>1, <6>1, <6>2 DEF Sole
        <5> QED BY <2>5, <5>2, <5>3 DEF Deliverable, Stale
      <4> QED BY <1>5, <2>5, <4>1, <4>2 DEF ClaimDelivery
    <3> QED BY <3>2, <3>3
  <2> QED BY <2>4, <2>5
<1>6. ASSUME NEW w \in Workers, Dispatch(w) PROVE SoleInv'
  <2> DEFINE j == held[w].job
  <2>1. j \in Jobs /\ UNCHANGED <<held, marker>> /\ SendsOf(w, j) /\ stage[w] = "send"
    BY <1>0, <1>01, <1>6 DEF Dispatch, vars, SendsOf, Sending
  <2>2. PICK to \in {"delivered", "failed", "dead_letter"} : stage' = [stage EXCEPT ![w] = to]
    BY <1>6 DEF Dispatch, NotSent, Moves
  <2>3. \A v \in Workers, k \in Jobs :
          SendsOf(v, k)' => SendsOf(v, k) /\ (v # w => stage'[v] = stage[v])
    BY <1>0, <2>1, <2>2 DEF SendsOf, NotifyTypeOK
  <2>4. \/ mails' = [mails EXCEPT ![j] = @ + 1] /\ stage'[w] = "delivered" /\ muddled' = muddled
        \/ mails' = mails /\ muddled' = muddled /\ stage'[w] # "delivered"
        \/ mails' = [mails EXCEPT ![j] = @ + 1] /\ muddled' = muddled \cup {j}
    BY <1>0, <1>6 DEF Dispatch, Moves, NotSent, NotifyTypeOK
  <2> SUFFICES ASSUME NEW k \in Jobs PROVE Sole(k)'
    BY DEF SoleInv
  <2>5. Sole(k) /\ mails[k] \in Nat BY <1>0 DEF SoleInv, NotifyTypeOK
  <2>6. CASE k # j
    <3>1. mails'[k] = mails[k] /\ (k \in muddled' <=> k \in muddled)
      BY <1>0, <2>4, <2>6 DEF NotifyTypeOK
    <3>2. ~SendsOf(w, k)' BY <2>1, <2>6 DEF SendsOf
    <3> QED BY <2>1, <2>3, <2>5, <3>1, <3>2 DEF Sole
  <2>7. CASE k = j
    <3>1. CASE mails' = [mails EXCEPT ![j] = @ + 1] /\ stage'[w] = "delivered" /\ muddled' = muddled
      <4>1. mails'[j] = mails[j] + 1 BY <1>0, <2>1, <3>1 DEF NotifyTypeOK
      <4> QED BY <2>1, <2>3, <2>5, <2>7, <3>1, <4>1 DEF Sole
    <3>2. CASE mails' = mails /\ muddled' = muddled /\ stage'[w] # "delivered"
      BY <2>1, <2>3, <2>5, <2>7, <3>2 DEF Sole
    <3>3. CASE muddled' = muddled \cup {j}
      BY <2>7, <3>3 DEF Sole
    <3> QED BY <2>4, <3>1, <3>2, <3>3
  <2> QED BY <2>6, <2>7
<1>7. ASSUME NEW w \in Workers, RecordOutcome(w) PROVE SoleInv'
  <2> DEFINE j == held[w].job
  <2>1. stage[w] \in Outcomes BY <1>7 DEF RecordOutcome
  <2>2. j \in Jobs /\ UNCHANGED <<held, mails, muddled>> /\ SendsOf(w, j)
    BY <1>0, <1>01, <1>7, <2>1 DEF RecordOutcome, vars, SendsOf, Sending, Outcomes
  <2>3. PICK to \in {"return", "throw"} : stage' = [stage EXCEPT ![w] = to]
    BY <1>7 DEF RecordOutcome, HandlerError, Moves
  <2>4. \A v \in Workers, k \in Jobs :
          SendsOf(v, k)' => v # w /\ SendsOf(v, k) /\ stage'[v] = stage[v]
    BY <1>0, <2>2, <2>3 DEF SendsOf, Sending, Outcomes, NotifyTypeOK
  <2>5. marker' \in {marker, [marker EXCEPT ![j].outcome = stage[w]]}
    BY <1>7 DEF RecordOutcome
  <2> SUFFICES ASSUME NEW k \in Jobs PROVE Sole(k)'
    BY DEF SoleInv
  <2>6. Sole(k) /\ mails[k] \in Nat BY <1>0 DEF SoleInv, NotifyTypeOK
  <2>7. CASE k # j
    <3>1. marker'[k] = marker[k] BY <1>0, <2>5, <2>7 DEF NotifyTypeOK
    <3> QED BY <2>2, <2>4, <2>6, <3>1 DEF Sole
  <2>8. CASE k = j
    <3>1. marker'[j].outcome \in {marker[j].outcome, stage[w]}
      BY <1>0, <2>2, <2>5 DEF NotifyTypeOK, Markers
    <3>2. j \notin muddled => \A v \in Workers : ~SendsOf(v, j)'
      BY <2>2, <2>4, <2>6, <2>8 DEF Sole
    <3>3. j \notin muddled /\ stage[w] = "failed" => mails[j] = 0
      BY <2>2, <2>6, <2>8 DEF Sole
    <3>4. stage[w] # "none" BY <2>1 DEF Outcomes
    <3> QED BY <2>2, <2>6, <2>8, <3>1, <3>2, <3>3, <3>4 DEF Sole
  <2> QED BY <2>7, <2>8
<1> QED BY <1>1, <1>2, <1>3, <1>4, <1>5, <1>6, <1>7 DEF NotifyNext

(* It holds in every reachable state.                                      *)
LEMMA SoleInvariance == NotifySpec => [](QueueInv /\ DeliverInv /\ SoleInv)
<1>1. QueueInv /\ QueueInv' /\ DeliverInv /\ SoleInv /\ [NotifyNext]_<<vars, notifyVars>> => SoleInv'
  <2>1. SoleInv /\ UNCHANGED <<vars, notifyVars>> => SoleInv'
    BY DEF vars, notifyVars, SoleInv, Sole, SendsOf
  <2> QED BY <2>1, StepSoleInv
<1> QED BY <1>1, InitSoleInv, DeliverInvariance, PTL DEF NotifySpec

(* A second message is always explained by a takeover or an unclear send.  *)
THEOREM SecondSend == NotifySpec => []SecondSendIsExplained
<1>1. DeliverInv /\ SoleInv => SecondSendIsExplained
  <2> SUFFICES ASSUME DeliverInv, SoleInv, NEW j \in Jobs, mails[j] > 1 PROVE j \in muddled
    BY DEF SecondSendIsExplained
  <2>1. Sole(j) /\ mails[j] \in Nat BY DEF SoleInv, DeliverInv, NotifyInv, NotifyTypeOK
  <2> QED BY <2>1 DEF Sole
<1> QED BY <1>1, SoleInvariance, PTL

(* A delivered notification stays so, although outcomes are not fenced.    *)
THEOREM DeliveredIsFinal == NotifySpec => DeliveredStays
<1> DEFINE Stays == \A j \in Jobs :
         marker[j].outcome = "delivered" /\ marker'[j] # marker[j]
           => j \in muddled \/ sender[j] = "refused"
<1>1. QueueInv /\ DeliverInv /\ SoleInv /\ [NotifyNext]_<<vars, notifyVars>> => [Stays]_<<vars, notifyVars>>
  <2> SUFFICES ASSUME QueueInv, DeliverInv, SoleInv, NotifyNext, NEW j \in Jobs,
                      marker[j].outcome = "delivered", marker'[j] # marker[j],
                      j \notin muddled, sender[j] # "refused"
               PROVE  FALSE
    OBVIOUS
  <2>0. marker \in [Jobs -> Markers] BY DEF DeliverInv, NotifyInv, NotifyTypeOK
  <2>1. \A w \in Workers : ~SendsOf(w, j) BY DEF SoleInv, Sole
  <2>2. ASSUME NEW k \in Jobs, RecordRefused(k) PROVE FALSE
    BY <2>0, <2>2 DEF RecordRefused
  <2>3. ASSUME NEW w \in Workers, ClaimDelivery(w) PROVE FALSE
    <3>1. CASE held[w].job = j
      <4>1. ~Deliverable(marker[held[w].job], Clock(w)) BY <3>1 DEF Deliverable, Stale
      <4> QED BY <2>3, <4>1 DEF ClaimDelivery
    <3>2. CASE held[w].job # j
      BY <2>0, <2>3, <3>2 DEF ClaimDelivery
    <3> QED BY <3>1, <3>2
  <2>4. ASSUME NEW w \in Workers, RecordOutcome(w) PROVE FALSE
    <3>1. held[w].job # j BY <2>1, <2>4 DEF RecordOutcome, SendsOf, Sending
    <3> QED BY <2>0, <2>4, <3>1 DEF RecordOutcome
  <2> QED BY <2>2, <2>3, <2>4
        DEF NotifyNext, TimePasses, notifyVars, WriteInApp, EnqueueDelivery, EnqueueRefused, QueueStep,
            ProcessEnds, BeginDeliver, ReadRecipient, Dispatch, DeliverReturns, DeliverThrows
<1> QED BY <1>1, SoleInvariance, PTL DEF NotifySpec, DeliveredStays
=============================================================================

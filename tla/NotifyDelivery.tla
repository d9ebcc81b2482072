--------------------------- MODULE NotifyDelivery ---------------------------
(***************************************************************************)
(* Remote delivery of notifications (modules/notify): sendNotification     *)
(* writes the in-app row and enqueues a job, and the handler of that job   *)
(* claims the notification, sends and records the outcome.  The job queue  *)
(* is JobQueue itself, with one job per notification: its runner calls the *)
(* handler, may run it twice, and may lose the process at any await.       *)
(***************************************************************************)
EXTENDS JobQueue

CONSTANTS
    ClaimLock,  \* CLAIM_LOCK_MS
    MaxErrors   \* bound: statements of handlers that fail, and unclear sends

ASSUME ClaimAssumption == ClaimLock \in Nat /\ MaxErrors \in Nat

\* Delivery jobs are enqueued by sendNotification, never by the scheduler.
ASSUME DeliveryAssumption == Recurring = {}

VARIABLES
    sender,  \* sender[j]: how far sendNotification got for notification j
    marker,  \* marker[j]: `_delivery` in the row of notification j
    stage,   \* stage[w]: the await the handler of w stands at
    errors,  \* failed statements and unclear sends so far
    mails,   \* history: how often the channel took notification j
    muddled  \* history: j was taken over from a stale claim, or a send of j
             \* failed although the channel had taken it

notifyVars == <<sender, marker, stage, errors, mails, muddled>>

Outcomes == {"failed", "delivered", "undelivered", "dead_letter"}
Markers == [outcome : Outcomes \cup {"none", "in_progress"}, claimedAt : Int]
Stages == {"none", "claim", "send", "return", "throw"} \cup Outcomes
Sending == {"send"} \cup Outcomes

NotifyTypeOK ==
    /\ sender \in [Jobs -> {"new", "written", "refused", "done"}]
    /\ marker \in [Jobs -> Markers]
    /\ stage \in [Workers -> Stages]
    /\ errors \in Nat
    /\ mails \in [Jobs -> Nat]
    /\ muddled \subseteq Jobs

NotifyInit ==
    /\ Init
    /\ sender = [j \in Jobs |-> "new"]
    /\ marker = [j \in Jobs |-> [outcome |-> "none", claimedAt |-> 0]]
    /\ stage = [w \in Workers |-> "none"]
    /\ errors = 0
    /\ mails = [j \in Jobs |-> 0]
    /\ muddled = {}

Moves(w, to) == stage' = [stage EXCEPT ![w] = to]
Sender(j, to) == sender' = [sender EXCEPT ![j] = to]

-----------------------------------------------------------------------------
(* sendNotification.  It can stop after any step: nothing retries it.      *)
WriteInApp(j) ==
    /\ sender[j] = "new"
    /\ Sender(j, "written")
    /\ UNCHANGED <<vars, marker, stage, errors, mails, muddled>>

\* The insert may have committed although enqueue throws.
EnqueueDelivery(j) ==
    /\ sender[j] = "written"
    /\ Enqueue(j)
    /\ \/ Sender(j, "done")
       \/ Sender(j, "refused")
    /\ UNCHANGED <<marker, stage, errors, mails, muddled>>

EnqueueRefused(j) ==
    /\ sender[j] = "written"
    /\ Sender(j, "refused")
    /\ UNCHANGED <<vars, marker, stage, errors, mails, muddled>>

\* Its own catch: the marker is written whatever it says by now.
RecordRefused(j) ==
    /\ sender[j] = "refused"
    /\ Sender(j, "done")
    /\ marker' = [marker EXCEPT ![j].outcome = "dead_letter"]
    /\ UNCHANGED <<vars, stage, errors, mails, muddled>>

-----------------------------------------------------------------------------
(* deliver and dispatchRemote, between the runner's Receive and its        *)
(* HandlerReturns or HandlerThrows.                                        *)
BeginDeliver(w) ==
    /\ Receive(w)
    /\ Moves(w, IF pc'[w] = "running" THEN "claim" ELSE "none")
    /\ UNCHANGED <<sender, marker, errors, mails, muddled>>

\* A claim that CLAIM_LOCK_MS has run out on.
Stale(m, t) == m.outcome = "in_progress" /\ m.claimedAt < t - ClaimLock

\* Faulty: a claim whatever the marker says.
DeliverableBusy(m, t) == m.outcome \in {"none", "failed", "in_progress"}

\* Faulty: a claim that only looks for another one in progress.
DeliverableSettled(m, t) == m.outcome # "in_progress" \/ m.claimedAt < t - ClaimLock

\* The condition of claimDelivery's update.
Deliverable(m, t) == m.outcome \in {"none", "failed"} \/ Stale(m, t)

\* A failing statement of the handler throws out of it.
HandlerError(w) ==
    /\ errors < MaxErrors
    /\ errors' = errors + 1
    /\ Moves(w, "throw")

ClaimDelivery(w) ==
    LET j == held[w].job
        claimed == [marker EXCEPT ![j] = [outcome |-> "in_progress", claimedAt |-> Clock(w)]] IN
    /\ stage[w] = "claim"
    /\ IF Deliverable(marker[j], Clock(w))
         THEN /\ \/ marker' = claimed /\ Moves(w, "send") /\ UNCHANGED errors
                 \/ marker' \in {marker, claimed} /\ HandlerError(w)
              /\ muddled' = IF Stale(marker[j], Clock(w)) /\ marker' = claimed
                              THEN muddled \cup {j} ELSE muddled
         ELSE /\ \/ Moves(w, "return") /\ UNCHANGED errors
                 \/ HandlerError(w)
              /\ UNCHANGED <<marker, muddled>>
    /\ UNCHANGED <<vars, sender, mails>>

\* The recipient and the preferences are read: the read can fail, and the
\* account can be gone.
ReadRecipient(w) ==
    /\ stage[w] = "send"
    /\ \/ HandlerError(w)
       \/ Moves(w, "undelivered") /\ UNCHANGED errors
    /\ UNCHANGED <<vars, sender, marker, mails, muddled>>

NotSent(w) == IF held[w].attempts >= MaxAttempts THEN "dead_letter" ELSE "failed"

\* Faulty: the outcome of the dispatch is not looked at.
DispatchBlindly(w) ==
    LET j == held[w].job IN
    /\ stage[w] = "send"
    /\ Moves(w, "delivered")
    /\ mails' \in {mails, [mails EXCEPT ![j] = @ + 1]}
    /\ UNCHANGED <<vars, sender, marker, errors, muddled>>

\* The channel takes the message, or nothing lands, or it takes the message and
\* the answer is lost (the dispatcher turns a channel's error into a failure).
Dispatch(w) ==
    LET j == held[w].job
        taken == [mails EXCEPT ![j] = @ + 1] IN
    /\ stage[w] = "send"
    /\ \/ mails' = taken /\ Moves(w, "delivered") /\ UNCHANGED <<errors, muddled>>
       \/ Moves(w, NotSent(w)) /\ UNCHANGED <<mails, errors, muddled>>
       \/ /\ errors < MaxErrors
          /\ errors' = errors + 1
          /\ mails' = taken
          /\ muddled' = muddled \cup {j}
          /\ Moves(w, NotSent(w))
    /\ UNCHANGED <<vars, sender, marker>>

\* recordDeliveryOutcome: by id alone, whoever has claimed the notification now.
RecordOutcome(w) ==
    LET settled == [marker EXCEPT ![held[w].job].outcome = stage[w]] IN
    /\ stage[w] \in Outcomes
    /\ \/ /\ marker' = settled
          /\ Moves(w, IF stage[w] \in {"delivered", "undelivered"} THEN "return" ELSE "throw")
          /\ UNCHANGED errors
       \/ marker' \in {marker, settled} /\ HandlerError(w)
    /\ UNCHANGED <<vars, sender, mails, muddled>>

DeliverReturns(w) ==
    /\ stage[w] = "return"
    /\ HandlerReturns(w)
    /\ Moves(w, "none")
    /\ UNCHANGED <<sender, marker, errors, mails, muddled>>

DeliverThrows(w) ==
    /\ stage[w] = "throw"
    /\ HandlerThrows(w)
    /\ Moves(w, "none")
    /\ UNCHANGED <<sender, marker, errors, mails, muddled>>

-----------------------------------------------------------------------------
(* The queue's other steps.                                                *)
ProcessEnds(w) ==
    /\ Exit(w) \/ Crash(w)
    /\ Moves(w, "none")
    /\ UNCHANGED <<sender, marker, errors, mails, muddled>>

QueueStep(w) ==
    /\ \/ Start(w) \/ Sigterm(w) \/ LoopEnds(w) \/ Reap(w) \/ SkipClaim(w) \/ Claim(w)
       \/ NothingToClaim(w) \/ Release(w) \/ Succeed(w) \/ Fail(w) \/ OnTick(w)
    /\ UNCHANGED notifyVars

NotifyNext ==
    \/ TimePasses /\ UNCHANGED notifyVars
    \/ \E j \in Jobs :
         WriteInApp(j) \/ EnqueueDelivery(j) \/ EnqueueRefused(j) \/ RecordRefused(j)
    \/ \E w \in Workers :
         \/ QueueStep(w) \/ ProcessEnds(w) \/ BeginDeliver(w) \/ ClaimDelivery(w)
         \/ ReadRecipient(w) \/ Dispatch(w) \/ RecordOutcome(w)
         \/ DeliverReturns(w) \/ DeliverThrows(w)

NotifySpec == NotifyInit /\ [][NotifyNext]_<<vars, notifyVars>>

-----------------------------------------------------------------------------
(* Properties.                                                             *)

\* A handler stands somewhere exactly while the runner runs it; a queued job
\* always finds its in-app row, and is claimed only once that row is written
\* (sendNotification's two phases).
NotifyInv ==
    /\ NotifyTypeOK
    /\ \A w \in Workers : stage[w] # "none" <=> pc[w] = "running"
    /\ \A j \in Jobs : row[j].status # "absent" \/ marker[j].outcome # "none" => sender[j] # "new"

\* `delivered` is never written for a message that no channel took, through any
\* crash, takeover or late outcome (dispatchRemote 565-568).
DeliveredIsTrue ==
    \A j \in Jobs : marker[j].outcome = "delivered" => mails[j] > 0

\* Types, where handlers stand, and what a marker may claim.
DeliveriesAreTrue == NotifyInv /\ DeliveredIsTrue

\* One email, unless a claim went stale under its holder or a channel took a
\* message and reported a failure: "two emails beats zero" is the only case
\* (claimDelivery, CLAIM_LOCK_MS).
SecondSendIsExplained == \A j \in Jobs : mails[j] > 1 => j \in muddled

\* A delivered notification is neither claimed again nor settled otherwise,
\* although outcomes are written without a fence: only a takeover, an unclear
\* send or sendNotification's own late catch can do that.
DeliveredStays ==
    [][\A j \in Jobs :
         marker[j].outcome = "delivered" /\ marker'[j] # marker[j]
           => j \in muddled \/ sender[j] = "refused"]_<<vars, notifyVars>>

\* The comment on CLAIM_LOCK_MS (notify.repository.ts 75-80): no job "reports
\* having delivered something it never sent", once no handler has it in hand.
NothingReportedUnsent ==
    \A j \in Jobs :
      /\ row[j].status = "succeeded"
      /\ \A w \in Workers : stage[w] # "none" => held[w].job # j
      => mails[j] > 0 \/ marker[j].outcome \in {"undelivered", "dead_letter"}
=============================================================================

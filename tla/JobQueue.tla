------------------------------ MODULE JobQueue ------------------------------
(***************************************************************************)
(* The Postgres job queue (platform/jobs/postgres-queue.ts) and the worker *)
(* processes that drain it (platform/jobs/job-runner.ts, worker/worker.ts):*)
(* claims, leases, retries with backoff, the reaper, the shutdown drain,   *)
(* crashes, restarts and statements whose reply is lost.                   *)
(*                                                                         *)
(* One action is one SQL statement with the code that runs up to the next  *)
(* await.  Every time in the table is the clock of the process that wrote  *)
(* it: worker w reads Clock(w), and the clocks may differ by Skew.         *)
(***************************************************************************)
EXTENDS Integers, FiniteSets

CONSTANTS
    Workers,         \* worker slots: a restart reuses the slot with a new id
    Jobs,            \* one element per (kind, idempotency key)
    Recurring,       \* the current occurrences of the recurring jobs
    Handles,         \* Handles[w]: the jobs whose kind has a handler in w
    MaxAttempts,     \* jobs.max_attempts
    LockTimeout,     \* lockTimeoutMs
    ShutdownTimeout, \* shutdownTimeoutMs
    BackoffBase,     \* JOB_BACKOFF_POLICY.baseMs
    BackoffMax,      \* JOB_BACKOFF_POLICY.maxMs
    Skew,            \* Skew[w]: how far w's clock is ahead of the slowest one
    NoOwner,         \* locked_by is null
    NoLease,         \* the process holds no job
    MaxTime,         \* bound: the last instant
    MaxInc,          \* bound: starts of one worker slot
    MaxFaults        \* bound: crashes and failed statements, together

ASSUME WorkersAssumption == IsFiniteSet(Workers)
ASSUME JobsAssumption == /\ Recurring \subseteq Jobs
                         /\ Handles \in [Workers -> SUBSET Jobs]
ASSUME LimitsAssumption == /\ MaxAttempts \in Nat \ {0}
                           /\ LockTimeout \in Nat
                           /\ ShutdownTimeout \in Nat
                           /\ BackoffBase \in Nat
                           /\ BackoffMax \in Nat
ASSUME SkewAssumption == Skew \in [Workers -> Nat]
ASSUME NullAssumption == /\ NoOwner \notin Workers \X Nat
                         /\ NoLease \notin [job : Jobs, at : Int, attempts : Nat]
ASSUME BoundAssumption == /\ MaxTime \in Nat
                          /\ MaxInc \in Nat
                          /\ MaxFaults \in Nat

VARIABLES
    now,       \* real time, as the slowest clock shows it
    row,       \* row[j]: j's row of the table `jobs`
    inc,       \* inc[w]: starts of slot w; with w it is the worker id
    pc,        \* pc[w]: the await the runner of w stands at
    stopping,  \* stopping[w]: the runner's flag
    deadline,  \* deadline[w]: when w's drain gives up
    held,      \* held[w]: the ClaimedJob in w's memory
    faulted,   \* faulted[w]: a statement of this start of w failed
    faults,    \* crashes and failed statements so far
    begun,     \* history: how often a handler was started on j
    finished   \* history: j's handler has returned without an error

vars == <<now, row, inc, pc, stopping, deadline, held, faulted, faults, begun, finished>>
process == <<inc, stopping, deadline>>
history == <<begun, finished>>

Statuses == {"absent", "pending", "running", "succeeded", "failed", "dead"}
Steps == {"down", "poll", "reaped", "claimed", "release", "running",
          "succeeding", "failing", "tick", "ended"}
Owners == Workers \X Nat
Leases == [job : Jobs, at : Int, attempts : Nat]
Rows == [status : Statuses, runAt : Int, attempts : Nat,
         lockedBy : Owners \cup {NoOwner}, lockedAt : Int]

\* A row nobody holds: locked_by and locked_at are null (lockedAt is then 0).
Unlocked(status, at, attempts) ==
    [status |-> status, runAt |-> at, attempts |-> attempts,
     lockedBy |-> NoOwner, lockedAt |-> 0]

Id(w) == <<w, inc[w]>>
Clock(w) == now + Skew[w]
Alive(w) == pc[w] # "down"

\* Exponential, capped, with a jitter over the upper half.
Backoff(n) == IF BackoffBase * 2^n < BackoffMax THEN BackoffBase * 2^n ELSE BackoffMax
Delays(n) == {d \in 0..BackoffMax : 2 * d >= Backoff(n) /\ d <= Backoff(n)}

TypeOK ==
    /\ now \in Nat
    /\ row \in [Jobs -> Rows]
    /\ inc \in [Workers -> Nat]
    /\ pc \in [Workers -> Steps]
    /\ stopping \in [Workers -> BOOLEAN]
    /\ deadline \in [Workers -> Int]
    /\ held \in [Workers -> Leases \cup {NoLease}]
    /\ faulted \in [Workers -> BOOLEAN]
    /\ faults \in Nat
    /\ begun \in [Jobs -> Nat]
    /\ finished \in [Jobs -> BOOLEAN]

Init ==
    /\ now = 0
    /\ row = [j \in Jobs |-> Unlocked("absent", 0, 0)]
    /\ inc = [w \in Workers |-> 0]
    /\ pc = [w \in Workers |-> "down"]
    /\ stopping = [w \in Workers |-> FALSE]
    /\ deadline = [w \in Workers |-> 0]
    /\ held = [w \in Workers |-> NoLease]
    /\ faulted = [w \in Workers |-> FALSE]
    /\ faults = 0
    /\ begun = [j \in Jobs |-> 0]
    /\ finished = [j \in Jobs |-> FALSE]

-----------------------------------------------------------------------------
(* The table: what each statement makes of the rows.                       *)

Claimable(j, w, t) == /\ j \in Handles[w]
                      /\ row[j].status \in {"pending", "failed"}
                      /\ row[j].runAt <= t

\* `order by run_at asc`; rows with the same run_at come in any order.
NextJobs(w, t) == {j \in Jobs : /\ Claimable(j, w, t)
                                /\ \A k \in Jobs : Claimable(k, w, t) => row[j].runAt <= row[k].runAt}

\* Faulty: a claim that does not count the attempt.
ClaimedUncounted(j, w, t) ==
    [status |-> "running", runAt |-> row[j].runAt, attempts |-> row[j].attempts,
     lockedBy |-> Id(w), lockedAt |-> t]

ClaimedRow(j, w, t) ==
    [status |-> "running", runAt |-> row[j].runAt, attempts |-> row[j].attempts + 1,
     lockedBy |-> Id(w), lockedAt |-> t]

\* Faulty: a fence that checks the status alone.
FenceByStatus(w) == row[held[w].job].status = "running"

\* The fence of succeed, fail and release: the row is still leased to this claim.
Fence(w) == LET r == row[held[w].job] IN
    /\ r.status = "running"
    /\ r.lockedBy = Id(w)
    /\ r.lockedAt = held[w].at

\* Faulty: a completion by id alone.
Unfenced(w, r) == [row EXCEPT ![held[w].job] = r]

Fenced(w, r) == IF Fence(w) THEN [row EXCEPT ![held[w].job] = r] ELSE row

SucceededRow(r) == Unlocked("succeeded", r.runAt, r.attempts)

ReleasedRow(r) ==
    Unlocked("pending", r.runAt, IF r.attempts > 0 THEN r.attempts - 1 ELSE 0)

FailedRow(r, t, delay) ==
    IF r.attempts >= MaxAttempts THEN Unlocked("dead", t, r.attempts)
                                 ELSE Unlocked("failed", t + delay, r.attempts)

\* Faulty: a cutoff that takes the lease at its last instant.
StuckAtCutoff(r, t) == r.status = "running" /\ r.lockedBy # NoOwner /\ r.lockedAt <= t - LockTimeout

Stuck(r, t) == r.status = "running" /\ r.lockedBy # NoOwner /\ r.lockedAt < t - LockTimeout

\* Faulty: a reaper without the `dead` case.
ReapedToPending(r, t) == Unlocked("pending", t, r.attempts)

ReapedRow(r, t) == Unlocked(IF r.attempts >= MaxAttempts THEN "dead" ELSE "pending", t, r.attempts)

Reaped(t) == [j \in Jobs |-> IF Stuck(row[j], t) THEN ReapedRow(row[j], t) ELSE row[j]]

\* `on conflict do nothing`: an existing row keeps its state.
Enqueued(S, at) == [j \in Jobs |-> IF j \in S /\ row[j].status = "absent"
                                     THEN Unlocked("pending", at, 0) ELSE row[j]]

\* A statement is answered, or it fails with its effect applied or not: the
\* connection can be lost on either side of the commit.
Answered(new) == row' = new /\ UNCHANGED <<faulted, faults>>
Errored(w, new) == /\ faults < MaxFaults
                   /\ faults' = faults + 1
                   /\ faulted' = [faulted EXCEPT ![w] = TRUE]
                   /\ row' \in {row, new}

Goto(w, step) == pc' = [pc EXCEPT ![w] = step]
Drop(w) == held' = [held EXCEPT ![w] = NoLease]

-----------------------------------------------------------------------------
(* Another process enqueues a job, due at once (epoch 0) or later.         *)
Enqueue(j) ==
    /\ row[j].status = "absent"
    /\ \E at \in {0, now + 1} : row' = Enqueued({j}, at)
    /\ UNCHANGED <<now, process, pc, held, faulted, faults, history>>

TimePasses ==
    /\ now < MaxTime
    /\ now' = now + 1
    /\ UNCHANGED <<row, process, pc, held, faulted, faults, history>>

(* The worker process.                                                     *)
Start(w) ==
    /\ pc[w] = "down"
    /\ inc[w] < MaxInc
    /\ inc' = [inc EXCEPT ![w] = @ + 1]
    /\ Goto(w, "poll")
    /\ UNCHANGED <<now, row, stopping, deadline, held, faulted, faults, history>>

\* SIGTERM: runStop sets the flag and one deadline for the whole drain.
Sigterm(w) ==
    /\ Alive(w)
    /\ ~stopping[w]
    /\ stopping' = [stopping EXCEPT ![w] = TRUE]
    /\ deadline' = [deadline EXCEPT ![w] = now + ShutdownTimeout]
    /\ UNCHANGED <<now, row, inc, pc, held, faulted, faults, history>>

\* The process ends, and what it held in memory with it.
MemoryLost(w) ==
    /\ Goto(w, "down")
    /\ Drop(w)
    /\ stopping' = [stopping EXCEPT ![w] = FALSE]
    /\ deadline' = [deadline EXCEPT ![w] = 0]
    /\ faulted' = [faulted EXCEPT ![w] = FALSE]

\* The drain is over, because the loop has ended or the deadline has passed.
Exit(w) ==
    /\ Alive(w)
    /\ stopping[w]
    /\ pc[w] = "ended" \/ now >= deadline[w]
    /\ MemoryLost(w)
    /\ UNCHANGED <<now, row, inc, faults, history>>

\* SIGKILL, out of memory, lost host.
Crash(w) ==
    /\ Alive(w)
    /\ faults < MaxFaults
    /\ faults' = faults + 1
    /\ MemoryLost(w)
    /\ UNCHANGED <<now, row, inc, history>>

-----------------------------------------------------------------------------
(* The loop: one iteration is runOnce, then onTick.                        *)
LoopEnds(w) ==
    /\ pc[w] = "poll"
    /\ stopping[w]
    /\ Goto(w, "ended")
    /\ UNCHANGED <<now, row, process, held, faulted, faults, history>>

\* A failed reap ends the iteration: loop() catches it.
Reap(w) ==
    /\ pc[w] = "poll"
    /\ ~stopping[w]
    /\ \/ Answered(Reaped(Clock(w))) /\ Goto(w, "reaped")
       \/ Errored(w, Reaped(Clock(w))) /\ Goto(w, "tick")
    /\ UNCHANGED <<now, process, held, history>>

\* The second look at the flag, between the reap and the claim.
SkipClaim(w) ==
    /\ pc[w] = "reaped"
    /\ stopping[w]
    /\ Goto(w, "tick")
    /\ UNCHANGED <<now, row, process, held, faulted, faults, history>>

\* The claim commits; the reply is on its way (or is lost).
Claim(w) ==
    /\ pc[w] = "reaped"
    /\ ~stopping[w]
    /\ \E j \in NextJobs(w, Clock(w)) :
         LET new == [row EXCEPT ![j] = ClaimedRow(j, w, Clock(w))] IN
         \/ /\ Answered(new)
            /\ held' = [held EXCEPT ![w] = [job |-> j, at |-> Clock(w),
                                            attempts |-> row[j].attempts + 1]]
            /\ Goto(w, "claimed")
         \/ /\ Errored(w, new)
            /\ Goto(w, "tick")
            /\ UNCHANGED held
    /\ UNCHANGED <<now, process, history>>

NothingToClaim(w) ==
    /\ pc[w] = "reaped"
    /\ ~stopping[w]
    /\ NextJobs(w, Clock(w)) = {}
    /\ Goto(w, "tick")
    /\ UNCHANGED <<now, row, process, held, faulted, faults, history>>

\* Faulty: a shutdown that forgets the job it was claiming.
ReceiveWithoutRelease(w) ==
    /\ pc[w] = "claimed"
    /\ IF stopping[w]
         THEN Goto(w, "tick") /\ Drop(w) /\ UNCHANGED begun
         ELSE Goto(w, "running") /\ begun' = [begun EXCEPT ![held[w].job] = @ + 1] /\ UNCHANGED held
    /\ UNCHANGED <<now, row, process, faulted, faults, finished>>

\* The reply arrives: the handler starts, unless a shutdown began meanwhile.
Receive(w) ==
    /\ pc[w] = "claimed"
    /\ IF stopping[w]
         THEN Goto(w, "release") /\ UNCHANGED begun
         ELSE Goto(w, "running") /\ begun' = [begun EXCEPT ![held[w].job] = @ + 1]
    /\ UNCHANGED <<now, row, process, held, faulted, faults, finished>>

\* The unrun job goes back with its attempt; a failed release is only logged.
Release(w) ==
    /\ pc[w] = "release"
    /\ LET new == Fenced(w, ReleasedRow(row[held[w].job])) IN
         Answered(new) \/ Errored(w, new)
    /\ Goto(w, "tick")
    /\ Drop(w)
    /\ UNCHANGED <<now, process, history>>

HandlerReturns(w) ==
    /\ pc[w] = "running"
    /\ Goto(w, "succeeding")
    /\ finished' = [finished EXCEPT ![held[w].job] = TRUE]
    /\ UNCHANGED <<now, row, process, held, faulted, faults, begun>>

HandlerThrows(w) ==
    /\ pc[w] = "running"
    /\ Goto(w, "failing")
    /\ UNCHANGED <<now, row, process, held, faulted, faults, history>>

\* succeed stands in the handler's own try: when the write throws, execute()
\* goes on to record a failure.
Succeed(w) ==
    /\ pc[w] = "succeeding"
    /\ LET new == Fenced(w, SucceededRow(row[held[w].job])) IN
         \/ Answered(new) /\ Goto(w, "tick") /\ Drop(w)
         \/ Errored(w, new) /\ Goto(w, "failing") /\ UNCHANGED held
    /\ UNCHANGED <<now, process, history>>

\* The backoff is computed from the claim's attempts, the outcome from the row's.
Fail(w) ==
    /\ pc[w] = "failing"
    /\ \E delay \in Delays(held[w].attempts - 1) :
         LET new == Fenced(w, FailedRow(row[held[w].job], Clock(w), delay)) IN
         Answered(new) \/ Errored(w, new)
    /\ Goto(w, "tick")
    /\ Drop(w)
    /\ UNCHANGED <<now, process, history>>

\* onTick: one enqueue per recurring job with a handler; an error is swallowed
\* and leaves a prefix of them.
OnTick(w) ==
    /\ pc[w] = "tick"
    /\ \/ Answered(Enqueued(Recurring \cap Handles[w], 0))
       \/ \E S \in SUBSET (Recurring \cap Handles[w]) : Errored(w, Enqueued(S, 0))
    /\ Goto(w, "poll")
    /\ UNCHANGED <<now, process, held, history>>

Next ==
    \/ TimePasses
    \/ \E j \in Jobs : Enqueue(j)
    \/ \E w \in Workers :
         \/ Start(w) \/ Sigterm(w) \/ Exit(w) \/ Crash(w)
         \/ LoopEnds(w) \/ Reap(w) \/ SkipClaim(w) \/ Claim(w) \/ NothingToClaim(w)
         \/ Receive(w) \/ Release(w) \/ HandlerReturns(w) \/ HandlerThrows(w)
         \/ Succeed(w) \/ Fail(w) \/ OnTick(w)

Spec == Init /\ [][Next]_vars

-----------------------------------------------------------------------------
(* Properties.                                                             *)

Holding == {"claimed", "release", "running", "succeeding", "failing"}

\* A process holds a claim exactly while it works on one, a row is leased
\* exactly while it is running, no row is leased to a start still to come, and
\* a row leased to a live claim is the row that claim returned (claim,
\* postgres-queue.ts 221-253): the fence never passes for another attempt.
QueueInv ==
    /\ TypeOK
    /\ \A w \in Workers : held[w] # NoLease <=> pc[w] \in Holding
    /\ \A j \in Jobs :
         /\ row[j].status = "running" <=> row[j].lockedBy # NoOwner
         /\ row[j].lockedBy # NoOwner => row[j].lockedBy[2] <= inc[row[j].lockedBy[1]]
         /\ row[j].status = "absent" => row[j].attempts = 0
    /\ \A w \in Workers : held[w] # NoLease =>
         LET r == row[held[w].job] IN
         /\ r.status # "absent"
         /\ r.lockedBy = Id(w) => r.lockedAt = held[w].at /\ r.attempts = held[w].attempts

\* The claims of j whose handler has not been started.
Unstarted(j) == {w \in Workers : pc[w] \in {"claimed", "release"} /\ held[w].job = j}

\* No sequence of crashes, reaps, releases and retries starts a handler more
\* than max_attempts times, although release gives attempts back: each start,
\* and each claim still to start or to be released, has an attempt of its own
\* (claim 233, release 371, fail 330, reapStuck 397).
StartsWithinBudget ==
    \A j \in Jobs :
      /\ begun[j] + Cardinality(Unstarted(j)) <= row[j].attempts
      /\ row[j].attempts <= MaxAttempts
      /\ row[j].status \in {"pending", "failed"} => row[j].attempts < MaxAttempts

\* Some clock in the fleet says that a lease taken at t has run out.
Expired(t) == \E v \in Workers : t + LockTimeout < Clock(v)

\* A process loses the lease of the job it works on only when the lease has run
\* out on some worker's clock (reapStuck 403-405), or when its own success was
\* written and only the reply was lost.
LeaseLostOnlyByExpiry ==
    \A w \in Workers : held[w] # NoLease /\ ~Fence(w) =>
      \/ Expired(held[w].at)
      \/ pc[w] = "failing" /\ row[held[w].job].status = "succeeded"

\* Two handlers run one job at the same time only after a lease has run out:
\* what FOR UPDATE SKIP LOCKED and the fence promise (postgres-queue.ts 16-36).
HandlersOverlapOnlyAfterExpiry ==
    \A w, v \in Workers :
      w # v /\ pc[w] = "running" /\ pc[v] = "running" /\ held[w].job = held[v].job
        => Expired(held[w].at) \/ Expired(held[v].at)

\* A lease keeps its job to one process until it runs out.
LeasesHold == LeaseLostOnlyByExpiry /\ HandlersOverlapOnlyAfterExpiry

\* A live process none of whose statements has failed still works on every job
\* leased to it, so a loop that ended cleanly leaves no job to the reaper
\* (runOnce and claimOrRelease, job-runner.ts 348-432).
OwnedIsHeld ==
    \A w \in Workers, j \in Jobs :
      Alive(w) /\ ~faulted[w] /\ row[j].lockedBy = Id(w)
        => held[w] # NoLease /\ held[w].job = j

\* Every start has an attempt of its own, and every lease a process that works.
AttemptsAreOwned == StartsWithinBudget /\ OwnedIsHeld

\* A lost lease is never valid again for the claim that lost it: whatever other
\* workers do, a late completion stays refused (succeed, fail and release).
LostLeaseStaysLost ==
    [][\A w \in Workers :
         held[w] # NoLease /\ held'[w] = held[w] /\ ~Fence(w) => ~Fence(w)']_vars

\* The queue implements the lifecycle its port promises (job.port.ts 50-215).
PhaseOf(status) == CASE status = "absent" -> "absent"
                     [] status \in {"pending", "failed"} -> "waiting"
                     [] status = "running" -> "taken"
                     [] status = "succeeded" -> "done"
                     [] status = "dead" -> "dead"

phases == [j \in Jobs |-> PhaseOf(row[j].status)]
tries == [j \in Jobs |-> row[j].attempts]

Life == INSTANCE JobLifecycle WITH phase <- phases, tries <- tries

Lifecycle == Life!LifeSpec

\* When w's drain began, by w's own clock.
DrainBegan(w) == deadline[w] - ShutdownTimeout + Skew[w]

\* The comment on DEFAULT_LOCK_TIMEOUT_MS (job-runner.ts 99-103): a worker that
\* is finishing a job inside its drain window, with a lease that still ran when
\* the drain began, is not reclaimed.
DrainKeepsLease ==
    \A w \in Workers :
      /\ stopping[w] /\ now < deadline[w] /\ pc[w] = "running"
      /\ DrainBegan(w) <= held[w].at + LockTimeout
      => Fence(w)
=============================================================================

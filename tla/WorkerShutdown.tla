-------------------------- MODULE WorkerShutdown --------------------------
(***************************************************************************)
(* One worker process from its start to its exit: the job loop with its    *)
(* tick, the heartbeat row, the shutdown that races them, and the row that *)
(* a monitor reads afterwards.  A write to the row is sent in one step and *)
(* lands in another, or fails; the client's answer is not waited for       *)
(* longer than the code waits.                                             *)
(***************************************************************************)
VARIABLES
  loop,      \* where start() and the job loop stand
  stop,      \* where the shutdown stands
  beat,      \* a `running` write: none, on its way, or answered
  final,     \* the `stopped` write
  row,       \* worker_heartbeats.status of this worker
  overran    \* history: the drain gave up, or began before the loop had

shutdownVars == <<loop, stop, beat, final, row, overran>>

-----------------------------------------------------------------------------
Stopping == stop # "none"
Exited == stop = "exited"
Runs(next) == ~Exited /\ loop' = next

\* A write that is on its way lands, also when its process has gone.
Land(status) == row' = status

-----------------------------------------------------------------------------
(* The loop *)

\* start: the first beat is sent before the loop begins.
Start ==
  /\ loop = "new" /\ Runs("firstBeat")
  /\ beat' = "sent"
  /\ UNCHANGED <<stop, final, row, overran>>

\* runner.start, after that beat was answered; the loop asks isStopping first.
BeginLoop ==
  /\ loop = "firstBeat" /\ beat = "answered"
  /\ Runs(IF Stopping THEN "ended" ELSE "job")
  /\ beat' = "none"
  /\ UNCHANGED <<stop, final, row, overran>>

\* runOnce ends, with or without a job; onTick begins.
FinishJob ==
  /\ loop = "job" /\ Runs("tick")
  /\ UNCHANGED <<stop, beat, final, row, overran>>

\* ensureRecurringJobs ends, or fails and is left to the next tick; then the
\* beat is sent.
SendBeat ==
  /\ loop = "tick" /\ Runs("beat")
  /\ beat' = "sent"
  /\ UNCHANGED <<stop, final, row, overran>>

\* The beat was answered; the loop ends or goes round.
EndTick ==
  /\ loop = "beat" /\ beat = "answered"
  /\ Runs(IF Stopping THEN "ended" ELSE "job")
  /\ beat' = "none"
  /\ UNCHANGED <<stop, final, row, overran>>

-----------------------------------------------------------------------------
(* The shutdown *)

\* Faulty: stop waits for the job in hand but not for the tick of the loop.
JobOnly == {"firstBeat", "ended", "tick", "beat"}
\* runner.stop waits for the loop, and for nothing before the loop has begun.
NothingToDrain == {"firstBeat", "ended"}

\* SIGTERM, once main has installed its handlers: worker.stop, runner.stop.
Terminate ==
  /\ stop = "none" /\ loop # "new"
  /\ stop' = IF loop \in NothingToDrain THEN "drained" ELSE "draining"
  /\ overran' = (loop = "firstBeat")
  /\ UNCHANGED <<loop, beat, final, row>>

\* The loop has ended within the deadline.
DrainEnds ==
  /\ stop = "draining" /\ loop = "ended"
  /\ stop' = "drained"
  /\ UNCHANGED <<loop, beat, final, row, overran>>

\* The deadline passes first; the loop goes on until the exit.
DrainTimesOut ==
  /\ stop = "draining" /\ loop # "ended"
  /\ stop' = "drained"
  /\ overran' = TRUE
  /\ UNCHANGED <<loop, beat, final, row>>

\* heartbeat.stop.
SendStopped ==
  /\ stop = "drained"
  /\ stop' = "stopping"
  /\ final' = "sent"
  /\ UNCHANGED <<loop, beat, row, overran>>

\* ... its answer; then the pools are closed and the process exits.
Exit ==
  /\ stop = "stopping" /\ final \in {"landed", "failed"}
  /\ stop' = "exited"
  /\ UNCHANGED <<loop, beat, final, row, overran>>

-----------------------------------------------------------------------------
(* The database *)

\* A beat that was sent lands and is answered, or fails and the error is
\* swallowed.
BeatLands ==
  /\ beat = "sent"
  /\ Land("running")
  /\ beat' = "answered"
  /\ UNCHANGED <<loop, stop, final, overran>>

BeatFails ==
  /\ beat = "sent"
  /\ beat' = "answered"
  /\ UNCHANGED <<loop, stop, final, row, overran>>

StoppedLands ==
  /\ final = "sent"
  /\ Land("stopped")
  /\ final' = "landed"
  /\ UNCHANGED <<loop, stop, beat, overran>>

StoppedFails ==
  /\ final = "sent"
  /\ final' = "failed"
  /\ UNCHANGED <<loop, stop, beat, row, overran>>

\* The process is killed.
Killed ==
  /\ ~Exited
  /\ stop' = "exited"
  /\ overran' = (overran \/ final # "landed")
  /\ UNCHANGED <<loop, beat, final, row>>

-----------------------------------------------------------------------------
ShutdownInit ==
  /\ loop = "new" /\ stop = "none"
  /\ beat = "none" /\ final = "none"
  /\ row = "none" /\ overran = FALSE

ShutdownNext ==
  \/ Start \/ BeginLoop \/ FinishJob \/ SendBeat \/ EndTick
  \/ Terminate \/ DrainEnds \/ DrainTimesOut \/ SendStopped \/ Exit
  \/ BeatLands \/ BeatFails \/ StoppedLands \/ StoppedFails
  \/ Killed

ShutdownSpec == ShutdownInit /\ [][ShutdownNext]_shutdownVars

-----------------------------------------------------------------------------
ShutdownTypeOK ==
  /\ loop \in {"new", "firstBeat", "job", "tick", "beat", "ended"}
  /\ stop \in {"none", "draining", "drained", "stopping", "exited"}
  /\ beat \in {"none", "sent", "answered"}
  /\ final \in {"none", "sent", "landed", "failed"}
  /\ row \in {"none", "running", "stopped"}
  /\ overran \in BOOLEAN

\* A `stopped` row says that the loop has ended and that no beat is left to
\* turn it back, and once `stopped` has landed the row stays so: unless the
\* drain gave up, or SIGTERM came before the loop had begun.
StoppedIsTrue ==
  /\ final # "none" => (loop = "ended" /\ beat # "sent") \/ overran
  /\ final = "landed" => (row = "stopped" \/ overran)
  /\ row = "stopped" => final = "landed"

\* Types, and the truth of a `stopped` row.
ShutdownInv == ShutdownTypeOK /\ StoppedIsTrue

=============================================================================

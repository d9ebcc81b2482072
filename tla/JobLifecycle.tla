---------------------------- MODULE JobLifecycle ----------------------------
(***************************************************************************)
(* What the job queue promises its callers (platform/jobs/job.port.ts),    *)
(* with no worker, lease or clock in it: a job waits, is taken by an       *)
(* attempt, and ends done or dead; each attempt is counted when it is      *)
(* taken and given back only unrun; nothing leaves done or dead.           *)
(***************************************************************************)
EXTENDS Naturals

CONSTANTS Jobs, MaxAttempts

VARIABLES
    phase,  \* phase[j]: absent, waiting, taken, done or dead
    tries   \* tries[j]: attempts j has used

Phases == {"absent", "waiting", "taken", "done", "dead"}

LifeInit == /\ phase = [j \in Jobs |-> "absent"]
            /\ tries = [j \in Jobs |-> 0]

Move(j, from, to) == phase[j] = from /\ phase'[j] = to
Stays(j) == phase'[j] = phase[j] /\ tries'[j] = tries[j]

Submit(j) == Move(j, "absent", "waiting") /\ tries'[j] = 0
Take(j) == Move(j, "waiting", "taken") /\ tries[j] < MaxAttempts /\ tries'[j] = tries[j] + 1
GiveBack(j) == Move(j, "taken", "waiting") /\ tries[j] = tries'[j] + 1
Retry(j) == Move(j, "taken", "waiting") /\ tries[j] < MaxAttempts /\ tries'[j] = tries[j]
Finish(j) == Move(j, "taken", "done") /\ tries'[j] = tries[j]
Bury(j) == Move(j, "taken", "dead") /\ tries[j] >= MaxAttempts /\ tries'[j] = tries[j]

\* One statement may move several jobs (the reaper, the scheduler).
LifeStep(j) == \/ Stays(j) \/ Submit(j) \/ Take(j) \/ GiveBack(j)
               \/ Retry(j) \/ Finish(j) \/ Bury(j)

LifeNext == \A j \in Jobs : LifeStep(j)

LifeSpec == LifeInit /\ [][LifeNext]_<<phase, tries>>
=============================================================================

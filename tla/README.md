# A TLA+ model of the foxxy backend

This directory models the parts of the backend (`src/backend/src`) whose
correctness depends on the order in which things happen: requests that
interleave at every `await`, webhooks and jobs that come twice, late or never,
processes that die between two statements. The modules are translated from the
code, checked by TLC on small instances, and proved by TLAPS for every value of
their constants where that is possible.

Run everything from this directory:

    tlc -workers 2 -config MCJobQueue.cfg MCJobQueue
    tlc -workers 2 -config MCBilling.cfg MCBilling
    tlc -workers 2 -config MCNotifyDelivery.cfg MCNotifyDelivery
    tlc -workers 2 -config MCPractice.cfg MCPractice
    tlc -workers 2 -config MCPortGuard.cfg MCPortGuard
    tlc -workers 2 -config MCServices.cfg MCServices
    tlapm JobQueue_proofs.tla
    tlapm Billing_proofs.tla
    tlapm NotifyDelivery_proofs.tla
    tlapm Practice_proofs.tla
    tlapm PortGuard_proofs.tla
    tlapm Identity_proofs.tla
    tlapm Services_proofs.tla
    tlapm Algorithms_proofs.tla

The six runs that show a disagreement have configurations of their own:
`MCPracticeAnswers`, `MCJobQueueDrain`, `MCBillingAccess`, `MCBillingCharging`,
`MCNotifyUnsent` and `MCWeeklyDigest`.

`PROJECT.json` holds the index: components, runs, the source lines of every
definition (`map`), the hazards and the properties that answer them, the
mutants that show each property can fail, the findings and the theorems.

## 1. The system

foxxy is a learning product. One Node process serves HTTP (`main.ts`, `app/`),
one or more others run background jobs (`worker-main.ts`, `worker/`); both share
Postgres and a cache. A module never imports another module's repository; they
meet in the composition root (`app/routes.ts`) through functions.

| component | state it keeps | operations | what is hard | what makes it correct |
|---|---|---|---|---|
| Job queue `platform/jobs/postgres-queue.ts` | table `jobs`: status, attempts, run_at, locked_by, locked_at | enqueue, claim, succeed, fail, release, reapStuck | many workers, leases by wall clock, lost replies | an attempt settles only its own lease; attempts bound starts; done and dead are final |
| Runner and worker `job-runner.ts`, `worker/worker.ts`, `scheduler.ts` | the claimed job, the stopping flag, the heartbeat row | the loop, execute, the shutdown drain, recurring enqueues | SIGTERM at any await, crash, errors swallowed per iteration | a clean stop leaves no leased job; nothing is claimed after the flag is seen |
| Heartbeat `platform/jobs/heartbeat.ts` | one row per worker id | beat, stop, read liveness | the last beat against the stop | a stopped worker reads as stopped |
| Session sweeper `worker/jobs/expired-session-sweeper.ts` | none | delete expired sessions in batches | a live session renewed while swept | deletes only expired rows |
| Billing `modules/billing` | `subscriptions`, `payment_events` | createSubscription, handleWebhook, cancelSubscription, getEntitlements | webhooks in any order and number, provider calls between two writes, unlocked reads | no access without payment; no paid period lost; one live row |
| Payments adapter `platform/payments` | at the provider | create, cancel, verify a webhook | external | what billing assumes of it |
| Notify `modules/notify` | `notifications` with a `_delivery` marker in `data` | sendNotification, deliver, digest scan and delivery, read and mark read | two-phase send, at-least-once jobs, a stale claim marker | `delivered` is true; a message goes out once but for the documented edge |
| Dispatcher `platform/notify-channel` | none | send over the chosen channels | a channel that took the message and timed out | failure of one channel does not hide another's success |
| Practice `modules/practice` | sessions with recorded answers, XP ledger, review schedules | startSession, submitAnswer, submitSession, missions, progress | answers and submissions that overlap, a mastery read outside the transaction, midnight | an answer is final; XP is granted once and within its cap; one mastery step per session |
| Learner `modules/learner` | mastery, streaks, profiles | record results, read dashboards | concurrent updates of one row | mastery and schedule follow from the answers |
| Identity `modules/identity` | users, sessions, reset links, verification links, link codes, parent-child links | signup, verify and resend, login, validateSession, logout, password reset, codes, approve and revoke a link | requests that read a row, await and write; transactions that lock rows in different orders; mails that go out after the answer | a session ends with its ceiling and with its password; a link works once; a parent's link is earned by a code |
| Parent `modules/parent` | `weekly_digests`; reads everybody else's tables | the children, snapshot, digests, transcript, consent and its withdrawal, digest writing | a link revoked between two awaits; four queries that see different weeks | only a linked parent reads a child; a digest says what happened |
| Foxy `modules/foxy` | conversations, messages, a daily counter in the cache | startSession, sendMessage (streamed), getUsage | usage counted before the answer and refunded after by a read and a set; a stream that fails after it began | the allowance holds but for refunds that overlap; `done` means stored |
| Retrieval `modules/retrieval` | chunks and their vectors, written by the importer | search | two rankings fused, copies of one text, chunks deactivated between two reads | no text crowds out another; empty for a reason |
| Knowledge graph `modules/knowledge` | concepts and prerequisites | learning paths, topological order | cycles, chapters without rows, an iterative walk | a path is in order and complete; a reported cycle is one |
| Content, Signals | read-mostly tables | lookups, append signals | little | - |
| Circuit breaker, port guard `platform/circuit-breaker`, `platform/resilience` | state, window of outcomes, probe slots | execute | results that arrive after the state has moved on, timeouts | open rejects, half-open admits its probes and no more |
| Rate limiter `platform/rate-limit` | a counter per key in the cache, a fallback and a remembered deadline per replica | consume, reset | expiry and increment are two calls, each may fail with or without effect; eviction | every lockout ends within a window; an alarm is about a real loss |
| Concurrency limiter, guarded stream `platform/concurrency`, `platform/llm` | slots in use | acquire, run, release; a stream's life | a slot that outlives its work, or the other way round | slots are conserved |
| Cache `platform/cache` | keys with an expiry | get, set, incr, expire | two calls where one was meant | part of the rate limiter, the cap and the counters |
| Authorisation `platform/authz` | none | assertCanAccess | the link it is given was read an await earlier | no write by a parent, no tenant crossed |
| HTTP application `app/` | requests in flight, deferred mails | routes, shutdown | SIGTERM while requests, mails and metrics are under way | the process exits with everything recorded |
| Other adapters `platform/` | buffered metrics, pools | record, flush, stop; mail, models, scrubbing | a flush that overlaps a flush | observations land once and in order |
| Corpus tools `scripts/import-corpus.ts`, `shared/corpus` | the question bank, the held-out reserve | plan and write an import | plans made before other imports and answers | the reserve stays full and reserved; evidence stays |
| Alert evaluator `scripts/ops` | cooldowns in memory | a cycle of measuring, judging, delivering | cycles that measure nothing, restarts, flapping | one delivery a cooldown, no incident untold |

How they interact, where it matters: the worker calls the queue by SQL and the
handlers by function calls; a handler of notify claims its notification by a
compare-and-set of its own, so that a job run twice sends once; the queue's
clock is the clock of whichever process runs a statement; billing is called by
HTTP requests on one side and by the provider's webhooks on the other, and the
only things between them are row locks, a unique index and the primary key of
`payment_events`. A practice submission reads mastery through learner on another
connection, and writes it through learner inside its own transaction, under an
advisory lock on the student; answers take no lock at all. The link that identity
keeps between a parent and a child is read by parent, learner and foxy at the
beginning of each request, and by the digest job; nobody keeps it. The rate
limiter, foxy's allowance and notify's daily cap count in one cache that may lose a
key or a reply. The importer writes under practice and retrieval, which take no
lock against it. The worker's heartbeat is what the alert evaluator reads.

## 2. The modules

| module | models | refines / extends |
|---|---|---|
| `JobLifecycle` | what `job.port.ts` promises: a job waits, is taken, ends done or dead; every attempt is counted | abstract specification |
| `JobQueue` | table `jobs`, the runner's loop, the drain, the worker process, clocks that disagree, lost replies, crashes | implements `JobLifecycle` |
| `NotifyDelivery` | sendNotification, deliver, dispatchRemote and the marker, with `JobQueue` as the queue underneath | extends `JobQueue` |
| `Billing` | subscriptions, payment events, checkout and cancel requests, the provider as an environment | - |
| `PracticeRules` | scoring, XP and its cap, validity, the mastery blend, SM-2 | - |
| `Practice` | one student's sessions, answers and submissions, XP ledger, mastery, review schedule | extends `PracticeRules` |
| `PortGuard` | one guarded port: limiter, retries, deadline, breaker, stream | - |
| `Accounts` | one account: sessions, reset links, the sweeper | - |
| `Verification` | sign-up, verification links, resends | - |
| `FamilyLinks` | link codes, parent-child links | - |
| `ChildAccess` | who sees a child's data, and the consent trail | - |
| `RateLimiter` | one key of the limiter over cache and replicas | - |
| `Tutor` | a student's turns with Foxy in one day | - |
| `CitationFilter` | the filter of citation markers in a stream | - |
| `WorkerShutdown` | a worker's loop, heartbeat and shutdown | - |
| `WeeklyDigest` | scan, digest job, row, cap, notification | - |
| `WeekReport` | what a digest says, and the honesty gate | - |
| `ServerShutdown` | an HTTP process's drain and its metrics sink | - |
| `QuietHours` | when a notification may leave | - |
| `ChapterGraph` | the walk over chapters and their prerequisites | - |
| `Retrieval` | one search from the embedding to its chunks | - |
| `CorpusImport` | imports over the question bank, under practice | - |
| `Alerting` | the alert evaluator over the signals | - |
| `JobQueue_proofs`, `NotifyDelivery_proofs`, `Billing_proofs`, `Practice_proofs`, `PortGuard_proofs` | theorems and proofs | extend the module named and `TLAPS` |
| `Identity_proofs` | theorems and proofs of `Accounts`, `FamilyLinks`, `Verification`, `ChildAccess` | extends those and `TLAPS` |
| `Services_proofs` | theorems and proofs of `WorkerShutdown`, `RateLimiter`, `Tutor`, `WeeklyDigest`, `ServerShutdown` | extends those and `TLAPS` |
| `Algorithms_proofs` | theorems and proofs of `Alerting`, `CorpusImport`, `ChapterGraph`, `QuietHours`, `Retrieval`, `WeekReport`, `CitationFilter` | extends those and `TLAPS` |
| `MCJobQueue`, `MCNotifyDelivery`, `MCBilling`, `MCPractice`, `MCPortGuard`, `MCWeeklyDigest` | the instances TLC checks | extend the module named and `TLC` |
| `MCServices` | the sixteen protocols from `Accounts` to `Alerting` in one instance | extends them and `TLC` |

In every module an action is the code between two awaits: a statement or a
transaction of the database, or a call of a port, with what follows it.

### JobQueue

An action is one SQL statement together with the code that runs up to the next
`await`. `row[j]` is the row of job `j` (one per kind and idempotency key),
`pc[w]` is the await at which the runner of worker slot `w` stands, `held[w]` is
the `ClaimedJob` in its memory, `stopping[w]` and `deadline[w]` are those of
`runStop`. A worker id is the slot and its number of starts, `buildWorkerId`.

* The loop: `Reap` (runOnce's reapStuck), `SkipClaim` (the second look at the
  flag), `Claim` / `NothingToClaim` (claimOrRelease, the statement), `Receive`
  (its reply: the handler starts, or the flag is set and `Release` follows),
  `HandlerReturns` / `HandlerThrows`, `Succeed` / `Fail` (execute with
  recordCompletion), `OnTick` (ensureRecurringJobs), `LoopEnds`.
* The process: `Start`, `Sigterm`, `Exit` (the loop has ended, or the one
  deadline of the drain has passed while a handler still runs), `Crash`.
* A statement is answered or fails; when it fails, its effect may have been
  applied or not (`Errored`). `succeed` stands in the handler's own `try`, so a
  completion whose reply is lost is followed by a `Fail` of the same lease.
* Clocks: `Clock(w)` is real time plus a constant skew. Every timestamp in the
  table is written with it. The delay between reading a clock and the
  statement's execution is within the skew.
* `fail` takes its backoff from the claim's attempts and its outcome from the
  row's, like the code; the jitter is a choice over the upper half.

Left out: metrics and logs, `countByStatus`, the payload, the sleep between two
polls, the heartbeat. The branch of `execute` for a kind without a handler
cannot be reached: `claim` is restricted to the kinds of the handlers.
Occurrences of recurring jobs belong to one period. Rows claimed with the same
`run_at` come in any order. The handlers' own effect is the job's.

### NotifyDelivery

One job per notification, so a job of `JobQueue` stands for the notification it
delivers. `sender[j]` is how far `sendNotification` got, `marker[j]` is
`_delivery` in the row, `stage[w]` is the await at which the handler in worker
`w` stands while `pc[w]` is `running`. `BeginDeliver`, `DeliverReturns`,
`DeliverThrows` and `ProcessEnds` are the queue's own `Receive`,
`HandlerReturns`, `HandlerThrows`, `Exit` and `Crash` with the handler's stage;
the rest of the queue's steps leave the handler alone. `MaxErrors` bounds the
failing statements of handlers and the sends that are reported as failures
although the channel took the message. `mails` and `muddled` are history: the
code keeps no such state, the properties speak of it.

Left out: which channels are chosen, preferences and quiet hours, the daily cap,
the payload's validation (a malformed payload returns at once), the digests.

### Billing

`sub[s]` is a row of `subscriptions`, `recorded` is `payment_events`, `provider[s]`
is what the provider holds, `sent[e]` is an event the provider has issued,
`req[r]` is where an HTTP request stands. createSubscription is `CheckNoneLive`,
`ResolvePayer`, `InsertPending`, `CreateAtProvider`, `AttachProviderId`;
cancelSubscription is `FindLive`, `TellProvider`, `WriteCancelled`, with what was
read carried in `req[r]`, exactly as stale as in the code; handleWebhook is one
transaction under a row lock, `WebhookChangesNothing` or `WebhookApplies`. `Dies`
ends a request at any of its awaits (an error or a crash).

An event is delivered any number of times, in any order. When the one-live index
refuses the state an event asks for, the transaction rolls back, the provider
gets a 5xx and repeats it: `WebhookApplies` is disabled until the other row is no
longer live. The webhook's clock is read before the row lock: `at` may be up to
`LockWait` in the past. Two rows may have the same `created_at`; then either may
be the newest.

The provider is external and modelled from what billing assumes of it: it
charges, reports failures and unknown events of an open subscription, gives up on
it, and confirms a cancellation. `subscription.activated`, `subscription.charged` and
`payment.captured` are one kind because the code treats them alike.

Left out: authorisation, amounts and plan codes, the audit trail, the signature
and the budget for rejected signatures, an unknown plan code.

### Practice

One student; everything the code locks or sums is per student. `session`,
`responses`, `ledger`, `mastery` and `retention` are the tables, `studentLock` is
`pg_advisory_xact_lock`, `request[r]` is where a request stands and what it read.
submitAnswer is `AnswerRead` (the unlocked read and the refusals) and `AnswerSave`
(the conditional UPDATE of the whole map). submitSession is `SubmitRead`,
`ReadMastery` (on learner's connection), then the transaction: `LockStudent`,
`SumXp`, `CompleteSession` (its loser rolls back with a 409), and
`LandSubmission` or, when the compare-and-set on mastery is refused, `StaleMastery`,
which rolls back and tries again up to `MasteryAttempts` times. What a transaction
has written is seen by others at its commit, so its writes stand in
`LandSubmission`; before it they show as locks: `studentLock`, and `RowFree` for
the UPDATE of the session's row. `Fail` ends a request at any await (a crash, a
dropped connection, a statement timeout) and rolls its transaction back.

The ledger keeps one amount per session (its unique source), and `xpSince` the
sum of the rows from each midnight on: the row of a submission is dated by the
instant it read at its start, so a sum can include a later day. `base` is
history: the attempts counted when a submission began. Mastery is in thousandths
and ease in hundredths, the scale of the columns; arithmetic is exact, a tie of
`Math.round` goes up, as it does but for the binary error of an interval times
its ease.

Left out: which questions are drawn, the shuffle and its translation, the hint
ladder, the next-step decision, misconceptions, authorisation, the read-only
mission, progress and history. The two validity rules that look at the clock and
at screen positions are one choice, `plausible`.

### PortGuard

One port of one process. `call[c]` is where a caller stands: an attempt with its
deadline (`trying`), the wait before a retry, a stream whose first token has come,
or settled with the slot not yet given back. `Call` is the limiter's admission with
the first attempt, `Wakes` a retry; both go through `Attempt`, which is
breaker.execute up to its await (maybeHalfOpen, the rejection, the trial
counted). `Succeed`, `Fails` and `TimesOut` end an attempt: they record it in the
breaker (`RecordSuccess`, `RecordFailure`), wherever its state has moved meanwhile,
and end the call or leave it waiting. A 4xx is a success for the breaker. A
breaker's rejection is not retried. `Observe` is state() or snapshot(), which move
the breaker too.

Time is kept as ages: of the open interval, of an attempt, of the failures in the
window. A deadline fires before the clock passes it, and the breaker's clock, which
is the wall clock in the code, does not jump. `trial` and `trialsWon` are history.

Left out: a deadline stops the caller's wait and not the work; what an adapter that
ignores the signal still does after it is not counted, in the code or here. The
length of the backoff. The concurrency rejection leaves no trace and is no step.

### Accounts, Verification, FamilyLinks

Identity, in three modules that share no rows with each other but the account.

`Accounts` has one verified account. `session[s]` and `reset[t]` are rows of
`sessions` and `password_reset_tokens`, `request[r]` is where a request stands with
what it read. login is `CheckPassword` and `IssueSession`: a reset may commit in
between. validateSession is `FindSession`, `JudgeSession` and then `RenewSession` or
`DropExpired`, with the clock and row it read. resetPassword is a transaction in five
steps: it locks its own link, updates the user, deletes the sessions, retires the links
and commits (`LockLink`, `LockUser`, `PurgeSessions`, `RetireLinks`, `CommitReset`). Its
two sweeping statements take the rows they find; other requests wait for these rows,
but insert others meanwhile: under READ COMMITTED nothing holds up the insert of a
session or a link, whose foreign key takes a lock on the user's row that the
update of the hash does not exclude. Of two resets that wait for each other Postgres
ends one (`Dies`). `BeginSweep` and `SweepOn` are the sweeper. `after` is history: how
many resets had cleared the table when a row was written.

`Verification` goes from `CreateUser` to `VerifyEmail`. A reissue is two steps: what
its UPDATE saw (`RetireVerifyLinks`) can be old when its INSERT commits. `FamilyLinks`
has the codes of one student: `RetireCodes` and `IssueCode` are one transaction in
two steps under the partial unique index, `HandIn`, `CompareTenants` and
`UpsertPendingLink` are submitLinkCode. Left out: signup's duplicate addresses, the
mails' wording, throttling (which is `RateLimiter`), password hashing.

### ChildAccess

`lookup[r]` is a request about one child: the child's own, another student's, or a
parent's. `ReadStatus` is readLinkStatus, `Authorise` the tenant read with
assertCanAccess, `Serve` the data. getChildren and the digest list the links first
(`ListChildren`), the consent state and its withdrawal list them again
(`RequireLink`). `Approve`, `Revoke` and `Resubmit` change the link;
`FileChange` records it afterwards, or loses the record. `Outsiders` are links between
tenants, which only rows older than the check of tenants can be. `sometime` and
`throughout` are history: the link was approved at some moment of the request, or
at every one; `blurred` marks links whose record was lost or overtaken.

Left out: the resources account, subscription and content (one comparison each), how
the tenant of a student is found.

### RateLimiter

`counter` is the key in the shared cache, `fallback[i]` and `deadline[i]` what replica
`i` keeps. consume is incr, then expire after the first one, then del when expire
failed; each call may fail with its effect applied or not, and the fallback counts
then. Evictions, resets and restarts of a replica come at any time.
`orphaned` and `destroyed` are history.

### Tutor, CitationFilter

`turn[t]` is where a message stands: the allowance (`CountUsage`, one increment, and
`JudgeUsage`), the refusals of `Screen`, retrieval, the question's row, the model's
stream, the answer's transaction and the seal; or the path of a turn that ends
before the model. A refund is a read and a set, so increments in between are lost, and
the counter is a key of a cache that evicts (`LoseUsage`); `slips` counts the messages
that either gives away. `frames[t]` is what the stream has sent; one token stands for
any number. `CitationFilter`
takes symbols for characters: an opening of two (seven in the code), a closing, ids
and text. The texts a model may send are a constant; TLC cuts every text of up to
`MaxPieces` pieces (`PieceTexts` of `MCServices`) at every point, the theorem has no bound.

### WorkerShutdown, ServerShutdown

`WorkerShutdown` has the loop with its tick, a beat on the wire (`sent`, then landed or
failed) and main's shutdown: the drain, its deadline, heartbeat.stop, exit.
`ServerShutdown` has requests in flight, the mails they defer, the buffer with its
timer, and the chain of writes that a flush joins; SIGTERM drains, stops the sink,
closes the pools and exits, or is killed.

### WeeklyDigest, WeekReport

`WeeklyDigest` has the scan of each week, the digest job with leases that may run out
(`Deliveries` are attempts), the row of `weekly_digests`, the daily cap and the
notification. The cap's counter is a key of the same cache: after an eviction (`LoseCap`)
the day has another counter (`Counters`). `marks`, `evicted`, `taken` and the attempts'
`by` are history: what may excuse a second notification or none, the evictions of a
day, and which attempt a counter counted first. `WeekReport` has what the
row says: four queries of one `Promise.all` see different moments of the week, and
composeDigest, function by function, makes five lines of it. A line is what it
says and which chapters and mix-ups it names. The gate's patterns are a set of names
that match one (`Flagged`): the composer's own words match none, so only the
corpus's can. A session carries one of a wrong answer chosen for a known mix-up, a
correction, a hint, or nothing of the kind.

### QuietHours, ChapterGraph, Retrieval

`QuietHours` is planDelivery: a zone with an offset and one change of the clocks, a
window of quiet hours, the search for its end in steps of a quarter of an hour in
the code, of half an hour in a day of four hours in the run. `ChapterGraph` projects
concepts on chapters and walks them in three colours with an explicit stack, one step
of the loop at a time. `Retrieval` gives the two ranked lists any order, fuses them
exactly (reciprocals are counted in parts of `Scale`), collapses copies, cuts,
abstains by a threshold, and reads the chosen chunks later.

### CorpusImport

`import[i]` is a plan: the extract it was made from and the questions it would
reserve (`ChooseReserve`). `WriteImport` is the transaction; the importer's lock of
the chapter's row makes it atomic against other imports, and `restrict` makes it
fail when a response refers to a question that it would delete. `sitting` is a
practice session over the bank: drawn, opened, answered, submitted. `marked` and
`changed` are history. Left out: questions that move to another chapter, the
200-question limit of hydration, parsing, eligibility, the vector index, reports.

### Alerting

`rule` is one of three kinds: an event counted in a window of `metrics`, the oldest
heartbeat of a worker that is `running`, readiness. `RunCycle` measures, judges and
writes the ledger, `Deliver` sends, `MinutePasses` is the interval between two cycles;
SIGTERM during a cycle is only seen after the wait that follows it. `told`, `began`,
`calm`, `hasty`, `measured` and `counted` are history.

## 3. What the runs check

The bounds are named constants of the modules. Only `port_guard` has fairness; the
other runs check safety, and there a step that never comes is one of the hazards
(a process may die and never restart). They do not check deadlock: the bounds stop
every behaviour, and a system whose processes are down and whose jobs are settled
does stop. `port_guard` has no bound on time and checks deadlock.

`services` checks sixteen protocols that share no variable. A behaviour follows one
of them: `part` says which, from the initial states on, and the variables of the
others rest. (The digest has two parts, on different instances.) So TLC visits the sum of their states and not the product, each
protocol is checked as if it were alone, and a property of one is vacuous on the
states of the others. They share one run because each is small.

Its fairness is weak and only of what the runtime does by itself: time passes, a
deadline's timer fires, a waiting retry wakes, a stream is read to its end or
abandoned, a `finally` runs. Answers and new calls are not fair. `Recovers` takes
them as its premise: attempts fail no more, answers come, and callers keep calling.
A stream's consumer that neither reads on nor returns would hold its slot; the
one consumer, foxy's `for await`, does one or the other.

| run | instance | what it shows |
|---|---|---|
| `job_queue` | 2 workers with clocks 1 apart, 2 jobs (one recurring, one only w1 handles), 2 attempts, lease 1, drain 1, time up to 2, 1 fault | the five properties below; 1.9 million states |
| `billing` | 1 subject, 2 rows, 2 requests, 2 events, a period of 1, lock wait 1, time up to 1 | the four properties below; 1.3 million states |
| `notify_delivery` | 1 notification, 2 workers, 2 attempts, lease 2, claim lock 2, time up to 3, 1 fault, 1 handler error | the three properties below; 2.4 million states |
| `practice` | 2 requests, 2 sessions of 2 and 1 questions, 2 chapters, cap 100, 1 midnight | the four properties below; 2.2 million states |
| `port_guard` | 3 callers, 2 slots, 1 retry, deadline 2, threshold 2 within 4, rate 60% of 3, wait 3 up to 5, 2 trials | the six properties below; 77 thousand states |
| `services` | see the next table | eighteen properties; 1.35 million states |
| `practice_answers` | as `practice` | `AnswersOnlyAdded` is violated |
| `job_queue_drain` | 2 workers with equal clocks, no fault, lease 3, drain 2, time up to 4 | `DrainKeepsLease` is violated |
| `billing_access` | as `billing` | `PaidPeriodGrants` is violated |
| `billing_charging` | as `billing` | `CancelledStopsCharging` is violated |
| `notify_unsent` | as `notify_delivery`, without faults | `NothingReportedUnsent` is violated |
| `weekly_digest` | 1 attempt, weeks of 2 days | `DigestReportsTheWeek` is violated |

| part of `services` | instance | why it is enough |
|---|---|---|
| `Accounts` | 2 requests, 2 sessions, 2 reset links, idle limit 2 of an absolute 3, time up to 3, batches of 1 | two renewals of one session, the ceiling, a sign-in or a new link between two statements of a reset, two resets that wait for each other |
| `Verification` | 2 requests, 3 links, 2 days | two resends that overlap and a link of sign-up |
| `FamilyLinks` | 2 requests, 3 codes, 3 parents, one of another tenant | two issues, two codes of one parent, a code for a stranger |
| `ChildAccess` | 2 requests, 1 parent, 1 parent of another tenant | a revocation inside a request, an approval that overlaps it |
| `RateLimiter` | 2 attempts on 2 replicas, limit 1, window 1 | each call that fails with or without effect, eviction, restart |
| `Tutor` | 3 turns, an allowance of 1 | a refund that overlaps an increment, or an eviction, gives a second turn |
| `CitationFilter` | texts of 3 pieces, ids of 2 symbols | markers cut at every point, at the end, unterminated |
| `WorkerShutdown` | no constants | - |
| `WeeklyDigest` | 2 attempts, 2 runs, weeks of a day; one week with practice, an eviction and an ended link; two weeks without these | a lease that runs out, an eviction between two attempts, two weeks' digests on one day |
| `WeekReport` | 2 chapters, 1 mix-up, 2 scores, 1 session before and 2 in the week | a session between two queries, ties, a flagged chapter and mix-up |
| `ServerShutdown` | 2 requests with a mail each, a buffer of 2, 4 observations | an overlapping flush, one by size, one by the timer |
| `QuietHours` | days of 4 hours of 2 steps, every offset, change and window | a window over midnight, a change by a fraction of an hour |
| `ChapterGraph` | 3 concepts in 3 chapters, every graph whose concepts do not name themselves | cycles of 2 and 3, within a chapter, a code without a row |
| `Retrieval` | 3 chunks of 2 texts, lists of 2, cut at 2, 2 thresholds | a copy that crowds, a cut, a deactivation |
| `CorpusImport` | 2 importers, 3 questions, a third reserved, 3 imports, 2 sessions | a plan older than another import and than an answer |
| `Alerting` | 3 rules, 2 workers, window 2, stale after 2, cooldown 2, 2 intervals | a flapping signal, a restart, a silent worker beside a healthy one |

A larger instance of the digest (two weeks of a day, with a question answered, an
eviction and an ended link in the same behaviour) was checked by hand: 13 million states,
no error. So was `CitationFilter` with texts of 4 pieces. The symmetry of `services` is of its two
requests, which every part's set of requests, attempts or importers has as members;
no liveness is checked there.

Why the bounds are enough to be interesting. A lease is lost in every way the
code knows: expiry on a skewed clock, a crash, a lost reply. With two workers and
two attempts a job is reclaimed by the other worker while the first handler
runs, and dies at its last attempt. Two jobs are needed for the order of
claims and for a worker that must not take the other's kind. In `billing` two
requests and two rows give the double checkout, the checkout against the
cancellation, the re-subscription; two events give duplicates, reordering and
the charge that loses the unique index. In `notify_delivery` the time bound lets
both a job's lease and a delivery's claim run out once. In
`port_guard` a failure window longer than the wait lets old failures outlive the
open state, two attempts in flight at the trip make one result late, and a third
caller meets the full limiter and the spent trials. In
`practice` the two sessions are of one chapter (the mastery race) or of two (the
cap race: in one chapter the compare-and-set on mastery hides it); together they
earn 140, more than the cap of 100; a submission can begin before midnight and
commit after it. Each session is submitted once, so a third attempt of one
submission is not reached; its bound is what `RetryNeedsACommit` proves. The
symmetric sets (rows, requests and events of billing; equal workers of notify;
requests and chapters of practice) are symmetric in
every property, and no run with symmetry checks liveness.

The properties, by the hazard they are aimed at:

* `QueueInv`: the type invariant; a row is leased exactly while running; a row
  leased to a live claim is the row this claim returned, which is why the fence
  (status, locked_by, locked_at) cannot pass for another attempt.
* `AttemptsAreOwned`: no sequence of crashes, reaps, releases (which give attempts
  back) and retries starts a handler more than `max_attempts` times; and a live
  worker whose statements were all answered works on every job leased to it, so a
  clean shutdown leaves nothing to the reaper.
* `LeasesHold`: a worker loses the job it works on only by expiry on some worker's
  clock or by its own success with a lost reply; two handlers of one job overlap
  only after an expiry.
* `LostLeaseStaysLost`: a completion once refused stays refused.
* `Lifecycle`: the refinement of `JobLifecycle` by `JobQueue`.
* `BillingInv`: typed rows; the period end that the table's CHECK demands of a
  terminal row, and that an active row needs to lapse; one live row per subject.
* `NoFreeAccess`: whoever a row grants access has a payment of that row whose
  period, counted when the event was first applied, is not over.
* `EventsKeepPaidPeriods`: rules 1 and 2 of `subscription-status.ts`.
* `NoPaymentSwallowed`: a charge is used up without effect only if its row is not
  attached or has expired. The first exception is real: a webhook that comes
  before `attachProviderId` commits is recorded and its redelivery is a duplicate.
* `DeliveriesAreTrue`, `SecondSendIsExplained`, `DeliveredStays`: the handler's stage
  goes with the runner's; `delivered` is true; a second email has one of two
  documented causes; a delivered notification stays so although
  `recordDeliveryOutcome` writes without a fence.

* `DailyCapHeld`, `RecordsAgree`: no day of the ledger exceeds the cap; sessions,
  responses, ledger and attempt counts agree, and every way out of a submission
  releases the lock.
* `SubmissionsClose`, `RetryNeedsACommit`: a submission is one blending step and one
  review step from the values in force at its commit, no answer in flight reaches
  its session afterwards, and it is tried again only because another one landed in
  between.

* `PortInv`: types; the limiter's count is the number of calls in flight, through
  every retry, rejection and stream.
* `TrialsAccounted`, `TurnsAreEarned`: while half-open every attempt in flight is a
  trial of this period, and the breaker closes only when all of them have succeeded
  ("All must succeed to close", `config/timeouts.ts:137`). The code does not mark
  attempts: it counts whatever result arrives. What keeps late results out is that
  every deadline is shorter than the open interval (`Punctual`). The default policy
  has this for every port but the completion of the language model, whose 30 s
  equal the interval: there a call made in the very millisecond the breaker opens
  could still be in flight when the trials begin.
  While open nothing starts and late results move nothing.
* `BelowThreshold`: a closed breaker starts from an empty window.
* `CallsEnd`, `Recovers`: every call gives back its slot; a recovered dependency is
  used again.

Of `services`, one invariant a protocol, each a conjunction of its type invariant
and the parts named here:

* `AccountsInv` (`DeadlinesHold`, `NoneOutlivesAReset`), `ResetsSpendTheirLinks`: a
  deadline follows from the creation and the last use and never passes the ceiling,
  in whatever order renewals land; a session that outlives a reset was written after
  the reset's DELETE; of all the links that a reset finds outstanding one changes the
  password, and a second reset uses a link issued after the first one's UPDATE.
* `VerificationInv` (`ReplacedAreDead`): a link that a resend replaced stays dead, and
  no resend leaves an unverified account without one.
* `FamilyInv` (`OneCode`, `LinksAreEarned`), `CodesAndConsentLast`: one code per
  student, an open link names a code its own parent handed in, none crosses tenants;
  a code goes only to a parent, and an approved link changes only by withdrawal.
* `AccessInv` (`OnlyTheLinkedSee`, `TheLinkedAreServed`, `TrailTellsTheLink`): whoever is
  shown a child's data was linked at some moment of the request, whoever is linked
  throughout is served, and the newest row of the trail tells what became of a link.
* `LimiterInv` (`LockoutsEnd`, `AlarmsAreReal`): every lockout has an end within a
  window but for a lost reply, a restart or two failures; an eviction that is
  reported was a counter that went before its time.
* `TutorInv` (`AllowanceHolds`, `StreamsAreTrue`): a refund that overlaps k increments
  gives away k messages, an eviction those it had counted, and nothing else does; `done` means that both messages are
  stored, in order.
* `FilterInv` (`ChunksDoNotMatter`, `NoMarkerIsSent`): the student ends up with the text
  less its markers, however it was cut; no marker and no opening of one is sent before
  the end, unless a marker stood right after a "[".
* `ShutdownInv` (`StoppedIsTrue`): a `stopped` row is true and stays, unless the drain
  gave up or SIGTERM came before the first beat was answered.
* `DigestInv` (`SentOnce`, `LostToTheCap`, `NothingInvented`): a digest is sent twice only
  by attempts that overlapped and that no one counter counted both (the cache failed,
  another day, an eviction in between), and is lost only to the cap.
* `ReportInv` (`SaysOnlyWhatHappened`, `LinesAgree`, `GateJudgesNames`): a chapter is
  praised only for points it gained, a mix-up is one shown, in that chapter; the
  lines agree unless a session came between two queries; the gate refuses nothing
  but names.
* `ServerInv` (`LandsInOrder`, `SomethingWrites`, `NothingDropped`): observations land
  once and in order, and a process that exits has written all of them but what the
  drain left behind.
* `QuietInv` (`LeavesOutsideQuietHours`): outside quiet hours and as soon as they end.
* `GraphInv` (`PathInOrder`, `PathIsComplete`, `CycleIsReal`).
* `RetrievalInv` (`NoTextCrowdsOut`, `AgreedRankingHolds`, `EmptyForAReason`).
* `CorpusInv` (`ReserveIsFull`, `ReserveStands`, `DrawnFromPractice`, `EvidenceStays`): the
  reserve has its share and keeps what it took, whatever order plans are written in;
  no import removes an answered question.
* `AlertInv` (`CooldownsHold`, `IncidentsAreTold`, `EventsAreCounted`, `SilenceIsSeen`).

Each of them is violated by a mutant of the code, listed in `PROJECT.json` and
defined beside the definition it mutates ("Faulty: ...").

Findings (the six violation runs; quotes and lines in `PROJECT.json`):

1. A drain does not keep its lease: the lease runs from the claim and nothing
   renews it, so a job that was already old at SIGTERM is reclaimed inside the
   drain window. In the trace the lease is still good at SIGTERM: the property asks no
   more than that, and the drain is shorter than the lease.
2. A subject who cancels and checks out again loses the paid rest of the
   cancelled row, because entitlements are read from the newest row only.
3. A cancellation that reads its row before the checkout attaches the provider's
   id tells the provider nothing; the provider's subscription stays open.
4. A handler that throws between claiming a delivery and recording its outcome is
   retried before the claim goes stale, is taken for a duplicate and the job
   succeeds with nothing sent.
5. Two answers of one session sent together each write back the whole map they
   read. The later save drops the other question's answer (the session then counts
   as invalid for a missing response), or replaces the other answer of the same
   question, although each response has shown the key.
6. The weekly scan takes the week that has just begun. The digest is written at its
   start, when nothing has been practised, and the row is never written again.

Where a comment and the code disagree, and no run was spent on it, because the
property of the module already says what the code does:

* identity.service.ts:631, "never more than one live link": two resends that overlap
  leave two (`ReplacedAreDead`).
* A reset does not end every session of the old password: one that is inserted
  between the DELETE (identity.repository.ts:552) and the COMMIT lives on, and so does
  one inserted later by a sign-in that verified the old password earlier
  (`NoneOutlivesAReset`).
* identity.repository.ts:517-522, on the other links that die with a reset: one issued
  between the UPDATE (554-562) and the COMMIT stays good and changes the password
  again (`ResetsSpendTheirLinks`).
* parent.service.ts:215-222 calls requireLink's error "unreachable through the guard":
  a revocation between the two reads leads there, and the parent gets a 500
  (`TheLinkedAreServed`). getChildren fails as a whole when one of the links is
  revoked between the list and its profile. A request under way at a revocation
  still answers. The rows of the consent trail are written after the commit: of an
  approval and a revocation that overlap either may be the newest
  (`TrailTellsTheLink`).
* digest-honesty.ts:10-11, that a composed draft passes the gate "by construction": a
  chapter title or a description of the corpus may match a pattern, the digest is
  then refused at every attempt, and those of the parent's later children with it
  (`GateJudgesNames`). A session between two of the four queries makes a digest that
  contradicts itself, for good (`LinesAgree`).
* limiter.ts on WindowDeadlines, "can only ever miss evictions": a del after a failed
  expire, or a reset on another replica, is reported as one (`AlarmsAreReal`).
* foxy.service.ts:350-352, that every failure becomes an `error` and a `done`: a failure
  to store ends in `error` alone (`StreamsAreTrue`). The day's allowance starts again
  when the cache evicts its counter (`AllowanceHolds`).
* citations.ts:72, "Never contains a marker or part of one": when a marker follows a "["
  and is followed by a ":", taking it out leaves an opening behind, which the filter does
  not look for ("[[:k]:k]" emits "[:k]"); flush releases an unterminated marker; and ids
  longer than the filter's limit make the output depend on the cuts (`NoMarkerIsSent`).
* The beat of the last tick can overwrite `stopped` when the drain's deadline passed, or
  SIGTERM came during the first beat (`StoppedIsTrue`).
* A digest is lost when an attempt failed after the cap was counted, or when two weeks'
  digests fall on one day (`LostToTheCap`). digest-week.ts:85-88 says that a lost counter
  lets one extra notification through; so it does (`SentOnce`).
* A cancellation that read its row before a renewal writes the old period's end over
  the new one (billing.service.ts:618). `Billing` has the step; no property forbids it,
  as the row keeps its other promises.
* alert-rules.ts:129 has "newest worker heartbeat" as the signal; alert-sources.ts:211-241
  takes the oldest of the running workers, and so does `Alerting`.
* preferences-store.ts says that it is not wired; routes.ts:879-890 wires it. Nothing
  calls its write yet. A write whose cache half failed would leave the old value in the
  cache, to be served until it is evicted, where the comment expects a database read.
* quiet-hours.ts, "every hour of the day occurs within any 24-hour span": not on the day
  on which the clocks skip it (`LeavesOutsideQuietHours`).
* held-out-reserve.ts: a reserved question leaves the reserve when an extract omits it,
  and one drawn before the import may be answered after it; import-corpus.ts: rows not
  in the extract are deleted, but one answered question among them fails the import
  (`ReserveStands`, `EvidenceStays`). The report of exclusions is written after the commit
  and not, as question-eligibility.ts:27-30 has it, before.
* alert-evaluator-main.ts:387-389, "the wait is interruptible": not after a SIGTERM during
  a cycle. A cycle that could not measure clears a cooldown as well, an alert that
  reached nobody starts one, and the `running` row of a crashed worker keeps its rule
  breached until somebody deletes it (`CooldownsHold`, `IncidentsAreTold`).
* postgres-metrics.ts: a second flush does not return the first one's promise; it joins
  the chain, which is as good.

## 4. What is proved

For every number of workers, jobs, attempts, lease and drain times, skews,
starts and faults; of subjects, rows, requests, events and periods. The
assumptions are those named in the modules: workers are a finite set, limits
are natural numbers, `MaxAttempts`, `PeriodDays` and `Window` are positive, the null
values are none of the values; a notification is never a recurring job; a student is
no guardian.

`JobQueue_proofs`. `QueueInv` is inductive as it stands. Two lemmas then say what
one step can do to a row (`RowSteps`: nothing, an insert, a claim, a reap, or a
fenced completion) and to a claim in memory (`HeldSteps`); the other safety
proofs use these facts in place of the actions. `LeaseLostOnlyByExpiry` and
`OwnedIsHeld` are inductive relative to `QueueInv`; the overlap of handlers and the
fate of lost leases follow. `StartBudget` counts each claim that is still to start
or to be released as an attempt of its own: without it, `release` could give back
an attempt that a start has used. `QueueImplementsLifecycle` maps each statement to a
step of `JobLifecycle` for each row it touches and a stutter for the others.

`Billing_proofs`. `NoFreeAccess` is not inductive: a cancellation writes a date it
read earlier, so that date must be honest as well. The inductive invariant `IInv`
has six parts: types, a period end where one is demanded, one live row, every
row's period end is over or was bought, the same of the dates that requests
carry from a read to a write, and only a recorded event has a worth.

`NotifyDelivery_proofs`. `DeliveryUsesTheQueue` shows that delivery implements
`JobQueue`'s `Spec`, so the queue's theorems hold for delivery jobs and its
invariant is available. `SecondSendIsExplained` needs that, until a notification is
taken over or sent without a clear answer, it has at most one sender, and that once
a channel has taken it its marker keeps every other claim out (`SoleInv`).

`Practice_proofs`. The inductive invariant `PracticeInv` adds to the checked
invariants one statement per request (`RequestOK`). While a request holds the lock
its award fits in what the day has left: no other submission can commit a row
meanwhile, so the sum it read is still at least the day's total, a later day's
rows included. And between its mastery read and its write, mastery holds what it
read or its chapter has counted another attempt, so a retry is always earned.
`QuietStep` reduces every step that leaves the tables alone to the one request that
moved; `LandEffect` says what a commit writes, and `OnlyLandingSubmits` that no
other step writes it, from which the two action properties follow.

`PortGuard_proofs`. The inductive invariant adds that an attempt in flight while the
breaker is open is at least as old as the open interval (`LateAreOld`) and that a
waiting call has an attempt left. With `Punctual` the first shows that no attempt is
in flight when the trials begin (`NothingLate`), so that every later one is counted.
`SuccessKeeps` and `FailureKeeps` hold for whatever the ended call turns into, and
`Restrained` collects what both action properties forbid.

`BelowThreshold` needs the window in the invariant as a set of failures told by age
and number, not as a sum: a failure that ages is the same failure one row on.

`Identity_proofs`. The invariant `AccInv` of `Accounts` adds what a request carries:
while the row it read is there, the row has the created time that the request has
read, and the clock the request judges by is not ahead of the time (`ReadFits`); a
reset's link is live for as long as the reset holds its lock (`LockFits`); a live row
that an open reset has not found was written after the statement that looked for it
(`ResetFits`); one reset at a time holds the user (`OneHolds`); and every live session and
link was written after the statements of all the resets that have committed. A renewal
that lands late therefore writes a deadline no later than the row allows, and what a
commit leaves alive is what its statements could not see. `FamInv` says where links come from: an open link, and a submission
under way, name a code that was spent by their own parent (`LinkFits`, `ErrandFits`),
and nothing changes the row of a spent code (`SpentStay`). `VerInv`: no request has
seen a link that was not mailed. `GateInv`: what a request has seen of its link is tied
to the link as it stands (`RequestSees`: approved now means approved at some moment of
it), and of two rows of the trail that are due only one can be unblurred
(`TrailSays`).

`Services_proofs`, an inductive invariant each. `ShutInv`: a beat belongs to the loop and
the last write is sent when the loop has ended or was not waited for. `LimInv`: while
no counter was lost, a deadline that a replica still counts with lies within the
counter's window, and at most one attempt is opening a window (`WindowsKnown`), so an
alarm is about a lost counter. `TutInv`: the turns that were charged (`Charged`) are a
finite set no larger than the counter and the slips, since a turn pays before it
searches and is repaid after it gave up. For the digest, what each attempt has read is
tied to the row, the mark and the count that others may have written meanwhile: two
that sent for one week overlapped, and those that the cap admitted were each the first of
a counter, so a week has no more rows than counters it was the first of. For
the metrics, rows that have landed precede those being written, these those queued in
the chain, these the buffer, batch by batch.

`Algorithms_proofs`. What a loop computes is an induction over data, and the library's
induction theorems cannot be instantiated here; the least member of a set of numbers
can (`LeastNumber`, from the well-foundedness of finite sets under inclusion), so
each induction is an argument about a least counterexample, or one about counting.

* `AlertsAreDelivered`: the ledger's entry is the last delivery, made since the
  incident began, unless the rule has been calm (`LedgerFits`); a cycle that saw no stale
  heartbeat saw every worker that claims to run (`LivenessSeen`).
* `ReserveIsKept`: the share of a total grows no faster than the total (`ShareOfTotal`), so
  a plan made from an extract still suffices when it is written over another bank;
  the reserve it chooses exists whatever the order of the ranks (`ReserveSuffices`).
* `WalksAreInOrder` (`WalkBooks`): grey chapters are those on the stack, each a
  prerequisite of the one below, black ones are in the path after all of theirs.
* `QuietHoursAreKept` (`SearchFits`): no step so far was the end of the window, and unless
  the clocks skipped that end every step fell in quiet hours; the end occurs within any
  day on which the clocks do not change (`EndWithinDay`), and so within two days whatever
  the one change is (`EndComes`): the search does not give up.
* `SearchesAreFair` (`RankingFits`): the sort's order is strict and total (`OrderOfSort`), so
  counting who stands ahead numbers the candidates without a gap (`FusedFacts`, by
  the pigeonhole of `AllAreGiven`); collapsing keeps the first of each text and the
  order (`KeptInOrder`, `CollapsedIs`); reciprocals fall strictly (`ReciprocalFalls`), so ranks
  that agree decide (`AgreedOrder`).
* `DigestsAreHonest`: a sum lies between its bounds times its number (`SumBounds`), so an
  average that rose by so many points rose between two of the sessions
  (`RiseNeedsPoints`); the sort by fractions, which compares by products, has a first
  (`FirstFraction`).

* `ChunksNeverMatter` (`FilterBooks`): a reader of the whole text passes it symbol by symbol
  and marker by marker; at every moment it can stand (`Stands`) where it has kept what
  was emitted and noted what was cited, and what is held is what it has still to read
  of the text that came. `TurnCases` says what a turn of the loop does, in three cases;
  `TurnFits` that each is some steps of the reader, the turn that gives up on an id being
  ruled out by the ids' length (`NeverGivesUp`); `DrainEnds` that the loop is over after a
  turn per symbol and one, and holds nothing that ends a marker. The loop and the reader
  are recursive functions; their equations (`LoopTurns`, `ReaderReads`) are shown from the
  least place where they would fail, in place of an induction. No opening is
  sent because the reader keeps one only where no marker begins, and never one made of
  two sides of a marker when the text has none after a "[" (`KeptFits`), while the filter
  lets pass no opening that may still end (`Passed`). The invariant holds for
  every text, every cut of it and every bound on ids.

The attempts at these proofs changed the model in a few places. In `LostToTheCap` the last
conjunct, an implication, was indented so that all of the conjunction became its left
side, which is true of almost any day: the property said much less than it meant. It now
says what was meant, and holds. Chapters numbered 0 would have been taken for none in
`WeekReport`, so its assumption excludes them; that of `QuietHours` now says that the search
is given two days, as the code's 48 hours are (quiet-hours.ts:48-55): with less it could give
up inside the quiet hours. `Retrieval`'s sort and collapse, `PortGuard`'s window and
`WeekReport`'s sums are written without folds and without operators as parameters,
which the provers cannot unfold; TLC compared old and new forms of the first.
`CitationFilter`'s texts became a constant, so that the theorem is about all texts, and
one turn of its loop and one step of its reader have names.

Left to TLC: `CallsEnd` and `Recovers`, which are liveness under fairness, out of the
prover's reach. Every other property of a passing run is a theorem.

## 5. Plan

In this order; the most important behaviour first. Modules are written to be
proved about: no recursive operators outside the pure algorithms that only TLC
evaluates, one action per operation, invariants as conjunctions of named parts.

1. Done: `JobLifecycle`, `JobQueue`, `Billing`, `NotifyDelivery`, `Practice`,
   `PortGuard`, the sixteen protocols of `services`, and the proofs of every safety
   property that a run checks.
2. `JobProgress`: liveness of the queue under the fairness of a loop that keeps
   running: a pending job is settled, if processes restart and faults end.
3. Which answers a submission counts: an answer saved between submitSession's read and
   completeSession is accepted, its key shown, and not scored
   (practice.service.ts:996). No comment says which it should be, so no property does.
4. The draw of questions and the hint ladder of practice; the snapshot's trend.

## 6. Not modelled

* Preferences: one row, written by one statement before a cache that reads fall back
  from; nothing writes it yet.
* Signals: appended rows, and thresholds over counts in one pass.
* Content: lookups; what is promised of active chunks is in `Retrieval`.
* Learner's profiles and streaks, practice's missions and history, the graph's coverage
  report, foxy's prompts, billing's amounts: single statements or data.
* The wording of digests and the writer that asks a model, which is not wired. The
  calibration of retrieval's threshold, an offline tool. The health probes: a timeout of
  the second query of the database's probe reads as `schema_incomplete`.
* The corpus's normalisation and eligibility rules, the mission of the day, the anomaly
  rules: classifications of one value each, which a table of examples tests well.
* The contracts of requests and responses, the tables' definitions and the metric names:
  declarations. What the code relies on in them (a unique index, a check constraint, a
  status) is in the guards and types of the modules whose rows they describe.
* The offline evaluation of retrieval, seeds, linters and preflight scripts.
* Configuration, container wiring, request validation, logging, the list of common
  passwords, SQL migrations, Docker and CI; cryptography and signatures.
* Postgres itself is taken at its word: row locks, unique indexes and single
  statements are atomic; a transaction is one action unless another process can act
  between its statements.

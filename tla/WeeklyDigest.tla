--------------------------- MODULE WeeklyDigest ---------------------------
(***************************************************************************)
(* The weekly digest of one parent with one child: the scan that the       *)
(* worker enqueues, the digest job, the row of weekly_digests, the daily   *)
(* cap and the in-app notification.                                        *)
(* A step is the code between two awaits.  An attempt is one run of the    *)
(* job's handler; a lease that runs out lets a second attempt begin while  *)
(* the first goes on.  (JobQueue has the queue in full.)                   *)
(***************************************************************************)
EXTENDS Naturals, FiniteSets

CONSTANTS
  Deliveries,   \* attempts that can be under way at one time
  DaysPerWeek,
  Horizon,      \* bound: the last day
  MaxPractice,  \* bound: questions answered in a week
  MaxRuns,      \* maxAttempts of the digest job
  MaxEvicted,   \* bound: evictions of a day's counter
  Nil           \* no row of weekly_digests, no week, no holder

ASSUME DigestAssumption ==
  /\ DaysPerWeek \in Nat \ {0}
  /\ {Horizon, MaxPractice, MaxRuns, MaxEvicted} \subseteq Nat
  /\ Nil \notin Nat \cup Deliveries

VARIABLES
  today,      \* the clock, in days
  practised,  \* questions answered in practice submitted in each week
  linked,     \* the child's link to the parent is approved
  scanJob,    \* each week's occurrence of the scan
  digestJob,  \* each week's digest job of the parent
  holder,     \* the attempt that holds the digest job's lease
  runs,       \* attempts of each digest job
  stored,     \* weekly_digests: the count that each week's row reports
  delivery,   \* where each attempt stands
  evicted,    \* history: how often the cache has lost each day's counter
  cap,        \* the frequency cap's counters, those that are gone among them
  rows,       \* notifications of kind digest_ready, by data.weekStart
  taken,      \* history: the week whose attempt each counter counted first
  marks       \* history of each week: what excuses a second row or none

digestVars == <<today, practised, linked, scanJob, digestJob, holder, runs,
                stored, delivery, evicted, cap, rows, taken, marks>>

-----------------------------------------------------------------------------
\* weekStartOf, weekKey, utcWeekKey: a day's week.
WeekOf(d) == d \div DaysPerWeek
Days == 0 .. Horizon
Weeks == 0 .. WeekOf(Horizon)
ThisWeek == WeekOf(today)

\* frequencyCapKey: a key a day.  A key that was evicted is another counter when
\* it comes back.
Counters == Days \X (0 .. MaxEvicted)
CounterOf(d) == <<d, evicted[d]>>

JobState == {"none", "open", "done", "dead"}
Marks == {"overlapped", "uncapped", "unlinked"}
\* `seen` is the evidence, `on` the day that the cap counts; `by` is history, the
\* counter that counted the attempt first.
Delivery == [step : {"idle", "due", "drafted", "counting", "sending", "sent"},
             week : Weeks, seen : Nat, on : Days, by : Counters \cup {Nil}]
Resting == [step |-> "idle", week |-> 0, seen |-> 0, on |-> 0, by |-> Nil]

Stands(a, step) == delivery[a].step = step
Proceeds(a, state) == delivery' = [delivery EXCEPT ![a] = state]
Moved(a, step) == [delivery[a] EXCEPT !.step = step]
Marked(w, mark) == [marks EXCEPT ![w] = @ \cup mark]

\* The attempt's handler returns: completion counts only for the lease's holder.
Completes(a) ==
  /\ LET w == delivery[a].week
     IN IF holder[w] = a
        THEN /\ digestJob' = [digestJob EXCEPT ![w] = "done"]
             /\ holder' = [holder EXCEPT ![w] = Nil]
        ELSE UNCHANGED <<digestJob, holder>>
  /\ Proceeds(a, Resting)

-----------------------------------------------------------------------------
(* The scan *)

\* ensureRecurringJobs, in whichever tick: one row for each week's key.
EnsureScan ==
  /\ scanJob[ThisWeek] = "none"
  /\ scanJob' = [scanJob EXCEPT ![ThisWeek] = "open"]
  /\ UNCHANGED <<today, practised, linked, digestJob, holder, runs, stored, delivery,
                 evicted, cap, rows, taken, marks>>

\* scanWeeklyDigests: the week is that of the clock when the job runs, whatever
\* week the job was enqueued for.  A scan that fails is run again.
RunScan(w) ==
  /\ scanJob[w] = "open"
  /\ scanJob' = [scanJob EXCEPT ![w] = "done"]
  /\ digestJob' = IF linked /\ digestJob[ThisWeek] = "none"
                  THEN [digestJob EXCEPT ![ThisWeek] = "open"] ELSE digestJob
  /\ UNCHANGED <<today, practised, linked, holder, runs, stored, delivery, evicted, cap,
                 rows, taken, marks>>

-----------------------------------------------------------------------------
(* deliverWeeklyDigest *)

\* hasDigestFor.
\* Faulty: the unique key of the job is relied upon.
NeverAsks(w) == FALSE
HasDigestFor(w) == rows[w] > 0

\* The job is claimed, at first or again, and the notification looked for.
ClaimDigest(a, w) ==
  /\ Stands(a, "idle") /\ digestJob[w] = "open" /\ runs[w] < MaxRuns
  /\ runs' = [runs EXCEPT ![w] = @ + 1]
  /\ IF HasDigestFor(w)
     THEN /\ digestJob' = [digestJob EXCEPT ![w] = "done"]
          /\ holder' = [holder EXCEPT ![w] = Nil]
          /\ UNCHANGED <<delivery, marks>>
     ELSE /\ holder' = [holder EXCEPT ![w] = a]
          /\ Proceeds(a, [Resting EXCEPT !.step = "due", !.week = w])
          /\ marks' = IF \E b \in Deliveries : ~Stands(b, "idle") /\ delivery[b].week = w
                      THEN Marked(w, {"overlapped"}) ELSE marks
          /\ UNCHANGED digestJob
  /\ UNCHANGED <<today, practised, linked, scanJob, stored, evicted, cap, rows, taken>>

\* buildWeeklyDigestFor finds no approved child: there is nothing to send.
NothingToSay(a) ==
  /\ Stands(a, "due") /\ ~linked
  /\ Completes(a)
  /\ marks' = Marked(delivery[a].week, {"unlinked"})
  /\ UNCHANGED <<today, practised, linked, scanJob, runs, stored, evicted, cap, rows,
                 taken>>

\* sendNotification: the clock is read, then the recipient.
Sending(a) == [Moved(a, "counting") EXCEPT !.on = today, !.seen = 0]

\* writeDigest: the row is there already, or the evidence of the week is read.
ReadEvidence(a) ==
  /\ Stands(a, "due") /\ linked
  /\ LET w == delivery[a].week
     IN Proceeds(a, IF stored[w] # Nil THEN Sending(a)
                    ELSE [Moved(a, "drafted") EXCEPT !.seen = practised[w]])
  /\ UNCHANGED <<today, practised, linked, scanJob, digestJob, holder, runs, stored,
                 evicted, cap, rows, taken, marks>>

\* insertDigest: ON CONFLICT DO NOTHING; the notification is composed from the
\* row that is there.
InsertDigest(a) ==
  /\ Stands(a, "drafted")
  /\ LET w == delivery[a].week
     IN stored' = IF stored[w] = Nil
                  THEN [stored EXCEPT ![w] = delivery[a].seen] ELSE stored
  /\ Proceeds(a, Sending(a))
  /\ UNCHANGED <<today, practised, linked, scanJob, digestJob, holder, runs, evicted, cap,
                 rows, taken, marks>>

\* Of the counter only none, one, and more than one are told apart.
Counted(n) == IF n = 0 THEN 1 ELSE 2

\* withinDailyCap: one digest_ready a day.  A suppressed send is a success.
Admitted(a, c) == [Moved(a, "sending") EXCEPT !.by = c]
CountDigest(a) ==
  /\ Stands(a, "counting")
  /\ LET c == CounterOf(delivery[a].on)
     IN /\ cap' = [cap EXCEPT ![c] = Counted(@)]
        /\ IF cap[c] = 0
           THEN /\ Proceeds(a, Admitted(a, c))
                /\ taken' = [taken EXCEPT ![c] = delivery[a].week]
                /\ UNCHANGED <<digestJob, holder>>
           ELSE /\ Completes(a)
                /\ UNCHANGED taken
  /\ UNCHANGED <<today, practised, linked, scanJob, runs, stored, evicted, rows, marks>>

\* ... the cache fails, before or after it counted: the send goes on.
CapFails(a) ==
  /\ Stands(a, "counting")
  /\ LET c == CounterOf(delivery[a].on)
     IN /\ cap' \in {cap, [cap EXCEPT ![c] = Counted(@)]}
        /\ taken' = IF cap' # cap /\ cap[c] = 0
                    THEN [taken EXCEPT ![c] = delivery[a].week] ELSE taken
  /\ Proceeds(a, Moved(a, "sending"))
  /\ marks' = Marked(delivery[a].week, {"uncapped"})
  /\ UNCHANGED <<today, practised, linked, scanJob, digestJob, holder, runs, stored, evicted,
                 rows>>

\* The cache evicts a counter: the next attempt of the day counts from zero.
LoseCap(d) ==
  /\ cap[CounterOf(d)] > 0 /\ evicted[d] < MaxEvicted
  /\ evicted' = [evicted EXCEPT ![d] = @ + 1]
  /\ UNCHANGED <<today, practised, linked, scanJob, digestJob, holder, runs, stored,
                 delivery, cap, rows, taken, marks>>

\* The in-app channel writes the row; its data carries the week.
WriteRow(a) ==
  /\ Stands(a, "sending")
  /\ rows' = [rows EXCEPT ![delivery[a].week] = @ + 1]
  /\ Proceeds(a, Moved(a, "sent"))
  /\ UNCHANGED <<today, practised, linked, scanJob, digestJob, holder, runs, stored,
                 evicted, cap, taken, marks>>

FinishDelivery(a) ==
  /\ Stands(a, "sent")
  /\ Completes(a)
  /\ UNCHANGED <<today, practised, linked, scanJob, runs, stored, evicted, cap, rows,
                 taken, marks>>

\* An await throws, or the worker dies.
DeliveryFails(a) ==
  /\ ~Stands(a, "idle")
  /\ Proceeds(a, Resting)
  /\ UNCHANGED <<today, practised, linked, scanJob, digestJob, holder, runs, stored,
                 evicted, cap, rows, taken, marks>>

\* The last attempt failed, or its lease ran out.
DigestDies(w) ==
  /\ digestJob[w] = "open" /\ runs[w] = MaxRuns
  /\ digestJob' = [digestJob EXCEPT ![w] = "dead"]
  /\ holder' = [holder EXCEPT ![w] = Nil]
  /\ UNCHANGED <<today, practised, linked, scanJob, runs, stored, delivery, evicted, cap,
                 rows, taken, marks>>

-----------------------------------------------------------------------------
(* The child, the link, time *)

Practise ==
  /\ practised[ThisWeek] < MaxPractice
  /\ practised' = [practised EXCEPT ![ThisWeek] = @ + 1]
  /\ UNCHANGED <<today, linked, scanJob, digestJob, holder, runs, stored, delivery,
                 evicted, cap, rows, taken, marks>>

EndLink ==
  /\ linked /\ linked' = FALSE
  /\ UNCHANGED <<today, practised, scanJob, digestJob, holder, runs, stored, delivery,
                 evicted, cap, rows, taken, marks>>

NextDay ==
  /\ today < Horizon
  /\ today' = today + 1
  /\ UNCHANGED <<practised, linked, scanJob, digestJob, holder, runs, stored, delivery,
                 evicted, cap, rows, taken, marks>>

-----------------------------------------------------------------------------
DigestInit ==
  /\ today = 0
  /\ practised = [w \in Weeks |-> 0]
  /\ linked = TRUE
  /\ scanJob = [w \in Weeks |-> "none"]
  /\ digestJob = [w \in Weeks |-> "none"]
  /\ holder = [w \in Weeks |-> Nil]
  /\ runs = [w \in Weeks |-> 0]
  /\ stored = [w \in Weeks |-> Nil]
  /\ delivery = [a \in Deliveries |-> Resting]
  /\ evicted = [d \in Days |-> 0]
  /\ cap = [c \in Counters |-> 0]
  /\ rows = [w \in Weeks |-> 0]
  /\ taken = [c \in Counters |-> Nil]
  /\ marks = [w \in Weeks |-> {}]

DigestNext ==
  \/ EnsureScan
  \/ \E w \in Weeks : RunScan(w) \/ DigestDies(w)
  \/ \E a \in Deliveries :
       \/ \E w \in Weeks : ClaimDigest(a, w)
       \/ NothingToSay(a) \/ ReadEvidence(a) \/ InsertDigest(a)
       \/ CountDigest(a) \/ CapFails(a)
       \/ WriteRow(a) \/ FinishDelivery(a) \/ DeliveryFails(a)
  \/ \E d \in Days : LoseCap(d)
  \/ Practise \/ EndLink \/ NextDay

DigestSpec == DigestInit /\ [][DigestNext]_digestVars

-----------------------------------------------------------------------------
DigestTypeOK ==
  /\ today \in Days /\ linked \in BOOLEAN
  /\ practised \in [Weeks -> Nat]
  /\ {scanJob, digestJob} \subseteq [Weeks -> JobState]
  /\ holder \in [Weeks -> Deliveries \cup {Nil}]
  /\ stored \in [Weeks -> Nat \cup {Nil}]
  /\ delivery \in [Deliveries -> Delivery]
  /\ evicted \in [Days -> 0 .. MaxEvicted]
  /\ cap \in [Counters -> 0 .. 2]
  /\ {rows, runs} \subseteq [Weeks -> Nat]
  /\ taken \in [Counters -> Weeks \cup {Nil}]
  /\ marks \in [Weeks -> SUBSET Marks]

\* A week's digest reaches the parent twice only when two attempts overlapped
\* and the cap did not stand between them: the cache failed, or each attempt was
\* the first that its counter counted, on a day of its own or on either side of
\* an eviction.
SentOnce ==
  \A w \in Weeks : rows[w] > 1 =>
    /\ "overlapped" \in marks[w]
    /\ "uncapped" \in marks[w] \/ Cardinality({c \in Counters : taken[c] = w}) > 1

\* A digest job is done without its notification only when the parent had no
\* child any more, or when a counter had the day's one notification taken: by
\* another week's digest, or by another attempt of the same week, which may have
\* failed after it was counted.  An attempt alone never loses its digest.
LostToTheCap ==
  \A w \in Weeks : digestJob[w] = "done" /\ rows[w] = 0 =>
    \/ "unlinked" \in marks[w]
    \/ \E c \in Counters :
         cap[c] > 1 /\ taken[c] # Nil /\ (taken[c] = w => runs[w] > 1)

\* A digest reports no practice that did not happen in its week.
NothingInvented ==
  \A w \in Weeks : stored[w] # Nil => stored[w] <= practised[w]

\* Types, and what becomes of a week's digest.
DigestInv == DigestTypeOK /\ SentOnce /\ LostToTheCap /\ NothingInvented

\* "The digest reports a school week": once the week is over, its digest
\* counts all that was practised in it.
DigestReportsTheWeek ==
  \A w \in Weeks : w < ThisWeek /\ stored[w] # Nil => stored[w] = practised[w]

=============================================================================

--------------------------- MODULE ServerShutdown ---------------------------
(***************************************************************************)
(* One HTTP process from its traffic to its exit: the drain, the buffered  *)
(* sink of metrics with its timer and its chain of writes, and the mails   *)
(* that a request starts and does not wait for.  Observations are numbered *)
(* in the order in which they are recorded.                                *)
(***************************************************************************)
EXTENDS Naturals, Sequences, SequencesExt

CONSTANTS
  Clients,     \* requests in flight at one time, and the mail each may start
  BufferSize,  \* observations that make a write by themselves
  MaxObserved  \* bound on the observations

ASSUME ServerAssumption == BufferSize \in Nat \ {0} /\ MaxObserved \in Nat

VARIABLES
  stage,     \* how far the shutdown has come
  serving,   \* requests in flight
  mailing,   \* mails under way
  observed,  \* observations recorded so far
  buffer,    \* observations that wait
  timer,     \* the interval is armed
  chain,     \* batches handed to the database: the first is being inserted
  awaited,   \* batches that the last flush has still to wait for
  table,     \* metrics_events
  refused,   \* history: observations whose insert failed
  sealed,    \* history: observations recorded before the last flush
  strays     \* history: a request or a mail went on when the drain had ended

traffic == <<serving, mailing>>
sink == <<observed, buffer, timer, chain, awaited, table, refused>>
flushMarks == <<sealed, strays>>
serverVars == <<stage, traffic, sink, flushMarks>>

-----------------------------------------------------------------------------
\* The pools take no new insert once close has been called.
PoolsOpen == stage \in {"up", "draining", "flushing"}
\* The sink has been stopped: nothing arms the interval again.
Stopped == stage \notin {"up", "draining"}
Down == stage \in {"exited", "killed"}

\* flush: the rows wait for the write before them; a closed pool drops them.
Handed(rows) ==
  chain' = IF rows = <<>> \/ ~PoolsOpen THEN chain ELSE Append(chain, rows)

\* record, by whoever observes; the important ones do not wait.
Record(important) ==
  LET waiting == Append(buffer, observed + 1)
  IN /\ observed < MaxObserved
     /\ observed' = observed + 1
     /\ IF important \/ Len(waiting) >= BufferSize
        THEN Handed(waiting) /\ buffer' = <<>> /\ UNCHANGED timer
        ELSE buffer' = waiting /\ timer' = ~Stopped /\ UNCHANGED chain

-----------------------------------------------------------------------------
(* Traffic *)

\* A request that arrives during the drain is answered 503.
Arrive(r) ==
  /\ stage = "up" /\ r \notin serving
  /\ serving' = serving \cup {r}
  /\ UNCHANGED <<stage, mailing, sink, flushMarks>>

Observe(r) ==
  /\ r \in serving /\ ~Down
  /\ \E important \in BOOLEAN : Record(important)
  /\ UNCHANGED <<stage, traffic, awaited, table, refused, flushMarks>>

\* deferMail: the send is started and not awaited.
DeferMail(r) ==
  /\ r \in serving \ mailing /\ ~Down
  /\ mailing' = mailing \cup {r}
  /\ UNCHANGED <<stage, serving, sink, flushMarks>>

Respond(r) ==
  /\ r \in serving /\ ~Down
  /\ serving' = serving \ {r}
  /\ UNCHANGED <<stage, mailing, sink, flushMarks>>

MailSent(r) ==
  /\ r \in mailing /\ ~Down
  /\ mailing' = mailing \ {r}
  /\ UNCHANGED <<stage, serving, sink, flushMarks>>

\* The failure of a deferred mail is counted.
MailFails(r) ==
  /\ r \in mailing /\ ~Down
  /\ mailing' = mailing \ {r}
  /\ Record(FALSE)
  /\ UNCHANGED <<stage, serving, awaited, table, refused, flushMarks>>

-----------------------------------------------------------------------------
(* The sink *)

\* The interval: it flushes what waits, or is disarmed.
TimerFires ==
  /\ timer /\ ~Down
  /\ Handed(buffer)
  /\ buffer' = <<>>
  /\ timer' = (buffer # <<>>)
  /\ UNCHANGED <<stage, traffic, observed, awaited, table, refused, flushMarks>>

\* The first insert of the chain ends; a failed one is logged and dropped.
WriteEnds ==
  /\ chain # <<>> /\ ~Down
  /\ \/ table' = table \o Head(chain) /\ UNCHANGED refused
     \/ refused' = refused \cup Range(Head(chain)) /\ UNCHANGED table
  /\ chain' = Tail(chain)
  /\ awaited' = IF awaited > 0 THEN awaited - 1 ELSE 0
  /\ UNCHANGED <<stage, traffic, observed, buffer, timer, flushMarks>>

-----------------------------------------------------------------------------
(* The shutdown *)

\* The first SIGTERM or SIGINT; any other finds the shutdown running.
Signal ==
  /\ stage = "up"
  /\ stage' = "draining"
  /\ UNCHANGED <<traffic, sink, flushMarks>>

\* What shutdown of the container waits for before it closes the pools.
\* Faulty: the flush is one more thing that is closed alongside the pools.
NoneAwaited == 0
LastFlush == Len(chain) + (IF buffer = <<>> THEN 0 ELSE 1)

\* The requests have ended, or the deadline has passed, or close has failed:
\* the interval is stopped and what waits is flushed.
StopServing ==
  /\ stage = "draining"
  /\ stage' = "flushing"
  /\ Handed(buffer)
  /\ buffer' = <<>>
  /\ timer' = FALSE
  /\ awaited' = LastFlush
  /\ sealed' = observed
  /\ strays' = (serving \cup mailing # {})
  /\ UNCHANGED <<traffic, observed, table, refused>>

\* ... its write has ended: pools.close.  The insert under way keeps its
\* connection; those behind it find the pool closed.
ClosePools ==
  /\ stage = "flushing" /\ awaited = 0
  /\ stage' = "closing"
  /\ chain' = IF chain = <<>> THEN <<>> ELSE <<Head(chain)>>
  /\ UNCHANGED <<traffic, observed, buffer, timer, awaited, table, refused, flushMarks>>

\* The pools have no connection out any more: exit(0).
ExitServer ==
  /\ stage = "closing" /\ chain = <<>>
  /\ stage' = "exited"
  /\ UNCHANGED <<traffic, sink, flushMarks>>

\* SIGKILL, or the process is lost.
Kill ==
  /\ ~Down
  /\ stage' = "killed"
  /\ UNCHANGED <<traffic, sink, flushMarks>>

-----------------------------------------------------------------------------
ServerInit ==
  /\ stage = "up"
  /\ serving = {} /\ mailing = {}
  /\ observed = 0 /\ buffer = <<>> /\ timer = FALSE
  /\ chain = <<>> /\ awaited = 0 /\ table = <<>>
  /\ refused = {} /\ sealed = 0 /\ strays = FALSE

ServerNext ==
  \/ \E r \in Clients :
       Arrive(r) \/ Observe(r) \/ DeferMail(r) \/ Respond(r) \/ MailSent(r) \/ MailFails(r)
  \/ TimerFires \/ WriteEnds
  \/ Signal \/ StopServing \/ ClosePools \/ ExitServer \/ Kill

ServerSpec == ServerInit /\ [][ServerNext]_serverVars

-----------------------------------------------------------------------------
Numbers == 1 .. observed

ServerTypeOK ==
  /\ stage \in {"up", "draining", "flushing", "closing", "exited", "killed"}
  /\ {serving, mailing} \subseteq SUBSET Clients
  /\ {observed, awaited, sealed} \subseteq Nat
  /\ {buffer, table} \subseteq Seq(Numbers)
  /\ chain \in Seq(Seq(Numbers))
  /\ refused \subseteq Numbers
  /\ {timer, strays} \subseteq BOOLEAN

\* The rows of each batch and the batches themselves are in the order in which
\* they were recorded, with what has landed before and what waits behind.
Increasing(rows) == \A i, j \in DOMAIN rows : i < j => rows[i] < rows[j]
Precede(rows, later) == \A i \in DOMAIN rows, j \in DOMAIN later : rows[i] < later[j]
InOrder(landed, batches, waiting) ==
  /\ Increasing(landed) /\ Increasing(waiting) /\ Precede(landed, waiting)
  /\ \A b \in DOMAIN batches :
       /\ Precede(landed, batches[b]) /\ Increasing(batches[b]) /\ Precede(batches[b], waiting)
       /\ \A c \in DOMAIN batches : b < c => Precede(batches[b], batches[c])

\* However flushes overlap, observations land once and in the order in which
\* they were recorded.
LandsInOrder == InOrder(table, chain, buffer)

\* "Bounds the AGE of an observation": none waits without the interval armed
\* to write it, until the sink has been stopped.
SomethingWrites == buffer # <<>> => timer \/ Stopped

\* A process that exits has written every observation recorded before the last
\* flush, but for inserts that the database refused; an observation comes
\* later only when the drain left a request or a mail behind.
NothingDropped ==
  stage = "exited" =>
    /\ 1 .. sealed \subseteq Range(table) \cup refused
    /\ observed > sealed => strays

\* Types, and what becomes of an observation.
ServerInv == ServerTypeOK /\ LandsInOrder /\ SomethingWrites /\ NothingDropped

=============================================================================

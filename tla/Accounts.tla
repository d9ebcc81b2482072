------------------------------ MODULE Accounts ------------------------------
(***************************************************************************)
(* One verified account of the identity module: its password, its          *)
(* sessions, the reset links mailed to it, and the requests and the        *)
(* sweeper that use them.                                                  *)
(* A step is one statement of identity.repository.ts with the code up to   *)
(* the next await; what a request carries from one await to the next is as *)
(* old as it is in the code.  The reset is the one transaction of several  *)
(* statements.  Under READ COMMITTED others see nothing of it before its   *)
(* commit: they wait for the rows it has written, and may add rows beside. *)
(***************************************************************************)
EXTENDS Naturals, FiniteSets

CONSTANTS
  Requests,     \* requests being served at one time
  Sessions,     \* rows the table sessions can come to hold
  ResetLinks,   \* rows of password_reset_tokens
  RenewAfter,   \* SESSION_RENEW_AFTER_MS
  IdleTtl,      \* SESSION_IDLE_TTL_MS
  AbsoluteTtl,  \* absoluteSessionTtlMs
  ResetTtl,     \* PASSWORD_RESET_TTL_MS
  BatchSize,    \* BATCH_SIZE of the sweeper
  MaxBatches,   \* MAX_BATCHES_PER_RUN
  MaxNow,       \* bound on the clock
  None          \* no session, no link

ASSUME AccountsAssumption ==
  /\ {RenewAfter, IdleTtl, AbsoluteTtl, ResetTtl, MaxNow} \subseteq Nat
  /\ {BatchSize, MaxBatches} \subseteq Nat \ {0}
  /\ None \notin Sessions \cup ResetLinks

VARIABLES
  now,       \* the clock
  password,  \* users.password_hash, as the number of resets that have committed
  session,   \* the table sessions
  reset,     \* the table password_reset_tokens
  request,   \* where each request stands
  sweep      \* the sweeper's run

accountVars == <<now, password, session, reset, request, sweep>>

-----------------------------------------------------------------------------
(* Rows *)

\* `after` is history: how many resets had cleared the table when the row was
\* written, the open one among them if its statement on that table had run.
SessionRow == [state : {"unused", "live", "gone"}, created : Nat, used : Nat,
               expires : Nat, after : Nat]
NoSession == [state |-> "unused", created |-> 0, used |-> 0, expires |-> 0, after |-> 0]

LinkRow == [state : {"unused", "live", "spent"}, expires : Nat, after : Nat]
NoLink == [state |-> "unused", expires |-> 0, after |-> 0]
\* A spent link's other columns are never read again.
Spent == [NoLink EXCEPT !.state = "spent"]

Live(table) == {x \in DOMAIN table : table[x].state = "live"}

\* isExpired: `expiresAt <= now`.
Expired(expires, at) == expires <= at

\* sessionDeadline: the sliding bound, clamped to the absolute one.
Sooner(a, b) == IF a <= b THEN a ELSE b
\* Faulty: the sliding bound alone.
SlidingDeadline(created, at) == at + IdleTtl
Deadline(created, at) == Sooner(at + IdleTtl, created + AbsoluteTtl)

\* A new row takes the next id: none, when the bound is reached.
Unused(rows) == {x \in DOMAIN rows : rows[x].state = "unused"}
NextUnused(rows) ==
  IF Unused(rows) = {} THEN {} ELSE {CHOOSE x \in Unused(rows) : TRUE}

-----------------------------------------------------------------------------
(* Requests: the await at which each one stands and what it has read *)

Steps == {"idle", "checked", "linkLocked", "userLocked",
          "purged", "retiring", "found", "expired", "renewing"}
\* `at` is the clock reading that renewSession writes; `rows` and `links` are
\* what the statements of a reset have found.
Request == [step : Steps, link : ResetLinks \cup {None},
            rows : SUBSET Sessions, links : SUBSET ResetLinks,
            session : Sessions \cup {None},
            created : Nat, used : Nat, expires : Nat, at : Nat]
Idle == [step |-> "idle", link |-> None, rows |-> {}, links |-> {}, session |-> None,
         created |-> 0, used |-> 0, expires |-> 0, at |-> 0]
Found(s) == [Idle EXCEPT !.step = "found", !.session = s, !.created = session[s].created,
                         !.used = session[s].used, !.expires = session[s].expires]
Expiring(read) == [Idle EXCEPT !.step = "expired", !.session = read.session]
Renewing(read) == [Idle EXCEPT !.step = "renewing", !.session = read.session,
                               !.created = read.created, !.at = now]

\* Rows that an open transaction keeps from everybody else.
LinkLocked(t) == \E r \in Requests : request[r].link = t
UserLocked == \E r \in Requests : request[r].step \in {"userLocked", "purged", "retiring"}
RowFree(s) == \A r \in Requests : s \notin request[r].rows

\* History: the resets so far, with the open one if its DELETE of the sessions,
\* or its UPDATE of the links, has begun.
OpenPast(steps) == IF \E r \in Requests : request[r].step \in steps THEN 1 ELSE 0
Purges == password + OpenPast({"purged", "retiring"})
Retirements == password + OpenPast({"retiring"})

Becomes(r, state) == request' = [request EXCEPT ![r] = state]
Ends(r) == Becomes(r, Idle)

-----------------------------------------------------------------------------
(* Sign-in, sign-out and validation *)

\* login up to issueSession: the row is read, its hash verified, the counters
\* reset.  A wrong password ends the request.  verifyEmail goes on to
\* issueSession in the same way, without a password.  What was checked is not
\* looked at again.
CheckPassword(r) ==
  /\ request[r].step = "idle"
  /\ Becomes(r, [Idle EXCEPT !.step = "checked"])
  /\ UNCHANGED <<now, password, session, reset, sweep>>

\* issueSession.  The foreign key takes FOR KEY SHARE of the user's row, which
\* the reset's UPDATE of another column does not hold up.
IssueSession(r) ==
  /\ request[r].step = "checked"
  /\ \E s \in NextUnused(session) :
       /\ session' = [session EXCEPT ![s] =
            [state |-> "live", created |-> now, used |-> now,
             expires |-> Deadline(now, now), after |-> Purges]]
  /\ Ends(r)
  /\ UNCHANGED <<now, password, reset, sweep>>

\* A deleted row; its id is not used again.
Deleted == [NoSession EXCEPT !.state = "gone"]
Gone(S) == [s \in Sessions |-> IF s \in S THEN Deleted ELSE session[s]]

\* logout; deleteSessionByTokenHash.
Logout ==
  /\ \E s \in Live(session) : RowFree(s) /\ session' = Gone({s})
  /\ UNCHANGED <<now, password, reset, request, sweep>>

\* logoutAll.
LogoutAll ==
  /\ Live(session) # {} /\ \A s \in Live(session) : RowFree(s)
  /\ session' = Gone(Live(session))
  /\ UNCHANGED <<now, password, reset, request, sweep>>

\* validateSession: findSessionByTokenHash.
FindSession(r) ==
  /\ request[r].step = "idle"
  /\ \E s \in Live(session) : Becomes(r, Found(s))
  /\ UNCHANGED <<now, password, session, reset, sweep>>

\* ... the clock is read and the row judged: refuse, renew first, or accept.
JudgeSession(r) ==
  /\ request[r].step = "found"
  /\ LET row == request[r]
         dead == Expired(row.created + AbsoluteTtl, now) \/ Expired(row.expires, now)
     IN \/ /\ dead
           /\ Becomes(r, Expiring(row))
        \/ /\ ~dead /\ now - row.used >= RenewAfter
           /\ Becomes(r, Renewing(row))
        \/ /\ ~dead /\ now - row.used < RenewAfter
           /\ Ends(r)
  /\ UNCHANGED <<now, password, session, reset, sweep>>

\* ... the delete of an expired session.
DropExpired(r) ==
  /\ request[r].step = "expired" /\ RowFree(request[r].session)
  /\ session' = Gone({request[r].session})
  /\ Ends(r)
  /\ UNCHANGED <<now, password, reset, sweep>>

Renewed(row, by) ==
  [row EXCEPT !.used = by.at, !.expires = Deadline(by.created, by.at)]

\* renewSession: an UPDATE by id, which finds nothing when the row is gone.
RenewSession(r) ==
  /\ request[r].step = "renewing" /\ RowFree(request[r].session)
  /\ LET s == request[r].session
     IN session' = IF session[s].state = "live"
                   THEN [session EXCEPT ![s] = Renewed(@, request[r])]
                   ELSE session
  /\ Ends(r)
  /\ UNCHANGED <<now, password, reset, sweep>>

-----------------------------------------------------------------------------
(* Password reset *)

\* requestPasswordReset: a link is added, the earlier ones stay.
RequestReset ==
  /\ \E t \in NextUnused(reset) :
       reset' = [reset EXCEPT ![t] =
         [state |-> "live", expires |-> now + ResetTtl, after |-> Retirements]]
  /\ UNCHANGED <<now, password, session, request, sweep>>

\* resetPasswordWithToken: SELECT ... FOR UPDATE of the link.
LinkFree(t) == ~LinkLocked(t)
LockLink(r) ==
  /\ request[r].step = "idle"
  /\ \E t \in Live(reset) :
       /\ LinkFree(t) /\ ~Expired(reset[t].expires, now)
       /\ Becomes(r, [Idle EXCEPT !.step = "linkLocked", !.link = t])
  /\ UNCHANGED <<now, password, session, reset, sweep>>

\* ... UPDATE users, which waits for any other reset of the account.
LockUser(r) ==
  /\ request[r].step = "linkLocked" /\ ~UserLocked
  /\ Becomes(r, [request[r] EXCEPT !.step = "userLocked"])
  /\ UNCHANGED <<now, password, session, reset, sweep>>

\* The sessions that the DELETE finds.
\* Faulty: none; the deletion was left to a later statement.
NoneRevoked == {}
Revoked == Live(session)

\* ... DELETE of the sessions.
PurgeSessions(r) ==
  /\ request[r].step = "userLocked"
  /\ Becomes(r, [request[r] EXCEPT !.step = "purged", !.rows = Revoked])
  /\ UNCHANGED <<now, password, session, reset, sweep>>

\* The links that the last UPDATE finds.
\* Faulty: only the link that was presented.
OwnLink(r) == {request[r].link}
Outstanding(r) == Live(reset)

\* ... UPDATE of every outstanding link, which begins,
RetireLinks(r) ==
  /\ request[r].step = "purged"
  /\ Becomes(r, [request[r] EXCEPT !.step = "retiring", !.links = Outstanding(r)])
  /\ UNCHANGED <<now, password, session, reset, sweep>>

\* ... waits for the links that other resets have locked, and the commit.
CommitReset(r) ==
  /\ request[r].step = "retiring"
  /\ \A q \in Requests \ {r} : request[q].link \notin request[r].links
  /\ password' = password + 1
  /\ session' = Gone(request[r].rows)
  /\ reset' = [t \in ResetLinks |-> IF t \in request[r].links THEN Spent ELSE reset[t]]
  /\ Ends(r)
  /\ UNCHANGED <<now, sweep>>

-----------------------------------------------------------------------------
(* Failures, the sweeper, time *)

\* History: a reset that is rolled back has cleared nothing.
Uncleared(row) == [row EXCEPT !.after = Sooner(@, password)]
UnclearedAll(table) == [x \in DOMAIN table |-> Uncleared(table[x])]

\* A request dies at an await: a crash, a lost connection, or the database
\* breaking a deadlock.  Its transaction is rolled back.
Dies(r) ==
  /\ request[r].step # "idle"
  /\ Ends(r)
  /\ IF request[r].step \in {"purged", "retiring"}
     THEN session' = UnclearedAll(session) /\ reset' = UnclearedAll(reset)
     ELSE UNCHANGED <<session, reset>>
  /\ UNCHANGED <<now, password, sweep>>

NoSweep == [cutoff |-> 0, batches |-> 0]
Swept(cutoff) == {s \in Live(session) : session[s].expires < cutoff}

\* A batch; the run ends with a short batch or at the ceiling.  A batch with
\* rows that an open reset has deleted waits for it.
DeleteBatch(run) ==
  /\ \E S \in SUBSET Swept(run.cutoff) :
       /\ \A s \in S : RowFree(s)
       /\ Cardinality(S) = Sooner(BatchSize, Cardinality(Swept(run.cutoff)))
       /\ session' = Gone(S)
       /\ sweep' = IF Cardinality(S) < BatchSize \/ run.batches = 1
                   THEN NoSweep ELSE [run EXCEPT !.batches = @ - 1]
  /\ UNCHANGED <<now, password, reset, request>>

\* sweepExpiredSessions: one clock reading for the whole run, and the first batch.
BeginSweep ==
  /\ sweep = NoSweep
  /\ DeleteBatch([cutoff |-> now, batches |-> MaxBatches])

\* ... another batch.
SweepOn ==
  /\ sweep # NoSweep
  /\ DeleteBatch(sweep)

Tick ==
  /\ now < MaxNow
  /\ now' = now + 1
  /\ UNCHANGED <<password, session, reset, request, sweep>>

-----------------------------------------------------------------------------
AccountsInit ==
  /\ now = 0
  /\ password = 0
  /\ session = [s \in Sessions |-> NoSession]
  /\ reset = [t \in ResetLinks |-> NoLink]
  /\ request = [r \in Requests |-> Idle]
  /\ sweep = NoSweep

AccountsNext ==
  \/ \E r \in Requests :
       \/ CheckPassword(r) \/ IssueSession(r)
       \/ FindSession(r) \/ JudgeSession(r) \/ DropExpired(r) \/ RenewSession(r)
       \/ LockLink(r) \/ LockUser(r) \/ PurgeSessions(r) \/ RetireLinks(r) \/ CommitReset(r)
       \/ Dies(r)
  \/ Logout \/ LogoutAll
  \/ RequestReset
  \/ BeginSweep \/ SweepOn
  \/ Tick

AccountsSpec == AccountsInit /\ [][AccountsNext]_accountVars

-----------------------------------------------------------------------------
(* Properties *)

AccountsTypeOK ==
  /\ now \in Nat /\ password \in Nat
  /\ session \in [Sessions -> SessionRow]
  /\ reset \in [ResetLinks -> LinkRow]
  /\ request \in [Requests -> Request]
  /\ sweep \in [cutoff : Nat, batches : Nat]

\* Whatever renewals overlap and in whatever order they land, a session's
\* deadline is that of its last recorded use, and never past the ceiling that
\* its creation sets (the two bounds of validateSession).
DeadlinesHold ==
  \A s \in Sessions : session[s].state = "live" =>
    /\ session[s].created <= session[s].used /\ session[s].used <= now
    /\ session[s].expires = Deadline(session[s].created, session[s].used)
    /\ session[s].expires <= session[s].created + AbsoluteTtl

\* No session outlives a reset that found it: whatever sign-ins, renewals and
\* resets overlap, every live session was written after the last reset that
\* committed had deleted the sessions.  (One written between that DELETE and
\* the commit lives on, whatever password it was opened with.)
NoneOutlivesAReset == \A s \in Live(session) : session[s].after >= password

\* Types, the deadlines of sessions, and the sessions that a reset leaves.
AccountsInv == AccountsTypeOK /\ DeadlinesHold /\ NoneOutlivesAReset

\* A reset is made with a link that the reset before it could not retire: of all
\* the links that one reset finds outstanding none changes the password again,
\* although resets lock different links and each waits for the other.  (A link
\* issued between the last UPDATE and the commit stays good.)
ResetsSpendTheirLinks ==
  [][\A r \in Requests :
       request[r].step = "retiring" /\ password' # password /\ request'[r].step = "idle"
         => reset[request[r].link].after >= password]_accountVars

=============================================================================

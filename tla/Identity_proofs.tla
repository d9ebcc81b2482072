--------------------------- MODULE Identity_proofs ---------------------------
(***************************************************************************)
(* Who may see what: sessions and password resets, the verification of an  *)
(* address, the codes and links of a family, and the gate in front of a    *)
(* child's data; each for any number of requests, with an inductive        *)
(* invariant of its own.                                                   *)
(***************************************************************************)
EXTENDS Accounts, Verification, FamilyLinks, ChildAccess, FiniteSetTheorems,
        SequenceTheorems, TLAPS

-----------------------------------------------------------------------------
(* Sessions and password resets. *)

(* A row that is there holds the two bounds of its deadline, and was       *)
(* written after the last committed reset had cleared the table.           *)
RowHolds(row) ==
  row.state = "live" =>
    /\ row.created <= row.used /\ row.used <= now
    /\ row.expires = Deadline(row.created, row.used)
    /\ row.expires <= row.created + AbsoluteTtl
    /\ row.after >= password

(* What a validation carries fits the row that it read, as long as the row *)
(* is there: ids are not used again.                                       *)
ReadFits(q) ==
  q.step \in {"found", "renewing"} =>
    /\ q.session \in Sessions /\ session[q.session].state # "unused"
    /\ session[q.session].state = "live" => session[q.session].created = q.created
    /\ q.created <= now
    /\ q.step = "renewing" => q.created <= q.at /\ q.at <= now

(* A reset's link is live for as long as the reset holds its lock.         *)
LockFits(q) ==
  /\ q.link # None => q.link \in ResetLinks /\ reset[q.link].state = "live"
  /\ q.step \in {"linkLocked", "userLocked", "purged", "retiring"} => q.link # None

(* What an open reset has not found was written after its statement.       *)
ResetFits(q) ==
  /\ q.step \in {"purged", "retiring"} =>
       \A s \in Sessions : session[s].state = "live" /\ s \notin q.rows => session[s].after > password
  /\ q.step = "retiring" =>
       \A t \in ResetLinks : reset[t].state = "live" /\ t \notin q.links => reset[t].after > password

(* The user's row is held by one reset at a time.                          *)
Holding(q) == q.step \in {"userLocked", "purged", "retiring"}
OneHolds == \A r, p \in Requests : Holding(request[r]) /\ Holding(request[p]) => r = p

(* Between two batches the sweeper has a batch left.                       *)
SweepRuns == {NoSweep} \cup [cutoff : Nat, batches : Nat \ {0}]

(* The inductive invariant.                                                *)
AccInv ==
  /\ AccountsTypeOK
  /\ \A s \in Sessions : RowHolds(session[s])
  /\ \A r \in Requests : ReadFits(request[r]) /\ LockFits(request[r]) /\ ResetFits(request[r])
  /\ OneHolds
  /\ \A t \in ResetLinks : reset[t].state = "live" => reset[t].after >= password
  /\ sweep \in SweepRuns

-----------------------------------------------------------------------------
(* Rows and requests are well typed.                                       *)
LEMMA DeadlineBound ==
  ASSUME NEW a \in Nat, NEW b \in Nat
  PROVE  Deadline(a, b) \in Nat /\ Deadline(a, b) <= a + AbsoluteTtl
<1> USE AccountsAssumption
<1>1. IdleTtl \in Nat /\ AbsoluteTtl \in Nat
  OBVIOUS
<1> QED BY <1>1 DEF Deadline, Sooner

LEMMA RowTypes == NoSession \in SessionRow /\ Deleted \in SessionRow
BY DEF NoSession, Deleted, SessionRow

LEMMA IdleTypes ==
  Idle \in Request /\ ReadFits(Idle) /\ LockFits(Idle) /\ ResetFits(Idle) /\ ~Holding(Idle)
BY DEF Idle, Request, Steps, ReadFits, LockFits, ResetFits, Holding

LEMMA NewRowTypes ==
  ASSUME NEW c \in Nat, NEW u \in Nat, NEW e \in Nat, NEW n \in Nat
  PROVE  [state |-> "live", created |-> c, used |-> u, expires |-> e, after |-> n] \in SessionRow
BY DEF SessionRow

(* While a reset is open, what is written is written after its statement.  *)
LEMMA PastBounds ==
  ASSUME password \in Nat
  PROVE  /\ Purges \in Nat /\ Purges >= password
         /\ Retirements \in Nat /\ Retirements >= password
         /\ \A r \in Requests :
              /\ request[r].step \in {"purged", "retiring"} => Purges > password
              /\ request[r].step = "retiring" => Retirements > password
BY DEF Purges, Retirements, OpenPast

(* A renewal keeps the row's creation and history.                         *)
LEMMA RenewedTypes ==
  ASSUME NEW row \in SessionRow, NEW by \in Request
  PROVE  /\ Renewed(row, by) \in SessionRow
         /\ Renewed(row, by).state = row.state
         /\ Renewed(row, by).created = row.created
         /\ Renewed(row, by).used = by.at
         /\ Renewed(row, by).expires = Deadline(by.created, by.at)
         /\ Renewed(row, by).after = row.after
<1>1. by.created \in Nat /\ by.at \in Nat
  BY DEF Request
<1>2. Deadline(by.created, by.at) \in Nat
  BY <1>1, DeadlineBound
<1> QED BY <1>1, <1>2, Zenon DEF Renewed, SessionRow

-----------------------------------------------------------------------------
(* Only one request moves.                                                 *)
LEMMA RequestMoves ==
  ASSUME AccInv, NEW r \in Requests, NEW q \in Request, Becomes(r, q),
         ReadFits(q), LockFits(q), ResetFits(q),
         Holding(q) => \A p \in Requests \ {r} : ~Holding(request[p]),
         UNCHANGED <<now, password, session, reset>>, sweep' = sweep
  PROVE  AccInv'
<1>1. request' \in [Requests -> Request] /\ request' = [request EXCEPT ![r] = q]
  BY DEF AccInv, AccountsTypeOK, Becomes
<1>2. AccountsTypeOK'
  BY <1>1 DEF AccInv, AccountsTypeOK
<1>3. \A s \in Sessions : RowHolds(session[s])'
  BY DEF AccInv, RowHolds, Deadline, Sooner
<1>4. \A p \in Requests : request'[p] = IF p = r THEN q ELSE request[p]
  BY <1>1 DEF AccInv, AccountsTypeOK
<1>5. ASSUME NEW p \in Requests
      PROVE  (ReadFits(request[p]) /\ LockFits(request[p]) /\ ResetFits(request[p]))'
  <2>1. ReadFits(request'[p]) /\ LockFits(request'[p]) /\ ResetFits(request'[p])
    BY <1>4 DEF AccInv
  <2> QED BY <2>1 DEF ReadFits, LockFits, ResetFits
<1>6. OneHolds'
  BY <1>4 DEF AccInv, OneHolds, Holding
<1> QED BY <1>2, <1>3, <1>5, <1>6 DEF AccInv

(* A row that a request may have read stays what it was, or goes.          *)
RowsGoOn ==
  \A s \in Sessions : session[s].state # "unused" =>
    /\ session'[s].state # "unused"
    /\ session'[s].state = "live" =>
         /\ session[s].state = "live" /\ session'[s].created = session[s].created
         /\ session'[s].after = session[s].after
NewRowsAreCounted ==
  \A s \in Sessions :
    session[s].state = "unused" /\ session'[s].state = "live" => session'[s].after = Purges

(* Sessions are opened, renewed or deleted; one request may end.           *)
LEMMA SessionsMove ==
  ASSUME AccInv, session' \in [Sessions -> SessionRow], RowsGoOn, NewRowsAreCounted,
         \A s \in Sessions : RowHolds(session'[s]),
         request' = request \/ \E r \in Requests : Ends(r),
         UNCHANGED <<now, password, reset>>, sweep' \in SweepRuns
  PROVE  AccInv'
<1>1. request' \in [Requests -> Request] /\ \A p \in Requests : request'[p] \in {request[p], Idle}
  BY IdleTypes DEF AccInv, AccountsTypeOK, Ends, Becomes
<1>2. AccountsTypeOK'
  BY <1>1 DEF AccInv, AccountsTypeOK, SweepRuns, NoSweep
<1>3. \A s \in Sessions : RowHolds(session[s])'
  BY DEF RowHolds, Deadline, Sooner
<1>4. ASSUME NEW p \in Requests
      PROVE  (ReadFits(request[p]) /\ LockFits(request[p]) /\ ResetFits(request[p]))'
  <2>1. CASE request'[p] = Idle
    BY <2>1 DEF Idle, ReadFits, LockFits, ResetFits
  <2>2. CASE request'[p] = request[p]
    <3>1. ReadFits(request[p]) /\ LockFits(request[p]) /\ ResetFits(request[p])
      BY DEF AccInv
    <3>2. ReadFits(request[p])' /\ LockFits(request[p])'
      BY <2>2, <3>1 DEF ReadFits, LockFits, RowsGoOn
    <3>3. ASSUME request[p].step \in {"purged", "retiring"}, NEW s \in Sessions,
                 session'[s].state = "live", s \notin request[p].rows
          PROVE  session'[s].after > password
      <4>1. session[s].state = "unused" => session'[s].after > password
        BY <3>3, PastBounds DEF NewRowsAreCounted, AccInv, AccountsTypeOK
      <4>2. session[s].state # "unused" => session'[s].after > password
        BY <3>1, <3>3 DEF ResetFits, RowsGoOn
      <4> QED BY <4>1, <4>2
    <3>4. ResetFits(request[p])'
      BY <2>2, <3>1, <3>3 DEF ResetFits
    <3> QED BY <3>2, <3>4
  <2> QED BY <1>1, <2>1, <2>2
<1>5. OneHolds'
  BY <1>1, IdleTypes DEF AccInv, OneHolds, Holding
<1> QED BY <1>2, <1>3, <1>4, <1>5 DEF AccInv

(* Deleting rows is such a move.                                           *)
LEMMA GoneRows ==
  ASSUME AccInv, NEW S, session' = Gone(S)
  PROVE  /\ session' \in [Sessions -> SessionRow] /\ RowsGoOn /\ NewRowsAreCounted
         /\ \A s \in Sessions : RowHolds(session'[s])
<1>1. session \in [Sessions -> SessionRow]
  BY DEF AccInv, AccountsTypeOK
<1>2. \A s \in Sessions : session'[s] \in {Deleted, session[s]}
  BY DEF Gone
<1>3. Deleted.state = "gone"
  BY DEF Deleted, NoSession
<1>4. session' \in [Sessions -> SessionRow]
  BY <1>1, RowTypes DEF Gone
<1>5. RowsGoOn /\ NewRowsAreCounted
  BY <1>2, <1>3 DEF RowsGoOn, NewRowsAreCounted
<1>6. RowHolds(Deleted)
  BY <1>3 DEF RowHolds
<1> QED BY <1>2, <1>4, <1>5, <1>6 DEF AccInv

-----------------------------------------------------------------------------
LEMMA InitAccInv == AccountsInit => AccInv
<1> SUFFICES ASSUME AccountsInit PROVE AccInv
  OBVIOUS
<1>1. AccountsTypeOK
  <2>1. NoLink \in LinkRow
    BY DEF NoLink, LinkRow
  <2> QED BY <2>1, RowTypes, IdleTypes DEF AccountsInit, AccountsTypeOK, NoSweep
<1>2. \A s \in Sessions : RowHolds(session[s])
  BY DEF AccountsInit, RowHolds, NoSession
<1>3. /\ \A r \in Requests : ReadFits(request[r]) /\ LockFits(request[r]) /\ ResetFits(request[r])
      /\ OneHolds
  BY IdleTypes DEF AccountsInit, OneHolds
<1>4. \A t \in ResetLinks : reset[t].state = "live" => reset[t].after >= password
  BY DEF AccountsInit, NoLink
<1> QED BY <1>1, <1>2, <1>3, <1>4 DEF AccInv, AccountsInit, SweepRuns

-----------------------------------------------------------------------------
(* Each step keeps the invariant.                                          *)
LEMMA RequestsKeep ==
  ASSUME AccInv, NEW r \in Requests,
         \/ CheckPassword(r) \/ FindSession(r) \/ JudgeSession(r)
         \/ LockLink(r) \/ LockUser(r) \/ PurgeSessions(r) \/ RetireLinks(r)
  PROVE  AccInv'
<1> DEFINE q == request[r]
<1>0. /\ q \in Request /\ ReadFits(q) /\ LockFits(q) /\ ResetFits(q)
      /\ now \in Nat /\ password \in Nat
      /\ session \in [Sessions -> SessionRow] /\ reset \in [ResetLinks -> LinkRow]
      /\ None \notin Sessions \cup ResetLinks
  BY AccountsAssumption DEF AccInv, AccountsTypeOK
<1>1. CASE CheckPassword(r)
  <2> DEFINE to == [Idle EXCEPT !.step = "checked"]
  <2>1. to \in Request /\ to.step = "checked" /\ to.link = None
    BY <1>0 DEF Idle, Request, Steps
  <2>2. ReadFits(to) /\ LockFits(to) /\ ResetFits(to) /\ ~Holding(to)
    BY <2>1 DEF ReadFits, LockFits, ResetFits, Holding
  <2> HIDE DEF to
  <2> QED BY <1>1, <2>1, <2>2, RequestMoves DEF CheckPassword, to
<1>2. CASE FindSession(r)
  <2>1. PICK s \in Live(session) : Becomes(r, Found(s))
    BY <1>2 DEF FindSession
  <2>2. s \in Sessions /\ session[s] \in SessionRow /\ session[s].state = "live"
    BY <1>0, <2>1 DEF Live
  <2>3. /\ Found(s) \in Request /\ Found(s).step = "found" /\ Found(s).session = s
        /\ Found(s).created = session[s].created /\ Found(s).link = None
    BY <2>2 DEF Found, Idle, Request, Steps, SessionRow
  <2>4. session[s].created <= now
    <3>1. session[s].created \in Nat /\ session[s].used \in Nat
      BY <2>2 DEF SessionRow
    <3>2. session[s].created <= session[s].used /\ session[s].used <= now
      BY <2>2 DEF AccInv, RowHolds
    <3> QED BY <1>0, <3>1, <3>2
  <2>5. ReadFits(Found(s)) /\ LockFits(Found(s)) /\ ResetFits(Found(s)) /\ ~Holding(Found(s))
    BY <2>2, <2>3, <2>4 DEF ReadFits, LockFits, ResetFits, Holding
  <2> QED BY <1>2, <2>1, <2>3, <2>5, RequestMoves DEF FindSession
<1>3. CASE JudgeSession(r)
  <2>1. q.step = "found"
    BY <1>3 DEF JudgeSession
  <2>2. /\ Expiring(q) \in Request /\ Expiring(q).step = "expired" /\ Expiring(q).link = None
        /\ Renewing(q) \in Request /\ Renewing(q).step = "renewing"
        /\ Renewing(q).link = None /\ Renewing(q).session = q.session
        /\ Renewing(q).created = q.created /\ Renewing(q).at = now
    BY <1>0 DEF Expiring, Renewing, Idle, Request, Steps
  <2>3. /\ ReadFits(Expiring(q)) /\ LockFits(Expiring(q)) /\ ResetFits(Expiring(q))
        /\ ~Holding(Expiring(q))
    BY <2>2 DEF ReadFits, LockFits, ResetFits, Holding
  <2>4. /\ ReadFits(Renewing(q)) /\ LockFits(Renewing(q)) /\ ResetFits(Renewing(q))
        /\ ~Holding(Renewing(q))
    BY <1>0, <2>1, <2>2 DEF ReadFits, LockFits, ResetFits, Holding
  <2>5. \/ Becomes(r, Expiring(q)) \/ Becomes(r, Renewing(q)) \/ Becomes(r, Idle)
    BY <1>3 DEF JudgeSession, Ends
  <2>6. UNCHANGED <<now, password, session, reset, sweep>>
    BY <1>3 DEF JudgeSession
  <2> QED BY <2>2, <2>3, <2>4, <2>5, <2>6, IdleTypes, RequestMoves
<1>4. CASE LockLink(r)
  <2> DEFINE For(t) == [Idle EXCEPT !.step = "linkLocked", !.link = t]
  <2>1. PICK t \in Live(reset) : Becomes(r, For(t))
    BY <1>4, Zenon DEF LockLink
  <2> DEFINE to == For(t)
  <2>5. Becomes(r, to) /\ UNCHANGED <<now, password, session, reset, sweep>>
    BY <1>4, <2>1, Zenon DEF LockLink
  <2>2. t \in ResetLinks /\ reset[t].state = "live"
    BY <1>0, <2>1 DEF Live
  <2>3. to \in Request /\ to.step = "linkLocked" /\ to.link = t
    BY <2>2 DEF Idle, Request, Steps
  <2>4. ReadFits(to) /\ LockFits(to) /\ ResetFits(to) /\ ~Holding(to)
    BY <1>0, <2>2, <2>3 DEF ReadFits, LockFits, ResetFits, Holding
  <2> HIDE DEF to
  <2> QED BY <2>3, <2>4, <2>5, RequestMoves
<1>5. CASE LockUser(r)
  <2> DEFINE to == [request[r] EXCEPT !.step = "userLocked"]
  <2>1. to \in Request /\ to.step = "userLocked" /\ to.link = q.link
    BY <1>0 DEF Request, Steps
  <2>2. q.step = "linkLocked" /\ \A p \in Requests : ~Holding(request[p])
    BY <1>5 DEF LockUser, UserLocked, Holding
  <2>3. ReadFits(to) /\ LockFits(to) /\ ResetFits(to)
    BY <1>0, <2>1, <2>2 DEF ReadFits, LockFits, ResetFits
  <2> HIDE DEF to
  <2> QED BY <1>5, <2>1, <2>2, <2>3, RequestMoves DEF LockUser, to
<1>6. CASE PurgeSessions(r)
  <2> DEFINE found == Live(session)
             to == [request[r] EXCEPT !.step = "purged", !.rows = found]
  <2>0. found \in SUBSET Sessions
    BY <1>0 DEF Live
  <2>1. to \in Request /\ to.step = "purged" /\ to.link = q.link /\ to.rows = Live(session)
    <3> HIDE DEF found
    <3>1. to \in Request /\ to.step = "purged" /\ to.link = q.link /\ to.rows = found
      BY <1>0, <2>0 DEF Request, Steps
    <3> QED BY <3>1 DEF found
  <2>2. q.step = "userLocked" /\ Becomes(r, to)
    BY <1>6 DEF PurgeSessions, Revoked
  <2>3. ReadFits(to) /\ LockFits(to) /\ ResetFits(to)
    BY <1>0, <2>1, <2>2 DEF ReadFits, LockFits, ResetFits, Live
  <2>4. \A p \in Requests \ {r} : ~Holding(request[p])
    BY <2>2 DEF AccInv, OneHolds, Holding
  <2> HIDE DEF to
  <2> QED BY <1>6, <2>1, <2>2, <2>3, <2>4, RequestMoves DEF PurgeSessions
<1>7. CASE RetireLinks(r)
  <2> DEFINE found == Live(reset)
             to == [request[r] EXCEPT !.step = "retiring", !.links = found]
  <2>0. found \in SUBSET ResetLinks
    BY <1>0 DEF Live
  <2>1. /\ to \in Request /\ to.step = "retiring" /\ to.link = q.link
        /\ to.rows = q.rows /\ to.links = Live(reset)
    <3> HIDE DEF found
    <3>1. /\ to \in Request /\ to.step = "retiring" /\ to.link = q.link
          /\ to.rows = q.rows /\ to.links = found
      BY <1>0, <2>0 DEF Request, Steps
    <3> QED BY <3>1 DEF found
  <2>2. q.step = "purged" /\ Becomes(r, to)
    BY <1>7 DEF RetireLinks, Outstanding
  <2>3. ReadFits(to) /\ LockFits(to) /\ ResetFits(to)
    BY <1>0, <2>1, <2>2 DEF ReadFits, LockFits, ResetFits, Live
  <2>4. \A p \in Requests \ {r} : ~Holding(request[p])
    BY <2>2 DEF AccInv, OneHolds, Holding
  <2> HIDE DEF to
  <2> QED BY <1>7, <2>1, <2>2, <2>3, <2>4, RequestMoves DEF RetireLinks
<1> QED BY <1>1, <1>2, <1>3, <1>4, <1>5, <1>6, <1>7

(* A sign-in opens its row, after whatever has been deleted by then.       *)
LEMMA IssueKeeps ==
  ASSUME AccInv, NEW r \in Requests, IssueSession(r)
  PROVE  AccInv'
<1>1. /\ now \in Nat /\ password \in Nat /\ session \in [Sessions -> SessionRow]
  BY DEF AccInv, AccountsTypeOK
<1> DEFINE row == [state |-> "live", created |-> now, used |-> now,
                   expires |-> Deadline(now, now), after |-> Purges]
<1>2. PICK s \in NextUnused(session) : session' = [session EXCEPT ![s] = row]
  BY DEF IssueSession
<1>3. s \in Sessions /\ session[s].state = "unused"
  BY <1>1, <1>2 DEF NextUnused, Unused
<1>4. Deadline(now, now) \in Nat /\ Deadline(now, now) <= now + AbsoluteTtl
  BY <1>1, DeadlineBound
<1>5. Purges \in Nat /\ Purges >= password
  BY <1>1, PastBounds
<1>6. row \in SessionRow
  BY <1>1, <1>4, <1>5, NewRowTypes
<1>7. row.after = Purges /\ row.state = "live"
  OBVIOUS
<1>8. RowHolds(row)
  BY <1>1, <1>4, <1>5 DEF RowHolds
<1> HIDE DEF row
<1>9. session' \in [Sessions -> SessionRow] /\ \A x \in Sessions : RowHolds(session'[x])
  BY <1>1, <1>2, <1>6, <1>8 DEF AccInv
<1>10. RowsGoOn /\ NewRowsAreCounted
  BY <1>1, <1>2, <1>3, <1>7 DEF RowsGoOn, NewRowsAreCounted
<1> QED BY <1>9, <1>10, SessionsMove DEF IssueSession, AccInv, AccountsTypeOK

(* A renewal lands on the row that it has read, or on nothing.             *)
LEMMA RenewKeeps ==
  ASSUME AccInv, NEW r \in Requests, RenewSession(r)
  PROVE  AccInv'
<1> DEFINE q == request[r]
           s == q.session
<1>1. /\ now \in Nat /\ password \in Nat /\ q \in Request
      /\ session \in [Sessions -> SessionRow] /\ ReadFits(q) /\ q.step = "renewing"
  BY DEF AccInv, AccountsTypeOK, RenewSession
<1>2. session' = IF session[s].state = "live"
                 THEN [session EXCEPT ![s] = Renewed(session[s], q)] ELSE session
  BY DEF RenewSession
<1>3. CASE session[s].state # "live"
  <2>1. session' = session
    BY <1>2, <1>3
  <2> QED BY <1>1, <2>1, SessionsMove
          DEF RenewSession, AccInv, AccountsTypeOK, RowsGoOn, NewRowsAreCounted
<1>4. CASE session[s].state = "live"
  <2> DEFINE row == Renewed(session[s], q)
  <2>1. /\ s \in Sessions /\ session[s] \in SessionRow /\ session[s].created = q.created
        /\ q.created <= q.at /\ q.at <= now
    BY <1>1, <1>4 DEF ReadFits
  <2>2. q.created \in Nat /\ q.at \in Nat
    BY <1>1 DEF Request
  <2>3. /\ row \in SessionRow /\ row.state = "live" /\ row.created = q.created
        /\ row.used = q.at /\ row.expires = Deadline(q.created, q.at)
        /\ row.after = session[s].after
    BY <1>1, <1>4, <2>1, RenewedTypes
  <2> HIDE DEF row
  <2>5. row.after >= password
    BY <1>4, <2>1, <2>3 DEF AccInv, RowHolds
  <2>6. RowHolds(row)
    BY <2>1, <2>2, <2>3, <2>5, DeadlineBound DEF RowHolds
  <2>7. session' = [session EXCEPT ![s] = row]
    BY <1>2, <1>4 DEF row
  <2>8. session' \in [Sessions -> SessionRow] /\ \A x \in Sessions : RowHolds(session'[x])
    BY <1>1, <2>1, <2>3, <2>6, <2>7 DEF AccInv
  <2>9. RowsGoOn /\ NewRowsAreCounted
    BY <1>1, <2>1, <2>3, <2>7, <1>4 DEF RowsGoOn, NewRowsAreCounted
  <2> QED BY <2>8, <2>9, SessionsMove DEF RenewSession, AccInv, AccountsTypeOK
<1> QED BY <1>3, <1>4

(* Sign-outs, expired rows and the sweeper only delete.                    *)
LEMMA DeletionsKeep ==
  ASSUME AccInv,
         \/ Logout \/ LogoutAll \/ (\E r \in Requests : DropExpired(r))
         \/ BeginSweep \/ SweepOn
  PROVE  AccInv'
<1>1. sweep \in SweepRuns /\ now \in Nat
  BY DEF AccInv, AccountsTypeOK
<1>2. CASE Logout
  BY <1>1, <1>2, GoneRows, SessionsMove DEF Logout
<1>3. CASE LogoutAll
  BY <1>1, <1>3, GoneRows, SessionsMove DEF LogoutAll
<1>4. CASE \E r \in Requests : DropExpired(r)
  BY <1>1, <1>4, GoneRows, SessionsMove DEF DropExpired
<1>5. ASSUME NEW run \in [cutoff : Nat, batches : Nat \ {0}], DeleteBatch(run) PROVE AccInv'
  <2>1. PICK S : /\ session' = Gone(S)
                 /\ \/ sweep' = NoSweep
                    \/ run.batches # 1 /\ sweep' = [run EXCEPT !.batches = @ - 1]
    BY <1>5 DEF DeleteBatch
  <2>2. sweep' \in SweepRuns
    BY <2>1, <1>5 DEF SweepRuns
  <2> QED BY <1>5, <2>1, <2>2, GoneRows, SessionsMove DEF DeleteBatch
<1>6. CASE BeginSweep
  <2>1. [cutoff |-> now, batches |-> MaxBatches] \in [cutoff : Nat, batches : Nat \ {0}]
    BY <1>1, AccountsAssumption
  <2> QED BY <1>5, <1>6, <2>1 DEF BeginSweep
<1>7. CASE SweepOn
  <2>1. sweep \in [cutoff : Nat, batches : Nat \ {0}]
    BY <1>1, <1>7 DEF SweepOn, SweepRuns
  <2> QED BY <1>5, <1>7, <2>1 DEF SweepOn
<1> QED BY <1>2, <1>3, <1>4, <1>6, <1>7

(* The sessions and links that a commit leaves were written after its      *)
(* statements; it waited for the links that other resets have locked.      *)
LEMMA CommitKeeps ==
  ASSUME AccInv, NEW r \in Requests, CommitReset(r)
  PROVE  AccInv'
<1> DEFINE q == request[r]
<1>1. /\ now \in Nat /\ password \in Nat /\ sweep \in SweepRuns
      /\ session \in [Sessions -> SessionRow] /\ reset \in [ResetLinks -> LinkRow]
      /\ request \in [Requests -> Request] /\ None \notin Sessions \cup ResetLinks
      /\ ResetFits(q) /\ q.step = "retiring"
  BY AccountsAssumption DEF AccInv, AccountsTypeOK, CommitReset
<1>2. /\ password' = password + 1 /\ session' = Gone(q.rows)
      /\ reset' = [t \in ResetLinks |-> IF t \in q.links THEN Spent ELSE reset[t]]
      /\ request' = [request EXCEPT ![r] = Idle] /\ UNCHANGED <<now, sweep>>
      /\ \A p \in Requests \ {r} : request[p].link \notin q.links
  BY DEF CommitReset, Ends, Becomes
<1>3. Spent \in LinkRow /\ Spent.state = "spent" /\ Deleted.state = "gone"
  BY DEF Spent, NoLink, LinkRow, Deleted, NoSession
<1>4. ASSUME NEW s \in Sessions
      PROVE  /\ session'[s] \in {Deleted, session[s]}
             /\ session'[s].state = "live" =>
                  session'[s] = session[s] /\ session[s].after >= password + 1
  <2>1. session'[s] = IF s \in q.rows THEN Deleted ELSE session[s]
    BY <1>2 DEF Gone
  <2>2. session[s].state = "live" /\ s \notin q.rows => session[s].after > password
    BY <1>1 DEF ResetFits
  <2>3. session[s].after \in Nat
    BY <1>1 DEF SessionRow
  <2> QED BY <1>1, <1>3, <2>1, <2>2, <2>3
<1>5. ASSUME NEW t \in ResetLinks, reset'[t].state = "live" PROVE reset'[t].after >= password + 1
  <2>1. t \notin q.links /\ reset'[t] = reset[t]
    BY <1>2, <1>3, <1>5
  <2>2. reset[t].after > password /\ reset[t].after \in Nat
    BY <1>1, <1>5, <2>1 DEF ResetFits, LinkRow
  <2> QED BY <1>1, <2>1, <2>2
<1>6. \A p \in Requests : request'[p] = IF p = r THEN Idle ELSE request[p]
  BY <1>1, <1>2
<1>7. AccountsTypeOK'
  <2>1. session' \in [Sessions -> SessionRow]
    BY <1>1, <1>2, RowTypes DEF Gone
  <2>2. reset' \in [ResetLinks -> LinkRow]
    BY <1>1, <1>2, <1>3
  <2>3. request' \in [Requests -> Request]
    BY <1>1, <1>2, IdleTypes
  <2> QED BY <1>1, <1>2, <2>1, <2>2, <2>3 DEF AccountsTypeOK, SweepRuns, NoSweep
<1>8. ASSUME NEW s \in Sessions PROVE RowHolds(session[s])'
  <2>1. RowHolds(session[s])
    BY DEF AccInv
  <2> QED BY <1>2, <1>4, <2>1 DEF RowHolds, Deadline, Sooner
<1>9. ASSUME NEW p \in Requests
      PROVE  (ReadFits(request[p]) /\ LockFits(request[p]) /\ ResetFits(request[p]))'
  <2>1. CASE p = r
    <3>1. request'[p] = Idle
      BY <1>6, <2>1
    <3> QED BY <3>1 DEF Idle, ReadFits, LockFits, ResetFits
  <2>2. CASE p # r
    <3>1. /\ request'[p] = request[p] /\ ReadFits(request[p]) /\ LockFits(request[p])
          /\ request[p].link \notin q.links
      BY <1>2, <1>6, <2>2 DEF AccInv
    <3>2. request[p].step \notin {"purged", "retiring"}
      BY <1>1, <2>2 DEF AccInv, OneHolds, Holding
    <3>3. ReadFits(request[p])'
      BY <1>2, <1>3, <1>4, <3>1 DEF ReadFits
    <3>4. LockFits(request[p])'
      BY <1>2, <3>1 DEF LockFits
    <3>5. ResetFits(request[p])'
      BY <3>1, <3>2 DEF ResetFits
    <3> QED BY <3>3, <3>4, <3>5
  <2> QED BY <2>1, <2>2
<1>10. OneHolds'
  BY <1>6, IdleTypes DEF AccInv, OneHolds, Holding
<1>11. sweep' \in SweepRuns
  BY <1>1, <1>2
<1> QED BY <1>2, <1>5, <1>7, <1>8, <1>9, <1>10, <1>11 DEF AccInv, SweepRuns, NoSweep

(* A request that dies before its reset has written anything has changed   *)
(* nothing; a reset that is rolled back is taken out of the history.       *)
LEMMA DiesKeeps ==
  ASSUME AccInv, NEW r \in Requests, Dies(r)
  PROVE  AccInv'
<1>1. /\ now \in Nat /\ password \in Nat /\ sweep \in SweepRuns
      /\ session \in [Sessions -> SessionRow] /\ reset \in [ResetLinks -> LinkRow]
      /\ request \in [Requests -> Request]
      /\ UNCHANGED <<now, password, sweep>> /\ Becomes(r, Idle)
  BY DEF AccInv, AccountsTypeOK, Dies, Ends
<1>2. CASE request[r].step \notin {"purged", "retiring"}
  BY <1>1, <1>2, IdleTypes, RequestMoves DEF Dies
<1>3. CASE request[r].step \in {"purged", "retiring"}
  <2>1. /\ \A s \in Sessions : session'[s] = Uncleared(session[s])
        /\ \A t \in ResetLinks : reset'[t] = Uncleared(reset[t])
        /\ DOMAIN session' = Sessions /\ DOMAIN reset' = ResetLinks
        /\ session' = [s \in DOMAIN session' |-> session'[s]]
        /\ reset' = [t \in DOMAIN reset' |-> reset'[t]]
    BY <1>1, <1>3 DEF Dies, UnclearedAll
  <2>2. ASSUME NEW s \in Sessions
        PROVE  /\ session'[s] \in SessionRow /\ session'[s].state = session[s].state
               /\ session'[s].created = session[s].created /\ session'[s].used = session[s].used
               /\ session'[s].expires = session[s].expires
               /\ session[s].after >= password => session'[s].after >= password
    <3>1. session[s] \in SessionRow /\ session[s].after \in Nat
      BY <1>1 DEF SessionRow
    <3>2. Sooner(session[s].after, password) \in Nat
          /\ (session[s].after >= password => Sooner(session[s].after, password) >= password)
      BY <1>1, <3>1 DEF Sooner
    <3> QED BY <2>1, <3>1, <3>2 DEF Uncleared, SessionRow
  <2>3. ASSUME NEW t \in ResetLinks
        PROVE  /\ reset'[t] \in LinkRow /\ reset'[t].state = reset[t].state
               /\ reset[t].after >= password => reset'[t].after >= password
    <3>1. reset[t] \in LinkRow /\ reset[t].after \in Nat
      BY <1>1 DEF LinkRow
    <3>2. Sooner(reset[t].after, password) \in Nat
          /\ (reset[t].after >= password => Sooner(reset[t].after, password) >= password)
      BY <1>1, <3>1 DEF Sooner
    <3> QED BY <2>1, <3>1, <3>2 DEF Uncleared, LinkRow
  <2>4. session' \in [Sessions -> SessionRow] /\ reset' \in [ResetLinks -> LinkRow]
    BY <2>1, <2>2, <2>3
  <2>5. \A p \in Requests : request'[p] = IF p = r THEN Idle ELSE request[p]
    BY <1>1 DEF Becomes
  <2>6. AccountsTypeOK'
    <3>1. request' \in [Requests -> Request]
      BY <1>1, IdleTypes DEF Becomes
    <3> QED BY <1>1, <2>4, <3>1 DEF AccountsTypeOK, SweepRuns, NoSweep
  <2>7. ASSUME NEW s \in Sessions PROVE RowHolds(session[s])'
    <3>1. RowHolds(session[s])
      BY DEF AccInv
    <3> QED BY <1>1, <2>2, <3>1 DEF RowHolds, Deadline, Sooner
  <2>8. \A t \in ResetLinks : reset'[t].state = "live" => reset'[t].after >= password'
    BY <1>1, <2>3 DEF AccInv
  <2>9. ASSUME NEW p \in Requests
        PROVE  (ReadFits(request[p]) /\ LockFits(request[p]) /\ ResetFits(request[p]))'
    <3>1. CASE p = r
      <4>1. request'[p] = Idle
        BY <2>5, <3>1
      <4> QED BY <4>1 DEF Idle, ReadFits, LockFits, ResetFits
    <3>2. CASE p # r
      <4>1. request'[p] = request[p] /\ ReadFits(request[p]) /\ LockFits(request[p])
        BY <2>5, <3>2 DEF AccInv
      <4>2. request[p].step \notin {"purged", "retiring"}
        BY <1>3, <3>2 DEF AccInv, OneHolds, Holding
      <4>3. ReadFits(request[p])'
        BY <1>1, <2>2, <4>1 DEF ReadFits
      <4>4. LockFits(request[p])'
        BY <2>3, <4>1 DEF LockFits
      <4>5. ResetFits(request[p])'
        BY <4>1, <4>2 DEF ResetFits
      <4> QED BY <4>3, <4>4, <4>5
    <3> QED BY <3>1, <3>2
  <2>10. OneHolds'
    BY <2>5, IdleTypes DEF AccInv, OneHolds, Holding
  <2> QED BY <1>1, <2>6, <2>7, <2>8, <2>9, <2>10 DEF AccInv, SweepRuns, NoSweep
<1> QED BY <1>2, <1>3

(* A new link comes after whatever was retired; locked links are not new.  *)
LEMMA RequestResetKeeps == AccInv /\ RequestReset => AccInv'
<1> SUFFICES ASSUME AccInv, RequestReset PROVE AccInv'
  OBVIOUS
<1>1. /\ now \in Nat /\ password \in Nat /\ ResetTtl \in Nat
      /\ reset \in [ResetLinks -> LinkRow]
  BY AccountsAssumption DEF AccInv, AccountsTypeOK
<1>2. PICK t \in NextUnused(reset) :
        reset' = [reset EXCEPT ![t] =
          [state |-> "live", expires |-> now + ResetTtl, after |-> Retirements]]
  BY DEF RequestReset
<1>3. t \in ResetLinks /\ reset[t].state = "unused"
  BY <1>1, <1>2 DEF NextUnused, Unused
<1> DEFINE row == [state |-> "live", expires |-> now + ResetTtl, after |-> Retirements]
<1>4. row \in LinkRow /\ row.after = Retirements /\ Retirements >= password
  BY <1>1, PastBounds DEF LinkRow
<1> HIDE DEF row
<1>5. /\ reset' \in [ResetLinks -> LinkRow]
      /\ \A x \in ResetLinks : reset[x].state = "live" => x # t /\ reset'[x] = reset[x]
      /\ \A x \in ResetLinks : reset'[x] = IF x = t THEN row ELSE reset[x]
      /\ \A x \in ResetLinks : reset'[x].state = "live" => reset'[x].after >= password
  BY <1>1, <1>2, <1>3, <1>4 DEF AccInv, row
<1>6. UNCHANGED <<now, password, session, request, sweep>>
  BY DEF RequestReset
<1>7. AccountsTypeOK'
  BY <1>5, <1>6 DEF AccInv, AccountsTypeOK
<1>8. \A s \in Sessions : RowHolds(session[s])'
  BY <1>6 DEF AccInv, RowHolds, Deadline, Sooner
<1>9. ASSUME NEW p \in Requests
      PROVE  (ReadFits(request[p]) /\ LockFits(request[p]) /\ ResetFits(request[p]))'
  <2>1. ReadFits(request[p]) /\ LockFits(request[p]) /\ ResetFits(request[p])
    BY DEF AccInv
  <2>2. ReadFits(request[p])' /\ LockFits(request[p])'
    BY <1>5, <1>6, <2>1 DEF ReadFits, LockFits
  <2>3. request[p].step = "retiring" => row.after > password
    BY <1>1, <1>4, PastBounds
  <2>4. ResetFits(request[p])'
    BY <1>5, <1>6, <2>1, <2>3 DEF ResetFits
  <2> QED BY <2>2, <2>4
<1>10. OneHolds'
  BY <1>6 DEF AccInv, OneHolds, Holding
<1> QED BY <1>5, <1>6, <1>7, <1>8, <1>9, <1>10 DEF AccInv, SweepRuns, NoSweep

(* The clock only gets later.                                              *)
LEMMA TickKeeps == AccInv /\ Tick => AccInv'
<1> SUFFICES ASSUME AccInv, Tick PROVE AccInv'
  OBVIOUS
<1>1. now \in Nat /\ now' = now + 1 /\ UNCHANGED <<password, session, reset, request, sweep>>
  BY DEF AccInv, AccountsTypeOK, Tick
<1>2. AccountsTypeOK'
  BY <1>1 DEF AccInv, AccountsTypeOK
<1>3. ASSUME NEW s \in Sessions PROVE RowHolds(session[s])'
  <2>1. session[s] \in SessionRow /\ RowHolds(session[s])
    BY DEF AccInv, AccountsTypeOK
  <2>2. session[s].used \in Nat
    BY <2>1 DEF SessionRow
  <2> QED BY <1>1, <2>1, <2>2 DEF RowHolds, Deadline, Sooner
<1>4. ASSUME NEW p \in Requests
      PROVE  (ReadFits(request[p]) /\ LockFits(request[p]) /\ ResetFits(request[p]))'
  <2>1. /\ ReadFits(request[p]) /\ LockFits(request[p]) /\ ResetFits(request[p])
        /\ request[p] \in Request
    BY DEF AccInv, AccountsTypeOK
  <2>2. request[p].created \in Nat /\ request[p].at \in Nat
    BY <2>1 DEF Request
  <2> QED BY <1>1, <2>1, <2>2 DEF ReadFits, LockFits, ResetFits
<1>5. OneHolds'
  BY <1>1 DEF AccInv, OneHolds, Holding
<1> QED BY <1>1, <1>2, <1>3, <1>4, <1>5 DEF AccInv, SweepRuns, NoSweep

LEMMA AccStep == AccInv /\ [AccountsNext]_accountVars => AccInv'
<1> SUFFICES ASSUME AccInv, [AccountsNext]_accountVars PROVE AccInv'
  OBVIOUS
<1>1. CASE UNCHANGED accountVars
  BY <1>1 DEF accountVars, AccInv, AccountsTypeOK, RowHolds, ReadFits, LockFits, ResetFits,
              OneHolds, Holding, SweepRuns, Deadline, Sooner
<1>2. CASE AccountsNext
  BY <1>2, RequestsKeep, IssueKeeps, RenewKeeps, DeletionsKeep, CommitKeeps, DiesKeeps,
     RequestResetKeeps, TickKeeps DEF AccountsNext
<1> QED BY <1>1, <1>2

LEMMA AccInvariance == AccountsSpec => []AccInv
BY InitAccInv, AccStep, PTL DEF AccountsSpec

-----------------------------------------------------------------------------
(* Whatever renewals, sign-outs, resets and sweeps overlap, a session's    *)
(* deadline is that of its last use and within the ceiling, and every live *)
(* session was written after the last reset to commit had deleted what it  *)
(* found.                                                                  *)
THEOREM SessionsAreBounded == AccountsSpec => []AccountsInv
<1>1. AccInv => AccountsInv
  BY DEF AccInv, AccountsInv, DeadlinesHold, NoneOutlivesAReset, RowHolds, Live,
         AccountsTypeOK
<1> QED BY <1>1, AccInvariance, PTL

(* A reset is made with a link written after the reset before it had       *)
(* retired what it found: of the links found together one is used.         *)
THEOREM OneResetPerPassword == AccountsSpec => ResetsSpendTheirLinks
<1> DEFINE Spends == \A r \in Requests :
      request[r].step = "retiring" /\ password' # password /\ request'[r].step = "idle"
        => reset[request[r].link].after >= password
<1>1. AccInv /\ [AccountsNext]_accountVars => [Spends]_accountVars
  <2> SUFFICES ASSUME AccInv, NEW r \in Requests, request[r].step = "retiring"
               PROVE  reset[request[r].link].after >= password
    BY DEF Spends
  <2>1. LockFits(request[r])
    BY DEF AccInv
  <2> QED BY <2>1 DEF AccInv, LockFits
<1> QED BY <1>1, AccInvariance, PTL DEF AccountsSpec, ResetsSpendTheirLinks

-----------------------------------------------------------------------------
(* The verification of an address.  No link is mailed before there is an   *)
(* account, and a reissue holds links that were mailed.                    *)
VerInv ==
  /\ VerificationTypeOK
  /\ account = "none" => \A t \in VerifyLinks : verify[t].state = "unused"
  /\ \A r \in Visitors :
       /\ visit[r].step \in {"created", "unverified", "retiring"} => account # "none"
       /\ \A t \in visit[r].retiring : verify[t].state # "unused"
  /\ ReplacedAreDead

LEMMA VisitTypes ==
  /\ Away \in Visit
  /\ \A links \in SUBSET VerifyLinks, step \in {"created", "unverified", "retiring", "signingIn"} :
       [step |-> step, retiring |-> links] \in Visit
BY DEF Away, Visit

(* A request moves; the links stay.                                        *)
LEMMA VisitMoves ==
  ASSUME VerInv, NEW r \in Visitors, NEW v \in Visit, visit' = [visit EXCEPT ![r] = v],
         verify' = verify, day' = day, account' = account,
         v.step \in {"created", "unverified", "retiring"} => account # "none",
         \A t \in v.retiring : verify[t].state # "unused"
  PROVE  VerInv'
<1>1. visit' \in [Visitors -> Visit] /\ \A q \in Visitors : visit'[q] = IF q = r THEN v ELSE visit[q]
  BY DEF VerInv, VerificationTypeOK
<1>2. VerificationTypeOK'
  BY <1>1 DEF VerInv, VerificationTypeOK
<1>3. ReplacedAreDead'
  BY DEF VerInv, ReplacedAreDead, LiveLinks
<1> QED BY <1>1, <1>2, <1>3 DEF VerInv

(* Links are mailed or spent, and one request ends.                        *)
LinksGoOn ==
  \A t \in VerifyLinks :
    /\ verify[t].state # "unused" => verify'[t].state # "unused"
    /\ verify[t].state = "spent" => verify'[t].state = "spent"

LEMMA LinksMoved ==
  ASSUME VerInv, verify' \in [VerifyLinks -> VerifyRow], LinksGoOn, day' = day,
         account' \in {"unverified", "verified"}, account # "none",
         NEW r \in Visitors, visit' = [visit EXCEPT ![r] = Away]
                             \/ visit' = [visit EXCEPT ![r] = [step |-> "signingIn", retiring |-> {}]],
         ReplacedAreDead'
  PROVE  VerInv'
<1>1. visit' \in [Visitors -> Visit]
  BY VisitTypes DEF VerInv, VerificationTypeOK
<1>2. VerificationTypeOK'
  BY <1>1 DEF VerInv, VerificationTypeOK
<1>3. ASSUME NEW q \in Visitors, NEW t \in visit'[q].retiring PROVE verify'[t].state # "unused"
  <2>1. t \in visit[q].retiring
    BY <1>3 DEF VerInv, VerificationTypeOK, Away
  <2>2. t \in VerifyLinks /\ verify[t].state # "unused"
    BY <2>1 DEF VerInv, VerificationTypeOK, Visit
  <2> QED BY <2>2 DEF LinksGoOn
<1> QED BY <1>2, <1>3 DEF VerInv

LEMMA FirstLinkStep == ASSUME VerInv, NEW r \in Visitors, FirstVerifyLink(r) PROVE VerInv'
<1>1. PICK t \in VerifyLinks : verify[t].state = "unused" /\ verify' = [verify EXCEPT ![t] = Mailed({})]
  BY DEF FirstVerifyLink
<1>2. Mailed({}) \in VerifyRow /\ Mailed({}).state = "live" /\ Mailed({}).replaces = {}
  BY VerificationAssumption DEF VerInv, VerificationTypeOK, Mailed, VerifyRow
<1>3. verify \in [VerifyLinks -> VerifyRow] /\ verify' \in [VerifyLinks -> VerifyRow]
  BY <1>1, <1>2 DEF VerInv, VerificationTypeOK
<1>4. LinksGoOn
  BY <1>1, <1>2, <1>3 DEF LinksGoOn
<1>5. account' = account /\ account \in {"unverified", "verified"}
  BY DEF FirstVerifyLink, VerInv, VerificationTypeOK
<1>6. ReplacedAreDead'
  <2>1. ASSUME NEW u \in VerifyLinks, NEW x \in verify'[u].replaces PROVE verify'[x].state = "spent"
    <3>1. u # t /\ x \in verify[u].replaces
      BY <1>1, <1>2, <1>3, <2>1
    <3>2. x \in VerifyLinks /\ verify[x].state = "spent"
      BY <1>3, <3>1 DEF VerInv, ReplacedAreDead, VerifyRow
    <3> QED BY <1>4, <3>2 DEF LinksGoOn
  <2>2. t \in LiveLinks'
    BY <1>1, <1>2, <1>3 DEF LiveLinks
  <2>3. account' = "verified" => \E u \in VerifyLinks : verify'[u].state = "spent"
    BY <1>4, <1>5 DEF VerInv, ReplacedAreDead, LinksGoOn
  <2> QED BY <2>1, <2>2, <2>3 DEF ReplacedAreDead
<1> QED BY <1>3, <1>4, <1>5, <1>6, LinksMoved DEF FirstVerifyLink, Leaves

LEMMA ReissueStep == ASSUME VerInv, NEW r \in Visitors, ReissueVerifyLink(r) PROVE VerInv'
<1> DEFINE old == visit[r].retiring
<1>1. PICK t \in VerifyLinks :
        /\ verify[t].state = "unused"
        /\ verify' = [x \in VerifyLinks |->
             IF x = t THEN Mailed(old) ELSE IF x \in old THEN Consumed(verify[x]) ELSE verify[x]]
  BY DEF ReissueVerifyLink
<1>2. old \subseteq VerifyLinks /\ t \notin old
  BY <1>1 DEF VerInv, VerificationTypeOK, Visit
<1>3. Mailed(old) \in VerifyRow /\ Mailed(old).state = "live" /\ Mailed(old).replaces = old
  BY <1>2, VerificationAssumption DEF VerInv, VerificationTypeOK, Mailed, VerifyRow
<1>4. \A x \in VerifyLinks : /\ Consumed(verify[x]) \in VerifyRow
                             /\ Consumed(verify[x]).state = "spent"
                             /\ Consumed(verify[x]).replaces = verify[x].replaces
  BY DEF VerInv, VerificationTypeOK, Consumed, VerifyRow
<1>5. verify \in [VerifyLinks -> VerifyRow]
  BY DEF VerInv, VerificationTypeOK
<1> HIDE DEF old
<1>6. verify' \in [VerifyLinks -> VerifyRow]
  BY <1>1, <1>3, <1>4, <1>5
<1>7. LinksGoOn
  BY <1>1, <1>3, <1>4 DEF LinksGoOn
<1>8. account' = account /\ account \in {"unverified", "verified"}
  BY DEF ReissueVerifyLink, VerInv, VerificationTypeOK
<1>9. ReplacedAreDead'
  <2>1. ASSUME NEW u \in VerifyLinks, NEW x \in verify'[u].replaces PROVE verify'[x].state = "spent"
    <3>1. CASE u = t
      BY <1>1, <1>2, <1>3, <1>4, <2>1, <3>1
    <3>2. CASE u # t
      <4>1. x \in verify[u].replaces
        BY <1>1, <1>4, <2>1, <3>2
      <4>2. x \in VerifyLinks /\ verify[x].state = "spent"
        BY <1>5, <4>1 DEF VerInv, ReplacedAreDead, VerifyRow
      <4> QED BY <1>7, <4>2 DEF LinksGoOn
    <3> QED BY <3>1, <3>2
  <2>2. t \in LiveLinks'
    BY <1>1, <1>3 DEF LiveLinks
  <2>3. account' = "verified" => \E u \in VerifyLinks : verify'[u].state = "spent"
    BY <1>7, <1>8 DEF VerInv, ReplacedAreDead, LinksGoOn
  <2> QED BY <2>1, <2>2, <2>3 DEF ReplacedAreDead
<1> QED BY <1>6, <1>7, <1>8, <1>9, LinksMoved DEF ReissueVerifyLink, Leaves

LEMMA VerifyStep == ASSUME VerInv, NEW r \in Visitors, VerifyEmail(r) PROVE VerInv'
<1>1. PICK t \in LiveLinks : verify' = [verify EXCEPT ![t] = Consumed(@)]
  BY DEF VerifyEmail
<1>2. verify \in [VerifyLinks -> VerifyRow] /\ t \in VerifyLinks /\ verify[t].state = "live"
  BY DEF VerInv, VerificationTypeOK, LiveLinks
<1>3. /\ Consumed(verify[t]) \in VerifyRow /\ Consumed(verify[t]).state = "spent"
      /\ Consumed(verify[t]).replaces = verify[t].replaces
  BY <1>2 DEF Consumed, VerifyRow
<1>4. verify' \in [VerifyLinks -> VerifyRow] /\ LinksGoOn
  BY <1>1, <1>2, <1>3 DEF LinksGoOn
<1>5. account # "none" /\ account' = "verified"
  BY <1>2 DEF VerifyEmail, VerInv
<1>6. ReplacedAreDead'
  <2>1. ASSUME NEW u \in VerifyLinks, NEW x \in verify'[u].replaces PROVE verify'[x].state = "spent"
    <3>1. x \in verify[u].replaces
      BY <1>1, <1>2, <1>3, <2>1
    <3>2. x \in VerifyLinks /\ verify[x].state = "spent"
      BY <1>2, <3>1 DEF VerInv, ReplacedAreDead, VerifyRow
    <3> QED BY <1>4, <3>2 DEF LinksGoOn
  <2>2. verify'[t].state = "spent"
    BY <1>1, <1>2, <1>3
  <2> QED BY <1>2, <1>5, <2>1, <2>2 DEF ReplacedAreDead
<1> QED BY <1>4, <1>5, <1>6, LinksMoved DEF VerifyEmail, Goes

LEMMA CreateStep == ASSUME VerInv, NEW r \in Visitors, CreateUser(r) PROVE VerInv'
<1>1. account = "none" /\ account' = "unverified" /\ verify' = verify /\ day' = day
  BY DEF CreateUser
<1>2. visit' \in [Visitors -> Visit]
        /\ \A q \in Visitors : visit'[q].retiring \in {{}, visit[q].retiring}
  BY VisitTypes DEF CreateUser, Goes, VerInv, VerificationTypeOK
<1>3. VerificationTypeOK'
  BY <1>1, <1>2 DEF VerInv, VerificationTypeOK
<1>4. ReplacedAreDead'
  BY <1>1 DEF VerInv, ReplacedAreDead
<1> QED BY <1>1, <1>2, <1>3, <1>4 DEF VerInv

LEMMA VerStep == ASSUME VerInv, [VerificationNext]_verificationVars PROVE VerInv'
<1>1. ASSUME NEW r \in Visitors,
             ReadUnverified(r) \/ RetireVerifyLinks(r) \/ SignsIn(r) \/ VisitDies(r)
      PROVE  VerInv'
  <2>1. verify' = verify /\ day' = day /\ account' = account
    BY <1>1 DEF ReadUnverified, RetireVerifyLinks, SignsIn, VisitDies
  <2>2. CASE SignsIn(r) \/ VisitDies(r)
    <3>1. visit' = [visit EXCEPT ![r] = Away] /\ Away \in Visit /\ Away.step = "away"
            /\ Away.retiring = {}
      BY <2>2, VisitTypes DEF SignsIn, VisitDies, Leaves, Away
    <3> QED BY <2>1, <3>1, VisitMoves
  <2>3. CASE ReadUnverified(r)
    <3> DEFINE v == [step |-> "unverified", retiring |-> {}]
    <3>1. visit' = [visit EXCEPT ![r] = v] /\ v \in Visit /\ account # "none"
      BY <2>3, VisitTypes DEF ReadUnverified, Goes
    <3> QED BY <2>1, <3>1, VisitMoves
  <2>4. CASE RetireVerifyLinks(r)
    <3>1. PICK v : v = [step |-> "retiring", retiring |-> LiveLinks]
      OBVIOUS
    <3>2. visit' = [visit EXCEPT ![r] = v] /\ v \in Visit
      BY <2>4, <3>1, VisitTypes DEF RetireVerifyLinks, Goes, LiveLinks
    <3>3. account # "none" /\ \A t \in v.retiring : verify[t].state # "unused"
      BY <2>4, <3>1 DEF RetireVerifyLinks, VerInv, LiveLinks
    <3> QED BY <2>1, <3>2, <3>3, VisitMoves
  <2> QED BY <1>1, <2>2, <2>3, <2>4
<1>2. CASE DayPasses \/ UNCHANGED verificationVars
  <2>1. day' \in Nat /\ UNCHANGED <<account, verify, visit>>
    BY <1>2 DEF DayPasses, verificationVars, VerInv, VerificationTypeOK
  <2>2. VerificationTypeOK' /\ ReplacedAreDead'
    BY <2>1 DEF VerInv, VerificationTypeOK, ReplacedAreDead, LiveLinks
  <2> QED BY <2>1, <2>2 DEF VerInv
<1> QED BY <1>1, <1>2, CreateStep, FirstLinkStep, ReissueStep, VerifyStep DEF VerificationNext

(* A link that a resend replaced stays dead, an unverified account keeps a *)
(* link that works, and nobody is verified without having used one.        *)
THEOREM ReplacedLinksStayDead == VerificationSpec => []VerificationInv
<1>1. VerificationInit => VerInv
  <2> SUFFICES ASSUME VerificationInit PROVE VerInv
    OBVIOUS
  <2>1. VerificationTypeOK
    BY VisitTypes DEF VerificationInit, VerificationTypeOK, NoVerifyLink, VerifyRow
  <2>2. ReplacedAreDead
    BY DEF VerificationInit, NoVerifyLink, ReplacedAreDead, LiveLinks
  <2> QED BY <2>1, <2>2 DEF VerificationInit, VerInv, NoVerifyLink, Away
<1>2. VerInv /\ [VerificationNext]_verificationVars => VerInv'
  BY VerStep
<1>3. VerInv => VerificationInv
  BY DEF VerInv, VerificationInv
<1> QED BY <1>1, <1>2, <1>3, PTL DEF VerificationSpec

-----------------------------------------------------------------------------
(* The codes and links of a family. *)

(* The parent p spent the code c; nothing changes the row of a spent code. *)
Earned(c, p) == c \in Codes /\ code[c].state = "spent" /\ code[c].by = p

(* An open link was earned, and no stranger has one.                       *)
LinkFits(p) ==
  /\ link[p].status \in {"pending", "approved"} => Earned(link[p].code, p)
  /\ link[p].status # "none" => p \notin Strangers

(* A submission under way has earned its link already.                     *)
ErrandFits(e) ==
  /\ e.step \in {"handedIn", "allowed"} => e.parent \in Parents /\ Earned(e.code, e.parent)
  /\ e.step = "allowed" => e.parent \notin Strangers

(* The inductive invariant.                                                *)
FamInv ==
  /\ FamilyTypeOK
  /\ OneCode
  /\ \A p \in Parents : LinkFits(p)
  /\ \A r \in Callers : ErrandFits(errand[r])

SpentStay == \A c \in Codes : code[c].state = "spent" => code'[c] = code[c]

-----------------------------------------------------------------------------
LEMMA ErrandTypes ==
  /\ Free \in Errand /\ Issuing \in Errand
  /\ \A p \in Parents, c \in Codes : HandedIn(p, c) \in Errand
  /\ \A e \in Errand : Allowed(e) \in Errand
BY DEF Free, Issuing, HandedIn, Allowed, Errand, Unspent

LEMMA CodeRowTypes ==
  /\ NoCode \in CodeRow /\ Issued \in CodeRow
  /\ \A p \in Parents \cup {NoOne} : Retired(p) \in CodeRow
  /\ Unlinked \in LinkState /\ Withdrawn \in LinkState
  /\ \A c \in Codes : Pending(c) \in LinkState
BY DEF NoCode, Issued, Retired, CodeRow, Unlinked, Withdrawn, Pending, LinkState

(* A request moves, and whatever codes change, the spent ones do not: what *)
(* was earned stays earned.                                                *)
LEMMA EarnedStays ==
  ASSUME SpentStay, NEW c, NEW p, Earned(c, p)
  PROVE  Earned(c, p)'
BY DEF SpentStay, Earned

LEMMA CodesMove ==
  ASSUME FamInv, NEW r \in Callers, NEW e \in Errand, Moves(r, e), ErrandFits(e)',
         code' \in [Codes -> CodeRow], SpentStay, OneCode', link' = link
  PROVE  FamInv'
<1>1. errand' \in [Callers -> Errand]
         /\ \A q \in Callers : errand'[q] = IF q = r THEN e ELSE errand[q]
  BY DEF FamInv, FamilyTypeOK, Moves
<1>2. FamilyTypeOK'
  BY <1>1 DEF FamInv, FamilyTypeOK
<1>3. ASSUME NEW p \in Parents PROVE LinkFits(p)'
  <2>1. LinkFits(p)
    BY DEF FamInv
  <2> QED BY <2>1, EarnedStays DEF LinkFits
<1>4. ASSUME NEW q \in Callers PROVE ErrandFits(errand[q])'
  <2>1. CASE q = r
    <3>1. errand'[q] = e
      BY <1>1, <2>1
    <3> QED BY <3>1 DEF ErrandFits, Earned
  <2>2. CASE q # r
    <3>1. errand'[q] = errand[q] /\ ErrandFits(errand[q])
      BY <1>1, <2>2 DEF FamInv
    <3> QED BY <3>1, EarnedStays DEF ErrandFits
  <2> QED BY <2>1, <2>2
<1> QED BY <1>2, <1>3, <1>4 DEF FamInv

(* A request moves and one link changes.                                   *)
LEMMA LinksMove ==
  ASSUME FamInv, code' = code, link' \in [Parents -> LinkState],
         \A p \in Parents : link'[p] = link[p] \/ LinkFits(p)',
         errand' = errand \/ \E r \in Callers : Moves(r, Free)
  PROVE  FamInv'
<1>1. errand' \in [Callers -> Errand]
         /\ \A q \in Callers : errand'[q] \in {errand[q], Free}
  BY ErrandTypes DEF FamInv, FamilyTypeOK, Moves
<1>2. FamilyTypeOK' /\ OneCode'
  BY <1>1 DEF FamInv, FamilyTypeOK, OneCode, Unspent
<1>3. ASSUME NEW p \in Parents PROVE LinkFits(p)'
  BY DEF FamInv, LinkFits, Earned
<1>4. ASSUME NEW q \in Callers PROVE ErrandFits(errand[q])'
  <2>1. CASE errand'[q] = Free
    BY <2>1 DEF Free, ErrandFits
  <2>2. CASE errand'[q] = errand[q]
    <3>1. ErrandFits(errand[q])
      BY DEF FamInv
    <3> QED BY <2>2, <3>1 DEF ErrandFits, Earned
  <2> QED BY <1>1, <2>1, <2>2
<1> QED BY <1>2, <1>3, <1>4 DEF FamInv

-----------------------------------------------------------------------------
LEMMA FamInitially == FamilyInit => FamInv
<1> SUFFICES ASSUME FamilyInit PROVE FamInv
  OBVIOUS
<1>1. FamilyTypeOK
  BY ErrandTypes, CodeRowTypes DEF FamilyInit, FamilyTypeOK
<1>2. OneCode
  BY DEF FamilyInit, NoCode, OneCode, Unspent
<1>3. ASSUME NEW p \in Parents PROVE LinkFits(p)
  BY DEF FamilyInit, Unlinked, LinkFits
<1>4. ASSUME NEW r \in Callers PROVE ErrandFits(errand[r])
  BY DEF FamilyInit, Free, ErrandFits
<1> QED BY <1>1, <1>2, <1>3, <1>4 DEF FamInv

(* An issue that the index allows leaves one code live.                    *)
LEMMA IssueRows ==
  ASSUME FamInv, NEW r \in Callers, IndexAllows(r), NEW c \in Codes,
         code[c].state = "unused",
         code' = [x \in Codes |-> IF x = c THEN Issued
                                  ELSE IF x \in Unspent \cap errand[r].seen
                                       THEN Retired(NoOne) ELSE code[x]]
  PROVE  code' \in [Codes -> CodeRow] /\ SpentStay /\ Unspent' = {c}
<1>1. code \in [Codes -> CodeRow]
  BY DEF FamInv, FamilyTypeOK
<1>2. code' \in [Codes -> CodeRow]
  BY <1>1, CodeRowTypes
<1>3. Issued.state = "live" /\ Retired(NoOne).state = "spent"
  BY DEF Issued, Retired
<1>4. SpentStay
  BY <1>3 DEF SpentStay, Unspent
<1>5. Unspent' = {c}
  BY <1>3 DEF Unspent, IndexAllows
<1> QED BY <1>2, <1>4, <1>5

LEMMA IssueStep == ASSUME FamInv, NEW r \in Callers, IssueCode(r) PROVE FamInv'
<1>1. Moves(r, Free) /\ Free \in Errand /\ ErrandFits(Free)' /\ link' = link
  BY ErrandTypes DEF IssueCode, Free, ErrandFits
<1>2. CASE code' = code
  <2>1. code' \in [Codes -> CodeRow] /\ SpentStay /\ OneCode'
    BY <1>2 DEF FamInv, FamilyTypeOK, SpentStay, OneCode, Unspent
  <2> QED BY <1>1, <2>1, CodesMove
<1>3. CASE IndexAllows(r)
  <2>1. code' \in [Codes -> CodeRow] /\ SpentStay /\ \E c : Unspent' = {c}
    BY <1>3, IssueRows DEF IssueCode
  <2>2. OneCode'
    BY <2>1 DEF OneCode
  <2> QED BY <1>1, <2>1, <2>2, CodesMove
<1> QED BY <1>2, <1>3 DEF IssueCode

LEMMA HandInStep ==
  ASSUME FamInv, NEW r \in Callers, NEW p \in Parents, HandIn(r, p) PROVE FamInv'
<1>1. PICK c \in Unspent : code' = [code EXCEPT ![c] = Retired(p)] /\ Moves(r, HandedIn(p, c))
  BY DEF HandIn
<1>2. c \in Codes /\ code[c].state = "live" /\ code \in [Codes -> CodeRow]
  BY DEF Unspent, FamInv, FamilyTypeOK
<1>3. Retired(p) \in CodeRow /\ Retired(p).state = "spent" /\ Retired(p).by = p
  BY CodeRowTypes DEF Retired
<1>4. code' \in [Codes -> CodeRow] /\ SpentStay
  BY <1>1, <1>2, <1>3 DEF SpentStay
<1>5. Unspent' \subseteq Unspent
  BY <1>1, <1>2, <1>3 DEF Unspent
<1>6. OneCode'
  BY <1>5 DEF FamInv, OneCode
<1>7. HandedIn(p, c) \in Errand /\ ErrandFits(HandedIn(p, c))'
  <2>1. HandedIn(p, c) \in Errand
    BY <1>2, ErrandTypes
  <2>2. Earned(c, p)'
    BY <1>1, <1>2, <1>3 DEF Earned
  <2> QED BY <2>1, <2>2 DEF HandedIn, ErrandFits, Earned
<1> QED BY <1>1, <1>4, <1>6, <1>7, CodesMove DEF HandIn

(* The steps that change no code and no link.                              *)
LEMMA ErrandStep ==
  ASSUME FamInv, NEW r \in Callers, RetireCodes(r) \/ CompareTenants(r) \/ CallerDies(r)
  PROVE  FamInv'
<1>1. errand[r] \in Errand /\ ErrandFits(errand[r])
  BY DEF FamInv, FamilyTypeOK
<1>2. \E e \in Errand : Moves(r, e) /\ ErrandFits(e)
  <2>1. Free \in Errand /\ ErrandFits(Free)
    BY ErrandTypes DEF Free, ErrandFits
  <2>2. Issuing \in Errand /\ ErrandFits(Issuing)
    BY ErrandTypes DEF Issuing, ErrandFits
  <2>3. CASE CompareTenants(r)
    <3>1. CASE SameTenant(errand[r].parent)
      <4>1. Allowed(errand[r]) \in Errand
        BY <1>1, ErrandTypes
      <4>2. Allowed(errand[r]).step = "allowed"
              /\ Allowed(errand[r]).parent = errand[r].parent
              /\ Allowed(errand[r]).code = errand[r].code
        BY <1>1 DEF Allowed, Errand
      <4>3. ErrandFits(Allowed(errand[r]))
        BY <1>1, <2>3, <3>1, <4>2 DEF ErrandFits, CompareTenants, SameTenant
      <4> QED BY <2>3, <3>1, <4>1, <4>3 DEF CompareTenants
    <3> QED BY <2>1, <2>3, <3>1 DEF CompareTenants
  <2> QED BY <2>1, <2>2, <2>3 DEF RetireCodes, CallerDies
<1>3. code' = code /\ link' = link
  BY DEF RetireCodes, CompareTenants, CallerDies
<1>4. code' \in [Codes -> CodeRow] /\ SpentStay /\ OneCode'
  BY <1>3 DEF FamInv, FamilyTypeOK, SpentStay, OneCode, Unspent
<1>5. \A e : ErrandFits(e) => ErrandFits(e)'
  BY <1>4, EarnedStays DEF ErrandFits
<1> QED BY <1>2, <1>3, <1>4, <1>5, CodesMove

LEMMA UpsertStep ==
  ASSUME FamInv, NEW r \in Callers, UpsertPendingLink(r) PROVE FamInv'
<1>1. PICK p \in Parents, c \in Codes :
        p = errand[r].parent /\ c = errand[r].code /\ Earned(c, p) /\ p \notin Strangers
  BY DEF FamInv, ErrandFits, UpsertPendingLink, Earned
<1>2. link \in [Parents -> LinkState] /\ link' = [link EXCEPT ![p] = Upserted(@, c)]
        /\ code' = code /\ Moves(r, Free)
  BY <1>1 DEF FamInv, FamilyTypeOK, UpsertPendingLink
<1>3. link'[p] \in {link[p], Pending(c)} /\ \A q \in Parents : q # p => link'[q] = link[q]
  BY <1>1, <1>2 DEF Upserted
<1>4. link' \in [Parents -> LinkState]
  BY <1>1, <1>2, CodeRowTypes DEF Upserted
<1>5. link'[p] = Pending(c) => LinkFits(p)'
  BY <1>1, <1>2 DEF Pending, LinkFits, Earned
<1> QED BY <1>2, <1>3, <1>4, <1>5, LinksMove

LEMMA ApproveStep == ASSUME FamInv, NEW p \in Parents, ApproveLink(p) PROVE FamInv'
<1>1. link[p] \in LinkState /\ link \in [Parents -> LinkState] /\ LinkFits(p)
  BY DEF FamInv, FamilyTypeOK
<1>2. Approved(link[p]) \in LinkState /\ Approved(link[p]).code = link[p].code
        /\ Approved(link[p]).status = "approved"
  BY <1>1 DEF Approved, LinkState
<1>3. link' \in [Parents -> LinkState] /\ link'[p] = Approved(link[p])
        /\ \A q \in Parents : q # p => link'[q] = link[q]
  BY <1>1, <1>2 DEF ApproveLink
<1>4. LinkFits(p)'
  BY <1>1, <1>2, <1>3 DEF ApproveLink, LinkFits, Earned
<1> QED BY <1>3, <1>4, LinksMove DEF ApproveLink

LEMMA RevokeStep == ASSUME FamInv, NEW p \in Parents, RevokeLink(p) PROVE FamInv'
<1>1. link \in [Parents -> LinkState] /\ LinkFits(p)
  BY DEF FamInv, FamilyTypeOK
<1>2. link' \in [Parents -> LinkState] /\ link'[p] = Withdrawn
        /\ \A q \in Parents : q # p => link'[q] = link[q]
  BY <1>1, CodeRowTypes DEF RevokeLink
<1>3. LinkFits(p)'
  BY <1>1, <1>2 DEF RevokeLink, Withdrawn, LinkFits
<1> QED BY <1>2, <1>3, LinksMove DEF RevokeLink

LEMMA LapseStep == ASSUME FamInv, CodeLapses PROVE FamInv'
<1>1. PICK c \in Unspent : code' = [code EXCEPT ![c].lapsed = TRUE]
  BY DEF CodeLapses
<1>2. code \in [Codes -> CodeRow] /\ c \in Codes /\ code[c].state = "live"
  BY DEF FamInv, FamilyTypeOK, Unspent
<1>3. code' \in [Codes -> CodeRow]
  BY <1>1, <1>2 DEF CodeRow
<1>4. SpentStay /\ Unspent' = Unspent
  BY <1>1, <1>2 DEF SpentStay, Unspent, CodeRow
<1>5. FamilyTypeOK' /\ OneCode'
  BY <1>3, <1>4 DEF FamInv, FamilyTypeOK, OneCode, CodeLapses
<1>6. ASSUME NEW p \in Parents PROVE LinkFits(p)'
  <2>1. LinkFits(p) /\ link' = link
    BY DEF FamInv, CodeLapses
  <2> QED BY <1>4, <2>1, EarnedStays DEF LinkFits
<1>7. ASSUME NEW r \in Callers PROVE ErrandFits(errand[r])'
  <2>1. ErrandFits(errand[r]) /\ errand' = errand
    BY DEF FamInv, CodeLapses
  <2> QED BY <1>4, <2>1, EarnedStays DEF ErrandFits
<1> QED BY <1>5, <1>6, <1>7 DEF FamInv

(* The invariant is inductive.                                             *)
LEMMA FamStep == ASSUME FamInv, [FamilyNext]_familyVars PROVE FamInv'
<1>1. CASE UNCHANGED familyVars
  <2>1. UNCHANGED <<code, link, errand>>
    BY <1>1 DEF familyVars
  <2> QED BY <2>1, LinksMove DEF FamInv, FamilyTypeOK
<1>2. CASE FamilyNext
  BY <1>2, IssueStep, HandInStep, ErrandStep, UpsertStep, ApproveStep, RevokeStep,
     LapseStep DEF FamilyNext
<1> QED BY <1>1, <1>2

LEMMA FamAlways == FamilySpec => []FamInv
<1>1. FamInv /\ [FamilyNext]_familyVars => FamInv'
  BY FamStep
<1> QED BY FamInitially, <1>1, PTL DEF FamilySpec

-----------------------------------------------------------------------------
(* Whatever issues, submissions, approvals and revocations overlap, a      *)
(* student has one code at most, and a parent has an open link only by a   *)
(* code that this parent handed in, and none across tenants.               *)
THEOREM LinksAreEarnedByCodes == FamilySpec => []FamilyInv
<1>1. FamInv => FamilyInv
  BY DEF FamInv, FamilyInv, LinksAreEarned, LinkFits, Earned
<1> QED BY FamAlways, <1>1, PTL

(* Nothing but a parent who hands it in leaves the student without a code, *)
(* and an approval stands, for the code that it was given for, until it is *)
(* revoked.                                                                *)
THEOREM CodesAndConsentStand == FamilySpec => CodesAndConsentLast
<1> DEFINE A == /\ Unspent # {} /\ Unspent' = {} => \E c \in Unspent : code'[c].by \in Parents
                /\ \A p \in Parents :
                     link[p].status = "approved" => link'[p] \in {link[p], Withdrawn}
<1>1. FamInv /\ [FamilyNext]_familyVars => [A]_familyVars
  <2> SUFFICES ASSUME FamInv, FamilyNext PROVE A
    BY DEF familyVars
  <2>1. ASSUME NEW r \in Callers, IssueCode(r) PROVE A
    <3>1. link' = link /\ (code' = code \/ \E c : Unspent' = {c})
      BY <2>1, IssueRows DEF IssueCode
    <3>2. Unspent' = Unspent \/ Unspent' # {}
      BY <3>1 DEF Unspent
    <3> QED BY <3>1, <3>2
  <2>2. ASSUME NEW r \in Callers, NEW p \in Parents, HandIn(r, p) PROVE A
    <3>1. PICK c \in Unspent : code' = [code EXCEPT ![c] = Retired(p)]
      BY <2>2 DEF HandIn
    <3>2. code'[c].by = p
      BY <3>1 DEF FamInv, FamilyTypeOK, Unspent, Retired
    <3> QED BY <2>2, <3>2 DEF HandIn
  <2>3. ASSUME code' = code, link' = link PROVE A
    BY <2>3 DEF Unspent
  <2>4. ASSUME NEW r \in Callers, UpsertPendingLink(r) PROVE A
    <3>1. \A p \in Parents : link'[p] = link[p] \/ link'[p] = Upserted(link[p], errand[r].code)
      BY <2>4 DEF UpsertPendingLink, FamInv, FamilyTypeOK
    <3>2. \A p \in Parents : link[p].status = "approved" => link'[p] = link[p]
      BY <3>1 DEF Upserted
    <3>3. Unspent' = Unspent
      BY <2>4 DEF UpsertPendingLink, Unspent
    <3> QED BY <3>2, <3>3
  <2>5. ASSUME NEW p \in Parents, ApproveLink(p) \/ RevokeLink(p) PROVE A
    <3>1. \A q \in Parents : q # p => link'[q] = link[q]
      BY <2>5 DEF ApproveLink, RevokeLink, FamInv, FamilyTypeOK
    <3>2. link[p].status = "approved" => link'[p] = Withdrawn
      BY <2>5 DEF ApproveLink, RevokeLink, FamInv, FamilyTypeOK
    <3>3. Unspent' = Unspent
      BY <2>5 DEF ApproveLink, RevokeLink, Unspent
    <3> QED BY <3>1, <3>2, <3>3
  <2>6. CASE CodeLapses
    <3>1. link' = link
      BY <2>6 DEF CodeLapses
    <3>2. PICK c \in Unspent : code' = [code EXCEPT ![c].lapsed = TRUE]
      BY <2>6 DEF CodeLapses
    <3>3. Unspent' = Unspent
      BY <3>2 DEF Unspent, FamInv, FamilyTypeOK, CodeRow
    <3> QED BY <3>1, <3>3
  <2> QED BY <2>1, <2>2, <2>3, <2>4, <2>5, <2>6
          DEF FamilyNext, RetireCodes, CompareTenants, CallerDies
<1> QED BY FamAlways, <1>1, PTL DEF FamilySpec, CodesAndConsentLast

-----------------------------------------------------------------------------
(* Who sees a child's data.  What a request of a guardian has seen of its  *)
(* link is tied to the link as it stands; of two rows that are due, only   *)
(* one can be unblurred.                                                   *)
RequestSees(r) ==
  LET l == lookup[r]
  IN /\ l.by \in Guardians => l.on = l.by
     /\ l.op \in {"approve", "end"} => l.by = "child"
     /\ l.op \in {"children", "consent", "digest"} => l.by \in Guardians
     /\ l.by \in Insiders =>
          /\ consent[l.by] = "approved" => l.sometime
          /\ l.throughout => consent[l.by] = "approved"
          /\ l.step = "checked" => /\ l.approved => l.sometime
                                   /\ l.throughout => l.approved
     /\ l.step \in {"allowed", "found", "granted", "ended", "answered"} /\ l.by # "child" =>
          l.by \in Insiders /\ l.sometime /\ l.op # "change"
     /\ l.step \in {"refused", "faulted"} /\ l.by \in Insiders /\ l.op # "change" =>
          ~l.throughout

TrailSays(p) ==
  p \notin blurred =>
    /\ \A r, q \in Lookups : Owes(r, p) /\ Owes(q, p) => r = q
    /\ \A r \in Lookups : Owes(r, p) =>
         /\ lookup[r].step = "granted" => consent[p] = "approved"
         /\ lookup[r].step = "ended" => consent[p] \in {"revoked", "pending"}
    /\ (\A r \in Lookups : ~Owes(r, p)) =>
         /\ consent[p] \in {"approved", "revoked"} => trail[p] = consent[p]
         /\ trail[p] = "approved" => consent[p] = "approved"

GateInv ==
  /\ AccessTypeOK
  /\ \A r \in Lookups : RequestSees(r)
  /\ \A p \in Guardians : TrailSays(p)

LEMMA NoLookupType ==
  /\ NoLookup \in Lookup
  /\ NoLookup.step = "free" /\ NoLookup.by = "child" /\ NoLookup.op = "look"
BY AccessAssumption DEF NoLookup, Lookup, Students, ParentOps, ChildOps, Outcomes

LEMMA GateInit == AccessInit => GateInv
<1> SUFFICES ASSUME AccessInit PROVE GateInv
  OBVIOUS
<1>1. AccessTypeOK
  BY NoLookupType DEF AccessInit, AccessTypeOK, Statuses
<1>2. \A r \in Lookups : RequestSees(r)
  BY AccessAssumption DEF AccessInit, RequestSees, NoLookup, Insiders
<1>3. \A p \in Guardians : TrailSays(p)
  BY DEF AccessInit, TrailSays, Owes, NoLookup
<1> QED BY <1>1, <1>2, <1>3 DEF GateInv

\* A step that leaves the links and the trail alone and moves one request, which
\* owes no row before or after it.
LEMMA QuietMove ==
  ASSUME GateInv, NEW r \in Lookups, NEW l \in Lookup,
         lookup' = [lookup EXCEPT ![r] = l], UNCHANGED <<consent, trail, blurred>>,
         lookup[r].step \notin {"granted", "ended"}, l.step \notin {"granted", "ended"},
         RequestSees(r)'
  PROVE  GateInv'
<1>1. AccessTypeOK'
  BY DEF GateInv, AccessTypeOK
<1>2. ASSUME NEW q \in Lookups PROVE RequestSees(q)'
  <2>1. CASE q = r
    BY <2>1
  <2>2. CASE q # r
    <3>1. lookup'[q] = lookup[q]
      BY <2>2 DEF GateInv, AccessTypeOK
    <3> QED BY <3>1 DEF GateInv, RequestSees
  <2> QED BY <2>1, <2>2
<1>3. ASSUME NEW p \in Guardians PROVE TrailSays(p)'
  <2>1. \A q \in Lookups : Owes(q, p)' <=> Owes(q, p)
    BY DEF GateInv, AccessTypeOK, Owes
  <2>2. \A q \in Lookups : Owes(q, p) => lookup'[q] = lookup[q]
    BY DEF GateInv, AccessTypeOK, Owes
  <2> QED BY <2>1, <2>2 DEF GateInv, TrailSays
<1> QED BY <1>1, <1>2, <1>3 DEF GateInv

\* The same of a step that changes no more than how far the request is.
LEMMA QuietStep ==
  ASSUME GateInv, NEW r \in Lookups, NEW step, LookupTo(r, step),
         UNCHANGED <<consent, trail, blurred>>,
         lookup[r].step \notin {"granted", "ended", "refused", "faulted"},
         step \in {"asked", "listed", "allowed", "found", "answered", "refused", "faulted"},
         step \in {"allowed", "found", "answered"} /\ lookup[r].by # "child" =>
           lookup[r].by \in Insiders /\ lookup[r].sometime /\ lookup[r].op # "change",
         step \in {"refused", "faulted"} /\ lookup[r].by \in Insiders /\ lookup[r].op # "change"
           => ~lookup[r].throughout
  PROVE  GateInv'
<1> DEFINE l == [lookup[r] EXCEPT !.step = step]
<1>1. l \in Lookup /\ lookup' = [lookup EXCEPT ![r] = l]
  BY DEF GateInv, AccessTypeOK, LookupTo, Lookup, Outcomes
<1>2. lookup'[r] = l
  BY <1>1 DEF GateInv, AccessTypeOK
<1>3. /\ l.step = step /\ l.by = lookup[r].by /\ l.on = lookup[r].on /\ l.op = lookup[r].op
      /\ l.approved = lookup[r].approved /\ l.sometime = lookup[r].sometime
      /\ l.throughout = lookup[r].throughout
  BY DEF GateInv, AccessTypeOK, Lookup
<1>4. RequestSees(r)
  BY DEF GateInv
<1> HIDE DEF l
<1>5. RequestSees(r)'
  BY <1>2, <1>3, <1>4 DEF RequestSees
<1> QED BY <1>1, <1>3, <1>5, QuietMove

\* A change of a link commits.
LEMMA UpdateStep ==
  ASSUME GateInv, NEW r \in Lookups, NEW p \in Guardians, lookup[r].on = p,
         NEW status, NEW step,
         \/ status = "approved" /\ step = "granted" /\ lookup[r].by = "child"
         \/ /\ status = "revoked" /\ step = "ended"
            /\ lookup[r].by # "child" => lookup[r].step = "found",
         lookup[r].step \in {"asked", "found"},
         Updates(r, p, status, step)
  PROVE  GateInv'
<1>0. consent' = [consent EXCEPT ![p] = status] /\ blurred' = Overlaps(p) /\ trail' = trail
  BY DEF Updates
<1>1. /\ AccessTypeOK'
      /\ \A q \in Lookups :
           /\ lookup'[q].by = lookup[q].by /\ lookup'[q].on = lookup[q].on
           /\ lookup'[q].op = lookup[q].op /\ lookup'[q].approved = lookup[q].approved
           /\ lookup'[q].step = IF q = r THEN step ELSE lookup[q].step
           /\ IF lookup[q].by # p \/ p \in Outsiders
              THEN lookup'[q].sometime = lookup[q].sometime
                   /\ lookup'[q].throughout = lookup[q].throughout
              ELSE lookup'[q].sometime = (lookup[q].sometime \/ status = "approved")
                   /\ lookup'[q].throughout = (lookup[q].throughout /\ status = "approved")
  <2> DEFINE own(q) == [lookup[q] EXCEPT !.step = IF q = r THEN step ELSE @]
             told(q) == IF lookup[q].by # p \/ p \in Outsiders THEN own(q)
                        ELSE [own(q) EXCEPT !.sometime = @ \/ status = "approved",
                                            !.throughout = @ /\ status = "approved"]
  <2>1. ASSUME NEW q \in Lookups
        PROVE  /\ own(q) \in Lookup
               /\ own(q).by = lookup[q].by /\ own(q).on = lookup[q].on
               /\ own(q).op = lookup[q].op /\ own(q).approved = lookup[q].approved
               /\ own(q).step = IF q = r THEN step ELSE lookup[q].step
               /\ own(q).sometime = lookup[q].sometime
               /\ own(q).throughout = lookup[q].throughout
    BY DEF GateInv, AccessTypeOK, Lookup, Outcomes
  <2> HIDE DEF own
  <2>2. ASSUME NEW q \in Lookups
        PROVE  /\ told(q) \in Lookup
               /\ told(q).by = lookup[q].by /\ told(q).on = lookup[q].on
               /\ told(q).op = lookup[q].op /\ told(q).approved = lookup[q].approved
               /\ told(q).step = IF q = r THEN step ELSE lookup[q].step
               /\ IF lookup[q].by # p \/ p \in Outsiders
                  THEN told(q).sometime = lookup[q].sometime
                       /\ told(q).throughout = lookup[q].throughout
                  ELSE told(q).sometime = (lookup[q].sometime \/ status = "approved")
                       /\ told(q).throughout = (lookup[q].throughout /\ status = "approved")
    <3>1. CASE lookup[q].by # p \/ p \in Outsiders
      BY <3>1, <2>1
    <3>2. CASE ~(lookup[q].by # p \/ p \in Outsiders)
      <4>1. /\ told(q) = [own(q) EXCEPT !.sometime = @ \/ status = "approved",
                                        !.throughout = @ /\ status = "approved"]
            /\ own(q) \in Lookup
        BY <3>2, <2>1
      <4>2. /\ told(q) \in Lookup
            /\ told(q).by = own(q).by /\ told(q).on = own(q).on /\ told(q).op = own(q).op
            /\ told(q).approved = own(q).approved /\ told(q).step = own(q).step
            /\ told(q).sometime = (own(q).sometime \/ status = "approved")
            /\ told(q).throughout = (own(q).throughout /\ status = "approved")
        BY <4>1 DEF Lookup
      <4> HIDE DEF told
      <4> QED BY <3>2, <4>2, <2>1
    <3> QED BY <3>1, <3>2
  <2>3. lookup' = [q \in Lookups |-> told(q)]
    BY DEF own, Updates
  <2> HIDE DEF told
  <2>4. lookup' \in [Lookups -> Lookup] /\ \A q \in Lookups : lookup'[q] = told(q)
    BY <2>2, <2>3
  <2>5. AccessTypeOK'
    BY <1>0, <2>4 DEF GateInv, AccessTypeOK, Statuses, Overlaps
  <2> QED BY <2>2, <2>4, <2>5
<1>2. \A g \in Guardians : consent'[g] = IF g = p THEN status ELSE consent[g]
  BY <1>0 DEF GateInv, AccessTypeOK
<1>3. ASSUME NEW q \in Lookups PROVE RequestSees(q)'
  <2>1. RequestSees(q) /\ RequestSees(r)
    BY DEF GateInv
  <2>2. lookup[q].by \in Guardians \cup Students
    BY DEF GateInv, AccessTypeOK, Lookup
  <2>3. CASE lookup[q].by \notin Insiders
    BY <1>1, <1>2, <2>1, <2>2, <2>3, AccessAssumption DEF RequestSees, Students
  <2>4. CASE lookup[q].by \in Insiders
    <3>1. /\ lookup[q].by \in Guardians \ Outsiders /\ lookup[q].by # "child"
          /\ lookup[q].on = lookup[q].by
      BY <2>1, <2>4, AccessAssumption DEF Insiders, RequestSees
    <3>2. CASE lookup[q].by # p
      <4>1. q # r
        BY <2>1, <3>1, <3>2
      <4>2. consent'[lookup[q].by] = consent[lookup[q].by]
        BY <1>2, <3>1, <3>2
      <4>3. /\ lookup'[q].by = lookup[q].by /\ lookup'[q].on = lookup[q].on
            /\ lookup'[q].op = lookup[q].op /\ lookup'[q].approved = lookup[q].approved
            /\ lookup'[q].step = lookup[q].step
            /\ lookup'[q].sometime = lookup[q].sometime
            /\ lookup'[q].throughout = lookup[q].throughout
        BY <1>1, <3>2, <4>1
      <4> QED BY <2>1, <4>2, <4>3 DEF RequestSees
    <3>3. CASE lookup[q].by = p
      <4>1. consent'[lookup[q].by] = status
        BY <1>2, <3>3
      <4>2. /\ lookup'[q].by = lookup[q].by /\ lookup'[q].on = lookup[q].on
            /\ lookup'[q].op = lookup[q].op /\ lookup'[q].approved = lookup[q].approved
            /\ lookup'[q].step = IF q = r THEN step ELSE lookup[q].step
            /\ lookup'[q].sometime = (lookup[q].sometime \/ status = "approved")
            /\ lookup'[q].throughout = (lookup[q].throughout /\ status = "approved")
        BY <1>1, <3>1, <3>3
      <4>3. CASE status = "approved"
        <5>1. q # r /\ lookup'[q].sometime
          BY <3>1, <4>2, <4>3
        <5> QED BY <2>1, <3>1, <4>1, <4>2, <4>3, <5>1 DEF RequestSees
      <4>4. CASE status = "revoked"
        <5>1. ~lookup'[q].throughout /\ (lookup[q].sometime => lookup'[q].sometime)
          BY <4>2, <4>4
        <5> QED BY <2>1, <3>1, <4>1, <4>2, <4>4, <5>1 DEF RequestSees
      <4> QED BY <4>3, <4>4
    <3> QED BY <3>2, <3>3
  <2> QED BY <2>3, <2>4
<1>4. ASSUME NEW g \in Guardians PROVE TrailSays(g)'
  <2>1. TrailSays(g)
    BY DEF GateInv
  <2>2. CASE g # p
    <3>1. \A q \in Lookups : Owes(q, g)' <=> Owes(q, g)
      BY <1>1, <2>2 DEF Owes
    <3>2. \A q \in Lookups : Owes(q, g) => lookup'[q].step = lookup[q].step
      BY <1>1, <2>2 DEF Owes
    <3>3. /\ g \notin blurred' => g \notin blurred
          /\ trail'[g] = trail[g]
      BY <1>0 DEF Overlaps
    <3> QED BY <1>2, <2>1, <2>2, <3>1, <3>2, <3>3 DEF TrailSays
  <2>3. CASE g = p /\ p \notin blurred'
    <3>1. \A q \in Lookups : ~Owes(q, p)
      BY <1>0, <2>3 DEF Overlaps
    <3>2. \A q \in Lookups : Owes(q, p)' <=> q = r
      BY <1>1, <3>1 DEF Owes
    <3> QED BY <1>1, <1>2, <2>3, <3>2 DEF TrailSays
  <2>4. CASE g = p /\ p \in blurred'
    BY <2>4 DEF TrailSays
  <2> QED BY <2>2, <2>3, <2>4
<1> QED BY <1>1, <1>3, <1>4 DEF GateInv

\* A request puts down no more than how far it is, and the trail moves.
LEMMA FilingSteps ==
  ASSUME GateInv, NEW r \in Lookups, FileChange(r) PROVE GateInv'
<1> DEFINE p == lookup[r].on
<1>1. /\ lookup[r].step \in {"granted", "ended"} /\ p \in Guardians
      /\ consent' = consent
      /\ AccessTypeOK'
  BY DEF FileChange, LookupAt, LookupTo, Files, RowOf, GateInv, AccessTypeOK, Lookup, Outcomes
<1>2. /\ lookup' = [lookup EXCEPT ![r].step = "answered"]
      /\ \/ trail' = [trail EXCEPT ![p] = RowOf(r)] /\ blurred' = blurred
         \/ blurred' = blurred \cup {p} /\ trail' = trail
  BY DEF FileChange, LookupTo, Files
<1>3. ASSUME NEW q \in Lookups
      PROVE  /\ lookup'[q].by = lookup[q].by /\ lookup'[q].on = lookup[q].on
             /\ lookup'[q].op = lookup[q].op /\ lookup'[q].approved = lookup[q].approved
             /\ lookup'[q].sometime = lookup[q].sometime
             /\ lookup'[q].throughout = lookup[q].throughout
             /\ lookup'[q].step = IF q = r THEN "answered" ELSE lookup[q].step
  BY <1>2 DEF GateInv, AccessTypeOK, Lookup
<1>4. ASSUME NEW q \in Lookups PROVE RequestSees(q)'
  <2>1. RequestSees(q)
    BY DEF GateInv
  <2> QED BY <1>1, <1>3, <2>1 DEF RequestSees
<1>5. ASSUME NEW g \in Guardians PROVE TrailSays(g)'
  <2>1. TrailSays(g)
    BY DEF GateInv
  <2>2. \A q \in Lookups : Owes(q, g)' <=> Owes(q, g) /\ q # r
    BY <1>3 DEF Owes
  <2>3. g \notin blurred' => g \notin blurred
    BY <1>2
  <2>4. CASE g # p
    <3>1. ~Owes(r, g)
      BY <2>4 DEF Owes
    <3>2. trail'[g] = trail[g]
      BY <1>2, <2>4 DEF GateInv, AccessTypeOK
    <3>3. \A q \in Lookups : Owes(q, g) => lookup'[q].step = lookup[q].step
      BY <1>3, <3>1
    <3> QED BY <1>1, <2>1, <2>2, <2>3, <3>1, <3>2, <3>3 DEF TrailSays
  <2>5. CASE g = p /\ g \notin blurred'
    <3>1. Owes(r, g)
      BY <1>1, <2>5 DEF Owes
    <3>2. \A q \in Lookups : ~Owes(q, g)'
      BY <2>1, <2>2, <2>3, <2>5, <3>1 DEF TrailSays
    <3>3. trail'[g] = RowOf(r)
      BY <1>1, <1>2, <2>5 DEF GateInv, AccessTypeOK
    <3>4. /\ lookup[r].step = "granted" => consent[g] = "approved"
          /\ lookup[r].step = "ended" => consent[g] \in {"revoked", "pending"}
      BY <2>1, <2>3, <2>5, <3>1 DEF TrailSays
    <3> QED BY <1>1, <3>2, <3>3, <3>4 DEF TrailSays, RowOf, LookupAt
  <2>6. CASE g = p /\ g \in blurred'
    BY <2>6 DEF TrailSays
  <2> QED BY <2>4, <2>5, <2>6
<1> QED BY <1>1, <1>4, <1>5 DEF GateInv

\* A request dies, and its row with it.
LEMMA DyingSteps ==
  ASSUME GateInv, NEW r \in Lookups, LookupDies(r) PROVE GateInv'
<1>1. /\ AccessTypeOK'
      /\ lookup' = [lookup EXCEPT ![r] = NoLookup]
      /\ consent' = consent /\ trail' = trail
  BY NoLookupType DEF LookupDies, GateInv, AccessTypeOK, Lookup
<1>2. \A q \in Lookups : lookup'[q] = IF q = r THEN NoLookup ELSE lookup[q]
  BY <1>1 DEF GateInv, AccessTypeOK
<1>3. ASSUME NEW q \in Lookups PROVE RequestSees(q)'
  <2>1. RequestSees(q)
    BY DEF GateInv
  <2>2. CASE q = r
    BY <1>2, <2>2, NoLookupType, AccessAssumption DEF RequestSees, Insiders
  <2>3. CASE q # r
    BY <1>1, <1>2, <2>1, <2>3 DEF RequestSees
  <2> QED BY <2>2, <2>3
<1>4. ASSUME NEW g \in Guardians PROVE TrailSays(g)'
  <2>1. TrailSays(g)
    BY DEF GateInv
  <2>2. \A q \in Lookups : Owes(q, g)' <=> Owes(q, g) /\ q # r
    BY <1>2, NoLookupType DEF Owes
  <2>3. CASE Owes(r, g)
    <3>1. g \in blurred'
      BY <2>3 DEF LookupDies, Owes
    <3> QED BY <3>1 DEF TrailSays
  <2>4. CASE ~Owes(r, g)
    <3>1. g \notin blurred' => g \notin blurred
      BY DEF LookupDies
    <3>2. \A q \in Lookups : Owes(q, g) => lookup'[q] = lookup[q]
      BY <1>2, <2>4
    <3> QED BY <1>1, <2>1, <2>2, <2>4, <3>1, <3>2 DEF TrailSays
  <2> QED BY <2>3, <2>4
<1> QED BY <1>1, <1>3, <1>4 DEF GateInv

\* A parent hands in a code: a link that was not approved waits again.
LEMMA ResubmitStep ==
  ASSUME GateInv, NEW p \in Guardians, Resubmit(p) PROVE GateInv'
<1>1. /\ AccessTypeOK' /\ consent[p] \in {"none", "revoked"}
      /\ lookup' = lookup /\ trail' = trail /\ blurred' = blurred
      /\ \A g \in Guardians : consent'[g] = IF g = p THEN "pending" ELSE consent[g]
  BY DEF Resubmit, GateInv, AccessTypeOK, Statuses
<1>2. ASSUME NEW q \in Lookups PROVE RequestSees(q)'
  <2>1. RequestSees(q)
    BY DEF GateInv
  <2>2. lookup[q].by \in Insiders =>
          /\ consent'[lookup[q].by] = "approved" => consent[lookup[q].by] = "approved"
          /\ consent[lookup[q].by] = "approved" => consent'[lookup[q].by] = "approved"
    BY <1>1 DEF Insiders
  <2> QED BY <1>1, <2>1, <2>2 DEF RequestSees
<1>3. ASSUME NEW g \in Guardians PROVE TrailSays(g)'
  <2>1. TrailSays(g)
    BY DEF GateInv
  <2>2. \A q \in Lookups : Owes(q, g)' <=> Owes(q, g)
    BY <1>1 DEF Owes
  <2> QED BY <1>1, <2>1, <2>2 DEF TrailSays
<1> QED BY <1>1, <1>2, <1>3 DEF GateInv

\* A request begins: it has seen what the link is now.
LEMMA AskStep ==
  ASSUME GateInv, NEW r \in Lookups, NEW a \in Guardians \cup Students, NEW p \in Guardians,
         NEW op \in ParentOps \cup ChildOps, Ask(r, a, op, p)
  PROVE  GateInv'
<1> DEFINE linked == a \in Insiders /\ consent[p] = "approved"
           l == [step |-> "asked", by |-> a, op |-> op, on |-> p, approved |-> FALSE,
                 sometime |-> linked, throughout |-> linked]
<1>1. /\ lookup' = [lookup EXCEPT ![r] = l] /\ UNCHANGED <<consent, trail, blurred>>
      /\ lookup[r].step = "free"
  BY DEF Ask, LookupAt
<1>2. l \in Lookup
  BY DEF Lookup
<1>3. /\ l.step = "asked" /\ l.by = a /\ l.op = op /\ l.on = p /\ l.approved = FALSE
      /\ l.sometime = linked /\ l.throughout = linked
  OBVIOUS
<1>4. lookup'[r] = l
  BY <1>1, <1>2 DEF GateInv, AccessTypeOK
<1> HIDE DEF l
<1>5. /\ a \in Guardians => p = a /\ op \in ParentOps
      /\ a \notin Guardians => op \in {"look", "change", "approve", "end"}
      /\ op \in {"approve", "end"} => a = "child"
  BY AccessAssumption DEF Ask, Students, ParentOps
<1>6. RequestSees(r)'
  BY <1>1, <1>3, <1>4, <1>5 DEF RequestSees, Insiders
<1> QED BY <1>1, <1>2, <1>3, <1>6, QuietMove

\* The link is read for the request, and the verdict given.
LEMMA VerdictSteps ==
  ASSUME GateInv, NEW r \in Lookups, ReadStatus(r) \/ Authorise(r) PROVE GateInv'
<1>1. RequestSees(r) /\ lookup[r] \in Lookup
  BY DEF GateInv, AccessTypeOK
<1>2. CASE ReadStatus(r)
  <2> DEFINE seen == lookup[r].by \in Guardians /\ LinkOf(r) = "approved"
             l == [lookup[r] EXCEPT !.step = "checked", !.approved = seen]
  <2>1. /\ lookup' = [lookup EXCEPT ![r] = l] /\ UNCHANGED <<consent, trail, blurred>>
        /\ lookup[r].step \in {"listed", "asked"}
    BY <1>2 DEF ReadStatus, LookupAt, GateInv, AccessTypeOK
  <2>2. /\ l \in Lookup /\ l.step = "checked" /\ l.approved = seen
        /\ l.by = lookup[r].by /\ l.on = lookup[r].on /\ l.op = lookup[r].op
        /\ l.sometime = lookup[r].sometime /\ l.throughout = lookup[r].throughout
    BY <1>1 DEF Lookup
  <2>3. lookup'[r] = l
    BY <2>1 DEF GateInv, AccessTypeOK
  <2> HIDE DEF l
  <2>4. lookup[r].by \in Insiders => (seen <=> consent[lookup[r].by] = "approved")
    BY <1>1 DEF RequestSees, LinkOf, Insiders
  <2> HIDE DEF seen
  <2>5. RequestSees(r)'
    BY <1>1, <2>1, <2>2, <2>3, <2>4 DEF RequestSees
  <2> QED BY <2>1, <2>2, <2>5, QuietMove
<1>3. CASE Authorise(r)
  <2> DEFINE step == IF Permits(r) THEN "allowed" ELSE "refused"
             l == [lookup[r] EXCEPT !.step = step, !.approved = FALSE]
  <2>1. /\ lookup' = [lookup EXCEPT ![r] = l] /\ UNCHANGED <<consent, trail, blurred>>
        /\ lookup[r].step = "checked"
    BY <1>3 DEF Authorise, LookupAt, GateInv, AccessTypeOK
  <2>2. step \in {"allowed", "refused"}
    OBVIOUS
  <2>3. /\ l \in Lookup /\ l.step = step
        /\ l.by = lookup[r].by /\ l.on = lookup[r].on /\ l.op = lookup[r].op
        /\ l.sometime = lookup[r].sometime /\ l.throughout = lookup[r].throughout
    BY <1>1, <2>2 DEF Lookup, Outcomes
  <2>4. lookup'[r] = l
    BY <2>1 DEF GateInv, AccessTypeOK
  <2> HIDE DEF l
  <2>5. /\ step = "allowed" /\ lookup[r].by # "child" =>
             lookup[r].by \in Insiders /\ lookup[r].op # "change" /\ lookup[r].approved
        /\ step = "refused" /\ lookup[r].by \in Insiders /\ lookup[r].op # "change" =>
             ~lookup[r].approved
    BY DEF Permits, Asks
  <2> HIDE DEF step
  <2>6. RequestSees(r)'
    BY <1>1, <2>1, <2>2, <2>3, <2>4, <2>5 DEF RequestSees
  <2> QED BY <2>1, <2>2, <2>3, <2>6, QuietMove
<1> QED BY <1>2, <1>3

\* A request that reads, shows or serves, and changes nothing.
LEMMA ReadingSteps ==
  ASSUME GateInv, NEW r \in Lookups,
         ListChildren(r) \/ Serve(r) \/ RequireLink(r) \/ ShowConsent(r)
  PROVE  GateInv'
<1>1. RequestSees(r) /\ lookup[r].on \in Guardians
  BY DEF GateInv, AccessTypeOK, Lookup
<1>2. CASE ListChildren(r)
  <2> DEFINE step == IF LinkOf(r) # "approved" THEN "refused"
                     ELSE IF Asks(r, "children") THEN "listed"
                     ELSE IF lookup[r].on \in Outsiders THEN "refused" ELSE "allowed"
  <2>1. /\ LookupTo(r, step) /\ UNCHANGED <<consent, trail, blurred>>
        /\ lookup[r].step = "asked" /\ lookup[r].op \in {"children", "digest"}
        /\ step \in {"refused", "listed", "allowed"}
    BY <1>2 DEF ListChildren, LookupAt
  <2>2. lookup[r].by \in Guardians /\ lookup[r].on = lookup[r].by
    BY <1>1, <2>1 DEF RequestSees
  <2>3. step = "allowed" => lookup[r].by \in Insiders /\ consent[lookup[r].by] = "approved"
    BY <2>1, <2>2 DEF Insiders, LinkOf, Asks
  <2>4. step = "refused" /\ lookup[r].by \in Insiders => consent[lookup[r].by] # "approved"
    BY <2>1, <2>2 DEF Insiders, LinkOf, Asks
  <2> HIDE DEF step
  <2> QED BY <1>1, <2>1, <2>3, <2>4, QuietStep DEF RequestSees
<1>3. CASE Serve(r)
  BY <1>1, <1>3, QuietStep DEF Serve, LookupAt, RequestSees
<1>4. CASE RequireLink(r)
  <2> DEFINE step == IF LinkOf(r) = "approved" THEN "found" ELSE "faulted"
  <2>1. /\ LookupTo(r, step) /\ UNCHANGED <<consent, trail, blurred>>
        /\ lookup[r].step = "allowed" /\ lookup[r].op = "consent"
        /\ step \in {"found", "faulted"}
    BY <1>4 DEF RequireLink, LookupAt, Asks
  <2>2. lookup[r].by \in Guardians /\ lookup[r].on = lookup[r].by
    BY <1>1, <2>1 DEF RequestSees
  <2>3. step = "faulted" => consent[lookup[r].by] # "approved"
    BY <2>2 DEF LinkOf
  <2> HIDE DEF step
  <2> QED BY <1>1, <2>1, <2>2, <2>3, QuietStep DEF RequestSees
<1>5. CASE ShowConsent(r)
  BY <1>1, <1>5, QuietStep DEF ShowConsent, LookupAt, RequestSees
<1> QED BY <1>2, <1>3, <1>4, <1>5

\* A change of the link, or its refusal.
LEMMA LinkSteps ==
  ASSUME GateInv, NEW r \in Lookups, Approve(r) \/ Revoke(r) PROVE GateInv'
<1>1. RequestSees(r) /\ lookup[r].on \in Guardians
  BY DEF GateInv, AccessTypeOK, Lookup
<1>2. CASE Approve(r)
  <2>1. lookup[r].step = "asked" /\ lookup[r].by = "child"
    BY <1>1, <1>2 DEF Approve, LookupAt, Asks, RequestSees
  <2>2. CASE LinkOf(r) = "pending"
    <3>1. Updates(r, lookup[r].on, "approved", "granted")
      BY <1>2, <2>2 DEF Approve
    <3> QED BY <1>1, <2>1, <3>1, UpdateStep
  <2>3. CASE LinkOf(r) # "pending"
    <3>1. LookupTo(r, "refused") /\ UNCHANGED <<consent, trail, blurred>>
      BY <1>2, <2>3 DEF Approve
    <3>2. lookup[r].by \notin Insiders
      BY <2>1, AccessAssumption DEF Insiders
    <3> QED BY <2>1, <3>1, <3>2, QuietStep
  <2> QED BY <2>2, <2>3
<1>3. CASE Revoke(r)
  <2>1. /\ lookup[r].step \in {"asked", "found"}
        /\ lookup[r].by # "child" => lookup[r].step = "found"
    BY <1>1, <1>3 DEF Revoke, LookupAt, Asks, RequestSees
  <2>2. CASE LinkOf(r) \in {"pending", "approved"}
    <3>1. Updates(r, lookup[r].on, "revoked", "ended")
      BY <1>3, <2>2 DEF Revoke
    <3> QED BY <1>1, <2>1, <3>1, UpdateStep
  <2>3. CASE LinkOf(r) \notin {"pending", "approved"}
    <3>1. LookupTo(r, "refused") /\ UNCHANGED <<consent, trail, blurred>>
      BY <1>3, <2>3 DEF Revoke
    <3>2. lookup[r].by \in Insiders => ~lookup[r].throughout
      BY <1>1, <2>3 DEF RequestSees, Insiders, LinkOf
    <3> QED BY <2>1, <3>1, <3>2, QuietStep
  <2> QED BY <2>2, <2>3
<1> QED BY <1>2, <1>3

\* AccessInv: only a guardian linked at some moment of its request is shown the
\* child's data, a link that stands is served, and the newest row of the consent
\* trail tells what became of the link.
THEOREM ChildrenAreGuarded == AccessSpec => []AccessInv
<1>1. GateInv /\ [AccessNext]_accessVars => GateInv'
  <2> SUFFICES ASSUME GateInv, [AccessNext]_accessVars PROVE GateInv'
    OBVIOUS
  <2>1. CASE UNCHANGED accessVars
    <3>1. consent' = consent /\ lookup' = lookup /\ trail' = trail /\ blurred' = blurred
      BY <2>1 DEF accessVars
    <3> QED BY <3>1 DEF GateInv, AccessTypeOK, RequestSees, TrailSays, Owes
  <2>2. ASSUME NEW r \in Lookups, Finish(r) PROVE GateInv'
    <3>1. /\ lookup' = [lookup EXCEPT ![r] = NoLookup] /\ UNCHANGED <<consent, trail, blurred>>
          /\ lookup[r].step \notin {"granted", "ended"}
      BY <2>2 DEF Finish, Outcomes
    <3>2. lookup'[r] = NoLookup
      BY <3>1 DEF GateInv, AccessTypeOK
    <3>3. RequestSees(r)'
      BY <3>2, NoLookupType, AccessAssumption DEF RequestSees, Insiders
    <3> QED BY <3>1, <3>3, NoLookupType, QuietMove
  <2> QED BY <2>1, <2>2, AskStep, VerdictSteps, ReadingSteps, LinkSteps, FilingSteps,
             DyingSteps, ResubmitStep DEF AccessNext
<1>2. GateInv => AccessInv
  <2> SUFFICES ASSUME GateInv PROVE AccessInv
    OBVIOUS
  <2>1. OnlyTheLinkedSee
    BY DEF GateInv, RequestSees, OnlyTheLinkedSee, LookupAt, Asks
  <2>2. TheLinkedAreServed
    BY DEF GateInv, RequestSees, TheLinkedAreServed, Asks
  <2>3. TrailTellsTheLink
    BY DEF GateInv, TrailSays, TrailTellsTheLink
  <2> QED BY <2>1, <2>2, <2>3 DEF GateInv, AccessInv
<1> QED BY <1>1, <1>2, GateInit, PTL DEF AccessSpec

=============================================================================

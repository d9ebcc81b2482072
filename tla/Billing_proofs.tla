---------------------------- MODULE Billing_proofs ----------------------------
(***************************************************************************)
(* Billing's invariants for every set of subjects, rows, requests and      *)
(* events, every period and every wait: the tables' invariant, that access *)
(* is always backed by a payment, and what an accepted event may do.       *)
(***************************************************************************)
EXTENDS Billing, TLAPS

(* d was bought for row s: a payment for s, once applied, reached it. *)
Bought(s, d) == \E e \in Events : /\ worth[e] # NoDate
                                  /\ sent[e].sub = s
                                  /\ sent[e].kind = "charged"
                                  /\ d <= worth[e]

(* A date that gives no access: none, past, or bought. *)
Honest(s, d) == d # NoDate => d <= now \/ Bought(s, d)

RowsHonest == \A s \in Subs : Honest(s, sub[s].end)

(* What a cancellation carries from its read to its write. *)
Carried(r) ==
    /\ req[r].step # "idle" => req[r].sub \in Subs
    /\ req[r].step = "priced" => req[r].date \in Int
    /\ req[r].step = "told" => req[r].date # NoDate
    /\ req[r].step \in {"found", "told"} => Honest(req[r].sub, req[r].date)

(* Only a recorded event has been applied, and only a sent one is recorded. *)
Accepted ==
    \A e \in Events : /\ worth[e] # NoDate => e \in recorded
                      /\ e \in recorded => sent[e] # NoEvent

RowsKnown == \A s \in Subs : EndKnown(sub[s])
OneLive == \A s, t \in Subs : s # t /\ Owner[s] = Owner[t]
                                => ~(sub[s].status \in Live /\ sub[t].status \in Live)

IInv == /\ TypeOK
        /\ RowsKnown
        /\ OneLive
        /\ RowsHonest
        /\ \A r \in Requests : Carried(r)
        /\ Accepted

(* A transition yields a row, moves neither its id nor its age, knows its   *)
(* end, and its end is the old one, the instant, or what the event bought.  *)
LEMMA TransitionRow ==
    ASSUME NEW row \in Rows, NEW fact \in Facts, NEW at \in Int, EndKnown(row)
    PROVE  LET new == Transition(row, fact, at) IN
             /\ new \in Rows
             /\ EndKnown(new)
             /\ \/ new.end = row.end
                \/ new.end = at
                \/ fact.kind = "charged" /\ new.end = Projected(fact, at)
<1> DEFINE new == Transition(row, fact, at)
<1>0. /\ at + PeriodDays \in Int /\ NoDate \notin Int
      /\ row.end \in Dates /\ fact.end \in Dates /\ fact.kind \in Kinds
  BY PeriodAssumption, NullAssumption DEF Rows, Facts
<1>1. CASE fact.kind = "charged"
  <2>1. /\ Projected(fact, at) \in Int
        /\ PaidEnd(row, fact, at) \in Int
        /\ PaidEnd(row, fact, at) \in {row.end, Projected(fact, at)}
    BY <1>0 DEF PaidEnd, Projected, Or, Later, Dates
  <2>2. new = [row EXCEPT !.status = "active", !.end = PaidEnd(row, fact, at), !.stamped = FALSE]
    BY <1>1 DEF Transition
  <2> QED BY <1>0, <1>1, <2>1, <2>2 DEF Rows, Statuses, Dates, EndKnown
<1>2. CASE fact.kind = "failed"
  <2>1. new = [row EXCEPT !.status = "past_due"] BY <1>2 DEF Transition
  <2> QED BY <2>1 DEF Rows, Statuses, EndKnown
<1>3. CASE fact.kind = "halted"
  <2>1. new = [row EXCEPT !.status = "expired", !.end = at] BY <1>3 DEF Transition
  <2> QED BY <1>0, <2>1 DEF Rows, Statuses, Dates, EndKnown
<1>4. CASE fact.kind \in {"cancelled", "unknown"}
  <2>1. new = [row EXCEPT !.status = "cancelled", !.end = Or(row.end, at), !.stamped = TRUE]
    BY <1>4 DEF Transition
  <2>2. Or(row.end, at) \in Int /\ Or(row.end, at) \in {row.end, at}
    BY <1>0 DEF Or, Dates
  <2> QED BY <1>0, <2>1, <2>2 DEF Rows, Statuses, Dates, EndKnown
<1> QED BY <1>0, <1>1, <1>2, <1>3, <1>4 DEF Kinds

(* What the requests' statements make of a row has the type of a row.      *)
LEMMA RowWrites ==
    ASSUME NEW row \in Rows, NEW d \in Dates
    PROVE  /\ d \in Int => PendingRow(row, d) \in Rows
           /\ AttachedRow(row) \in Rows
           /\ CancelledRow(row, d) \in Rows
BY DEF PendingRow, AttachedRow, CancelledRow, Rows, Statuses

(* The initial state satisfies the inductive invariant. *)
LEMMA InitIInv == Init => IInv
<1> SUFFICES ASSUME Init PROVE IInv OBVIOUS
<1>1. \A s \in Subs : sub[s] = [status |-> "none", end |-> NoDate, stamped |-> FALSE,
                                attached |-> FALSE, created |-> 0]
  BY DEF Init
<1>2. TypeOK
  <2>1. sub \in [Subs -> Rows] BY DEF Init, Rows, Statuses, Dates
  <2>2. req \in [Requests -> [step : Steps, sub : Subs \cup {NoSub}, date : Dates]]
    BY DEF Init, Idle, Steps, Dates
  <2> QED BY <2>1, <2>2 DEF Init, TypeOK, Dates
<1>3. RowsKnown /\ OneLive /\ RowsHonest
  BY <1>1 DEF RowsKnown, OneLive, RowsHonest, EndKnown, Honest, Live
<1>4. \A r \in Requests : Carried(r) BY DEF Init, Idle, Carried
<1>5. Accepted BY DEF Init, Accepted
<1> QED BY <1>2, <1>3, <1>4, <1>5 DEF IInv

(* Type correctness of a step in which no event is applied.                *)
LEMMA StepTypeOK ==
    ASSUME IInv, Next,
           ~ \E e \in Events, at \in (now - LockWait)..now : WebhookApplies(e, at)
    PROVE  TypeOK'
<1> USE NullAssumption
<1>0. /\ TypeOK /\ now \in Int
      /\ [step |-> "idle", sub |-> NoSub, date |-> NoDate]
           \in [step : Steps, sub : Subs \cup {NoSub}, date : Dates]
  BY DEF IInv, TypeOK, Steps, Dates
<1>1. CASE Tick
  BY <1>0, <1>1 DEF Tick, TypeOK
<1>2. ASSUME NEW e \in Events, NEW s \in Subs, NEW kind \in Kinds, NEW end \in Dates,
             Issue(e, s, kind, end), provider' \in [Subs -> {"none", "open", "halted", "cancelled"}]
      PROVE  TypeOK'
  <2>1. [sub |-> s, kind |-> kind, end |-> end] \in Facts BY DEF Facts
  <2>2. sent' \in [Events -> Facts \cup {NoEvent}] BY <1>0, <1>2, <2>1 DEF Issue, TypeOK
  <2> QED BY <1>0, <1>2, <2>2 DEF Issue, TypeOK
<1>3. ASSUME NEW e \in Events, NEW s \in Subs, ProviderCharges(e, s) PROVE TypeOK'
  <2>0. now + PeriodDays \in Dates /\ NoDate \in Dates BY <1>0, PeriodAssumption DEF Dates
  <2>1. PICK kind \in Kinds, end \in Dates : Issue(e, s, kind, end)
    <3>1. CASE \E end \in {NoDate, now + PeriodDays} : Issue(e, s, "charged", end)
      BY <2>0, <3>1 DEF Kinds
    <3>2. CASE \E kind \in {"failed", "unknown"} : Issue(e, s, kind, NoDate)
      BY <2>0, <3>2 DEF Kinds
    <3> QED BY <1>3, <3>1, <3>2 DEF ProviderCharges
  <2> QED BY <1>0, <1>2, <1>3, <2>1 DEF ProviderCharges, TypeOK
<1>4. ASSUME NEW e \in Events, NEW s \in Subs, ProviderGivesUp(e, s) \/ ProviderConfirmsCancel(e, s)
      PROVE  TypeOK'
  <2>1. PICK kind \in Kinds, end \in Dates : Issue(e, s, kind, end)
    BY <1>4 DEF ProviderGivesUp, ProviderConfirmsCancel, Kinds, Dates
  <2>2. provider' \in [Subs -> {"none", "open", "halted", "cancelled"}]
    BY <1>0, <1>4 DEF ProviderGivesUp, ProviderConfirmsCancel, TypeOK
  <2> QED BY <1>2, <2>1, <2>2
<1>5. ASSUME NEW e \in Events, NEW at, WebhookChangesNothing(e, at) PROVE TypeOK'
  BY <1>0, <1>5 DEF WebhookChangesNothing, TypeOK
<1>6. ASSUME NEW r \in Requests, NEW s \in Subs, CheckNoneLive(r, s) PROVE TypeOK'
  <2>1. req' \in [Requests -> [step : Steps, sub : Subs \cup {NoSub}, date : Dates]]
    BY <1>0, <1>6 DEF CheckNoneLive, Goes, Idle, Steps, TypeOK
  <2> QED BY <1>0, <1>6, <2>1 DEF CheckNoneLive, TypeOK
<1>7. ASSUME NEW r \in Requests, NEW s \in Subs, FindLive(r, s) PROVE TypeOK'
  <2>1. sub[s].end \in Dates /\ Or(sub[s].end, now) \in Dates
    BY <1>0 DEF TypeOK, Rows, Or, Dates
  <2>2. req' \in [Requests -> [step : Steps, sub : Subs \cup {NoSub}, date : Dates]]
    BY <1>0, <1>7, <2>1 DEF FindLive, Told, Steps, TypeOK
  <2> QED BY <1>0, <1>7, <2>2 DEF FindLive, TypeOK
<1>8. ASSUME NEW r \in Requests, Dies(r) PROVE TypeOK'
  BY <1>0, <1>8 DEF Dies, Idle, TypeOK
<1>9. ASSUME NEW r \in Requests, ResolvePayer(r) PROVE TypeOK'
  <2>1. req' \in [Requests -> [step : Steps, sub : Subs \cup {NoSub}, date : Dates]]
    BY <1>0, <1>9 DEF ResolvePayer, Steps, Dates, TypeOK
  <2> QED BY <1>0, <1>9, <2>1 DEF ResolvePayer, TypeOK
<1>10. ASSUME NEW r \in Requests, InsertPending(r) PROVE TypeOK'
  <2> DEFINE s == req[r].sub
  <2>1. s \in Subs /\ req[r].date \in Int
    BY <1>10 DEF InsertPending, At, IInv, Carried
  <2>2. sub' \in [Subs -> Rows]
    BY <1>0, <1>10, <2>1, RowWrites DEF InsertPending, TypeOK
  <2>3. req' \in [Requests -> [step : Steps, sub : Subs \cup {NoSub}, date : Dates]]
    BY <1>0, <1>10, <2>1 DEF InsertPending, Goes, Idle, Steps, TypeOK
  <2> QED BY <1>0, <1>10, <2>2, <2>3 DEF InsertPending, TypeOK
<1>11. ASSUME NEW r \in Requests, CreateAtProvider(r) PROVE TypeOK'
  <2>1. req' \in [Requests -> [step : Steps, sub : Subs \cup {NoSub}, date : Dates]]
    BY <1>0, <1>11 DEF CreateAtProvider, At, Goes, Idle, Steps, TypeOK, IInv, Carried
  <2> QED BY <1>0, <1>11, <2>1 DEF CreateAtProvider, TypeOK
<1>12. ASSUME NEW r \in Requests, AttachProviderId(r) PROVE TypeOK'
  <2>1. sub' \in [Subs -> Rows] BY <1>0, <1>12, RowWrites DEF AttachProviderId, TypeOK
  <2>2. req' \in [Requests -> [step : Steps, sub : Subs \cup {NoSub}, date : Dates]]
    BY <1>0, <1>12 DEF AttachProviderId, Idle, TypeOK
  <2> QED BY <1>0, <1>12, <2>1, <2>2 DEF AttachProviderId, TypeOK
<1>13. ASSUME NEW r \in Requests, TellProvider(r) PROVE TypeOK'
  <2>1. req[r].sub \in Subs /\ req[r].date \in Dates /\ Or(req[r].date, now) \in Dates
    BY <1>0, <1>13 DEF TellProvider, At, IInv, Carried, TypeOK, Or, Dates
  <2>2. req' \in [Requests -> [step : Steps, sub : Subs \cup {NoSub}, date : Dates]]
    BY <1>0, <1>13, <2>1 DEF TellProvider, Told, Steps, TypeOK
  <2>3. provider' \in [Subs -> {"none", "open", "halted", "cancelled"}]
    BY <1>0, <1>13 DEF TellProvider, TypeOK
  <2> QED BY <1>0, <1>13, <2>2, <2>3 DEF TellProvider, TypeOK
<1>14. ASSUME NEW r \in Requests, WriteCancelled(r) PROVE TypeOK'
  <2>1. sub' \in [Subs -> Rows]
    BY <1>0, <1>14, RowWrites DEF WriteCancelled, TypeOK
  <2>2. req' \in [Requests -> [step : Steps, sub : Subs \cup {NoSub}, date : Dates]]
    BY <1>0, <1>14 DEF WriteCancelled, Idle, TypeOK
  <2> QED BY <1>0, <1>14, <2>1, <2>2 DEF WriteCancelled, TypeOK
<1> QED
  BY <1>1, <1>3, <1>4, <1>5, <1>6, <1>7, <1>8, <1>9, <1>10, <1>11, <1>12, <1>13, <1>14 DEF Next

(* Bought dates stay bought: whatever was honest before a step that only   *)
(* lets time pass and adds applied events is honest after it.              *)
LEMMA HonestLasts ==
    ASSUME TypeOK, now' \in Int, now <= now',
           \A e \in Events : worth[e] # NoDate => worth'[e] = worth[e] /\ sent'[e] = sent[e]
    PROVE  \A s \in Subs, d \in Dates : Honest(s, d) => Honest(s, d)'
<1> SUFFICES ASSUME NEW s \in Subs, NEW d \in Dates, Honest(s, d), d # NoDate
             PROVE  d <= now' \/ Bought(s, d)'
  BY DEF Honest
<1>1. CASE d <= now
  BY <1>1 DEF TypeOK, Dates
<1>2. CASE Bought(s, d)
  <2>1. PICK e \in Events : /\ worth[e] # NoDate
                            /\ sent[e].sub = s
                            /\ sent[e].kind = "charged"
                            /\ d <= worth[e]
    BY <1>2 DEF Bought
  <2>2. worth'[e] = worth[e] /\ sent'[e] = sent[e] BY <2>1
  <2> QED BY <2>1, <2>2 DEF Bought
<1> QED BY <1>1, <1>2 DEF Honest

(* A step that leaves rows and requests alone: time passes, the provider   *)
(* issues an event, an event is recorded without effect.                   *)
LEMMA QuietStep ==
    ASSUME IInv,
           \/ Tick
           \/ \E e \in Events, s \in Subs :
                ProviderCharges(e, s) \/ ProviderGivesUp(e, s) \/ ProviderConfirmsCancel(e, s)
           \/ \E e \in Events, at \in (now - LockWait)..now : WebhookChangesNothing(e, at),
           TypeOK'
    PROVE  IInv'
<1>1. UNCHANGED <<sub, req, worth>>
  BY DEF Tick, ProviderCharges, ProviderGivesUp, ProviderConfirmsCancel, Issue, WebhookChangesNothing
<1>2. now' \in Int /\ now <= now'
  BY DEF Tick, ProviderCharges, ProviderGivesUp, ProviderConfirmsCancel, Issue,
         WebhookChangesNothing, IInv, TypeOK
<1>3. \A e \in Events : e \in recorded => sent'[e] = sent[e] /\ e \in recorded'
  <2>1. ASSUME NEW e \in Events, NEW s \in Subs, NEW kind, NEW end, Issue(e, s, kind, end)
        PROVE  \A f \in Events : f \in recorded => sent'[f] = sent[f] /\ f \in recorded'
    <3>1. e \notin recorded BY <2>1 DEF Issue, IInv, Accepted
    <3> QED BY <2>1, <3>1 DEF Issue, IInv, TypeOK
  <2>2. CASE UNCHANGED <<sent, recorded>> BY <2>2
  <2>3. ASSUME NEW e \in Events, NEW at, WebhookChangesNothing(e, at)
        PROVE  \A f \in Events : f \in recorded => sent'[f] = sent[f] /\ f \in recorded'
    BY <2>3 DEF WebhookChangesNothing
  <2> QED BY <2>1, <2>2, <2>3 DEF Tick, ProviderCharges, ProviderGivesUp, ProviderConfirmsCancel
<1>4. Accepted'
  <2>1. ASSUME NEW e \in Events, e \in recorded' PROVE sent'[e] # NoEvent
    <3>1. CASE e \in recorded BY <1>3, <3>1 DEF IInv, Accepted
    <3>2. CASE e \notin recorded
      BY <2>1, <3>2 DEF Tick, ProviderCharges, ProviderGivesUp, ProviderConfirmsCancel, Issue,
                        WebhookChangesNothing
    <3> QED BY <3>1, <3>2
  <2> QED BY <1>1, <1>3, <2>1 DEF IInv, Accepted
<1>5. \A s \in Subs, d \in Dates : Honest(s, d) => Honest(s, d)'
  <2>1. \A e \in Events : worth[e] # NoDate => worth'[e] = worth[e] /\ sent'[e] = sent[e]
    BY <1>1, <1>3 DEF IInv, Accepted
  <2> QED BY <1>2, <2>1, HonestLasts DEF IInv
<1>6. RowsKnown' /\ OneLive' BY <1>1 DEF IInv, RowsKnown, OneLive, EndKnown
<1>7. RowsHonest'
  <2> SUFFICES ASSUME NEW s \in Subs PROVE Honest(s, sub[s].end)'
    BY DEF RowsHonest
  <2>1. PICK d \in Dates : d = sub[s].end BY DEF IInv, TypeOK, Rows
  <2>2. Honest(s, d) BY <2>1 DEF IInv, RowsHonest
  <2>3. Honest(s, d)' BY <1>5, <2>2
  <2> QED BY <1>1, <2>1, <2>3 DEF Honest, Bought
<1>8. \A r \in Requests : Carried(r)'
  <2> SUFFICES ASSUME NEW r \in Requests PROVE Carried(r)'
    OBVIOUS
  <2>0. Carried(r) BY DEF IInv
  <2>1. CASE req[r].step \in {"found", "told"}
    <3>1. PICK s \in Subs, d \in Dates : s = req[r].sub /\ d = req[r].date
      BY <2>0, <2>1 DEF Carried, IInv, TypeOK
    <3>2. Honest(s, d) BY <2>0, <2>1, <3>1 DEF Carried
    <3>3. Honest(s, d)' BY <1>5, <3>2
    <3> QED BY <1>1, <2>0, <3>1, <3>3 DEF Carried, Honest, Bought
  <2>2. CASE req[r].step \notin {"found", "told"}
    BY <1>1, <2>0, <2>2 DEF Carried
  <2> QED BY <2>1, <2>2
<1> QED BY <1>4, <1>6, <1>7, <1>8 DEF IInv

(* A request's step that writes no row carries only what it has read.      *)
LEMMA ReadingStep ==
    ASSUME IInv, TypeOK', NEW r \in Requests, UNCHANGED <<now, sub, sent, recorded, worth>>,
           req' = [req EXCEPT ![r] = req'[r]], Carried(r)'
    PROVE  IInv'
<1>1. RowsKnown' /\ OneLive' /\ Accepted'
  BY DEF IInv, RowsKnown, OneLive, EndKnown, Accepted
<1>2. RowsHonest' BY DEF IInv, RowsHonest, Honest, Bought
<1>3. \A q \in Requests : Carried(q)'
  <2> SUFFICES ASSUME NEW q \in Requests, q # r PROVE Carried(q)'
    OBVIOUS
  <2>1. Carried(q) /\ req'[q] = req[q] BY DEF IInv, TypeOK
  <2> QED BY <2>1 DEF Carried, Honest, Bought
<1> QED BY <1>1, <1>2, <1>3 DEF IInv

(* A request's write keeps the invariant when the row it writes is known,  *)
(* honest, and live only where no other row of the subject is.             *)
LEMMA WritingStep ==
    ASSUME IInv, TypeOK', NEW r \in Requests, NEW s \in Subs, UNCHANGED <<now, sent, recorded, worth>>,
           req' = [req EXCEPT ![r] = req'[r]], Carried(r)',
           sub' = [sub EXCEPT ![s] = sub'[s]],
           EndKnown(sub'[s]),
           Honest(s, sub[s].end)',
           sub'[s].status \in Live => sub[s].status \in Live \/ ~SlotTaken(s, sub'[s].status)
    PROVE  IInv'
<1>1. Accepted' BY DEF IInv, Accepted
<1>2. RowsKnown' BY DEF IInv, TypeOK, RowsKnown, EndKnown
<1>3. OneLive'
  <2> SUFFICES ASSUME NEW a \in Subs, NEW b \in Subs, a # b, Owner[a] = Owner[b],
                      sub'[a].status \in Live, sub'[b].status \in Live
               PROVE  FALSE
    BY DEF OneLive
  <2>1. ~(sub[a].status \in Live /\ sub[b].status \in Live) BY DEF IInv, OneLive
  <2>2. CASE a = s BY <2>1, <2>2 DEF SlotTaken, IInv, TypeOK
  <2>3. CASE b = s BY <2>1, <2>3 DEF SlotTaken, IInv, TypeOK
  <2>4. CASE a # s /\ b # s BY <2>1, <2>4 DEF IInv, TypeOK
  <2> QED BY <2>2, <2>3, <2>4
<1>4. RowsHonest'
  <2> SUFFICES ASSUME NEW a \in Subs, a # s PROVE Honest(a, sub[a].end)'
    BY DEF RowsHonest
  <2>1. sub'[a] = sub[a] /\ Honest(a, sub[a].end) BY DEF IInv, TypeOK, RowsHonest
  <2> QED BY <2>1 DEF Honest, Bought
<1>5. \A q \in Requests : Carried(q)'
  <2> SUFFICES ASSUME NEW q \in Requests, q # r PROVE Carried(q)'
    OBVIOUS
  <2>1. Carried(q) /\ req'[q] = req[q] BY DEF IInv, TypeOK
  <2> QED BY <2>1 DEF Carried, Honest, Bought
<1> QED BY <1>1, <1>2, <1>3, <1>4, <1>5 DEF IInv

(* Every step of a checkout or a cancellation preserves the invariant.     *)
LEMMA RequestStep ==
    ASSUME IInv, TypeOK', NEW r \in Requests,
           \/ \E s \in Subs : CheckNoneLive(r, s) \/ FindLive(r, s)
           \/ Dies(r) \/ ResolvePayer(r) \/ InsertPending(r) \/ CreateAtProvider(r)
           \/ AttachProviderId(r) \/ TellProvider(r) \/ WriteCancelled(r)
    PROVE  IInv'
<1> USE NullAssumption
<1>0. TypeOK /\ Carried(r) /\ now \in Int BY DEF IInv, TypeOK
<1>1. ASSUME NEW s \in Subs, CheckNoneLive(r, s) PROVE IInv'
  <2>1. Carried(r)' BY <1>0, <1>1 DEF CheckNoneLive, Goes, Idle, Carried, TypeOK
  <2>2. req' = [req EXCEPT ![r] = req'[r]] BY <1>0, <1>1 DEF CheckNoneLive, Goes, TypeOK
  <2> QED BY <1>1, <2>1, <2>2, ReadingStep DEF CheckNoneLive
<1>2. ASSUME NEW s \in Subs, FindLive(r, s) PROVE IInv'
  <2>1. /\ req' = [req EXCEPT ![r] = req'[r]]
        /\ req'[r].step \in {"found", "told"} /\ req'[r].sub = s
        /\ req'[r].step = "found" => req'[r].date = sub[s].end
        /\ req'[r].step = "told" => req'[r].date = Or(sub[s].end, now)
    BY <1>0, <1>2 DEF FindLive, Told, TypeOK
  <2>2. Honest(s, sub[s].end) BY DEF IInv, RowsHonest
  <2>3. UNCHANGED <<now, sent, worth>> BY <1>2 DEF FindLive
  <2>4. Honest(req[r].sub, req[r].date)'
    BY <1>0, <2>1, <2>2, <2>3 DEF Honest, Bought, Or
  <2>5. req'[r].step = "told" => req'[r].date # NoDate BY <1>0, <2>1 DEF Or
  <2>6. Carried(r)' BY <2>1, <2>4, <2>5 DEF Carried
  <2> QED BY <1>2, <2>1, <2>6, ReadingStep DEF FindLive
<1>3. CASE Dies(r)
  <2>1. Carried(r)' BY <1>0, <1>3 DEF Dies, Idle, Carried, TypeOK
  <2>2. req' = [req EXCEPT ![r] = req'[r]] BY <1>0, <1>3 DEF Dies, TypeOK
  <2> QED BY <1>3, <2>1, <2>2, ReadingStep DEF Dies
<1>4. CASE ResolvePayer(r)
  <2>1. Carried(r)' BY <1>0, <1>4 DEF ResolvePayer, At, Carried, TypeOK
  <2>2. req' = [req EXCEPT ![r] = req'[r]] BY <1>0, <1>4 DEF ResolvePayer, TypeOK
  <2> QED BY <1>4, <2>1, <2>2, ReadingStep DEF ResolvePayer
<1>5. CASE InsertPending(r)
  <2>1. PICK s \in Subs, d \in Dates : s = req[r].sub /\ d = sub[s].end
    BY <1>0, <1>5 DEF InsertPending, At, Carried, TypeOK, Rows
  <2>2. /\ req' = [req EXCEPT ![r] = req'[r]] /\ req'[r] = [Idle EXCEPT !.step = "inserted", !.sub = s]
        /\ sub' = [sub EXCEPT ![s] = sub'[s]] /\ sub'[s] = PendingRow(sub[s], req[r].date)
    BY <1>0, <1>5, <2>1 DEF InsertPending, Goes, TypeOK
  <2>3. Carried(r)' BY <2>2 DEF Idle, Carried
  <2>4. Honest(s, d) /\ sub[s] \in Rows BY <2>1 DEF IInv, TypeOK, RowsHonest
  <2>5. sub'[s].status = "pending" /\ sub'[s].end = d
    BY <2>1, <2>2, <2>4 DEF PendingRow, Rows
  <2>6. UNCHANGED <<now, sent, recorded, worth>> /\ ~SlotTaken(s, "pending")
    BY <1>5, <2>1 DEF InsertPending
  <2>7. Honest(s, d)' BY <2>4, <2>6 DEF Honest, Bought
  <2>8. Honest(s, sub[s].end)' BY <2>5, <2>7 DEF Honest, Bought
  <2>9. EndKnown(sub'[s]) BY <2>5 DEF EndKnown
  <2> QED BY <2>2, <2>3, <2>5, <2>6, <2>8, <2>9, WritingStep
<1>6. CASE CreateAtProvider(r)
  <2>1. Carried(r)' BY <1>0, <1>6 DEF CreateAtProvider, At, Goes, Idle, Carried, TypeOK
  <2>2. req' = [req EXCEPT ![r] = req'[r]] BY <1>0, <1>6 DEF CreateAtProvider, Goes, TypeOK
  <2> QED BY <1>6, <2>1, <2>2, ReadingStep DEF CreateAtProvider
<1>7. CASE TellProvider(r)
  <2> DEFINE s == req[r].sub
  <2>1. /\ req' = [req EXCEPT ![r] = req'[r]]
        /\ req'[r] = Told(s, req[r].date)
    BY <1>0, <1>7 DEF TellProvider, TypeOK
  <2>2. /\ req'[r].step = "told" /\ req'[r].sub = s
        /\ req'[r].date = Or(req[r].date, now)
    BY <2>1 DEF Told
  <2>3. s \in Subs /\ Honest(s, req[r].date) BY <1>0, <1>7 DEF TellProvider, At, Carried
  <2>4. UNCHANGED <<now, sent, worth>> BY <1>7 DEF TellProvider
  <2>5. Honest(req[r].sub, req[r].date)' /\ req'[r].date # NoDate
    BY <1>0, <2>2, <2>3, <2>4 DEF Honest, Bought, Or
  <2>6. Carried(r)' BY <2>2, <2>3, <2>5 DEF Carried
  <2> QED BY <1>7, <2>1, <2>6, ReadingStep DEF TellProvider
<1>8. CASE AttachProviderId(r)
  <2>1. PICK s \in Subs, d \in Dates : s = req[r].sub /\ d = sub[s].end
    BY <1>0, <1>8 DEF AttachProviderId, At, Carried, TypeOK, Rows
  <2>2. /\ req' = [req EXCEPT ![r] = req'[r]] /\ req'[r] = Idle
        /\ sub' = [sub EXCEPT ![s] = sub'[s]] /\ sub'[s] = AttachedRow(sub[s])
    BY <1>0, <1>8, <2>1 DEF AttachProviderId, TypeOK
  <2>3. Carried(r)' BY <2>2 DEF Idle, Carried
  <2>4. Honest(s, d) /\ sub[s] \in Rows /\ EndKnown(sub[s])
    BY <2>1 DEF IInv, TypeOK, RowsHonest, RowsKnown
  <2>5. sub'[s].status = sub[s].status /\ sub'[s].end = d /\ sub'[s].stamped = sub[s].stamped
    BY <2>1, <2>2, <2>4 DEF AttachedRow, Rows
  <2>6. UNCHANGED <<now, sent, recorded, worth>> BY <1>8 DEF AttachProviderId
  <2>7. Honest(s, d)' BY <2>4, <2>6 DEF Honest, Bought
  <2>8. Honest(s, sub[s].end)' BY <2>5, <2>7 DEF Honest, Bought
  <2>9. EndKnown(sub'[s]) BY <2>1, <2>4, <2>5 DEF EndKnown
  <2> QED BY <2>2, <2>3, <2>5, <2>6, <2>8, <2>9, WritingStep
<1>9. CASE WriteCancelled(r)
  <2>1. PICK s \in Subs, d \in Dates : s = req[r].sub /\ d = req[r].date
    BY <1>0, <1>9 DEF WriteCancelled, At, Carried, TypeOK
  <2>2. /\ req' = [req EXCEPT ![r] = req'[r]] /\ req'[r] = Idle
        /\ sub' = [sub EXCEPT ![s] = sub'[s]] /\ sub'[s] = CancelledRow(sub[s], d)
    BY <1>0, <1>9, <2>1 DEF WriteCancelled, TypeOK
  <2>3. Carried(r)' BY <2>2 DEF Idle, Carried
  <2>4. Honest(s, d) /\ d # NoDate
    BY <1>0, <1>9, <2>1 DEF WriteCancelled, At, Carried
  <2>5. sub'[s].status = "cancelled" /\ sub'[s].end = d /\ sub'[s].stamped
    BY <1>0, <2>2 DEF CancelledRow, Rows, TypeOK
  <2>6. UNCHANGED <<now, sent, recorded, worth>> BY <1>9 DEF WriteCancelled
  <2>7. Honest(s, d)' BY <2>4, <2>6 DEF Honest, Bought
  <2>8. Honest(s, sub[s].end)' BY <2>5, <2>7 DEF Honest, Bought
  <2>9. EndKnown(sub'[s]) BY <2>4, <2>5 DEF EndKnown
  <2> QED BY <2>2, <2>3, <2>5, <2>6, <2>8, <2>9, WritingStep DEF Live
<1> QED BY <1>1, <1>2, <1>3, <1>4, <1>5, <1>6, <1>7, <1>8, <1>9

(* The step in which an event is applied: the row's new end is its old one, *)
(* not after now, or exactly what this event is now known to have bought.   *)
LEMMA EventStep ==
    ASSUME IInv, NEW e \in Events, NEW at \in (now - LockWait)..now, WebhookApplies(e, at)
    PROVE  IInv'
<1> DEFINE s == sent[e].sub
           new == Transition(sub[s], sent[e], at)
<1>0. TypeOK /\ now \in Int /\ at \in Int /\ at <= now /\ LockWait \in Nat
  BY BoundAssumption DEF IInv, TypeOK
<1>1. sent[e] \in Facts /\ s \in Subs /\ e \notin recorded /\ worth[e] = NoDate
  BY <1>0 DEF WebhookApplies, FirstDelivery, TypeOK, Facts, IInv, Accepted
<1>2. sub[s] \in Rows /\ EndKnown(sub[s]) BY <1>1 DEF IInv, TypeOK, RowsKnown
<1>3. /\ new \in Rows
      /\ EndKnown(new)
      /\ \/ new.end = sub[s].end
         \/ new.end = at
         \/ sent[e].kind = "charged" /\ new.end = Projected(sent[e], at)
  BY <1>0, <1>1, <1>2, TransitionRow
<1>4. /\ sub' = [sub EXCEPT ![s] = new]
      /\ ~SlotTaken(s, new.status)
      /\ recorded' = recorded \cup {e}
      /\ UNCHANGED <<now, provider, sent, req>>
  BY DEF WebhookApplies
<1>5. worth' = IF sent[e].kind = "charged" THEN [worth EXCEPT ![e] = Projected(sent[e], at)] ELSE worth
  BY <1>1 DEF WebhookApplies
<1>6. Projected(sent[e], at) \in Int
  BY <1>0, <1>1, PeriodAssumption DEF Projected, Or, Facts, Dates
<1>7. TypeOK'
  <2>1. sub' \in [Subs -> Rows] BY <1>0, <1>1, <1>3, <1>4 DEF TypeOK
  <2>2. worth' \in [Events -> Dates] BY <1>0, <1>5, <1>6 DEF TypeOK, Dates
  <2> QED BY <1>0, <1>4, <2>1, <2>2 DEF TypeOK
<1>8. \A a \in Subs, d \in Dates : Honest(a, d) => Honest(a, d)'
  <2>1. \A f \in Events : worth[f] # NoDate => worth'[f] = worth[f] /\ sent'[f] = sent[f]
    BY <1>0, <1>1, <1>4, <1>5 DEF TypeOK
  <2> QED BY <1>0, <1>4, <2>1, HonestLasts
<1>9. RowsHonest'
  <2>1. PICK a \in Subs, d \in Dates : a = s /\ d = new.end BY <1>1, <1>3 DEF Rows
  <2>2. Honest(a, d)'
    <3>1. CASE d = sub[s].end
      <4>1. Honest(a, d) BY <1>1, <2>1, <3>1 DEF IInv, RowsHonest
      <4> QED BY <1>8, <4>1
    <3>2. CASE d = at BY <1>0, <1>4, <3>2 DEF Honest
    <3>3. CASE sent[e].kind = "charged" /\ d = Projected(sent[e], at)
      <4>1. worth'[e] = d BY <1>0, <1>5, <3>3 DEF TypeOK
      <4>2. d \in Int /\ d # NoDate BY <1>6, <3>3, NullAssumption
      <4>3. sent'[e].sub = a /\ sent'[e].kind = "charged" BY <1>4, <2>1, <3>3
      <4> QED BY <4>1, <4>2, <4>3 DEF Honest, Bought
    <3> QED BY <1>3, <2>1, <3>1, <3>2, <3>3
  <2>3. sub'[a].end = d BY <1>0, <1>1, <1>4, <2>1 DEF TypeOK
  <2>4. Honest(a, sub[a].end)' BY <2>2, <2>3 DEF Honest, Bought
  <2> HIDE DEF new
  <2>5. \A b \in Subs : b # a => Honest(b, sub[b].end)'
    <3> SUFFICES ASSUME NEW b \in Subs, b # a PROVE Honest(b, sub[b].end)'
      OBVIOUS
    <3>1. sub'[b] = sub[b] BY <1>0, <1>4, <2>1 DEF TypeOK
    <3>2. PICK c \in Dates : c = sub[b].end BY <1>0 DEF TypeOK, Rows
    <3>3. Honest(b, c) BY <3>2 DEF IInv, RowsHonest
    <3>4. Honest(b, c)' BY <1>8, <3>3
    <3> QED BY <3>1, <3>2, <3>4 DEF Honest, Bought
  <2> QED BY <2>4, <2>5 DEF RowsHonest
<1>10. RowsKnown'
  BY <1>0, <1>1, <1>3, <1>4 DEF IInv, RowsKnown, TypeOK, EndKnown
<1>11. OneLive'
  <2> HIDE DEF new
  <2> SUFFICES ASSUME NEW a \in Subs, NEW b \in Subs, a # b, Owner[a] = Owner[b],
                      sub'[a].status \in Live, sub'[b].status \in Live
               PROVE  FALSE
    BY DEF OneLive
  <2>1. ~(sub[a].status \in Live /\ sub[b].status \in Live) BY DEF IInv, OneLive
  <2>2. CASE a = s BY <1>0, <1>4, <2>1, <2>2 DEF SlotTaken, TypeOK
  <2>3. CASE b = s BY <1>0, <1>4, <2>1, <2>3 DEF SlotTaken, TypeOK
  <2>4. CASE a # s /\ b # s BY <1>0, <1>4, <2>1, <2>4 DEF TypeOK
  <2> QED BY <2>2, <2>3, <2>4
<1>12. \A r \in Requests : Carried(r)'
  <2> SUFFICES ASSUME NEW r \in Requests PROVE Carried(r)'
    OBVIOUS
  <2>0. Carried(r) BY DEF IInv
  <2>1. CASE req[r].step \in {"found", "told"}
    <3>1. PICK a \in Subs, d \in Dates : a = req[r].sub /\ d = req[r].date
      BY <1>0, <2>0, <2>1 DEF Carried, TypeOK
    <3>2. Honest(a, d) BY <2>0, <2>1, <3>1 DEF Carried
    <3>3. Honest(a, d)' BY <1>8, <3>2
    <3> QED BY <1>4, <2>0, <3>1, <3>3 DEF Carried, Honest, Bought
  <2>2. CASE req[r].step \notin {"found", "told"}
    BY <1>4, <2>0, <2>2 DEF Carried
  <2> QED BY <2>1, <2>2
<1>13. Accepted'
  <2>1. \A f \in Events : worth'[f] # NoDate => f \in recorded'
    BY <1>0, <1>4, <1>5 DEF IInv, Accepted, TypeOK
  <2>2. \A f \in Events : f \in recorded' => sent'[f] # NoEvent
    BY <1>4 DEF IInv, Accepted, WebhookApplies
  <2> QED BY <2>1, <2>2 DEF Accepted
<1> QED BY <1>7, <1>9, <1>10, <1>11, <1>12, <1>13 DEF IInv

(* Every step preserves the inductive invariant.                           *)
LEMMA StepIInv == IInv /\ [Next]_vars => IInv'
<1> SUFFICES ASSUME IInv, [Next]_vars PROVE IInv'
  OBVIOUS
<1>1. CASE UNCHANGED vars
  <2>1. TypeOK' /\ RowsKnown' /\ OneLive' /\ Accepted'
    BY <1>1 DEF vars, IInv, TypeOK, RowsKnown, OneLive, Accepted, EndKnown
  <2>2. RowsHonest' /\ \A r \in Requests : Carried(r)'
    BY <1>1 DEF vars, IInv, RowsHonest, Carried, Honest, Bought
  <2> QED BY <2>1, <2>2 DEF IInv
<1>2. CASE \E e \in Events, at \in (now - LockWait)..now : WebhookApplies(e, at)
  BY <1>2, EventStep
<1>3. CASE Next /\ ~ \E e \in Events, at \in (now - LockWait)..now : WebhookApplies(e, at)
  <2>1. TypeOK' BY <1>3, StepTypeOK
  <2>2. CASE \/ Tick
             \/ \E e \in Events, s \in Subs :
                  ProviderCharges(e, s) \/ ProviderGivesUp(e, s) \/ ProviderConfirmsCancel(e, s)
             \/ \E e \in Events, at \in (now - LockWait)..now : WebhookChangesNothing(e, at)
    BY <2>1, <2>2, QuietStep
  <2>3. ASSUME NEW r \in Requests,
               \/ \E s \in Subs : CheckNoneLive(r, s) \/ FindLive(r, s)
               \/ Dies(r) \/ ResolvePayer(r) \/ InsertPending(r) \/ CreateAtProvider(r)
               \/ AttachProviderId(r) \/ TellProvider(r) \/ WriteCancelled(r)
        PROVE  IInv'
    BY <2>1, <2>3, RequestStep
  <2> QED BY <1>3, <2>2, <2>3 DEF Next
<1> QED BY <1>1, <1>2, <1>3

(* The inductive invariant holds in every reachable state.                 *)
LEMMA Invariance == Spec => []IInv
<1> QED BY InitIInv, StepIInv, PTL DEF Spec

(* The tables' invariant, for every number of rows, requests and events:   *)
(* period ends are known where the CHECK wants them, one row is live.      *)
THEOREM BillingInvariant == Spec => []BillingInv
<1>1. IInv => BillingInv BY DEF IInv, BillingInv, RowsKnown, OneLive
<1> QED BY <1>1, Invariance, PTL

(* Access is always backed by a payment for the row that grants it.        *)
THEOREM PaidAccess == Spec => []NoFreeAccess
<1>1. IInv => NoFreeAccess
  <2> SUFFICES ASSUME IInv, NEW s \in Subs, Grants(sub[s]) PROVE Backed(s)
    BY DEF NoFreeAccess
  <2>1. sub[s].end # NoDate /\ sub[s].end > now /\ sub[s].end \in Int /\ now \in Int
    BY DEF Grants, IInv, TypeOK, Rows, Dates
  <2>2. Honest(s, sub[s].end) BY DEF IInv, RowsHonest
  <2>3. PICK e \in Events : /\ worth[e] # NoDate
                            /\ sent[e].sub = s
                            /\ sent[e].kind = "charged"
                            /\ sub[s].end <= worth[e]
    BY <2>1, <2>2 DEF Honest, Bought
  <2>4. worth[e] \in Int BY <2>3 DEF IInv, TypeOK, Dates
  <2>5. worth[e] > now BY <2>1, <2>3, <2>4
  <2> QED BY <2>3, <2>5 DEF Backed
<1> QED BY <1>1, Invariance, PTL

(* An accepted event never takes paid time away, nor revives a row.        *)
THEOREM PaidPeriodsKept == Spec => EventsKeepPaidPeriods
<1> DEFINE Kept == recorded' # recorded =>
         \A s \in Subs :
           /\ sub[s].status = "expired" => sub'[s] = sub[s]
           /\ sub'[s].status # "expired" /\ sub[s].end # NoDate => sub'[s].end >= sub[s].end
<1>1. IInv /\ [Next]_vars => [Kept]_vars
  <2> SUFFICES ASSUME IInv, Next, recorded' # recorded, NEW t \in Subs
               PROVE  /\ sub[t].status = "expired" => sub'[t] = sub[t]
                      /\ sub'[t].status # "expired" /\ sub[t].end # NoDate
                           => sub'[t].end >= sub[t].end
    OBVIOUS
  <2>0. sub[t] \in Rows /\ (sub[t].end # NoDate => sub[t].end \in Int)
    BY DEF IInv, TypeOK, Rows, Dates
  <2>1. CASE UNCHANGED sub BY <2>0, <2>1
  <2>2. ASSUME NEW e \in Events, NEW at \in (now - LockWait)..now, WebhookApplies(e, at),
               t = sent[e].sub
        PROVE  /\ sub[t].status # "expired"
               /\ sub'[t].status # "expired" /\ sub[t].end # NoDate
                    => sub'[t].end >= sub[t].end
    <3>1. /\ sub[t].status # "expired" /\ sent[e].kind # "unknown"
          /\ sub'[t] = Transition(sub[t], sent[e], at)
      BY <2>2 DEF WebhookApplies, Moves, IInv, TypeOK
    <3>2. sent[e] \in Facts /\ at \in Int /\ now \in Int
      BY <2>2, BoundAssumption DEF WebhookApplies, IInv, TypeOK
    <3>3. CASE sent[e].kind = "charged"
      <4>1. sub'[t].end = PaidEnd(sub[t], sent[e], at)
        BY <2>0, <3>1, <3>3 DEF Transition, Rows
      <4>2. Projected(sent[e], at) \in Int
        BY <3>2, PeriodAssumption DEF Projected, Or, Facts, Dates
      <4>3. Projected(sent[e], at) # NoDate BY <4>2, NullAssumption
      <4>4. sub[t].end # NoDate => PaidEnd(sub[t], sent[e], at) >= sub[t].end
        BY <2>0, <4>2, <4>3 DEF PaidEnd, Later
      <4> QED BY <3>1, <4>1, <4>4
    <3>4. CASE sent[e].kind = "failed"
      BY <2>0, <3>1, <3>4 DEF Transition, Rows
    <3>5. CASE sent[e].kind = "halted"
      BY <2>0, <3>1, <3>5 DEF Transition, Rows
    <3>6. CASE sent[e].kind = "cancelled"
      <4>1. sub'[t] = [sub[t] EXCEPT !.status = "cancelled", !.end = Or(sub[t].end, at), !.stamped = TRUE]
        BY <3>1, <3>6 DEF Transition
      <4>2. sub'[t].end = Or(sub[t].end, at) BY <2>0, <4>1 DEF Rows
      <4> QED BY <2>0, <3>1, <4>2 DEF Or
    <3> QED BY <3>1, <3>2, <3>3, <3>4, <3>5, <3>6 DEF Facts, Kinds
  <2>3. ASSUME NEW e \in Events, NEW at \in (now - LockWait)..now, WebhookApplies(e, at),
               t # sent[e].sub
        PROVE  sub'[t] = sub[t]
    BY <2>3 DEF WebhookApplies, IInv, TypeOK
  <2>4. CASE \E e \in Events, at \in (now - LockWait)..now : WebhookApplies(e, at)
    BY <2>0, <2>2, <2>3, <2>4
  <2>5. CASE \E e \in Events, at \in (now - LockWait)..now : WebhookChangesNothing(e, at)
    BY <2>1, <2>5 DEF WebhookChangesNothing
  <2>6. \/ UNCHANGED recorded
        \/ \E e \in Events, at \in (now - LockWait)..now :
             WebhookApplies(e, at) \/ WebhookChangesNothing(e, at)
    BY DEF Next, Tick, ProviderCharges, ProviderGivesUp, ProviderConfirmsCancel, Issue, CheckNoneLive,
           FindLive, Dies, ResolvePayer, InsertPending, CreateAtProvider, AttachProviderId,
           TellProvider, WriteCancelled
  <2> QED BY <2>4, <2>5, <2>6
<1> QED BY <1>1, Invariance, PTL DEF Spec, EventsKeepPaidPeriods

(* A recorded payment has taken effect, or never could: rule 3's "the event *)
(* row and the subscription update land together or neither does".          *)
THEOREM NothingSwallowed == Spec => NoPaymentSwallowed
<1> DEFINE Kept == \A e \in recorded' \ recorded :
         sent[e].kind = "charged"
           => \/ worth'[e] # NoDate
              \/ ~Matched(sent[e].sub)
              \/ sub[sent[e].sub].status = "expired"
<1>1. IInv /\ [Next]_vars => [Kept]_vars
  <2> SUFFICES ASSUME IInv, Next, NEW f \in recorded' \ recorded, sent[f].kind = "charged"
               PROVE  \/ worth'[f] # NoDate
                      \/ ~Matched(sent[f].sub)
                      \/ sub[sent[f].sub].status = "expired"
    OBVIOUS
  <2>1. ASSUME NEW e \in Events, NEW at \in (now - LockWait)..now, WebhookApplies(e, at)
        PROVE  worth'[f] # NoDate
    <3>1. f = e /\ sent[e] \in Facts /\ at \in Int /\ now \in Int
      BY <2>1, BoundAssumption DEF WebhookApplies, IInv, TypeOK
    <3>2. Projected(sent[e], at) \in Int
      BY <3>1, PeriodAssumption DEF Projected, Or, Facts, Dates
    <3>3. Projected(sent[e], at) # NoDate BY <3>2, NullAssumption
    <3> QED BY <2>1, <3>1, <3>3 DEF WebhookApplies, IInv, TypeOK
  <2>2. ASSUME NEW e \in Events, NEW at \in (now - LockWait)..now, WebhookChangesNothing(e, at)
        PROVE  ~Matched(sent[f].sub) \/ sub[sent[f].sub].status = "expired"
    BY <2>2 DEF WebhookChangesNothing, Moves
  <2>3. \/ \E e \in Events, at \in (now - LockWait)..now :
             WebhookApplies(e, at) \/ WebhookChangesNothing(e, at)
        \/ UNCHANGED recorded
    BY DEF Next, Tick, ProviderCharges, ProviderGivesUp, ProviderConfirmsCancel, Issue, CheckNoneLive,
           FindLive, Dies, ResolvePayer, InsertPending, CreateAtProvider, AttachProviderId,
           TellProvider, WriteCancelled
  <2> QED BY <2>1, <2>2, <2>3
<1> QED BY <1>1, Invariance, PTL DEF Spec, NoPaymentSwallowed
=============================================================================

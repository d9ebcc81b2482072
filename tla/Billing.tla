------------------------------- MODULE Billing -------------------------------
(***************************************************************************)
(* Subscriptions (modules/billing): checkout and cancellation requests that*)
(* interleave at every await with each other and with the webhooks of the  *)
(* payment provider, which arrive late, more than once and in any order.   *)
(* The provider itself is external: it is what the service's calls and the *)
(* events it accepts assume of it.                                         *)
(***************************************************************************)
EXTENDS Integers

CONSTANTS
    Subjects,    \* beneficiaries
    Subs,        \* identities of rows of `subscriptions`
    Owner,       \* Owner[s]: subject_user_id of the row s, if s is ever inserted
    Requests,    \* HTTP requests in flight (checkout tabs, cancel buttons)
    Events,      \* provider event ids: a bound on what the provider sends
    PeriodDays,  \* the plan's period
    NoDate,      \* a null date
    NoSub,       \* no row
    NoEvent,     \* an event id not used yet
    LockWait,    \* bound: how long a webhook may wait for a row lock
    MaxTime      \* bound: the last instant

ASSUME OwnerAssumption == Owner \in [Subs -> Subjects]
ASSUME PeriodAssumption == PeriodDays \in Nat \ {0}
ASSUME NullAssumption == NoDate \notin Int /\ NoSub \notin Subs
ASSUME BoundAssumption == MaxTime \in Nat /\ LockWait \in Nat

VARIABLES
    now,       \* the injected clock
    sub,       \* sub[s]: the row s of `subscriptions`
    provider,  \* provider[s]: the provider's subscription made for row s
    sent,      \* sent[e]: the event the provider has issued under id e
    recorded,  \* the event ids in `payment_events`
    req,       \* req[r]: where request r stands, and the date it carries: the row's
               \* created_at, or the period end it has read
    worth      \* history: worth[e], the date event e bought when it was first applied

vars == <<now, sub, provider, sent, recorded, req, worth>>

Statuses == {"none", "pending", "active", "past_due", "cancelled", "expired"}
Live == {"pending", "active", "past_due"}
Granting == {"active", "past_due", "cancelled"}
Kinds == {"charged", "failed", "halted", "cancelled", "unknown"}
Dates == Int \cup {NoDate}

Rows == [status : Statuses, end : Dates, stamped : BOOLEAN, attached : BOOLEAN, created : Int]
Facts == [sub : Subs, kind : Kinds, end : Dates]
Steps == {"idle", "checked", "priced", "inserted", "created", "found", "told"}
Idle == [step |-> "idle", sub |-> NoSub, date |-> NoDate]

\* laterOf and projectEnd of subscription-status.ts, and the `??` of the code.
Or(a, b) == IF a = NoDate THEN b ELSE a
Later(a, b) == IF a = NoDate THEN b ELSE IF b = NoDate THEN a ELSE IF a >= b THEN a ELSE b
Projected(fact, at) == Or(fact.end, at + PeriodDays)

-----------------------------------------------------------------------------
(* The domain: what an event does to a row, what a row grants.  Activation, *)
(* a charge and a captured payment are one kind: the code treats them alike.*)

\* Faulty: an event's end is assigned.
AssignedEnd(row, fact, at) == Projected(fact, at)
PaidEnd(row, fact, at) == Later(row.end, Projected(fact, at))

\* Whether applyPaymentEvent answers with a transition.
Moves(row, fact) ==
    /\ row.status # "expired"
    /\ fact.kind # "unknown"
    /\ ~(fact.kind = "failed" /\ row.status = "past_due")

\* Faulty: a cancellation keeps a null period end.
TransitionWithoutEnd(row, fact, at) ==
    CASE fact.kind = "charged" ->
           [row EXCEPT !.status = "active", !.end = PaidEnd(row, fact, at), !.stamped = FALSE]
      [] fact.kind = "failed" -> [row EXCEPT !.status = "past_due"]
      [] fact.kind = "halted" -> [row EXCEPT !.status = "expired", !.end = at]
      [] OTHER -> [row EXCEPT !.status = "cancelled", !.stamped = TRUE]

Transition(row, fact, at) ==
    CASE fact.kind = "charged" ->
           [row EXCEPT !.status = "active", !.end = PaidEnd(row, fact, at), !.stamped = FALSE]
      [] fact.kind = "failed" -> [row EXCEPT !.status = "past_due"]
      [] fact.kind = "halted" -> [row EXCEPT !.status = "expired", !.end = at]
      [] OTHER -> [row EXCEPT !.status = "cancelled", !.end = Or(row.end, at),
                              !.stamped = TRUE]

\* effectiveStatus: a granting status counts until its period end.
Grants(row) == /\ row.status \in Granting
               /\ row.end # NoDate
               /\ row.end > now

\* readState: the subject's newest row decides; created_at ties go either way.
Newest(u, s) == /\ Owner[s] = u /\ sub[s].status # "none"
                /\ \A t \in Subs : Owner[t] = u /\ sub[t].status # "none"
                                     => sub[t].created <= sub[s].created
Entitled(u) == \E s \in Subs : Newest(u, s) /\ Grants(sub[s])

\* subscriptions_one_live_idx would refuse the row s in this status.
SlotTaken(s, status) ==
    status \in Live /\ \E t \in Subs \ {s} : Owner[t] = Owner[s] /\ sub[t].status \in Live

TypeOK ==
    /\ now \in Nat
    /\ sub \in [Subs -> Rows]
    /\ provider \in [Subs -> {"none", "open", "halted", "cancelled"}]
    /\ sent \in [Events -> Facts \cup {NoEvent}]
    /\ recorded \subseteq Events
    /\ req \in [Requests -> [step : Steps, sub : Subs \cup {NoSub}, date : Dates]]
    /\ worth \in [Events -> Dates]

Init ==
    /\ now = 0
    /\ sub = [s \in Subs |-> [status |-> "none", end |-> NoDate, stamped |-> FALSE,
                              attached |-> FALSE, created |-> 0]]
    /\ provider = [s \in Subs |-> "none"]
    /\ sent = [e \in Events |-> NoEvent]
    /\ recorded = {}
    /\ req = [r \in Requests |-> Idle]
    /\ worth = [e \in Events |-> NoDate]

Tick ==
    /\ now < MaxTime
    /\ now' = now + 1
    /\ UNCHANGED <<sub, provider, sent, recorded, req, worth>>

-----------------------------------------------------------------------------
(* The provider (external): it charges, gives up on and cancels what it    *)
(* holds, and issues one event for each.                                   *)
Issue(e, s, kind, end) ==
    /\ sent[e] = NoEvent
    /\ sent' = [sent EXCEPT ![e] = [sub |-> s, kind |-> kind, end |-> end]]
    /\ UNCHANGED <<now, sub, recorded, req, worth>>

ProviderCharges(e, s) ==
    /\ provider[s] = "open"
    /\ \/ \E end \in {NoDate, now + PeriodDays} : Issue(e, s, "charged", end)
       \/ \E kind \in {"failed", "unknown"} : Issue(e, s, kind, NoDate)
    /\ UNCHANGED provider

ProviderGivesUp(e, s) ==
    /\ provider[s] = "open"
    /\ Issue(e, s, "halted", NoDate)
    /\ provider' = [provider EXCEPT ![s] = "halted"]

ProviderConfirmsCancel(e, s) ==
    /\ provider[s] = "cancelled"
    /\ Issue(e, s, "cancelled", NoDate)
    /\ UNCHANGED provider

-----------------------------------------------------------------------------
(* handleWebhook: one transaction under the row lock.  An event is         *)
(* delivered any number of times, in any order.                            *)

\* Faulty: a duplicate is recorded once and applied every time.
FirstDeliveryAlways(e) == TRUE
FirstDelivery(e) == e \notin recorded

\* A row is found by the provider's id, so only once it is attached.
Matched(s) == sub[s].attached

\* Faulty: the index's refusal is caught, so the event stays recorded.
WebhookChangesNothingOrCatches(e, at) ==
    /\ sent[e] # NoEvent
    /\ FirstDelivery(e)
    /\ LET s == sent[e].sub IN
         \/ ~Matched(s)
         \/ ~Moves(sub[s], sent[e])
         \/ SlotTaken(s, Transition(sub[s], sent[e], at).status)
    /\ recorded' = recorded \cup {e}
    /\ UNCHANGED <<now, sub, provider, sent, req, worth>>

\* Recorded, and nothing else: unmatched, or no transition.
WebhookChangesNothing(e, at) ==
    /\ sent[e] # NoEvent
    /\ FirstDelivery(e)
    /\ ~Matched(sent[e].sub) \/ ~Moves(sub[sent[e].sub], sent[e])
    /\ recorded' = recorded \cup {e}
    /\ UNCHANGED <<now, sub, provider, sent, req, worth>>

\* The event row and the new state land together.  If the unique index refuses
\* the state, neither does, the provider gets a 5xx and sends the event again.
\* The clock is read before the row lock is waited for: at may be in the past.
WebhookApplies(e, at) ==
    /\ sent[e] # NoEvent
    /\ FirstDelivery(e)
    /\ LET s == sent[e].sub
           new == Transition(sub[s], sent[e], at) IN
         /\ Matched(s)
         /\ Moves(sub[s], sent[e])
         /\ ~SlotTaken(s, new.status)
         /\ sub' = [sub EXCEPT ![s] = new]
    /\ recorded' = recorded \cup {e}
    /\ worth' = IF sent[e].kind = "charged" /\ worth[e] = NoDate
                  THEN [worth EXCEPT ![e] = Projected(sent[e], at)] ELSE worth
    /\ UNCHANGED <<now, provider, sent, req>>

-----------------------------------------------------------------------------
(* createSubscription: look for a live row, insert, create at the provider,*)
(* attach.  A request can end at any of its awaits (an error, a crash).    *)
At(r, step) == req[r].step = step
Goes(r, step, s) == req' = [req EXCEPT ![r] = [Idle EXCEPT !.step = step, !.sub = s]]

Dies(r) ==
    /\ ~At(r, "idle")
    /\ req' = [req EXCEPT ![r] = Idle]
    /\ UNCHANGED <<now, sub, provider, sent, recorded, worth>>

PendingRow(row, at) == [row EXCEPT !.status = "pending", !.created = at]
AttachedRow(row) == [row EXCEPT !.attached = TRUE]
CancelledRow(row, end) == [row EXCEPT !.status = "cancelled", !.end = end, !.stamped = TRUE]

CheckNoneLive(r, s) ==
    /\ At(r, "idle")
    /\ sub[s].status = "none"
    /\ \A t \in Subs : Owner[t] = Owner[s] => sub[t].status \notin Live
    /\ Goes(r, "checked", s)
    /\ UNCHANGED <<now, sub, provider, sent, recorded, worth>>

\* The payer is resolved, then the clock is read: the row's created_at.
ResolvePayer(r) ==
    /\ At(r, "checked")
    /\ req' = [req EXCEPT ![r].step = "priced", ![r].date = now]
    /\ UNCHANGED <<now, sub, provider, sent, recorded, worth>>

\* A second tab's insert is refused by the index (and that request dies).
InsertPending(r) ==
    LET s == req[r].sub IN
    /\ At(r, "priced")
    /\ sub[s].status = "none"
    /\ ~SlotTaken(s, "pending")
    /\ sub' = [sub EXCEPT ![s] = PendingRow(@, req[r].date)]
    /\ Goes(r, "inserted", s)
    /\ UNCHANGED <<now, provider, sent, recorded, worth>>

CreateAtProvider(r) ==
    LET s == req[r].sub IN
    /\ At(r, "inserted")
    /\ provider' = [provider EXCEPT ![s] = "open"]
    /\ Goes(r, "created", s)
    /\ UNCHANGED <<now, sub, sent, recorded, worth>>

AttachProviderId(r) ==
    LET s == req[r].sub IN
    /\ At(r, "created")
    /\ sub' = [sub EXCEPT ![s] = AttachedRow(@)]
    /\ req' = [req EXCEPT ![r] = Idle]
    /\ UNCHANGED <<now, provider, sent, recorded, worth>>

(* cancelSubscription: read the live row without a lock, tell the provider *)
(* if the row read had its id, then write what follows from what was read. *)
Told(s, end) == [step |-> "told", sub |-> s, date |-> Or(end, now)]

FindLive(r, s) ==
    /\ At(r, "idle")
    /\ sub[s].status \in Live
    /\ req' = [req EXCEPT ![r] =
                  IF sub[s].attached
                    THEN [step |-> "found", sub |-> s, date |-> sub[s].end]
                    ELSE Told(s, sub[s].end)]
    /\ UNCHANGED <<now, sub, provider, sent, recorded, worth>>

TellProvider(r) ==
    LET s == req[r].sub IN
    /\ At(r, "found")
    /\ provider' = [provider EXCEPT ![s] = IF @ = "open" THEN "cancelled" ELSE @]
    /\ req' = [req EXCEPT ![r] = Told(s, req[r].date)]
    /\ UNCHANGED <<now, sub, sent, recorded, worth>>

WriteCancelled(r) ==
    LET s == req[r].sub IN
    /\ At(r, "told")
    /\ sub' = [sub EXCEPT ![s] = CancelledRow(@, req[r].date)]
    /\ req' = [req EXCEPT ![r] = Idle]
    /\ UNCHANGED <<now, provider, sent, recorded, worth>>

Next ==
    \/ Tick
    \/ \E e \in Events, s \in Subs :
         ProviderCharges(e, s) \/ ProviderGivesUp(e, s) \/ ProviderConfirmsCancel(e, s)
    \/ \E e \in Events, at \in (now - LockWait)..now :
         WebhookChangesNothing(e, at) \/ WebhookApplies(e, at)
    \/ \E r \in Requests, s \in Subs : CheckNoneLive(r, s) \/ FindLive(r, s)
    \/ \E r \in Requests :
         \/ Dies(r) \/ ResolvePayer(r) \/ InsertPending(r) \/ CreateAtProvider(r)
         \/ AttachProviderId(r) \/ TellProvider(r) \/ WriteCancelled(r)

Spec == Init /\ [][Next]_vars

-----------------------------------------------------------------------------
(* Properties.                                                             *)

\* A terminal row has a period end, so the table's CHECK never turns a webhook
\* into an endless 5xx; an active row has one too, so it can lapse.  The stamp
\* of a cancellation goes with a reactivation, or the row would read as both.
EndKnown(row) ==
    /\ row.status \in {"active", "cancelled", "expired"} => row.end # NoDate
    /\ row.status = "cancelled" => row.stamped
    /\ row.status = "active" => ~row.stamped

\* The tables stay well-typed, a terminal or active row always has a period end
\* (the CHECK of db/schema/billing.ts), and no subject has two live rows, however
\* checkouts, cancellations and late webhooks interleave.
BillingInv ==
    /\ TypeOK
    /\ \A s \in Subs : EndKnown(sub[s])
    /\ \A s, t \in Subs : s # t /\ Owner[s] = Owner[t]
                            => ~(sub[s].status \in Live /\ sub[t].status \in Live)

\* "Never grant plan access without verified payment": whoever a row grants
\* access has a payment for that very row whose date, counted when the event was
\* first applied, is not over; redelivery, replay and cancellation buy nothing.
Backed(s) == \E e \in Events : /\ worth[e] # NoDate
                               /\ worth[e] > now
                               /\ sent[e].sub = s
                               /\ sent[e].kind = "charged"
NoFreeAccess == \A s \in Subs : Grants(sub[s]) => Backed(s)

\* Rules 1 and 2 of the state machine: an accepted event never brings a period
\* end forward (unless the provider gave up), and never touches an expired row.
EventsKeepPaidPeriods ==
    [][recorded' # recorded =>
         \A s \in Subs :
           /\ sub[s].status = "expired" => sub'[s] = sub[s]
           /\ sub'[s].status # "expired" /\ sub[s].end # NoDate => sub'[s].end >= sub[s].end]_vars

\* A payment is used up without effect only for a row that is not attached or
\* has expired: a refused update leaves the event to be delivered again.
NoPaymentSwallowed ==
    [][\A e \in recorded' \ recorded :
         sent[e].kind = "charged"
           => \/ worth'[e] # NoDate
              \/ ~Matched(sent[e].sub)
              \/ sub[sent[e].sub].status = "expired"]_vars

\* "ACCESS CONTINUES TO `current_period_end`. They paid for the period"
\* (cancelSubscription): a cancelled row with time left entitles its subject.
PaidPeriodGrants ==
    \A s \in Subs : sub[s].status = "cancelled" /\ Grants(sub[s]) => Entitled(Owner[s])

\* "The provider is told FIRST": the row never shows cancelled while the
\* provider still charges (cancelSubscription).
CancelledStopsCharging ==
    \A s \in Subs : sub[s].status = "cancelled" => provider[s] # "open"
=============================================================================

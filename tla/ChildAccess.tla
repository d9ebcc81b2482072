---------------------------- MODULE ChildAccess ----------------------------
(***************************************************************************)
(* Who gets to see one child's data: the requests of the child, of another *)
(* student and of the parents, authorised by the link that the request     *)
(* reads when it begins, while links are approved and revoked and the      *)
(* consent trail is written.  A step is the code between two awaits.       *)
(***************************************************************************)
EXTENDS Naturals, FiniteSets

CONSTANTS
  Lookups,   \* requests being served at one time
  Guardians,
  Outsiders  \* guardians of another tenant than the child's

ASSUME AccessAssumption ==
  /\ Guardians # {} /\ Outsiders \subseteq Guardians
  /\ {"child", "peer"} \cap Guardians = {}

VARIABLES
  consent,  \* parent_child_links: the status of each guardian's link
  lookup,   \* where each request stands
  trail,    \* audit_log: the newest row on each guardian's link
  blurred   \* history: the links whose rows were lost, or due two at a time

accessVars == <<consent, lookup, trail, blurred>>

-----------------------------------------------------------------------------
Students == {"child", "peer"}  \* the child, and another student
Insiders == Guardians \ Outsiders
ParentOps == {"look", "change", "children", "consent", "digest"}
ChildOps == {"look", "change", "approve", "end"}

Statuses == {"none", "pending", "approved", "revoked"}
Outcomes == {"answered", "refused", "faulted"}
\* `on` is the guardian whose link the request is about.  History of an
\* insider's request: the link was approved at some moment of it, or at every one.
Lookup == [step : {"free", "asked", "listed", "checked", "allowed", "found",
                   "granted", "ended"} \cup Outcomes,
           by : Guardians \cup Students, op : ParentOps \cup ChildOps, on : Guardians,
           approved : BOOLEAN, sometime : BOOLEAN, throughout : BOOLEAN]
NoLookup == [step |-> "free", by |-> "child", op |-> "look",
             on |-> CHOOSE p \in Guardians : TRUE,
             approved |-> FALSE, sometime |-> FALSE, throughout |-> FALSE]

LookupAt(r, step) == lookup[r].step = step
LookupTo(r, step) == lookup' = [lookup EXCEPT ![r].step = step]
LinkOf(r) == consent[lookup[r].on]
Asks(r, op) == lookup[r].op = op

-----------------------------------------------------------------------------
(* The request and its authorisation *)

Ask(r, a, op, p) ==
  /\ LookupAt(r, "free")
  /\ \/ a \in Guardians /\ p = a /\ op \in ParentOps
     \/ a = "child" /\ op \in {"approve", "end"}
     \/ a \in Students /\ op \in {"look", "change"} /\ p = NoLookup.on
  /\ lookup' = [lookup EXCEPT ![r] =
       LET linked == a \in Insiders /\ consent[p] = "approved"
       IN [step |-> "asked", by |-> a, op |-> op, on |-> p, approved |-> FALSE,
           sometime |-> linked, throughout |-> linked]]
  /\ UNCHANGED <<consent, trail, blurred>>

\* getChildren lists the approved links, then reads each child's profile as a
\* request of its own; the worker's digest takes what the list says.
ListChildren(r) ==
  /\ LookupAt(r, "asked") /\ lookup[r].op \in {"children", "digest"}
  /\ LookupTo(r, IF LinkOf(r) # "approved" THEN "refused"
             ELSE IF Asks(r, "children") THEN "listed"
             ELSE IF lookup[r].on \in Outsiders THEN "refused" ELSE "allowed")
  /\ UNCHANGED <<consent, trail, blurred>>

\* readLinkStatus: read for every request, kept by none.
ReadStatus(r) ==
  /\ \/ LookupAt(r, "listed")
     \/ LookupAt(r, "asked") /\ lookup[r].op \in {"look", "change", "consent"}
  /\ lookup' = [lookup EXCEPT ![r].step = "checked",
                              ![r].approved = lookup[r].by \in Guardians
                                              /\ LinkOf(r) = "approved"]
  /\ UNCHANGED <<consent, trail, blurred>>

\* assertCanAccess, for data of the child.
\* Faulty: whoever is not refused by a rule is let in.
LetsParentsWrite(r) ==
  LET actor == lookup[r].by
  IN \/ actor = "child"
     \/ actor \in Insiders /\ lookup[r].approved
Permits(r) ==
  LET actor == lookup[r].by
  IN \/ actor = "child"
     \/ /\ actor \in Insiders
        /\ ~Asks(r, "change")
        /\ lookup[r].approved

\* readTenantOfStudent, and the verdict.
Authorise(r) ==
  /\ LookupAt(r, "checked")
  /\ lookup' = [lookup EXCEPT ![r].step = IF Permits(r) THEN "allowed" ELSE "refused",
                              ![r].approved = FALSE]
  /\ UNCHANGED <<consent, trail, blurred>>

-----------------------------------------------------------------------------
(* What an authorised request does *)

\* The data are read, or written by the child itself; the digest is written.  (A
\* transcript's reading is put on record first; a lost record stops nothing.)
Serve(r) ==
  /\ LookupAt(r, "allowed") /\ lookup[r].op \in {"look", "change", "children", "digest"}
  /\ LookupTo(r, "answered")
  /\ UNCHANGED <<consent, trail, blurred>>

\* requireLink: the list of children is read after the verdict.
RequireLink(r) ==
  /\ LookupAt(r, "allowed") /\ Asks(r, "consent")
  /\ LookupTo(r, IF LinkOf(r) = "approved" THEN "found" ELSE "faulted")
  /\ UNCHANGED <<consent, trail, blurred>>

\* getConsentState shows what was found; revokeConsent goes on to revoke it.
ShowConsent(r) ==
  /\ LookupAt(r, "found")
  /\ LookupTo(r, "answered")
  /\ UNCHANGED <<consent, trail, blurred>>

-----------------------------------------------------------------------------
(* The link and its trail *)

\* A request whose change of p's link has committed, and whose row has not.
Owes(r, p) == lookup[r].on = p /\ lookup[r].step \in {"granted", "ended"}
\* Two changes of one link whose rows are both due may be filed in either order.
Overlaps(p) ==
  IF \E r \in Lookups : Owes(r, p) THEN blurred \cup {p} ELSE blurred

\* r's UPDATE of p's link: the requests under way learn nothing of it.
Updates(r, p, status, step) ==
  /\ consent' = [consent EXCEPT ![p] = status]
  /\ lookup' = [q \in Lookups |->
       LET own == [lookup[q] EXCEPT !.step = IF q = r THEN step ELSE @]
       IN IF lookup[q].by # p \/ p \in Outsiders THEN own
          ELSE [own EXCEPT !.sometime = @ \/ status = "approved",
                           !.throughout = @ /\ status = "approved"]]
  /\ blurred' = Overlaps(p)
  /\ UNCHANGED trail

\* approveLink: by the student, of a link that waits for it.
Approve(r) ==
  /\ LookupAt(r, "asked") /\ Asks(r, "approve")
  /\ IF LinkOf(r) = "pending" THEN Updates(r, lookup[r].on, "approved", "granted")
     ELSE LookupTo(r, "refused") /\ UNCHANGED <<consent, trail, blurred>>

\* revokeLink: by either party, of a link not yet revoked.
Revoke(r) ==
  /\ LookupAt(r, "found") \/ (LookupAt(r, "asked") /\ Asks(r, "end"))
  /\ IF LinkOf(r) \in {"pending", "approved"}
     THEN Updates(r, lookup[r].on, "revoked", "ended")
     ELSE LookupTo(r, "refused") /\ UNCHANGED <<consent, trail, blurred>>

\* LINK_APPROVED or LINK_REVOKED is recorded after the change has committed; a
\* failure is logged and swallowed.  (A parent's own withdrawal then adds a row
\* of another kind.)
RowOf(r) == IF LookupAt(r, "granted") THEN "approved" ELSE "revoked"
Files(r) ==
  \/ trail' = [trail EXCEPT ![lookup[r].on] = RowOf(r)] /\ UNCHANGED blurred
  \/ blurred' = blurred \cup {lookup[r].on} /\ UNCHANGED trail
FileChange(r) ==
  /\ LookupAt(r, "granted") \/ LookupAt(r, "ended")
  /\ LookupTo(r, "answered")
  /\ Files(r)
  /\ UNCHANGED consent

\* submitLinkCode: the parent hands in a code of the child.
Resubmit(p) ==
  /\ p \notin Outsiders /\ consent[p] \in {"none", "revoked"}
  /\ consent' = [consent EXCEPT ![p] = "pending"]
  /\ UNCHANGED <<lookup, trail, blurred>>

\* The answer is sent, or the request dies at an await.
Finish(r) ==
  /\ lookup[r].step \in Outcomes
  /\ lookup' = [lookup EXCEPT ![r] = NoLookup]
  /\ UNCHANGED <<consent, trail, blurred>>
LookupDies(r) ==
  /\ lookup[r].step \notin Outcomes \cup {"free"}
  /\ lookup' = [lookup EXCEPT ![r] = NoLookup]
  /\ blurred' = IF \E p \in Guardians : Owes(r, p)
                THEN blurred \cup {lookup[r].on} ELSE blurred
  /\ UNCHANGED <<consent, trail>>

-----------------------------------------------------------------------------
\* A link between tenants can only be a row older than the comparison of
\* tenants; the code expects that there may be one.
AccessInit ==
  /\ consent = [p \in Guardians |-> IF p \in Outsiders THEN "approved" ELSE "none"]
  /\ lookup = [r \in Lookups |-> NoLookup]
  /\ trail = [p \in Guardians |-> IF p \in Outsiders THEN "approved" ELSE "none"]
  /\ blurred = {}

AccessNext ==
  \/ \E r \in Lookups :
       \/ \E a \in Guardians \cup Students, p \in Guardians, op \in ParentOps \cup ChildOps :
            Ask(r, a, op, p)
       \/ ListChildren(r) \/ ReadStatus(r) \/ Authorise(r) \/ Serve(r)
       \/ RequireLink(r) \/ ShowConsent(r) \/ Approve(r) \/ Revoke(r) \/ FileChange(r)
       \/ Finish(r) \/ LookupDies(r)
  \/ \E p \in Guardians : Resubmit(p)

AccessSpec == AccessInit /\ [][AccessNext]_accessVars

-----------------------------------------------------------------------------
AccessTypeOK ==
  /\ consent \in [Guardians -> Statuses]
  /\ lookup \in [Lookups -> Lookup]
  /\ trail \in [Guardians -> {"none", "approved", "revoked"}]
  /\ blurred \subseteq Guardians

\* A parent is shown the child's data, and a digest is written for a parent,
\* only when the link was approved at some moment of the request: what begins
\* after a revocation sees nothing, whatever was under way.  Nobody else sees
\* anything, no parent writes, and no tenant's border is crossed.
OnlyTheLinkedSee ==
  \A r \in Lookups : LookupAt(r, "answered") /\ lookup[r].by # "child" =>
    /\ lookup[r].by \in Insiders
    /\ lookup[r].sometime
    /\ ~Asks(r, "change")

\* A parent whose link stands from the request's beginning to its end is neither
\* refused nor met with a fault: requireLink's 500 is a revocation in between.
TheLinkedAreServed ==
  \A r \in Lookups :
    /\ lookup[r].by \in Insiders /\ ~Asks(r, "change")
    /\ lookup[r].step \in {"refused", "faulted"}
    => ~lookup[r].throughout

\* The newest row of the consent trail tells what became of the link, unless a
\* row is due or was lost, or two changes of the link overlapped: then the trail
\* may end in an approval that was already revoked.
TrailTellsTheLink ==
  \A p \in Guardians : p \notin blurred /\ (\A r \in Lookups : ~Owes(r, p)) =>
    /\ consent[p] \in {"approved", "revoked"} => trail[p] = consent[p]
    /\ trail[p] = "approved" => consent[p] = "approved"

\* Types, both sides of the gate, and the trail.
AccessInv == AccessTypeOK /\ OnlyTheLinkedSee /\ TheLinkedAreServed /\ TrailTellsTheLink

=============================================================================

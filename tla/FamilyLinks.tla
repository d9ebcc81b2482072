---------------------------- MODULE FamilyLinks ----------------------------
(***************************************************************************)
(* One student, the link codes the student issues, and the parents who     *)
(* hand them in, are approved and are revoked: the only way by which one   *)
(* account comes to read another's data.  A step is one statement or       *)
(* transaction of identity.repository.ts; issueLinkCode is two, because    *)
(* the codes its UPDATE saw can be old by its INSERT.                      *)
(***************************************************************************)
EXTENDS Naturals, FiniteSets

CONSTANTS
  Callers,    \* requests being served at one time
  Codes,      \* rows of link_codes
  Parents,
  Strangers,  \* the parents of another tenant than the student's
  NoOne       \* no code, no parent

ASSUME FamilyAssumption ==
  /\ Strangers \subseteq Parents
  /\ NoOne \notin Codes \cup Parents

VARIABLES
  code,   \* the table link_codes
  link,   \* the rows of parent_child_links, one for each parent
  errand  \* where each request stands

familyVars == <<code, link, errand>>

-----------------------------------------------------------------------------
\* `lapsed` says that the clock has passed expires_at; `by` is history, the
\* parent whose submission spent the code.
CodeRow == [state : {"unused", "live", "spent"}, lapsed : BOOLEAN,
            by : Parents \cup {NoOne}]
NoCode == [state |-> "unused", lapsed |-> FALSE, by |-> NoOne]
Issued == [state |-> "live", lapsed |-> FALSE, by |-> NoOne]
Retired(by) == [state |-> "spent", lapsed |-> FALSE, by |-> by]
\* The codes that the partial unique index counts, lapsed or not.
Unspent == {c \in Codes : code[c].state = "live"}

LinkState == [status : {"none", "pending", "approved", "revoked"},
              code : Codes \cup {NoOne}]
Unlinked == [status |-> "none", code |-> NoOne]
Pending(c) == [status |-> "pending", code |-> c]
Approved(row) == [row EXCEPT !.status = "approved"]
Withdrawn == [status |-> "revoked", code |-> NoOne]

Errand == [step : {"free", "issuing", "handedIn", "allowed"},
           seen : SUBSET Codes, code : Codes \cup {NoOne}, parent : Parents \cup {NoOne}]
Free == [step |-> "free", seen |-> {}, code |-> NoOne, parent |-> NoOne]
Issuing == [step |-> "issuing", seen |-> Unspent, code |-> NoOne, parent |-> NoOne]
HandedIn(p, c) == [step |-> "handedIn", seen |-> {}, code |-> c, parent |-> p]
Allowed(e) == [e EXCEPT !.step = "allowed"]
Moves(r, e) == errand' = [errand EXCEPT ![r] = e]

\* The codes whose rows an open issue has locked.
Held(c) == \E r \in Callers : c \in errand[r].seen

-----------------------------------------------------------------------------
\* issueLinkCode: the UPDATE that retires the codes it sees.
RetireCodes(r) ==
  /\ errand[r].step = "free"
  /\ Moves(r, Issuing)
  /\ UNCHANGED <<code, link>>

\* ... and the INSERT and commit of its transaction, which the unique index
\* refuses (409) while a code is live that the UPDATE did not see.
\* Faulty: an index on the code alone.
AnyIssue(r) == TRUE
IndexAllows(r) == Unspent \subseteq errand[r].seen
IssueCode(r) ==
  /\ errand[r].step = "issuing"
  /\ IF IndexAllows(r)
     THEN \E c \in Codes :
            /\ code[c].state = "unused"
            /\ code' = [x \in Codes |-> IF x = c THEN Issued
                                        ELSE IF x \in Unspent \cap errand[r].seen
                                             THEN Retired(NoOne) ELSE code[x]]
     ELSE UNCHANGED code
  /\ Moves(r, Free)
  /\ UNCHANGED link

\* submitLinkCode: consumeLinkCode, which waits for the lock of an open issue.
HandIn(r, p) ==
  /\ errand[r].step = "free"
  /\ \E c \in Unspent :
       /\ ~Held(c) /\ ~code[c].lapsed
       /\ code' = [code EXCEPT ![c] = Retired(p)]
       /\ Moves(r, HandedIn(p, c))
  /\ UNCHANGED link

\* ... the tenants are compared; the code of a refused submission stays spent.
\* Faulty: the comparison is left to the reads.
AnyTenant(p) == TRUE
SameTenant(p) == p \notin Strangers
CompareTenants(r) ==
  /\ errand[r].step = "handedIn"
  /\ Moves(r, IF SameTenant(errand[r].parent) THEN Allowed(errand[r]) ELSE Free)
  /\ UNCHANGED <<code, link>>

\* ... upsertPendingLink: an approved row is left alone.
\* Faulty: the row of an approved link is written like any other.
Reopened(row, c) == Pending(c)
Upserted(row, c) == IF row.status = "approved" THEN row ELSE Pending(c)
UpsertPendingLink(r) ==
  /\ errand[r].step = "allowed"
  /\ LET p == errand[r].parent
     IN link' = [link EXCEPT ![p] = Upserted(@, errand[r].code)]
  /\ Moves(r, Free)
  /\ UNCHANGED code

\* approveLink, by the student alone.
ApproveLink(p) ==
  /\ link[p].status = "pending"
  /\ link' = [link EXCEPT ![p] = Approved(@)]
  /\ UNCHANGED <<code, errand>>

\* revokeLink, by either party.
RevokeLink(p) ==
  /\ link[p].status \in {"pending", "approved"}
  /\ link' = [link EXCEPT ![p] = Withdrawn]
  /\ UNCHANGED <<code, errand>>

\* expires_at passes.
CodeLapses ==
  /\ \E c \in Unspent :
       /\ ~code[c].lapsed
       /\ code' = [code EXCEPT ![c].lapsed = TRUE]
  /\ UNCHANGED <<link, errand>>

\* A request dies at an await; an open transaction is rolled back.
CallerDies(r) ==
  /\ errand[r].step # "free"
  /\ Moves(r, Free)
  /\ UNCHANGED <<code, link>>

-----------------------------------------------------------------------------
FamilyInit ==
  /\ code = [c \in Codes |-> NoCode]
  /\ link = [p \in Parents |-> Unlinked]
  /\ errand = [r \in Callers |-> Free]

FamilyNext ==
  \/ \E r \in Callers :
       \/ RetireCodes(r) \/ IssueCode(r)
       \/ \E p \in Parents : HandIn(r, p)
       \/ CompareTenants(r) \/ UpsertPendingLink(r) \/ CallerDies(r)
  \/ \E p \in Parents : ApproveLink(p) \/ RevokeLink(p)
  \/ CodeLapses

FamilySpec == FamilyInit /\ [][FamilyNext]_familyVars

-----------------------------------------------------------------------------
FamilyTypeOK ==
  /\ code \in [Codes -> CodeRow]
  /\ link \in [Parents -> LinkState]
  /\ errand \in [Callers -> Errand]

\* The student has one code to show at most, whatever issues overlap.
OneCode == \A c, d \in Unspent : c = d

\* An open link names a code that its own parent handed in, and no parent of
\* another tenant has a link, whatever submissions, revocations and issues
\* overlap: a code makes one link at most.
LinksAreEarned ==
  \A p \in Parents :
    /\ link[p].status \in {"pending", "approved"} => code[link[p].code].by = p
    /\ link[p].status # "none" => p \notin Strangers

\* Types, one code, and links earned by codes.
FamilyInv == FamilyTypeOK /\ OneCode /\ LinksAreEarned

\* The student is left without a code only by a parent who handed it in, never
\* by an issue that failed, died or raced; and while a link is approved the
\* code that it was approved for does not change.
CodesAndConsentLast ==
  [][/\ Unspent # {} /\ Unspent' = {} => \E c \in Unspent : code'[c].by \in Parents
     /\ \A p \in Parents :
          link[p].status = "approved" => link'[p] \in {link[p], Withdrawn}]_familyVars

=============================================================================

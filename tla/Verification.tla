---------------------------- MODULE Verification ----------------------------
(***************************************************************************)
(* The way from a sign-up to a verified address: the account's row, the    *)
(* links mailed to it, and the requests that mail and use them.  A step is *)
(* one statement or transaction of identity.repository.ts; only a reissue  *)
(* is two, because what its first statement sees can be old by the second. *)
(***************************************************************************)
EXTENDS Naturals

CONSTANTS
  Visitors,     \* requests of the account's owner served at one time
  VerifyLinks,  \* rows of email_verification_tokens
  VerifyTtl,    \* EMAIL_VERIFICATION_TTL_MS
  LastDay       \* bound on the clock

ASSUME VerificationAssumption == {VerifyTtl, LastDay} \subseteq Nat

VARIABLES
  day,      \* the clock
  account,  \* "none", "unverified", "verified"
  verify,   \* the table email_verification_tokens
  visit     \* where each request stands

verificationVars == <<day, account, verify, visit>>

-----------------------------------------------------------------------------
\* `replaces` is history: the links that a reissue retired for this one.
VerifyRow == [state : {"unused", "live", "spent"}, expires : Nat,
              replaces : SUBSET VerifyLinks]
NoVerifyLink == [state |-> "unused", expires |-> 0, replaces |-> {}]
Mailed(replaced) == [state |-> "live", expires |-> day + VerifyTtl, replaces |-> replaced]
\* Faulty: the row is read and left as it is.
Untouched(link) == link
Consumed(link) == [link EXCEPT !.state = "spent"]
LiveLinks == {t \in VerifyLinks : verify[t].state = "live"}

Visit == [step : {"away", "created", "unverified", "retiring", "signingIn"},
          retiring : SUBSET VerifyLinks]
Away == [step |-> "away", retiring |-> {}]
Goes(r, step, links) == visit' = [visit EXCEPT ![r] = [step |-> step, retiring |-> links]]
Leaves(r) == visit' = [visit EXCEPT ![r] = Away]

\* The links whose rows the UPDATE of an open reissue has locked.
Retiring(t) == \E r \in Visitors : t \in visit[r].retiring

-----------------------------------------------------------------------------
\* signup: the insert of the user.  A later sign-up meets the unique index on
\* the address and changes nothing.
CreateUser(r) ==
  /\ visit[r].step = "away" /\ account = "none"
  /\ account' = "unverified"
  /\ Goes(r, "created", {})
  /\ UNCHANGED <<day, verify>>

\* createEmailVerificationToken, a statement of its own.
FirstVerifyLink(r) ==
  /\ visit[r].step = "created"
  /\ \E t \in VerifyLinks :
       /\ verify[t].state = "unused"
       /\ verify' = [verify EXCEPT ![t] = Mailed({})]
  /\ Leaves(r)
  /\ UNCHANGED <<day, account>>

\* resendVerification: the unlocked read of emailVerifiedAt.
ReadUnverified(r) ==
  /\ visit[r].step = "away" /\ account = "unverified"
  /\ Goes(r, "unverified", {})
  /\ UNCHANGED <<day, account, verify>>

\* reissueEmailVerificationToken: its UPDATE sees the links that are live now.
RetireVerifyLinks(r) ==
  /\ visit[r].step = "unverified"
  /\ Goes(r, "retiring", LiveLinks)
  /\ UNCHANGED <<day, account, verify>>

\* ... and its INSERT and commit.  A link that was mailed in between stays.
ReissueVerifyLink(r) ==
  /\ visit[r].step = "retiring"
  /\ \E t \in VerifyLinks :
       /\ verify[t].state = "unused"
       /\ verify' = [x \in VerifyLinks |->
            IF x = t THEN Mailed(visit[r].retiring)
            ELSE IF x \in visit[r].retiring THEN Consumed(verify[x]) ELSE verify[x]]
  /\ Leaves(r)
  /\ UNCHANGED <<day, account>>

\* consumeEmailVerificationToken: it waits for the lock of a reissue, then
\* finds the link spent.  A link still outstanding signs in a verified account.
Usable(t) == ~Retiring(t) /\ verify[t].expires > day
VerifyEmail(r) ==
  /\ visit[r].step = "away"
  /\ \E t \in LiveLinks :
       /\ Usable(t)
       /\ verify' = [verify EXCEPT ![t] = Consumed(@)]
  /\ account' = "verified"
  /\ Goes(r, "signingIn", {})
  /\ UNCHANGED day

\* issueSession of module Accounts follows; here the request is over.
SignsIn(r) ==
  /\ visit[r].step = "signingIn"
  /\ Leaves(r)
  /\ UNCHANGED <<day, account, verify>>

\* A request dies at an await and its transaction is rolled back.
VisitDies(r) ==
  /\ visit[r].step # "away"
  /\ Leaves(r)
  /\ UNCHANGED <<day, account, verify>>

DayPasses ==
  /\ day < LastDay
  /\ day' = day + 1
  /\ UNCHANGED <<account, verify, visit>>

-----------------------------------------------------------------------------
VerificationInit ==
  /\ day = 0
  /\ account = "none"
  /\ verify = [t \in VerifyLinks |-> NoVerifyLink]
  /\ visit = [r \in Visitors |-> Away]

VerificationNext ==
  \/ \E r \in Visitors :
       \/ CreateUser(r) \/ FirstVerifyLink(r)
       \/ ReadUnverified(r) \/ RetireVerifyLinks(r) \/ ReissueVerifyLink(r)
       \/ VerifyEmail(r) \/ SignsIn(r) \/ VisitDies(r)
  \/ DayPasses

VerificationSpec == VerificationInit /\ [][VerificationNext]_verificationVars

-----------------------------------------------------------------------------
VerificationTypeOK ==
  /\ day \in Nat
  /\ account \in {"none", "unverified", "verified"}
  /\ verify \in [VerifyLinks -> VerifyRow]
  /\ visit \in [Visitors -> Visit]

\* A link that a resend found outstanding never works again once the resend
\* has mailed its own; no resend, however it races or dies, leaves an
\* unverified account without an outstanding link; and whoever is verified used
\* one.  (Two resends that overlap do not find each other's link: both stay
\* live, which identity.service.ts, "never more than one live link", does not
\* foresee.)
ReplacedAreDead ==
  /\ \A t \in VerifyLinks : \A x \in verify[t].replaces : verify[x].state = "spent"
  /\ account = "unverified" /\ LiveLinks = {} =>
       \A t \in VerifyLinks : verify[t].state = "unused"
  /\ account = "verified" => \E t \in VerifyLinks : verify[t].state = "spent"

\* Types, and what a resend leaves behind.
VerificationInv == VerificationTypeOK /\ ReplacedAreDead

=============================================================================

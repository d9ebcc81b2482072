------------------------------- MODULE Tutor -------------------------------
(***************************************************************************)
(* Foxy: the turns of one student in one conversation on one day, from the *)
(* daily allowance to the last frame of the stream.  A step is the code of *)
(* sendMessage or of streamedTurn between two awaits; an await may fail,   *)
(* and the process may die at any of them.                                 *)
(***************************************************************************)
EXTENDS Naturals, FiniteSets, Sequences

CONSTANTS
  Turns,      \* messages that the student sends
  DailyLimit  \* FOXY_DAILY_MESSAGE_LIMIT of the plan

ASSUME TutorAssumption == DailyLimit \in Nat

VARIABLES
  used,      \* the usage counter of the day in the cache
  turn,      \* where each turn stands
  messages,  \* the roles of each turn's rows of chat_messages, by seq
  frames,    \* what each turn has written to its stream
  slips      \* history: increments that a refund has overwritten or an eviction lost

tutorVars == <<used, turn, messages, frames, slips>>

-----------------------------------------------------------------------------
\* "lost": an error before the stream began, or the process died.
Stages == {"new", "counted", "admitted", "refunding", "repaying", "searching",
           "abstaining", "closing", "touching", "asking", "streaming",
           "storing", "sealing", "over", "lost"}
\* `position` is what incr returned or refundUsage read; `search` and `failed`
\* say that the turn ran a retrieval and that the model failed in it.
TurnState == [stage : Stages, position : Nat, search : BOOLEAN, failed : BOOLEAN]
NewTurn == [stage |-> "new", position |-> 0, search |-> FALSE, failed |-> FALSE]

At(t, stage) == turn[t].stage = stage
Enters(t, stage) == turn' = [turn EXCEPT ![t].stage = stage]
Reads(t, stage, n) == turn' = [turn EXCEPT ![t].stage = stage, ![t].position = n]

FrameTypes == {"token", "citation", "abstention", "error", "done"}
Writes(t, written) == frames' = [frames EXCEPT ![t] = @ \o written]
Stores(t, role) == messages' = [messages EXCEPT ![t] = Append(@, role)]

-----------------------------------------------------------------------------
(* The allowance *)

\* consumeUsage: incr.
CountUsage(t) ==
  /\ At(t, "new")
  /\ used' = used + 1
  /\ Reads(t, "counted", used + 1)
  /\ UNCHANGED <<messages, frames, slips>>

\* ... expire, then the position decides (decideUsage); a 429 gives nothing back.
JudgeUsage(t) ==
  /\ At(t, "counted")
  /\ Reads(t, IF turn[t].position <= DailyLimit THEN "admitted" ELSE "lost", 0)
  /\ UNCHANGED <<used, messages, frames, slips>>

\* readStudentContext; then classifyInput and assertNoIdentity refuse the text
\* and go on to refund it, or the subject is not on the student's list, or the
\* turn goes on to its retrieval.
Screen(t) ==
  /\ At(t, "admitted")
  /\ \E next \in {"refunding", "abstaining", "searching"} : Enters(t, next)
  /\ UNCHANGED <<used, messages, frames, slips>>

\* refundUsage: the counter is read,
ReadRefund(t) ==
  /\ At(t, "refunding")
  /\ IF used > 0 THEN Reads(t, "repaying", used) ELSE Enters(t, "abstaining")
  /\ UNCHANGED <<used, messages, frames, slips>>

\* ... and set to one less than what was read.
Refund(t) ==
  /\ At(t, "repaying")
  /\ used' = turn[t].position - 1
  /\ slips' = slips + (IF used > turn[t].position THEN used - turn[t].position ELSE 0)
  /\ Reads(t, "abstaining", 0)
  /\ UNCHANGED <<messages, frames>>

\* The counter is a key of the evicting cache: it goes, with all it has counted.
LoseUsage ==
  /\ used > 0
  /\ used' = 0
  /\ slips' = slips + used
  /\ UNCHANGED <<turn, messages, frames>>

-----------------------------------------------------------------------------
(* A turn that ends before the model *)

\* The retrieval brings chunks to answer from, or the turn abstains, which
\* costs the message: "a free abstention is an unlimited supply of retrievals".
\* Faulty: it is refunded like a refusal.
FreeAbstention == "refunding"
Abstained == "abstaining"
Search(t) ==
  /\ At(t, "searching")
  /\ \E next \in {Abstained, "asking"} :
       turn' = [turn EXCEPT ![t].stage = next, ![t].search = TRUE]
  /\ UNCHANGED <<used, messages, frames, slips>>

\* endedTurn: the student's message,
StoreEndedQuestion(t) ==
  /\ At(t, "abstaining")
  /\ Stores(t, "user")
  /\ Enters(t, "closing")
  /\ UNCHANGED <<used, frames, slips>>

\* ... the answer with its trace,
StoreAbstention(t) ==
  /\ At(t, "closing")
  /\ Stores(t, "assistant")
  /\ Enters(t, "touching")
  /\ UNCHANGED <<used, frames, slips>>

\* ... touchSession, and the two frames.
CloseEndedTurn(t) ==
  /\ At(t, "touching")
  /\ Writes(t, <<"abstention", "done">>)
  /\ Enters(t, "over")
  /\ UNCHANGED <<used, messages, slips>>

-----------------------------------------------------------------------------
(* A turn that streams *)

\* The student's message is stored before the model is asked.
StoreQuestion(t) ==
  /\ At(t, "asking")
  /\ Stores(t, "user")
  /\ Enters(t, "streaming")
  /\ UNCHANGED <<used, frames, slips>>

\* Tokens go out while the model streams (one stands for any number).
StreamToken(t) ==
  /\ At(t, "streaming") /\ frames[t] = <<>>
  /\ Writes(t, <<"token">>)
  /\ UNCHANGED <<used, turn, messages, slips>>

\* The model's stream ends, or fails, with or without tokens.
EndModel(t) ==
  /\ At(t, "streaming")
  /\ \E failed \in BOOLEAN :
       turn' = [turn EXCEPT ![t].stage = "storing", ![t].failed = failed]
  /\ UNCHANGED <<used, messages, frames, slips>>

\* insertMessageWithTrace, one transaction.
StoreAnswer(t) ==
  /\ At(t, "storing")
  /\ Stores(t, "assistant")
  /\ Enters(t, "sealing")
  /\ UNCHANGED <<used, frames, slips>>

\* touchSession, then the citations, the error of the model, and done.
LastFrames(t, cited) ==
  (IF cited THEN <<"citation">> ELSE <<>>)
    \o (IF turn[t].failed THEN <<"error">> ELSE <<>>) \o <<"done">>
Seal(t) ==
  /\ At(t, "sealing")
  /\ \E cited \in BOOLEAN : Writes(t, LastFrames(t, cited))
  /\ Enters(t, "over")
  /\ UNCHANGED <<used, messages, slips>>

\* The transaction or touchSession fails: an error is the last frame.
StoreFails(t) ==
  /\ At(t, "storing") \/ At(t, "sealing")
  /\ Writes(t, <<"error">>)
  /\ Enters(t, "over")
  /\ UNCHANGED <<used, messages, slips>>

-----------------------------------------------------------------------------
\* Any other await throws, and the request is answered by an error; or the
\* process dies.  A call that took effect and lost its reply is its step above
\* followed by this one.
TurnLost(t) ==
  /\ turn[t].stage \notin {"over", "lost"}
  /\ Reads(t, "lost", 0)
  /\ UNCHANGED <<used, messages, frames, slips>>

-----------------------------------------------------------------------------
TutorInit ==
  /\ used = 0
  /\ turn = [t \in Turns |-> NewTurn]
  /\ messages = [t \in Turns |-> <<>>]
  /\ frames = [t \in Turns |-> <<>>]
  /\ slips = 0

TutorNext ==
  \/ \E t \in Turns :
       \/ CountUsage(t) \/ JudgeUsage(t) \/ Screen(t) \/ ReadRefund(t) \/ Refund(t)
       \/ Search(t) \/ StoreEndedQuestion(t) \/ StoreAbstention(t) \/ CloseEndedTurn(t)
       \/ StoreQuestion(t) \/ StreamToken(t) \/ EndModel(t) \/ StoreAnswer(t) \/ Seal(t)
       \/ StoreFails(t) \/ TurnLost(t)
  \/ LoseUsage

TutorSpec == TutorInit /\ [][TutorNext]_tutorVars

-----------------------------------------------------------------------------
TutorTypeOK ==
  /\ {used, slips} \subseteq Nat
  /\ turn \in [Turns -> TurnState]
  /\ messages \in [Turns -> Seq({"user", "assistant"})]
  /\ frames \in [Turns -> Seq(FrameTypes)]

\* No more retrievals run in a day than the plan allows and slips have given
\* away: a refund that overlaps k increments gives away k messages, an eviction
\* as many as the counter held, and nothing else does.
AllowanceHolds ==
  Cardinality({t \in Turns : turn[t].search}) <= DailyLimit + slips

Finished(t) == frames[t] # <<>> /\ frames[t][Len(frames[t])] = "done"

\* A stream that ends with done is of a turn whose two messages are stored, each
\* once and the question first; citations and abstentions come with done and
\* never without; a stream that ends without it says so by an error, unless its
\* process died.
\* (The comment at streamedTurn promises done after every error.)
StreamsAreTrue ==
  \A t \in Turns :
    /\ "done" \in {frames[t][i] : i \in DOMAIN frames[t]} => Finished(t)
    /\ Finished(t) => messages[t] = <<"user", "assistant">>
    /\ \A i \in DOMAIN frames[t] :
         frames[t][i] \in {"citation", "abstention"} => Finished(t)
    /\ At(t, "over") => Finished(t) \/ frames[t][Len(frames[t])] = "error"

\* Types, the allowance, and the streams.
TutorInv == TutorTypeOK /\ AllowanceHolds /\ StreamsAreTrue

=============================================================================

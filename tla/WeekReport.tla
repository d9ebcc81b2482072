---------------------------- MODULE WeekReport ----------------------------
(***************************************************************************)
(* What a weekly digest says: the evidence of one child's week, which is   *)
(* read by four queries at once while the child goes on practising, the    *)
(* five lines composed from it, and the honesty gate before the row.       *)
(* (WeeklyDigest has the job, the row and the notification.)               *)
(***************************************************************************)
EXTENDS Integers, Sequences, FiniteSets

CONSTANTS
  Topics, Mixups,     \* chapters and misconceptions, numbered in id order
  Scores,             \* scores that a session can be given
  Flagged,            \* names whose wording matches a pattern of the gate
  ImprovementPoints, StrugglingScore,
  MaxEarlier, MaxWeek, \* bounds: sessions before the week, and in it
  MaxDuring           \* bound: sessions submitted while the queries run

ASSUME ReportAssumption ==
  /\ Topics \cup Mixups \cup Scores \cup {ImprovementPoints, StrugglingScore} \subseteq Nat
  /\ Topics \cap Mixups = {} /\ 0 \notin Topics \cup Mixups
  /\ Flagged \subseteq Topics \cup Mixups
  /\ {MaxEarlier, MaxWeek, MaxDuring} \subseteq Nat

VARIABLES
  earlier,  \* sessions submitted before the week
  week,     \* sessions submitted in it, so far
  seen,     \* how much of the week each query saw
  report,   \* "reading", "stored" or "refused"
  draft     \* the digest that was composed

reportVars == <<earlier, week, seen, report, draft>>

-----------------------------------------------------------------------------
\* Of a session's answers one is told: a wrong one chosen for a known mix-up, a
\* right one after a change of mind, a hint, or a plain one.
Submission ==
  [topic : Topics, score : Scores, slip : {0}, effort : {"plain", "caught", "hinted"}]
    \cup [topic : Topics, score : Scores, slip : Mixups, effort : {"plain"}]

Queries == {"activity", "chapters", "slips", "effort"}
Unread == MaxWeek + 1

\* The sessions that a query saw.
SeenBy(q) == SubSeq(week, 1, seen[q])
Of(sessions, c) == {i \in DOMAIN sessions : sessions[i].topic = c}
Showing(sessions, what) == {i \in DOMAIN sessions : sessions[i].effort = what}
\* The points scored in a chapter, told by their session and a number.
Points(sessions, c) == UNION {{i} \X (1 .. sessions[i].score) : i \in Of(sessions, c)}
ScoreSum(sessions, c) == Cardinality(Points(sessions, c))

\* readChapterWeeks: the chapters of the week, and an average as <<sum, number>>.
ChapterWeeks == {c \in Topics : Of(SeenBy("chapters"), c) # {}}
Average(sessions, c) == <<ScoreSum(sessions, c), Cardinality(Of(sessions, c))>>
\* What the chapter's average rose by, as a fraction.
Rise(c) ==
  LET now == Average(SeenBy("chapters"), c)
      prior == Average(earlier, c)
  IN <<now[1] * prior[2] - prior[1] * now[2], now[2] * prior[2]>>

Below(x, y) == x[1] * y[2] < y[1] * x[2]
\* The first of a set in a sort by a fraction and then by id, and 0 of none.
First(S, Before(_, _)) ==
  IF S = {} THEN 0
  ELSE CHOOSE c \in S : \A d \in S \ {c} : Before(c, d) \/ (~Before(d, c) /\ c < d)

\* improvedChapters
Practised(c) == Of(earlier, c) # {}
\* Faulty: a chapter without a prior average counts as risen from zero.
RiseFromZero(c) == ~Practised(c) \/ ~Below(Rise(c), <<ImprovementPoints, 1>>)
Improved(c) == Practised(c) /\ ~Below(Rise(c), <<ImprovementPoints, 1>>)
MostImproved ==
  First({c \in ChapterWeeks : Improved(c)}, LAMBDA c, d : Below(Rise(d), Rise(c)))

\* strugglingChapters
Hardest ==
  LET average(c) == Average(SeenBy("chapters"), c)
  IN First({c \in ChapterWeeks : ~Below(<<StrugglingScore, 1>>, average(c))},
           LAMBDA c, d : Below(average(c), average(d)))

\* readMisconceptions and pickMisconception: the mix-up seen most often in a
\* chapter; of one that two chapters show equally often, either may come first.
Sightings(m, c) == {i \in Of(SeenBy("slips"), c) : week[i].slip = m}
Occurrences(m, c) == Cardinality(Sightings(m, c))
Sighted == {s \in Mixups \X Topics : Sightings(s[1], s[2]) # {}}
Picks ==
  {s \in Sighted : \A o \in Sighted :
     \/ Occurrences(o[1], o[2]) < Occurrences(s[1], s[2])
     \/ Occurrences(o[1], o[2]) = Occurrences(s[1], s[2]) /\ s[1] <= o[1]}

-----------------------------------------------------------------------------
(* composeDigest *)

\* A line is what it says and the names it says it of.
Line(says, names) == [says |-> says, names |-> names]
SessionCount == Len(SeenBy("activity"))
Recoveries == Cardinality(Showing(SeenBy("effort"), "caught"))
Hints == Cardinality(Showing(SeenBy("effort"), "hinted"))
FirstChapter == First(ChapterWeeks, LAMBDA c, d : FALSE)

EffortLine == Line(IF SessionCount = 0 THEN "no_session" ELSE "practised", {})
WentWellLine ==
  CASE MostImproved # 0 -> Line("better", {MostImproved})
    [] MostImproved = 0 /\ Recoveries > 0 -> Line("caught", {})
    [] MostImproved = 0 /\ Recoveries = 0 /\ FirstChapter # 0 -> Line("kept_on", {FirstChapter})
    [] OTHER -> Line("nothing_new", {})
HardLine ==
  CASE SessionCount = 0 -> Line("cannot_say", {})
    [] SessionCount > 0 /\ Hardest # 0 -> Line("hard", {Hardest})
    [] OTHER -> Line("nothing_hard", {})
DiagnosisLine(pick) ==
  CASE pick # <<>> -> Line("mixing_up", {pick[1], pick[2]})
    [] pick = <<>> /\ MostImproved # 0 -> Line("what_moved", {MostImproved})
    [] pick = <<>> /\ MostImproved = 0 /\ Hints > 0 -> Line("asked", {})
    [] OTHER -> Line("no_mixup", {})
ActionLine(pick) ==
  CASE pick # <<>> -> Line("explain", {pick[1]})
    [] pick = <<>> /\ Hardest # 0 -> Line("sit_with", {Hardest})
    [] pick = <<>> /\ Hardest = 0 /\ SessionCount = 0 -> Line("make_a_slot", {})
    [] pick = <<>> /\ Hardest = 0 /\ SessionCount > 0 /\ FirstChapter # 0 ->
         Line("teach_you", {FirstChapter})
    [] OTHER -> Line("plan", {})

\* The lines, and misconception_code, which is 0 for null.
Composed(pick) ==
  [effort |-> EffortLine, well |-> WentWellLine, hard |-> HardLine,
   diagnosis |-> DiagnosisLine(pick), action |-> ActionLine(pick),
   code |-> IF pick = <<>> THEN 0 ELSE pick[1]]
NoDraft ==
  [effort |-> Line("nothing", {}), well |-> Line("nothing", {}), hard |-> Line("nothing", {}),
   diagnosis |-> Line("nothing", {}), action |-> Line("nothing", {}), code |-> 0]
Named(d) == UNION {d[line].names : line \in DOMAIN d \ {"code"}}

\* checkDigestHonesty, of a composed draft: its own words pass; a name may not.
\* Faulty: the suggested action is not looked at.
HonestLines(d) ==
  UNION {d[line].names : line \in DOMAIN d \ {"code", "diagnosis", "action"}} \cap Flagged = {}
Honest(d) ==
  /\ Named(d) \cap Flagged = {}
  /\ d.code # 0 => \E c \in Topics : Sightings(d.code, c) # {}

-----------------------------------------------------------------------------
\* A session is submitted.
Submit(s) ==
  /\ report = "reading" /\ Len(week) < MaxWeek
  /\ \A q \in Queries : seen[q] # Unread => Len(week) < seen[q] + MaxDuring
  /\ week' = Append(week, s)
  /\ UNCHANGED <<earlier, seen, report, draft>>

\* readEvidence: one of four queries sees what has been submitted.
Query(q) ==
  /\ report = "reading" /\ seen[q] = Unread
  /\ seen' = [seen EXCEPT ![q] = Len(week)]
  /\ UNCHANGED <<earlier, week, report, draft>>

\* writeDigest: the draft is composed and judged; a refusal is an InternalError.
Compose ==
  /\ report = "reading" /\ \A q \in Queries : seen[q] # Unread
  /\ \E pick \in IF Sighted = {} THEN {<<>>} ELSE Picks : draft' = Composed(pick)
  /\ report' = IF Honest(draft') THEN "stored" ELSE "refused"
  /\ UNCHANGED <<earlier, week, seen>>

\* The job, or the caller, tries again.
TryAgain ==
  /\ report = "refused"
  /\ report' = "reading" /\ draft' = NoDraft
  /\ seen' = [q \in Queries |-> Unread]
  /\ UNCHANGED <<earlier, week>>

-----------------------------------------------------------------------------
ReportInit ==
  /\ LET scored == {s \in Submission : s.slip = 0 /\ s.effort = "plain"}
     IN earlier \in UNION {[1 .. n -> scored] : n \in 0 .. MaxEarlier}
  /\ week = <<>>
  /\ seen = [q \in Queries |-> Unread]
  /\ report = "reading"
  /\ draft = NoDraft

ReportNext ==
  \/ \E s \in Submission : Submit(s)
  \/ \E q \in Queries : Query(q)
  \/ Compose \/ TryAgain

ReportSpec == ReportInit /\ [][ReportNext]_reportVars

-----------------------------------------------------------------------------
ReportTypeOK ==
  /\ {earlier, week} \subseteq Seq(Submission)
  /\ seen \in [Queries -> 0 .. Unread]
  /\ report \in {"reading", "stored", "refused"}
  /\ DOMAIN draft = DOMAIN NoDraft

\* Nothing is said of the child that did not happen: a chapter that went well
\* was practised before and now, and its average rose by the points that make
\* it so; a hard one was practised in the week; a mix-up was shown in the week,
\* in the chapter it is said of, and the parent is asked about that same one.
SaysOnlyWhatHappened ==
  report = "stored" =>
    /\ draft.well.says = "better" => \A c \in draft.well.names :
         \E i \in Of(week, c), j \in Of(earlier, c) :
           week[i].score >= earlier[j].score + ImprovementPoints
    /\ draft.hard.says = "hard" => \A c \in draft.hard.names :
         \E i \in Of(week, c) : week[i].score <= StrugglingScore
    /\ draft.diagnosis.says = "mixing_up" =>
         /\ \E i \in DOMAIN week : draft.diagnosis.names = {week[i].slip, week[i].topic}
         /\ draft.action = Line("explain", {draft.code}) /\ draft.code \in draft.diagnosis.names

\* The five lines agree with each other, unless a session was submitted between
\* two of the four queries: then the digest of a week may report no session and
\* praise the progress made in one, for ever.
LinesAgree ==
  report = "stored" /\ Cardinality({seen[q] : q \in Queries}) = 1 =>
    /\ draft.effort.says = "no_session" <=> draft.well.says = "nothing_new"
    /\ draft.effort.says = "no_session" =>
         Named(draft) = {} /\ draft.action.says = "make_a_slot"
    /\ draft.effort.says = "practised" => draft.action.says # "plan"

\* The gate keeps every flagged name from the parent, and a composed draft is
\* refused for nothing but such a name, of the corpus and not of the composer.
GateJudgesNames ==
  /\ report = "stored" => Named(draft) \cap Flagged = {}
  /\ report = "refused" => Named(draft) \cap Flagged # {}

\* Types, and what the digest says.
ReportInv == ReportTypeOK /\ SaysOnlyWhatHappened /\ LinesAgree /\ GateJudgesNames

=============================================================================

---------------------------- MODULE ChapterGraph ----------------------------
(***************************************************************************)
(* The chapters that come before a chapter: the projection of the concepts *)
(* and their prerequisites on chapters, and the walk over it, in three     *)
(* colours and without recursion, that findLearningPath makes from one     *)
(* chapter and topologicalOrder from each.                                 *)
(***************************************************************************)
EXTENDS Naturals, Sequences, SequencesExt

CONSTANTS
  Concepts,  \* concept codes that a prerequisite can name
  Chapters   \* ids of chapters, as numbers for their order

ASSUME GraphAssumption == Chapters \subseteq Nat

VARIABLES
  nodes,      \* the rows of the concept graph, by code
  asked,      \* the chapters to walk from
  remaining,  \* what each chapter's iterator has still to give
  colour,
  walking,      \* the chapters being walked: the last is the current frame
  path,       \* the chapters that are done, in order
  answer,     \* "none", "ok", "cycle", "unknown_chapter"
  cycle

graphVars == <<nodes, asked, remaining, colour, walking, path, answer, cycle>>

-----------------------------------------------------------------------------
Node == [chapter : Chapters, prerequisites : SUBSET Concepts]
\* Bound: no concept names itself; two of one chapter make the same loop.
Graphs == {g \in UNION {[D -> Node] : D \in SUBSET Concepts} :
             \A p \in DOMAIN g : p \notin g[p].prerequisites}

\* projectToChapterGraph: a code without a row leads nowhere, and neither does
\* a prerequisite within the chapter.
\* Faulty: a chapter whose concepts build on each other comes before itself.
WithLoops(n, c) ==
  {n[q].chapter : q \in DOMAIN n \cap UNION {n[p].prerequisites :
                                               p \in {x \in DOMAIN n : n[x].chapter = c}}}
Projected(n, c) ==
  {n[q].chapter : q \in DOMAIN n \cap UNION {n[p].prerequisites :
                                               p \in {x \in DOMAIN n : n[x].chapter = c}}} \ {c}
KnownChapters(n) == {n[p].chapter : p \in DOMAIN n}

\* The ids are sorted: an iterator gives the least that it has left.
Least(S) == CHOOSE c \in S : \A d \in S : c <= d
CurrentChapter == Last(walking)
Place(c) == CHOOSE i \in DOMAIN walking : walking[i] = c
\* Faulty: the way that led to the loop is reported as part of it.
WholeWay(c) == Append(walking, c)
LoopTo(c) == Append(SubSeq(walking, Place(c), Len(walking)), c)

-----------------------------------------------------------------------------
\* findLearningPath of a chapter that the graph does not know.
RefuseUnknown ==
  /\ answer = "none" /\ ~(asked \subseteq KnownChapters(nodes))
  /\ answer' = "unknown_chapter"
  /\ UNCHANGED <<nodes, asked, remaining, colour, walking, path, cycle>>

\* walkFrom the next chapter that was not seen, or the end.
BeginWalk ==
  /\ answer = "none" /\ walking = <<>> /\ asked \subseteq KnownChapters(nodes)
  /\ LET unseen == asked \ Range(path)
     IN IF unseen = {}
        THEN answer' = "ok" /\ UNCHANGED <<walking, colour>>
        ELSE /\ walking' = <<Least(unseen)>>
             /\ colour' = [colour EXCEPT ![Least(unseen)] = "grey"]
             /\ UNCHANGED answer
  /\ UNCHANGED <<nodes, asked, remaining, path, cycle>>

\* The current frame's next prerequisite: walked before it, under way, or done.
NextPrerequisite ==
  /\ answer = "none" /\ walking # <<>> /\ remaining[CurrentChapter] # {}
  /\ LET next == Least(remaining[CurrentChapter])
     IN /\ remaining' = [remaining EXCEPT ![CurrentChapter] = @ \ {next}]
        /\ \/ /\ colour[next] = "grey"
              /\ answer' = "cycle"
              /\ cycle' = LoopTo(next)
              /\ UNCHANGED <<colour, walking>>
           \/ /\ colour[next] = "white"
              /\ colour' = [colour EXCEPT ![next] = "grey"]
              /\ walking' = Append(walking, next)
              /\ UNCHANGED <<answer, cycle>>
           \/ /\ colour[next] = "black"
              /\ UNCHANGED <<answer, cycle, colour, walking>>
  /\ UNCHANGED <<nodes, asked, path>>

\* The current frame is done.
LeaveChapter ==
  /\ answer = "none" /\ walking # <<>> /\ remaining[CurrentChapter] = {}
  /\ colour' = [colour EXCEPT ![CurrentChapter] = "black"]
  /\ path' = Append(path, CurrentChapter)
  /\ walking' = Front(walking)
  /\ UNCHANGED <<nodes, asked, remaining, answer, cycle>>

-----------------------------------------------------------------------------
GraphInit ==
  /\ nodes \in Graphs
  /\ asked \in {{c} : c \in Chapters} \cup {KnownChapters(nodes)}
  /\ remaining = [c \in Chapters |-> Projected(nodes, c)]
  /\ colour = [c \in Chapters |-> "white"]
  /\ walking = <<>> /\ path = <<>>
  /\ answer = "none" /\ cycle = <<>>

GraphNext == RefuseUnknown \/ BeginWalk \/ NextPrerequisite \/ LeaveChapter

GraphSpec == GraphInit /\ [][GraphNext]_graphVars

-----------------------------------------------------------------------------
GraphTypeOK ==
  /\ nodes \in Graphs
  /\ asked \subseteq Chapters
  /\ remaining \in [Chapters -> SUBSET Chapters]
  /\ colour \in [Chapters -> {"white", "grey", "black"}]
  /\ {walking, path, cycle} \subseteq Seq(Chapters)
  /\ answer \in {"none", "ok", "cycle", "unknown_chapter"}

\* Chapter d holds a prerequisite of a concept of chapter c: d comes first.
Before(d, c) ==
  /\ d # c
  /\ \E p, q \in DOMAIN nodes :
       nodes[p].chapter = c /\ nodes[q].chapter = d /\ q \in nodes[p].prerequisites

\* At every moment of every walk, a chapter stands in the path once and after
\* all that come before it.
PathInOrder ==
  \A i \in DOMAIN path :
    /\ \A j \in DOMAIN path : path[i] = path[j] => i = j
    /\ \A d \in Chapters : Before(d, path[i]) => \E j \in 1 .. i - 1 : path[j] = d

\* A walk that succeeds has all that was asked for, and nothing that is not
\* needed for it; so nothing can succeed on a graph whose needed part has a
\* cycle.
PathIsComplete ==
  /\ answer = "ok" => asked \subseteq Range(path)
  /\ \A c \in Range(path) \ asked : \E d \in Range(path \o walking) : Before(c, d)

\* A cycle that is reported is one: it closes, it visits no other chapter
\* twice, and each of its chapters needs the next.
CycleIsReal ==
  answer = "cycle" =>
    /\ Len(cycle) > 2 /\ cycle[1] = Last(cycle)
    /\ IsInjective(Front(cycle))
    /\ \A i \in 1 .. Len(cycle) - 1 : Before(cycle[i + 1], cycle[i])

\* Types, and what the walk answers.
GraphInv == GraphTypeOK /\ PathInOrder /\ PathIsComplete /\ CycleIsReal

=============================================================================

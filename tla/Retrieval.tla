----------------------------- MODULE Retrieval -----------------------------
(***************************************************************************)
(* One retrieval.search: the embedding, the two ranked lists, their fusion *)
(* by reciprocal rank, the collapse of equal texts, the cut, the decision  *)
(* to abstain, and the read of the chosen chunks, while the importer       *)
(* deactivates chunks.  A reciprocal 1 / (RRF_K + rank) is counted in      *)
(* parts of Scale, which every denominator divides.                        *)
(***************************************************************************)
EXTENDS Naturals, Sequences, FiniteSets, SequencesExt

CONSTANTS
  Chunks,          \* ids, as numbers for their order
  Passages,        \* normalised texts
  RRF_K,
  CandidateLimit,
  Scale,
  TopN,
  Thresholds       \* abstention thresholds, in parts of Scale

ASSUME RetrievalAssumption ==
  /\ Chunks \subseteq Nat \ {0} /\ {RRF_K, CandidateLimit, TopN, Scale} \subseteq Nat \ {0}
  /\ \A rank \in 1 .. CandidateLimit : Scale % (RRF_K + rank) = 0
  \* assertThresholdOnFusedScale
  /\ Thresholds \subseteq 0 .. 2 * (Scale \div (RRF_K + 1))

VARIABLES
  index,      \* the text of each chunk, and the abstention threshold
  active,     \* the chunks that are active
  dense,      \* the two lists; NotYet before the query has answered
  sparse,
  selected,   \* the ranked chunks to read
  chunks,     \* the chunks that are answered
  search      \* "embedding", "searching", "reading", "answered", "abstained", "failed"

retrievalVars == <<index, active, dense, sparse, selected, chunks, search>>

-----------------------------------------------------------------------------
NotYet == <<0>>
Rankings(S) ==
  {list \in SeqOf(S, CandidateLimit) : IsInjective(list)}

\* rankMap and fuse.  A chunk outside a list has a rank past its end.
RankIn(list, c) ==
  IF c \in Range(list) THEN CHOOSE r \in DOMAIN list : list[r] = c ELSE CandidateLimit + 1
Reciprocal(rank) == IF rank > CandidateLimit THEN 0 ELSE Scale \div (RRF_K + rank)
Score(c) == Reciprocal(RankIn(dense, c)) + Reciprocal(RankIn(sparse, c))
BestRank(c) ==
  IF RankIn(dense, c) < RankIn(sparse, c) THEN RankIn(dense, c) ELSE RankIn(sparse, c)
Outranks(c, d) ==
  \/ Score(c) > Score(d)
  \/ Score(c) = Score(d) /\ BestRank(c) < BestRank(d)
  \/ Score(c) = Score(d) /\ BestRank(c) = BestRank(d) /\ c < d
Candidates == Range(dense) \cup Range(sparse)
\* The sort: a candidate stands behind those that outrank it.
Standing(c) == Cardinality({d \in Candidates : d = c \/ Outranks(d, c)})
Fused == [n \in 1 .. Cardinality(Candidates) |-> CHOOSE c \in Candidates : Standing(c) = n]

\* What a loop over a list keeps of it: the elements at some places, in order.
KeptAt(list, places) ==
  [n \in 1 .. Cardinality(places) |->
     list[CHOOSE i \in places : Cardinality({j \in places : j <= i}) = n]]

\* deduplicateByText: the first of each text stays.
FirstsOf(list) ==
  {i \in DOMAIN list : \A j \in 1 .. i - 1 : index.text[list[j]] # index.text[list[i]]}
Deduplicated(list) == KeptAt(list, FirstsOf(list))

Cut(list) == SubSeq(list, 1, IF Len(list) < TopN THEN Len(list) ELSE TopN)
\* Faulty: the list is cut before its duplicates are collapsed.
CutFirst(list) == Deduplicated(Cut(list))
Chosen(list) == Cut(Deduplicated(list))

\* decideAbstention, with no candidate or with a score below the threshold.
Abstains(list) == list = <<>> \/ Score(Head(list)) < index.threshold

-----------------------------------------------------------------------------
\* embedOrFail.
EmbedQuery ==
  /\ search = "embedding"
  /\ search' \in {"searching", "failed"}
  /\ UNCHANGED <<index, active, dense, sparse, selected, chunks>>

\* The two queries run at one time: each sees the chunks that are active then.
SearchDense ==
  /\ search = "searching" /\ dense = NotYet
  /\ \/ dense' \in Rankings(active) /\ UNCHANGED search
     \/ search' = "failed" /\ UNCHANGED dense
  /\ UNCHANGED <<index, active, sparse, selected, chunks>>

SearchSparse ==
  /\ search = "searching" /\ sparse = NotYet
  /\ \/ sparse' \in Rankings(active) /\ UNCHANGED search
     \/ search' = "failed" /\ UNCHANGED sparse
  /\ UNCHANGED <<index, active, dense, selected, chunks>>

\* fuse, deduplicate, cut, decide.
FuseAndDecide ==
  /\ search = "searching" /\ NotYet \notin {dense, sparse}
  /\ IF Abstains(Deduplicated(Fused))
     THEN search' = "abstained" /\ UNCHANGED selected
     ELSE search' = "reading" /\ selected' = Chosen(Fused)
  /\ UNCHANGED <<index, active, dense, sparse, chunks>>

\* readChunks, in the order of the ranking; a chunk that is gone is dropped.
ReadChunks ==
  /\ search = "reading"
  /\ \/ /\ search' = "answered"
        /\ chunks' = KeptAt(selected, {i \in DOMAIN selected : selected[i] \in active})
     \/ search' = "failed" /\ UNCHANGED chunks
  /\ UNCHANGED <<index, active, dense, sparse, selected>>

\* The importer deactivates a chunk.
Deactivate(c) ==
  /\ c \in active
  /\ active' = active \ {c}
  /\ UNCHANGED <<index, dense, sparse, selected, chunks, search>>

-----------------------------------------------------------------------------
RetrievalInit ==
  /\ index \in [text : [Chunks -> Passages], threshold : Thresholds]
  /\ active \in SUBSET Chunks
  /\ dense = NotYet /\ sparse = NotYet
  /\ selected = <<>> /\ chunks = <<>>
  /\ search = "embedding"

RetrievalNext ==
  \/ EmbedQuery \/ SearchDense \/ SearchSparse \/ FuseAndDecide \/ ReadChunks
  \/ \E c \in Chunks : Deactivate(c)

RetrievalSpec == RetrievalInit /\ [][RetrievalNext]_retrievalVars

-----------------------------------------------------------------------------
RetrievalTypeOK ==
  /\ index \in [text : [Chunks -> Passages], threshold : Thresholds]
  /\ active \subseteq Chunks
  /\ {dense, sparse} \subseteq Seq(Chunks) \cup {NotYet}
  /\ {selected, chunks} \subseteq Seq(Chunks)
  /\ search \in {"embedding", "searching", "reading", "answered", "abstained", "failed"}

TextsOf(S) == {index.text[c] : c \in S}
Smaller(a, b) == IF a < b THEN a ELSE b

\* Passages that occur in several copies do not crowd out the others: no text
\* is chosen twice, and there are as many as were asked for, or all there are.
NoTextCrowdsOut ==
  search = "reading" =>
    /\ Cardinality(TextsOf(Range(selected))) = Len(selected)
    /\ Len(selected) = Smaller(TopN, Cardinality(TextsOf(Candidates)))

\* A chunk that both lists put at least as high as a chosen one, and one of
\* them higher, is chosen before it, or a copy of it is.
AgreedRankingHolds ==
  search = "reading" =>
    \A c \in Candidates, i \in DOMAIN selected :
      /\ RankIn(dense, c) <= RankIn(dense, selected[i])
      /\ RankIn(sparse, c) <= RankIn(sparse, selected[i])
      /\ c # selected[i]
      => \E j \in 1 .. i : index.text[selected[j]] = index.text[c]

\* An answer without chunks that is not an abstention, of which the tutor makes
\* one: every chunk that was chosen has been deactivated since the search.  An
\* abstention of a search that has found something is one on its score: no
\* chunk it found, duplicates included, is at the threshold.
EmptyForAReason ==
  /\ search = "answered" /\ chunks = <<>> => Range(selected) \cap active = {}
  /\ search = "abstained" => \A c \in Candidates : Score(c) < index.threshold
  /\ search \in {"reading", "answered"} => \E c \in Candidates : Score(c) >= index.threshold

\* Types, and what a search answers.
RetrievalInv == RetrievalTypeOK /\ NoTextCrowdsOut /\ AgreedRankingHolds /\ EmptyForAReason

=============================================================================

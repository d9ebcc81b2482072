-------------------------- MODULE CitationFilter --------------------------
(***************************************************************************)
(* The filter between the model and the student: it takes citation markers *)
(* out of a text that arrives in chunks cut anywhere, also inside a        *)
(* marker.  A marker opens with the two symbols Open (the code's seven,    *)
(* "[chunk:") and ends with Close; every other symbol is text or an id.    *)
(***************************************************************************)
EXTENDS Naturals, Sequences, SequencesExt

CONSTANTS
  Known,  \* symbols that are the id of a retrieved chunk
  Other,  \* symbols of text that are part of no marker and no known id
  MaxId,  \* MAX_CITATION_ID_CHARS
  Texts   \* texts that the model may send

Open == <<"[", ":">>
Close == "]"
Symbols == {"[", ":", "]"} \cup Known \cup Other

ASSUME FilterAssumption == MaxId \in Nat \ {0} /\ Texts \subseteq Seq(Symbols)

VARIABLES
  unread,   \* what the model has still to send
  pending,  \* text that cannot be released yet
  emitted,  \* text released to the student
  cited,    \* seenCitations, in order
  flushed,  \* flush has run
  whole     \* history: the model's text

filterVars == <<unread, pending, emitted, cited, flushed, whole>>

-----------------------------------------------------------------------------
\* The first i where `part` starts in `text`, or 0.
IndexOf(text, part) ==
  LET starts == {i \in 1 .. Len(text) : IsPrefix(part, SubSeq(text, i, Len(text)))}
  IN IF starts = {} THEN 0 ELSE CHOOSE i \in starts : \A j \in starts : i <= j

From(text, i) == SubSeq(text, i, Len(text))
Upto(text, i) == SubSeq(text, 1, i)

\* resolve: an id that is known is cited once; any other is dropped.
Cite(seen, id) ==
  IF Len(id) = 1 /\ id[1] \in Known /\ id[1] \notin Range(seen) THEN Append(seen, id[1]) ELSE seen

\* unsafeTailLength: how much of the end could be the start of a marker.
UnsafeTailLength(text) == IF text # <<>> /\ Last(text) = "[" THEN 1 ELSE 0

\* One turn of drain's loop, on what it has read: text to release, text to
\* hold, citations.  `more` says that the loop goes on.
Result(out, held, seen, more) == [out |-> out, held |-> held, seen |-> seen, more |-> more]
\* Faulty: without a marker in sight all of the text is released.
ReleaseAll(s) == Result(s.out \o s.held, <<>>, s.seen, FALSE)
NoMarker(s) ==
  LET keep == Len(s.held) - UnsafeTailLength(s.held)
  IN Result(s.out \o Upto(s.held, keep), From(s.held, keep + 1), s.seen, FALSE)
TurnOfLoop(s) ==
  LET open == IndexOf(s.held, Open)
      out == s.out \o Upto(s.held, open - 1)
      held == From(s.held, open)
      close == IndexOf(held, <<Close>>)
  IN IF open = 0 THEN NoMarker(s)
     ELSE IF close > 0
       THEN Result(out, From(held, close + 1), Cite(s.seen, SubSeq(held, 3, close - 1)), TRUE)
     ELSE IF Len(held) - 2 > MaxId
       THEN Result(out \o Open, From(held, 3), s.seen, TRUE)
     ELSE Result(out, held, s.seen, FALSE)

\* drain: the loop ends within one turn for every symbol.
NextTurn(s) == IF s.more THEN TurnOfLoop(s) ELSE s
TurnsOfLoop(text, seen) ==
  LET loop[n \in 0 .. Len(text) + 1] ==
        IF n = 0 THEN Result(<<>>, text, seen, TRUE) ELSE NextTurn(loop[n - 1])
  IN loop
Drain(text, seen) == TurnsOfLoop(text, seen)[Len(text) + 1]

-----------------------------------------------------------------------------
\* push, of a chunk of any length.
Push ==
  /\ \E n \in 1 .. Len(unread) :
       LET drained == Drain(pending \o Upto(unread, n), cited)
       IN /\ unread' = From(unread, n + 1)
          /\ pending' = drained.held
          /\ emitted' = emitted \o drained.out
          /\ cited' = drained.seen
  /\ UNCHANGED <<flushed, whole>>

\* flush, after the last chunk: what is held goes out as it is.
Flush ==
  /\ unread = <<>> /\ ~flushed
  /\ LET drained == Drain(pending, cited)
     IN /\ emitted' = emitted \o drained.out \o drained.held
        /\ cited' = drained.seen
  /\ pending' = <<>>
  /\ flushed' = TRUE
  /\ UNCHANGED <<unread, whole>>

FilterInit ==
  /\ whole \in Texts
  /\ unread = whole
  /\ pending = <<>> /\ emitted = <<>> /\ cited = <<>>
  /\ flushed = FALSE

FilterNext == Push \/ Flush

FilterSpec == FilterInit /\ [][FilterNext]_filterVars

-----------------------------------------------------------------------------
(* What the text of an answer ought to become, defined on the whole of it. *)

\* The marker that starts at i ends at the first Close after it.
EndOfMarker(text, i) == i + IndexOf(From(text, i), <<Close>>) - 1
StartsMarker(text, i) ==
  /\ IsPrefix(Open, From(text, i))
  /\ IndexOf(From(text, i), <<Close>>) > 0
ShortIds(text) ==
  \A i \in 1 .. Len(text) : IsPrefix(Open, From(text, i)) =>
    IF StartsMarker(text, i) THEN EndOfMarker(text, i) - i - 2 <= MaxId
    ELSE Len(text) - i - 1 <= MaxId

\* Where a reader of the text stands after n markers and symbols.
ReadTo(at, out, ids) == [at |-> at, text |-> out, ids |-> ids]
ReadOn(text, r) ==
  IF r.at > Len(text) THEN r
  ELSE IF StartsMarker(text, r.at)
    THEN ReadTo(EndOfMarker(text, r.at) + 1, r.text,
                Cite(r.ids, SubSeq(text, r.at + 2, EndOfMarker(text, r.at) - 1)))
  ELSE ReadTo(r.at + 1, Append(r.text, text[r.at]), r.ids)
Reader(text) ==
  LET reader[n \in 0 .. Len(text)] ==
        IF n = 0 THEN ReadTo(1, <<>>, <<>>) ELSE ReadOn(text, reader[n - 1])
  IN reader
Markers(text) == Reader(text)[Len(text)]

FilterTypeOK ==
  /\ {whole, unread, pending, emitted} \subseteq Seq(Symbols)
  /\ cited \in Seq(Known)
  /\ flushed \in BOOLEAN

\* However the model's text is cut into chunks, the student ends up with the
\* text less its markers, and is shown at every moment a prefix of that; the
\* citations are those of its markers, in order.  (Markers whose ids are longer
\* than MaxId make the output depend on the cuts, and are left out.)
ChunksDoNotMatter ==
  ShortIds(whole) =>
    LET answer == Markers(whole)
    IN /\ IsPrefix(emitted, answer.text)
       /\ IsPrefix(cited, answer.ids)
       /\ flushed => emitted = answer.text /\ cited = answer.ids

\* No marker starts right after a "[" of the text.
Apart(text) == \A i \in 2 .. Len(text) : StartsMarker(text, i) => text[i - 1] # Open[1]

\* What is sent contains no marker or part of one: wherever the chunks are cut,
\* no opening reaches the student before the end, and one that flush releases
\* has no end after it.  (Between a "[" and a ":" a marker leaves an opening
\* behind when it is taken out; the filter does not look for it.)
NoMarkerIsSent ==
  ShortIds(whole) /\ Apart(whole) =>
    \A i \in 1 .. Len(emitted) : IsPrefix(Open, From(emitted, i)) =>
      flushed /\ ~StartsMarker(emitted, i)

\* Types, independence of the cuts, and no marker in what is sent.
FilterInv == FilterTypeOK /\ ChunksDoNotMatter /\ NoMarkerIsSent

=============================================================================

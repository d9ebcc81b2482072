---------------------------- MODULE MCServices ----------------------------
(***************************************************************************)
(* Sixteen protocols of the service for TLC.  They share no variable: a   *)
(* behaviour follows one of them from its initial states, and TLC visits   *)
(* the states of each, not their product.                                  *)
(***************************************************************************)
EXTENDS Accounts, Verification, FamilyLinks, RateLimiter, Tutor, CitationFilter,
        WorkerShutdown, WeeklyDigest, ServerShutdown, QuietHours, ChapterGraph,
        Retrieval, CorpusImport, Alerting, ChildAccess, WeekReport, TLC

CONSTANT MaxPieces  \* bound on the pieces that the filter's texts are made of

\* Stray symbols, openings without an end, and whole markers.
Pieces == {<<s>> : s \in {"[", ":", "]"} \cup Other} \cup {Open}
            \cup {Open \o <<id, Close>> : id \in Known}
PieceTexts == {FlattenSeq(pieces) : pieces \in BoundedSeq(Pieces, MaxPieces)}

VARIABLE part  \* the protocol that this behaviour follows

vars == <<accountVars, verificationVars, familyVars, limiterVars, tutorVars,
          filterVars, shutdownVars, digestVars, serverVars, quietVars, graphVars,
          retrievalVars, corpusVars, alertVars, accessVars, reportVars, part>>

Parts == {"Account", "Address", "Family", "Limiter", "Chat", "Filter", "Shutdown",
          "Digest", "Weeks", "Server", "Planning", "Graph", "Search", "Corpus", "Alerts",
          "Access", "Report"}

\* The variables of the other protocols stay as they are.
OthersRest ==
  /\ part' = part
  /\ IF part = "Account" THEN TRUE ELSE UNCHANGED accountVars
  /\ IF part = "Address" THEN TRUE ELSE UNCHANGED verificationVars
  /\ IF part = "Family" THEN TRUE ELSE UNCHANGED familyVars
  /\ IF part = "Limiter" THEN TRUE ELSE UNCHANGED limiterVars
  /\ IF part = "Chat" THEN TRUE ELSE UNCHANGED tutorVars
  /\ IF part = "Filter" THEN TRUE ELSE UNCHANGED filterVars
  /\ IF part = "Shutdown" THEN TRUE ELSE UNCHANGED shutdownVars
  /\ IF part \in {"Digest", "Weeks"} THEN TRUE ELSE UNCHANGED digestVars
  /\ IF part = "Server" THEN TRUE ELSE UNCHANGED serverVars
  /\ IF part = "Planning" THEN TRUE ELSE UNCHANGED quietVars
  /\ IF part = "Graph" THEN TRUE ELSE UNCHANGED graphVars
  /\ IF part = "Search" THEN TRUE ELSE UNCHANGED retrievalVars
  /\ IF part = "Corpus" THEN TRUE ELSE UNCHANGED corpusVars
  /\ IF part = "Alerts" THEN TRUE ELSE UNCHANGED alertVars
  /\ IF part = "Access" THEN TRUE ELSE UNCHANGED accessVars
  /\ IF part = "Report" THEN TRUE ELSE UNCHANGED reportVars

AnyPlan ==
  [at |-> 0, exempt |-> TRUE, zone |-> [offset |-> 0, change |-> 0, by |-> 0],
   window |-> [start |-> 0, end |-> 0]]
AnyIndex ==
  [text |-> [c \in Chunks |-> CHOOSE p \in Passages : TRUE], threshold |-> 0]

\* A protocol with many initial states has one of them while another is followed.
Init ==
  /\ part \in Parts
  /\ IF part = "Filter" THEN TRUE ELSE whole = <<>>
  /\ IF part = "Planning" THEN TRUE ELSE plan = AnyPlan
  /\ IF part = "Graph" THEN TRUE ELSE nodes = <<>> /\ asked = {}
  /\ IF part = "Search" THEN TRUE ELSE index = AnyIndex /\ active = {}
  /\ AccountsInit /\ VerificationInit /\ FamilyInit /\ LimiterInit /\ TutorInit
  /\ FilterInit /\ ShutdownInit /\ DigestInit /\ ServerInit /\ QuietInit
  /\ IF part = "Report" THEN TRUE ELSE earlier = <<>>
  /\ GraphInit /\ RetrievalInit /\ CorpusInit /\ AlertInit /\ AccessInit /\ ReportInit
  /\ IF part = "Alerts" THEN TRUE ELSE rule = "readiness_failing"
  /\ part # "Limiter" => \A c \in Attempts : attempt[c].on = CHOOSE i \in Replicas : TRUE

Account == part = "Account" /\ OthersRest /\ AccountsNext
Address == part = "Address" /\ OthersRest /\ VerificationNext
Family == part = "Family" /\ OthersRest /\ FamilyNext
Limiter == part = "Limiter" /\ OthersRest /\ LimiterNext
Chat == part = "Chat" /\ OthersRest /\ TutorNext
Filter == part = "Filter" /\ OthersRest /\ FilterNext
Shutdown == part = "Shutdown" /\ OthersRest /\ ShutdownNext
\* One week's digest, with all that happens in its week; and the digests of two
\* weeks, when nothing is practised, evicted or ended.
Digest == part = "Digest" /\ OthersRest /\ DigestNext /\ WeekOf(today') = 0
TwoWeeks ==
  part = "Weeks" /\ OthersRest /\ DigestNext /\ UNCHANGED <<practised, evicted, linked>>
Server == part = "Server" /\ OthersRest /\ ServerNext
Planning == part = "Planning" /\ OthersRest /\ QuietNext
Graph == part = "Graph" /\ OthersRest /\ GraphNext
Retrieving == part = "Search" /\ OthersRest /\ RetrievalNext
Importing == part = "Corpus" /\ OthersRest /\ CorpusNext
Alarming == part = "Alerts" /\ OthersRest /\ AlertNext
Viewing == part = "Access" /\ OthersRest /\ AccessNext
Reporting == part = "Report" /\ OthersRest /\ ReportNext

Next ==
  \/ Account \/ Address \/ Family \/ Limiter \/ Chat \/ Filter \/ Shutdown \/ Digest
  \/ TwoWeeks \/ Server \/ Planning \/ Graph \/ Retrieving \/ Importing \/ Alarming
  \/ Viewing \/ Reporting

Spec == Init /\ [][Next]_vars

\* The configuration gives requests, visitors, callers, attempts, deliveries,
\* clients, importers, workers and lookups the same members.  No property of this run is a liveness property.
Symmetry == Permutations(Requests)

=============================================================================

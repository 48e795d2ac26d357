------------------------------ MODULE OneRead ------------------------------
(***************************************************************************)
(* One read of a graph that needs no grammar: a recall, the session's      *)
(* prime, a search, a chain, a copy of one project, the gaps; and a date   *)
(* read back.  A read changes nothing, so a behaviour is a graph and what  *)
(* is asked of it, then the answer.                                        *)
(*                                                                         *)
(* What is asked is [kind, ...]: a "recall" [id, depth, focus], a "share"  *)
(* [id, depth], a "prime" [id], a "chain" [text, depth], a "search"        *)
(* [text], the "gaps", a "date" [phrase, today].                           *)
(***************************************************************************)
EXTENDS GraphReads

D == INSTANCE Dates

CONSTANTS
    Reads,          \* what may be asked of which graph: pairs <<graph, asked>>
    NoAnswer, ChainLimit

\* A graph whose nodes have ids of their own.
IsGraph(g) ==
    /\ IsSeq(g.nodes) /\ IsSeq(g.links)
    /\ \A n \in ToSet(g.nodes) : {"id", "model", "parts", "dead"} \subseteq DOMAIN n /\ IsSeq(n.parts)
    /\ \A m, n \in ToSet(g.nodes) : m.id = n.id => m = n

\* A copy is made of a live project, to a depth that the command line knows.
ASSUME ShareAssumption ==
    \A r \in Reads : r[2].kind = "share" =>
        /\ IsGraph(r[1]) /\ r[2].depth \in 1..2
        /\ \E n \in ToSet(r[1].nodes) : n.id = r[2].id /\ ~n.dead /\ n.model = "Project"

\* The range a phrase is understood as is one of calendar days, and the years to be named
\* are those that words for a year can carry.
ASSUME DateAssumption ==
    \A r \in Reads : r[2].kind = "date" => D!Tellable(D!RangeOf(r[2].phrase, r[2].today))

\* A recall starts at a node of a graph whose nodes have dates, with finitely many words in
\* mind; rarities are numbers, for all the links that a node may have.
ASSUME WalkAssumption ==
    /\ Beam \in Int /\ HubPicks \in Int
    /\ \A r \in Reads : r[2].kind = "recall" =>
        /\ IsSeq(r[1].links) /\ IsSeq(r[1].nodes) /\ None \notin Known(r[1])
        /\ \A n \in ToSet(r[1].nodes) : n.day["updatedAt"] \in Int
        /\ r[2].id \in Known(r[1]) /\ r[2].depth \in Int
        /\ IsFiniteSet(FocusOf(r[1], r[2].id, r[2].focus))
        /\ \A n \in 1..(2 * Len(r[1].links)) : \A c \in 1..n : Rare[n][c] \in Int

VARIABLES graph, asked, answer

reading == <<graph, asked, answer>>

ReadInit ==
    /\ \E r \in Reads : graph = r[1] /\ asked = r[2]
    /\ answer = NoAnswer

Reports ==
    {"date", "recall", "prime", "search", "chain", "share", "gaps"}

Report ==
    CASE asked.kind = "date" -> D!Label(D!RangeOf(asked.phrase, asked.today))
      [] asked.kind = "recall" -> RecallFrom(graph, asked.id, asked.depth, 0, asked.focus)
      [] asked.kind = "prime" -> PrimeLinks(graph, asked.id, TopN)
      [] asked.kind = "search" -> Search(graph, asked.text, "", TopN)
      [] asked.kind = "chain" -> Chain(graph, asked.text, asked.depth, ChainLimit)
      [] asked.kind = "share" -> Share(graph, asked.id, asked.depth)
      [] asked.kind = "gaps" -> Gaps(graph)

Read ==
    /\ answer = NoAnswer /\ asked.kind \in Reports
    /\ answer' = Report
    /\ UNCHANGED <<graph, asked>>

ReadSpec == ReadInit /\ [][Read]_reading

Given(kind) == answer # NoAnswer /\ asked.kind = kind

-----------------------------------------------------------------------------
\* Properties

\* "made from the range alone, so a plan and a query compiled from it read back the same
\* way" (dates.py:13-16)
DatesReadBack == asked.kind = "date" => D!ReadsBack(asked.phrase, asked.today)

\* Who is one open link away, and who two.
OneHop(id) == {n \in Live(graph) \ {id} : Adjacent(graph, id, n)}
TwoHops(id) == {n \in Live(graph) \ (OneHop(id) \cup {id}) :
                  \E m \in OneHop(id) : Adjacent(graph, m, n)}

\* A recall shows all that is live and one open link away, whatever its depth, and nothing
\* twice.  Of what is two away it misses nothing, and shows nothing else, but where a hub
\* would flood it; and a hop that is not ranked away follows every link.
RecallReaches ==
    Given("recall") =>
        LET via == {n \in ToSet(answer.shown) : n.via # None}
            direct == ToSet(answer.shown) \ via
            others(S) == {n.other : n \in S}
            flood == UNION {others(ToSet(answer.hubs[h])) : h \in DOMAIN answer.hubs}
            further == IF asked.depth <= 1 THEN {} ELSE TwoHops(asked.id)
        IN /\ others(direct) = OneHop(asked.id)
           /\ Cardinality(others(ToSet(answer.shown))) = Len(answer.shown)
           /\ asked.depth <= 2 => others(via) \cup flood \subseteq further
           /\ asked.depth <= 2 /\ Cardinality(OneHop(asked.id)) <= Beam /\ DOMAIN answer.hubs = {}
                => others(via) = further

\* "The Project node, everything linked to it, and one hop further out from those
\* memories; never expanded THROUGH a concept or another Project/Person/Company"
\* (share.py:10-20): exactly that is in the copy, whichever way round it is reached, and
\* of what it holds a copy is a copy.
Theirs(id, n) ==
    \/ n \in OneHop(id) /\ ModelOf(graph, n) \notin Private
    \/ /\ asked.depth = 2
       /\ n \in TwoHops(id) /\ ModelOf(graph, n) \notin Private \cup HubModels
       /\ \E m \in OneHop(id) :
            /\ ModelOf(graph, m) \notin Private \cup HubModels \cup ConceptTypes
            /\ Adjacent(graph, m, n)

ShareIsTheProject ==
    Given("share") =>
        /\ Known(answer) = {asked.id} \cup {n \in Live(graph) : Theirs(asked.id, n)}
        /\ \A n \in ToSet(answer.nodes) : \A p \in ToSet(n.parts) : p.key \notin Provenance
        /\ Share(answer, asked.id, asked.depth) = answer

=============================================================================

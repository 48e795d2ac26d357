-------------------------- MODULE MCAmbientRecall --------------------------
(* AmbientRecall on a graph of three versions: the second adds a memory,    *)
(* the third forgets the first one.  Two texts are as close as the share    *)
(* of what they mean in common.                                             *)
EXTENDS AmbientRecall

MCLog == <<<<69>>, <<110, 69>>, <<139, 92, 69>>, <<161, 110, 85, 69>>, <<179, 125, 98, 81, 69>>>>

Meaning1(w) == IF w \in {"tile", "map"} THEN "map"
               ELSE IF w \in {"cache", "stale", "old"} THEN "old" ELSE w
MCClose(a, b) ==
    LET m == {Meaning1(a[i]) : i \in DOMAIN a}  n == {Meaning1(b[i]) : i \in DOMAIN b}
    IN (100 * Cardinality(m \cap n)) \div Cardinality(m \cup n)

Part(key, texts) == [key |-> key, texts |-> texts]
N(id, model, name, parts, dead) ==
    [id |-> id, model |-> model, name |-> name, parts |-> parts, dead |-> dead]
L(rel, s, t, open) == [rel |-> rel, source |-> s, target |-> t, open |-> open]

Atlas == N(1, "Project", <<"atlas">>, <<>>, FALSE)
Cache(dead) == N(2, "Decision", <<"tile", "cache">>, <<Part("rationale", <<<<"reader">>>>)>>, dead)
Reader == N(3, "Pattern", <<"reader">>, <<>>, FALSE)
Index == N(4, "Problem", <<"tile", "index">>, <<Part("aliases", <<<<"old", "map">>>>)>>, FALSE)
Topic == N(5, "Concept", <<"index">>, <<>>, FALSE)

MCGraphs == <<
    [nodes |-> <<Atlas, Cache(FALSE), Reader, Topic>>,
     links |-> <<L("affects", 2, 1, TRUE), L("hasConcept", 3, 5, TRUE)>>],
    [nodes |-> <<Atlas, Cache(FALSE), Reader, Index, Topic>>,
     links |-> <<L("affects", 2, 1, TRUE), L("hasConcept", 3, 5, FALSE)>>],
    [nodes |-> <<Atlas, Cache(TRUE), Reader, Index, Topic>>,
     links |-> <<L("affects", 2, 1, FALSE), L("affects", 4, 1, TRUE)>>] >>

MCProject == <<"atlas">>

MCText == [words |-> <<<<"tile", "cache">>>>,
           long |-> <<<<"the", "reader">>, <<"tile", "index">>>>,
           meant |-> <<<<"stale", "map">>>>]
MCQuestions == [words |-> <<"q1">>, long |-> <<"q1", "q2">>, meant |-> <<>>]

Entry(f, mine, model, name, text) ==
    [file |-> f, mine |-> mine, model |-> model, name |-> name, text |-> text]
MCEntries == <<
    Entry("theirs", FALSE, "Decision", <<"tile", "cache">>, <<"tile", "cache", "cold">>),
    Entry("theirs", FALSE, "Problem", <<"cold", "map">>, <<"cold", "map", "tile">>),
    Entry("ours", TRUE, "Decision", <<"tile", "index">>, <<"tile", "index", "map">>) >>
=============================================================================

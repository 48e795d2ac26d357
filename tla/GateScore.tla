----------------------------- MODULE GateScore -----------------------------
(***************************************************************************)
(* How the gate weighs memories against a prompt (gate/recall.py), which   *)
(* memory_search and graph chains share (tools/search.py, chain.py), and   *)
(* its second channel, meaning (gate/semantic.py).                         *)
(*                                                                         *)
(* A text is a sequence of words; a prompt a sequence of sentences.  The   *)
(* encoder is external: Close(a, b) is the cosine of two texts in          *)
(* hundredths.  Rarity, ln(1 + n/c), is Log[n][c] in hundredths, and a     *)
(* score twice that, so that PROX_BOOST's half of it is whole.             *)
(***************************************************************************)
EXTENDS Integers, Sequences, FiniteSets, SequencesExt, FiniteSetsExt, Functions

CONSTANTS
    Stop,           \* words that are no terms
    Log,
    Close(_, _),
    PhraseGap, SegmentMinTerms,
    AbsMin, TopN, ClusterFactor,        \* MARGIN and PROX_BOOST are 3/2
    SemMin, SemGap, SearchSemMin,
    Seeds

\* A sequence, of whatever it holds.
IsSeq(s) == s \in Seq(ToSet(s))

\* The subsequence at these places.
Nth(places, k) == CHOOSE i \in places : Cardinality({j \in places : j <= i}) = k
Picked(s, places) == [k \in 1..Cardinality(places) |-> s[Nth(places, k)]]

ConceptTypes == {"Skill", "Concept", "Constraint", "Preference"}
EntityModels == {"Project", "Person", "Company", "Technology"}

-----------------------------------------------------------------------------
\* Words

\* The terms of a text with their places in it.
TermsPos(text) ==
    SelectSeq([i \in DOMAIN text |-> [at |-> i, word |-> text[i]]],
              LAMBDA t : t.word \notin Stop)

Words(pos) == {pos[i].word : i \in DOMAIN pos}
Bigrams(pos) ==
    {<<pos[i].word, pos[i + 1].word>> :
        i \in {i \in 1..(Len(pos) - 1) : pos[i + 1].at - pos[i].at <= PhraseGap}}

Segments(prompt) ==
    LET whole == FlattenSeq(prompt) IN
    {whole} \cup (IF Len(TermsPos(whole)) < SegmentMinTerms THEN {}
                  ELSE {s \in ToSet(prompt) : Len(TermsPos(s)) >= 2})

QueryViews(prompt) ==
    {[terms |-> Words(TermsPos(s)), bigrams |-> Bigrams(TermsPos(s))] : s \in Segments(prompt)}

-----------------------------------------------------------------------------
\* The corpus.  A graph is [nodes, links]: a node [id, model, name, parts, dead]
\* with its properties in parts, aliases being several texts; a link
\* [rel, source, target, open].

IsConcept(node) == node.model \in ConceptTypes

NodeOf(g, id) == CHOOSE n \in ToSet(g.nodes) : n.id = id

\* Labels of the concepts a node is linked to by a link that is not closed.
ConceptLabels(g, node) ==
    LET labels == SelectSeq(g.links, LAMBDA l :
            /\ l.rel = "hasConcept" /\ l.source = node.id /\ l.open
            /\ IsConcept(NodeOf(g, l.target)))
    IN [i \in DOMAIN labels |-> NodeOf(g, labels[i].target).name]

\* Positions start again with every label, so the last word before one and its first
\* count as a phrase.
Doc(g, node) ==
    LET body == FlattenSeq([i \in DOMAIN node.parts |-> FlattenSeq(node.parts[i].texts)])
        labels == ConceptLabels(g, node)
        name == TermsPos(node.name)
        all == TermsPos(node.name \o body) \o FlattenSeq([i \in DOMAIN labels |-> TermsPos(labels[i])])
    IN [id |-> node.id, model |-> node.model, name |-> node.name,
        nameTerms |-> Words(name), terms |-> Words(all),
        nameBigrams |-> Bigrams(name),
        bigrams |-> Bigrams(all) \cup UNION {Bigrams(TermsPos(labels[i])) : i \in DOMAIN labels},
        fields |-> {node.name} \cup UNION {ToSet(node.parts[i].texts) : i \in DOMAIN node.parts}]

Corpus(g, includeConcepts) ==
    LET kept == Picked(g.nodes, {i \in DOMAIN g.nodes :
                    ~g.nodes[i].dead /\ (includeConcepts \/ ~IsConcept(g.nodes[i]))})
    IN [i \in DOMAIN kept |-> Doc(g, kept[i])]

\* The project's node and everything one open link away.
Neighbourhood(g, project) ==
    LET mine == {n.id : n \in {n \in ToSet(g.nodes) :
                    n.model = "Project" /\ n.name = project /\ ~n.dead}}
        open == {l \in ToSet(g.links) : l.open}
    IN mine \cup {l.target : l \in {l \in open : l.source \in mine}}
            \cup {l.source : l \in {l \in open : l.target \in mine}}

-----------------------------------------------------------------------------
\* Scores

Idf(docs) ==
    LET n == Len(docs) IN
    [t \in UNION {docs[i].terms : i \in DOMAIN docs} |->
        Log[n][Cardinality({i \in DOMAIN docs : t \in docs[i].terms})]]

Rarity(idf, t) == IF t \in DOMAIN idf THEN idf[t] ELSE 0

Score(q, d, idf) ==
    LET hits == q.terms \cap d.terms
        words == SumFunction([t \in hits |-> Rarity(idf, t) * (IF t \in d.nameTerms THEN 3 ELSE 1)])
        phrases == SumFunction([b \in q.bigrams \cap d.bigrams |->
                       (Rarity(idf, b[1]) + Rarity(idf, b[2]))
                       * (IF b \in d.nameBigrams THEN 3 ELSE 1)])
        n == Cardinality(q.terms)
    IN IF n = 0 THEN 0 ELSE ((words + phrases) * (n + Cardinality(hits))) \div n

ScoreViews(views, d, idf) == Max({Score(q, d, idf) : q \in views})

\* The indices of a sequence that satisfy a test, in order.
Where(s, Test(_)) == SelectSeq([i \in DOMAIN s |-> i], Test)

\* The first k of a sequence, or all of it.
Top(s, k) == SubSeq(s, 1, Min({k, Len(s)}))

Before(scored, i) ==
    {j \in DOMAIN scored : scored[j].score > scored[i].score
                          \/ (scored[j].score = scored[i].score /\ j < i)}

\* Best first, in the corpus's order among equals, as Python's stable sort of recall.py
\* has them; semantic.py's np.argsort may give equals in any order.  No property reads
\* the order of equals.
Ranked(scored) ==
    [k \in DOMAIN scored |->
        scored[CHOOSE i \in DOMAIN scored : Cardinality(Before(scored, i)) = k - 1]]

Scored(prompt, docs, near) ==
    LET idf == Idf(docs) IN
    [i \in DOMAIN docs |->
        [doc |-> docs[i],
         score |-> (ScoreViews(QueryViews(prompt), docs[i], idf)
                    * (IF docs[i].id \in near THEN 3 ELSE 2)) \div 2]]
RankedFor(prompt, docs, near) == Ranked(Scored(prompt, docs, near))

Silence == [group |-> <<>>, similar |-> 0]

\* Inject or stay silent: the best TOP_N of those near the top, when they stand out or
\* are a cluster.
Decide(ranked) ==
    IF ranked = <<>> THEN Silence
    ELSE LET top == ranked[1].score
             band == Picked(ranked, {i \in DOMAIN ranked :
                         ranked[i].score >= AbsMin /\ 3 * ranked[i].score > 2 * top})
             group == Top(band, TopN)
             rest == IF Len(ranked) > Len(group) THEN ranked[Len(group) + 1].score ELSE 0
         IN CASE group = <<>> -> Silence
              [] group # <<>> /\ 2 * top >= 3 * rest -> [group |-> group, similar |-> 0]
              [] group # <<>> /\ 2 * top < 3 * rest /\ top >= ClusterFactor * AbsMin ->
                    [group |-> group, similar |-> Len(band) - Len(group)]
              [] OTHER -> Silence

-----------------------------------------------------------------------------
\* Meaning

Meaning(views, d) == Max({Close(v, f) : v \in views, f \in d.fields})

ScoredByMeaning(prompt, docs) ==
    [i \in DOMAIN docs |-> [doc |-> docs[i], score |-> Meaning(Segments(prompt), docs[i])]]
RankedByMeaning(prompt, docs) == Ranked(ScoredByMeaning(prompt, docs))

\* The meaning channel speaks for one memory, never for an entity.
SemanticPick(prompt, docs) ==
    LET all == RankedByMeaning(prompt, docs)
        ranked == Picked(all, {i \in DOMAIN all : all[i].doc.model \notin EntityModels})
        second == IF Len(ranked) > 1 THEN ranked[2].score ELSE 0
    IN IF /\ ranked # <<>>
          /\ ranked[1].score >= SemMin
          /\ ranked[1].score - second >= SemGap
       THEN <<ranked[1]>> ELSE <<>>

-----------------------------------------------------------------------------
\* memory_search and the entry points of a chain

WordMatches(text, docs) ==
    LET idf == Idf(docs)
        q == [terms |-> Words(TermsPos(text)), bigrams |-> Bigrams(TermsPos(text))]
    IN SelectSeq(Ranked([i \in DOMAIN docs |-> [doc |-> docs[i], score |-> Score(q, docs[i], idf)]]),
                 LAMBDA r : r.score > 0)

\* The meaning fills the slots that words left.
FillUp(rows, meant, limit) ==
    LET taken == {rows[i].doc : i \in DOMAIN rows}
    IN rows \o Top(SelectSeq(meant, LAMBDA r : r.score >= SearchSemMin /\ r.doc \notin taken),
                   limit - Len(rows))

Search(g, text, model, limit) ==
    LET all == Corpus(g, TRUE)
        docs == IF model = "" THEN all ELSE SelectSeq(all, LAMBDA d : d.model = model)
    IN IF TermsPos(text) = <<>> THEN <<>>
       ELSE FillUp(Top(WordMatches(text, docs), limit), RankedByMeaning(<<text>>, docs), limit)

HalfAsGood(found) == Top(SelectSeq(found, LAMBDA r : 2 * r.score >= found[1].score), Seeds)
EntryPoints(g, text) ==
    LET docs == SelectSeq(Corpus(g, FALSE), LAMBDA d : d.model # "Project")
    IN HalfAsGood(Top(WordMatches(text, docs), 2 * Seeds))

=============================================================================

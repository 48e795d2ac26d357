----------------------------- MODULE Grounding -----------------------------
(***************************************************************************)
(* What each word of a question is taken to mean (ceist/ground.py), with   *)
(* the memory graph's vocabulary (planner.py MemoryVocabulary).            *)
(*                                                                         *)
(* A question is [words, mark]: its words, and whether it ends in a        *)
(* question mark.  Phrases match whole words; the words of the language    *)
(* and of the vocabulary are constants.  A grounding is a record that each *)
(* step extends; nodes and edges are named by their place in it.           *)
(* Positions are four times the word's, so that implied ones fall between. *)
(***************************************************************************)
EXTENDS Matching, TLC

CONSTANTS
    Wh, Aux, Imperative, Filler, Neg, Recent, DateShape, Preps, LeadWords, SubjectWords,
    AboutPhrases,
    TypeWords,      \* word |-> type
    Types,          \* in the alphabet's order
    Relations,      \* sequence of [name, forms, domain, range]
    Values,         \* sequence of [phrase, candidates], a candidate [field, owners]
    DateWords,      \* words that are a date
    DateFields,     \* sequence of [field, label, owners, default, forms]
    DateForms,      \* sequence of [phrase, fields]: what picks a date field
    Implied, Hints, \* word |-> type
    Recallable      \* models of nodes a question may be answered with

NegReach == 4
MaxEdges == 2
MaxVars == 2
MaxAnchors == 2

IsQuestion(q) ==
    q.mark \/ (q.words # <<>> /\ Head(q.words) \in Wh \cup Aux \cup Imperative)

Pos(i) == 4 * (i - 1)
Meaningful(w) == w \notin Stop

ByPos(s) == SortSeq(s, LAMBDA a, b : a.pos < b.pos)
First(s, Test(_)) == SelectSeq(s, Test)[1]

-----------------------------------------------------------------------------
\* Opening words

\* "what do we know about X" asks for X.
AboutLength(words) ==
    Max({0} \cup {Len(p) : p \in {p \in AboutPhrases : IsPrefix(p, words)}})

Opening(words) ==
    LET first == IF words = <<>> THEN "" ELSE words[1]
        howMany == Len(words) > 1 /\ first = "how" /\ words[2] \in {"many", "much"}
    IN [words |-> words,
        wh |-> IF howMany THEN "what" ELSE IF first \in Wh THEN first
               ELSE IF first \in Imperative THEN "what" ELSE "",
        count |-> howMany, about |-> AboutLength(words) > 0,
        consumed |-> (IF first \in Wh \cup Aux \cup Imperative THEN {1} ELSE {})
                     \cup (IF howMany THEN {2} ELSE {}) \cup 1..AboutLength(words),
        taken |-> {}, edges |-> <<>>, values |-> <<>>, dates |-> <<>>, nodes |-> <<>>,
        anchors |-> <<>>, negs |-> <<>>, recent |-> FALSE, contains |-> 0,
        containsNegated |-> FALSE, suggestions |-> 0, settled |-> FALSE,
        loose |-> FALSE, unplaced |-> FALSE, refuse |-> FALSE, subject |-> 0]

-----------------------------------------------------------------------------
\* Phrases: the longest first, where a phrase first occurs, if nothing took that

Longest(entries) ==
    Ranked([i \in DOMAIN entries |-> [entry |-> entries[i], score |-> Len(entries[i].phrase)]])

Places(words, phrase) ==
    {i \in 1..(Len(words) - Len(phrase) + 1) : SubSeq(words, i, i + Len(phrase) - 1) = phrase}

Span(i, phrase) == i..(i + Len(phrase) - 1)

Free(g, phrase) ==
    LET at == Places(g.words, phrase) IN at # {} /\ Span(Min(at), phrase) \cap g.taken = {}

Take(g, phrase) ==
    LET span == Span(Min(Places(g.words, phrase)), phrase)
    IN [g EXCEPT !.taken = @ \cup span, !.consumed = @ \cup span]

At(g, phrase) == Pos(Min(Places(g.words, phrase)))

\* A phrasing that is a type's name is the type where the question names its subject.
JustAType(g, phrase) ==
    LET i == Min(Places(g.words, phrase))
        k == IF phrase[1] \in LeadWords THEN 2 ELSE 1
    IN /\ Len(phrase) = k /\ phrase[k] \in DOMAIN TypeWords
       /\ k = 2 \/ i = 1 \/ g.words[i - 1] \in SubjectWords

Edge(r, pos) ==
    [relation |-> r, pos |-> pos, source |-> 0, target |-> 0, negated |-> FALSE]

GroundRelation(g, f) ==
    IF \/ ~Free(g, f.entry.phrase)
       \/ JustAType(g, f.entry.phrase)
       \/ \E k \in DOMAIN g.edges : g.edges[k].relation = f.entry.relation
    THEN g
    ELSE [Take(g, f.entry.phrase) EXCEPT
            !.edges = Append(@, Edge(f.entry.relation, At(g, f.entry.phrase)))]

GroundRelations(g) ==
    LET forms == FlattenSeq([r \in DOMAIN Relations |-> [k \in DOMAIN Relations[r].forms |->
                    [phrase |-> Relations[r].forms[k], relation |-> r]]])
        found == FoldLeft(GroundRelation, g, Longest(forms))
    IN IF g.about THEN g ELSE [found EXCEPT !.edges = ByPos(@)]

GroundValue(g, v) ==
    IF ~Free(g, v.entry.phrase) THEN g
    ELSE [Take(g, v.entry.phrase) EXCEPT
            !.values = Append(@, [pos |-> At(g, v.entry.phrase), negated |-> FALSE,
                                  candidates |-> v.entry.candidates])]

GroundValues(g) == FoldLeft(GroundValue, g, Longest(Values))

\* The field word nearest before a date picks its field, else the first after it.
FieldsFor(picks, pos) ==
    LET before == {p \in picks : p.pos < pos}
        nearest(S, sign) == CHOOSE p \in S : \A o \in S : sign * p.pos >= sign * o.pos
    IN IF before # {} THEN nearest(before, 1).fields
       ELSE IF picks # {} THEN nearest(picks, -1).fields
       ELSE DateFields

GroundDates(g) ==
    LET at == Where(g.words, LAMBDA i : g.words[i] \in DateWords /\ i \notin g.taken)
        dated == [g EXCEPT !.taken = @ \cup ToSet(at), !.consumed = @ \cup ToSet(at)]
        forms == SelectSeq(Longest(DateForms), LAMBDA f : Free(dated, f.entry.phrase))
        picks == {[pos |-> At(g, forms[k].entry.phrase), fields |-> forms[k].entry.fields] :
                    k \in DOMAIN forms}
        with == FoldLeft(LAMBDA h, f : Take(h, f.entry.phrase), dated, forms)
    IN IF at = <<>> THEN g
       ELSE [with EXCEPT !.dates = [k \in DOMAIN at |->
                [pos |-> Pos(at[k]), negated |-> FALSE, fields |-> FieldsFor(picks, Pos(at[k]))]]]

-----------------------------------------------------------------------------
\* Types

Var(t, pos) == [kind |-> "var", type |-> t, pos |-> pos, doc |-> <<>>, match |-> {}]
Anchor(doc, pos, match) ==
    [kind |-> "anchor", type |-> doc.model, pos |-> pos, doc |-> doc, match |-> match]
VarOf(g, t) == {n \in DOMAIN g.nodes : g.nodes[n].kind = "var" /\ g.nodes[n].type = t}
Vars(g) == {n \in DOMAIN g.nodes : g.nodes[n].kind = "var"}

AddVar(g, t, pos) ==
    IF VarOf(g, t) # {} THEN g ELSE [g EXCEPT !.nodes = Append(@, Var(t, pos))]

GroundWord(g, i) ==
    LET w == g.words[i]
        used == [g EXCEPT !.consumed = @ \cup {i}]
    IN CASE i \in g.consumed -> g
         [] i \notin g.consumed /\ w \in DOMAIN TypeWords -> AddVar(used, TypeWords[w], Pos(i))
         [] i \notin g.consumed /\ w \in Neg -> [used EXCEPT !.negs = Append(@, Pos(i))]
         [] i \notin g.consumed /\ w \in Recent -> [used EXCEPT !.recent = TRUE]
         [] i \notin g.consumed /\ w \in DOMAIN Hints -> AddVar(used, Hints[w], Pos(i))
         [] i \notin g.consumed /\ (w \in Aux \cup Filler \/ (w \in DateShape /\ g.dates # <<>>)) -> used
         [] OTHER -> g

GroundWords(g) ==
    LET h == FoldLeft(GroundWord, g, [i \in DOMAIN g.words |-> i])
    IN IF h.wh \in DOMAIN Implied THEN AddVar(h, Implied[h.wh], 0) ELSE h

-----------------------------------------------------------------------------
\* Named records

Leftover(g) == {i \in DOMAIN g.words : i \notin g.consumed /\ Meaningful(g.words[i])}

\* rank_entities over the planner's corpus, whose aliases name a record as its name does.
RankEntities(docs, left) ==
    LET idf == Idf(docs)
        q == [terms |-> left, bigrams |-> {}]
    IN SelectSeq(Ranked([i \in DOMAIN docs |->
                    [doc |-> docs[i], score |-> Score(q, docs[i], idf)]]),
                 LAMBDA r : r.score > 0)

Expected(g) ==
    UNION {Relations[g.edges[k].relation].domain \cup Relations[g.edges[k].relation].range :
            k \in DOMAIN g.edges}

\* The record named exactly so, then one of a type the relations expect.
Pick(g, ranked, left) ==
    LET exact == SelectSeq(ranked, LAMBDA r : r.doc.nameTerms = left)
        best == IF exact # <<>> THEN exact[1] ELSE ranked[1]
        fit == SelectSeq(Tail(ranked), LAMBDA r :
                  /\ 4 * r.score >= 3 * best.score
                  /\ r.doc.model \in Expected(g) /\ left \cap r.doc.nameTerms # {})
    IN IF Expected(g) # {} /\ best.doc.model \notin Expected(g) /\ fit # <<>>
       THEN fit[1].doc ELSE best.doc

GroundAnchor(docs, g) ==
    LET left == {g.words[i] : i \in Leftover(g)}
        ranked == RankEntities(docs, left)
        top == Pick(g, ranked, left)
        hit == {i \in Leftover(g) : g.words[i] \in top.terms}
        named == Append(g.nodes, Anchor(top, Pos(Min(hit)), left \cap top.nameTerms))
    IN IF g.settled \/ ranked = <<>> \/ left \cap top.nameTerms = {}
       THEN [g EXCEPT !.settled = TRUE]
       ELSE [g EXCEPT !.nodes = named, !.anchors = Append(@, Len(named)),
                      !.consumed = @ \cup hit,
                      !.settled = Len(g.anchors) + 1 >= Len(g.edges)]

GroundAnchors(docs, g) ==
    FoldLeft(LAMBDA h, k : GroundAnchor(docs, h), g, [k \in 1..MaxAnchors |-> k])

-----------------------------------------------------------------------------
\* The second chance: runs of leftover words

\* A run is trimmed to start at a meaningful word and end at one or at a preposition.
Runs(g) ==
    LET open(i) == i \in DOMAIN g.words /\ i \notin g.consumed
        runs == {r \in (DOMAIN g.words) \X (DOMAIN g.words) :
                    /\ r[1] <= r[2] /\ \A i \in r[1]..r[2] : open(i)
                    /\ ~open(r[1] - 1) /\ ~open(r[2] + 1)}
        said(r) == {i \in r[1]..r[2] : Meaningful(g.words[i])}
        ends(r) == {i \in Min(said(r))..r[2] : Meaningful(g.words[i]) \/ g.words[i] \in Preps}
    IN {<<Min(said(r)), Max(ends(r))>> : r \in {r \in runs : said(r) # {}}}

Use(g, run) == [g EXCEPT !.consumed = @ \cup run[1]..run[2]]
Said(g, run) == SubSeq(g.words, run[1], run[2])

\* A run that is resolved makes h of the grounding.
Resolved(g, res, h) ==
    IF res.match # <<>> THEN h
    ELSE IF res.options # <<>> THEN [g EXCEPT !.suggestions = @ + 1] ELSE g

DateMatched(g, k, run, res) ==
    Resolved(g, res, [Use(g, run) EXCEPT !.dates[k].fields = <<res.match[1].it>>])
LinkMatched(g, run, res) ==
    Resolved(g, res, [Use(g, run) EXCEPT !.edges = <<Edge(res.match[1].key, Pos(run[1]))>>])

\* A date with several fields: the run just before it picks one.
MatchDate(g, k) ==
    LET d == g.dates[k]
        near == {r \in Runs(g) : Pos(r[2]) < d.pos /\ d.pos - Pos(r[2]) <= 12}
        run == CHOOSE r \in near : \A s \in near : s[2] <= r[2]
        items == [f \in DOMAIN d.fields |->
                    [key |-> d.fields[f].field, label |-> d.fields[f].label,
                     phrases |-> d.fields[f].forms, it |-> d.fields[f]]]
    IN IF Len(d.fields) < 2 \/ near = {} THEN g
       ELSE DateMatched(g, k, run, Resolve(Said(g, run), items))

\* Two things named and no relation: the run between them.
MatchLink(g) ==
    LET nodes == ByPos(g.nodes)
        a == nodes[1]  b == nodes[Len(nodes)]
        between == {r \in Runs(g) : (a.pos < Pos(r[1]) /\ Pos(r[1]) < b.pos)
                                    \/ (a.pos < Pos(r[2]) /\ Pos(r[2]) < b.pos)}
        run == CHOOSE r \in between : \A s \in between : r[1] <= s[1]
        fits == SelectSeq([r \in DOMAIN Relations |-> r], LAMBDA r :
                    \A end \in {Relations[r].domain, Relations[r].range} :
                        end = {} \/ end \cap {a.type, b.type} # {})
        items == [k \in DOMAIN fits |-> [key |-> fits[k], label |-> <<Relations[fits[k]].name>>,
                                        phrases |-> Relations[fits[k]].forms]]
    IN IF Len(nodes) < 2 \/ g.edges # <<>> \/ between = {} THEN g
       ELSE LinkMatched(g, run, Resolve(Said(g, run), items))

MatchLeftovers(g) ==
    IF g.about THEN g ELSE MatchLink(FoldLeft(MatchDate, g, [k \in DOMAIN g.dates |-> k]))

\* One leftover word becomes a text filter; more stay uncovered.
Filtered(g) ==
    LET left == Leftover(g) IN
    IF Cardinality(left) # 1 THEN g
    ELSE [g EXCEPT !.contains = CHOOSE i \in left : TRUE, !.consumed = @ \cup left]

Terms(g) == {w \in ToSet(g.words) : Meaningful(w)}
Covered(g) == {g.words[i] : i \in g.consumed} \cap Terms(g)

-----------------------------------------------------------------------------
\* Joining relations to what is named

\* The first node of one of these types, or an implied one.
Fill(g, parts, hints, present, pos) ==
    LET fits == SelectSeq(parts, LAMBDA n : n # present /\ g.nodes[n].type \in hints)
        t == First(Types, LAMBDA u : u \in hints)
    IN IF fits # <<>> THEN [g |-> g, node |-> fits[1]]
       ELSE IF hints = {} \/ VarOf(g, t) = {present}
       THEN [g |-> g, node |-> 0]
       ELSE IF VarOf(g, t) # {} THEN [g |-> g, node |-> CHOOSE n \in VarOf(g, t) : TRUE]
       ELSE [g |-> [g EXCEPT !.nodes = Append(@, Var(t, pos + 2))], node |-> Len(g.nodes) + 1]

\* Of the nodes at one side of a relation, nearest first: the first of a fitting type.
Nearest(g, rel, side) ==
    LET types == rel.domain \cup rel.range
    IN Head(Append(SelectSeq(side, LAMBDA n : types = {} \/ g.nodes[n].type \in types) \o side, 0))

\* Domain and range turn a relation round.
Attach(g, k, l, r) ==
    LET rel == Relations[g.edges[k].relation]
        fit(s, t) == (IF g.nodes[s].type \in rel.domain THEN 1 ELSE 0)
                     + (IF g.nodes[t].type \in rel.range THEN 1 ELSE 0)
        ends == IF fit(r, l) > fit(l, r) THEN <<r, l>> ELSE <<l, r>>
    IN IF 0 \in {l, r} THEN [g EXCEPT !.refuse = TRUE]
       ELSE [g EXCEPT !.edges[k].source = ends[1], !.edges[k].target = ends[2]]

AttachRight(k, l, r) == Attach(r.g, k, l, r.node)
AttachLeft(k, rel, parts, right, l) ==
    AttachRight(k, l.node, IF right # 0 THEN [g |-> l.g, node |-> right]
        ELSE Fill(l.g, parts, rel.range, l.node, l.g.edges[k].pos))
AttachSides(g, k, rel, parts, left, right) ==
    AttachLeft(k, rel, parts, right, IF left # 0 THEN [g |-> g, node |-> left]
        ELSE Fill(g, parts, rel.domain, right, g.edges[k].pos))

\* Word order picks a relation's neighbours; its domain and range fill a missing end.
AssignAmong(g, k, rel, parts) ==
    AttachSides(g, k, rel, parts,
        Nearest(g, rel, Reverse(SelectSeq(parts, LAMBDA n : g.nodes[n].pos < g.edges[k].pos))),
        Nearest(g, rel, SelectSeq(parts, LAMBDA n : g.nodes[n].pos > g.edges[k].pos)))
AssignEdge(g, k) ==
    IF g.refuse THEN g
    ELSE AssignAmong(g, k, Relations[g.edges[k].relation],
            SortSeq(Where(g.nodes, LAMBDA n : TRUE), LAMBDA m, n : g.nodes[m].pos < g.nodes[n].pos))

\* A relation without a second end is dropped when the question still names a type.
WithoutLoose(h) ==
    IF h.refuse /\ h.anchors = <<>> /\ Vars(h) # {}
    THEN [h EXCEPT !.edges = <<>>, !.refuse = FALSE, !.loose = TRUE] ELSE h
AssignEdges(g) == WithoutLoose(FoldLeft(AssignEdge, g, [k \in DOMAIN g.edges |-> k]))

\* Two types and no phrase between them: the one relation there is.
ImplyJoin(g) ==
    LET a == Min(Vars(g))  b == Max(Vars(g))
        joined == \E k \in DOMAIN g.edges : {g.edges[k].source, g.edges[k].target} = {a, b}
        ways == {w \in (DOMAIN Relations) \X {<<a, b>>, <<b, a>>} :
                    /\ g.nodes[w[2][1]].type \in Relations[w[1]].domain
                    /\ g.nodes[w[2][2]].type \in Relations[w[1]].range}
        way == CHOOSE w \in ways : TRUE
    IN IF Cardinality(Vars(g)) # 2 THEN g
       ELSE IF joined \/ Cardinality(ways) # 1 THEN g
       ELSE [g EXCEPT !.edges = Append(@,
                [Edge(way[1], (g.nodes[a].pos + g.nodes[b].pos) \div 2)
                    EXCEPT !.source = way[2][1], !.target = way[2][2]])]

\* What the question asks for.
SubjectOf(g) ==
    LET implied == IF g.wh \in DOMAIN Implied THEN VarOf(g, Implied[g.wh]) ELSE {}
        first == CHOOSE n \in Vars(g) : \A m \in Vars(g) : g.nodes[n].pos <= g.nodes[m].pos
    IN IF implied # {} THEN CHOOSE n \in implied : TRUE
       ELSE IF Vars(g) = {} THEN 0 ELSE first

-----------------------------------------------------------------------------
\* Negation

\* A type stands for the relation that joins it, the hop toward another type first.
JoinOf(g, n) ==
    LET joins == {k \in DOMAIN g.edges : n \in {g.edges[k].source, g.edges[k].target}}
        other(k) == IF g.edges[k].source = n THEN g.edges[k].target ELSE g.edges[k].source
        hops == {k \in joins : other(k) \in Vars(g)}
    IN IF Cardinality(hops) = 1 THEN hops ELSE IF Cardinality(joins) = 1 THEN joins ELSE {}

Negatable(g) ==
    {[pos |-> g.edges[k].pos, kind |-> "edge", at |-> k] : k \in DOMAIN g.edges}
    \cup {[pos |-> g.values[k].pos, kind |-> "value", at |-> k] : k \in DOMAIN g.values}
    \cup {[pos |-> g.dates[k].pos, kind |-> "date", at |-> k] : k \in DOMAIN g.dates}
    \cup (IF g.contains = 0 THEN {}
          ELSE {[pos |-> Pos(g.contains), kind |-> "contains", at |-> 0]})
    \cup UNION {{[pos |-> g.nodes[n].pos, kind |-> "edge", at |-> k] : k \in JoinOf(g, n)} :
                    n \in Vars(g) \ {g.subject}}

\* A negator negates the next thing named within reach; without one the question is
\* refused.
Negate(g, at) ==
    LET ahead == {x \in Negatable(g) : at <= x.pos /\ x.pos <= at + 4 * NegReach}
        next == CHOOSE x \in ahead : \A y \in ahead : x.pos <= y.pos
    IN IF g.unplaced \/ ahead = {} THEN [g EXCEPT !.unplaced = TRUE]
       ELSE CASE next.kind = "edge" -> [g EXCEPT !.edges[next.at].negated = TRUE]
              [] next.kind = "value" -> [g EXCEPT !.values[next.at].negated = TRUE]
              [] next.kind = "date" -> [g EXCEPT !.dates[next.at].negated = TRUE]
              [] OTHER -> [g EXCEPT !.containsNegated = TRUE]

ScopeNegations(g) == FoldLeft(Negate, g, g.negs)

-----------------------------------------------------------------------------

Naming(docs, q) ==
    LET g == GroundWords(GroundDates(GroundValues(GroundRelations(Opening(q.words)))))
    IN Filtered(MatchLeftovers(GroundAnchors(docs, g)))

Asking(g) == ScopeNegations([g EXCEPT !.subject = SubjectOf(g)])
Completed(g) == IF Cardinality(Vars(g)) > MaxVars THEN [g EXCEPT !.refuse = TRUE]
              ELSE Asking(ImplyJoin(g))
Joining(g) == IF Len(g.edges) > MaxEdges THEN [g EXCEPT !.refuse = TRUE]
              ELSE Completed(AssignEdges(g))

Ground(docs, q) == Joining(Naming(docs, q))

=============================================================================

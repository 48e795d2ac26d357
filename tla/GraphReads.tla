----------------------------- MODULE GraphReads -----------------------------
(***************************************************************************)
(* Reads that walk the graph: memory_recall and the session's prime        *)
(* (store.py recall, tools/recall.py), chains (chain.py), the copy that    *)
(* shares one project (share.py) and the gaps that reflection lists        *)
(* (gaps.py).                                                              *)
(*                                                                         *)
(* Graphs are those of GateScore; nodes also have day, their date by field.*)
(* The store's index order is taken to be that of the graph's links.  A    *)
(* neighbour is [me, other, rel, dir], and [.., via] once it is shown, via *)
(* being the node a later hop reached it from.                             *)
(***************************************************************************)
EXTENDS GateScore

CONSTANTS
    HubDegree, Beam, HubPicks,
    Rare,               \* Rare[n][c]: ln(n/c) in hundredths
    Private,            \* concept types that are personal
    Provenance,         \* properties that say where a memory came from
    PersonKeep,         \* what is shared of a person
    GapMin

HubModels == {"Project", "Person", "Company"}
None == ""

-----------------------------------------------------------------------------
\* Neighbours

Known(g) == {n.id : n \in ToSet(g.nodes)}
Live(g) == {n.id : n \in {n \in ToSet(g.nodes) : ~n.dead}}
ModelOf(g, id) == NodeOf(g, id).model

Distinct(s) == Picked(s, {i \in DOMAIN s : \A j \in 1..(i - 1) : s[j] # s[i]})

\* A link as either of its ends sees it.
Ways == {"outgoing", "incoming"}
PairOf(l, way) ==
    [me |-> IF way = "outgoing" THEN l.source ELSE l.target,
     other |-> IF way = "outgoing" THEN l.target ELSE l.source, rel |-> l.rel, dir |-> way]

PairsOf(g, me, way) ==
    Picked([i \in DOMAIN g.links |-> PairOf(g.links[i], way)], {i \in DOMAIN g.links :
        /\ g.links[i].open /\ {g.links[i].source, g.links[i].target} \subseteq Known(g)
        /\ PairOf(g.links[i], way).me = me})

\* Every open link of these nodes, once a relation and way.
Neighbours(g, ids) ==
    Distinct(FlattenSeq([i \in DOMAIN ids |->
        PairsOf(g, ids[i], "outgoing") \o PairsOf(g, ids[i], "incoming")]))

Degree(pairs, me) == Cardinality({i \in DOMAIN pairs : pairs[i].me = me})

-----------------------------------------------------------------------------
\* What concerns a focus

Bag(g, id) ==
    LET parts == SelectSeq(NodeOf(g, id).parts, LAMBDA p : p.key \notin Provenance)
    IN Words(TermsPos(NodeOf(g, id).name
                      \o FlattenSeq([i \in DOMAIN parts |-> FlattenSeq(parts[i].texts)])))

\* The members that share the rarest of the focus's words, none that share none.
SharedBy(g, p, focus) == Bag(g, p.other) \cap focus
Sharing(g, members, focus, w) == {i \in DOMAIN members : w \in SharedBy(g, members[i], focus)}
Relevance(g, members, focus) ==
    [i \in DOMAIN members |->
        [member |-> members[i],
         score |-> SumFunction([w \in SharedBy(g, members[i], focus) |->
                       Rare[Len(members)][Cardinality(Sharing(g, members, focus, w))]])]]
MembersOf(rows) == [i \in DOMAIN rows |-> rows[i].member]
Positive(scored) == Picked(scored, {i \in DOMAIN scored : scored[i].score > 0})
Relevant(g, members, focus, k) ==
    MembersOf(Top(Positive(Ranked(Relevance(g, members, focus))), k))

Follow(g, fresh, focus) ==
    IF Len(fresh) <= Beam THEN fresh ELSE Relevant(g, fresh, focus, Beam)

-----------------------------------------------------------------------------
\* memory_recall

\* A node too many links reach is followed at the first hop only.
IsHubAtOnce(pairs, me, hop) == Degree(pairs, me) > HubDegree
IsHub(pairs, me, hop) == hop > 1 /\ Degree(pairs, me) > HubDegree

Others(pairs) == [i \in DOMAIN pairs |-> pairs[i].other]

\* What the pairs bring that is new and live: by hubs, which would flood it, and by others.
Brought(g, w, hop, pairs, byHub) ==
    Picked(pairs, {i \in DOMAIN pairs :
        /\ IsHub(pairs, pairs[i].me, hop) = byHub
        /\ pairs[i].other \in Live(g) \ w.seen})
FirstOf(pairs) ==
    Picked(pairs, {i \in DOMAIN pairs : \A j \in 1..(i - 1) : pairs[j].other # pairs[i].other})
Along(pairs, hop) ==
    [k \in DOMAIN pairs |->
        [me |-> pairs[k].me, other |-> pairs[k].other, rel |-> pairs[k].rel, dir |-> pairs[k].dir,
         via |-> IF hop > 1 THEN pairs[k].me ELSE None]]

Reached(g, about, w, found, flood) ==
    [seen |-> w.seen \cup ToSet(Others(found)), linked |-> w.linked \o found,
     hubs |-> w.hubs \o flood, frontier |-> Others(Follow(g, found, about))]

HopAlong(g, about, w, hop, pairs) ==
    Reached(g, about, w, Along(FirstOf(Brought(g, w, hop, pairs, FALSE)), hop),
            Brought(g, w, hop, pairs, TRUE))
Hop(g, about, w, hop) == HopAlong(g, about, w, hop, Neighbours(g, w.frontier))

AtNode(id) == [seen |-> {id}, linked |-> <<>>, hubs |-> <<>>, frontier |-> <<id>>]
Hops(depth) == IF depth > 1 THEN depth ELSE 1
Walk(g, id, depth, about) ==
    LET walk[h \in 0..Hops(depth)] ==
            IF h = 0 THEN AtNode(id) ELSE Hop(g, about, walk[h - 1], h)
    IN walk[Hops(depth)]

FocusOf(g, id, focus) == IF focus # {} THEN focus ELSE Bag(g, id)

\* The first hop newest first, then the second; a hub's members that concern the focus.
NewestFirst(g, s) ==
    LET scored == Ranked([i \in DOMAIN s |->
                    [it |-> s[i], score |-> NodeOf(g, s[i].other).day["updatedAt"]]])
    IN [i \in DOMAIN scored |-> scored[i].it]

Direct(linked) == Picked(linked, {i \in DOMAIN linked : linked[i].via = None})
Further(linked) == Picked(linked, {i \in DOMAIN linked : linked[i].via # None})
MembersAt(w, hub) == Picked(w.hubs, {i \in DOMAIN w.hubs : w.hubs[i].me = hub})

Shown(g, w, limit, about) ==
    LET all == NewestFirst(g, Direct(w.linked)) \o Further(w.linked)
    IN [shown |-> IF limit = 0 THEN all ELSE Top(all, limit),
        links |-> Len(all),
        hubs |-> [h \in {w.hubs[i].me : i \in DOMAIN w.hubs} |->
                    Relevant(g, MembersAt(w, h), about, HubPicks)]]

RecallFrom(g, id, depth, limit, focus) ==
    LET about == FocusOf(g, id, focus) IN Shown(g, Walk(g, id, depth, about), limit, about)

\* The session's table of contents: direct neighbours, what binds first.
Priority(model) == CASE model \in {"Decision", "Pattern", "Constraint"} -> 3
                     [] model = "Preference" -> 2
                     [] model = "Task" -> 1
                     [] OTHER -> 0

Foremost(g, newest, max) ==
    LET kinds == Top(Ranked([i \in DOMAIN newest |->
                    [it |-> newest[i], score |-> Priority(ModelOf(g, newest[i].other))]]), max)
    IN [i \in DOMAIN kinds |-> kinds[i].it]
PrimeLinks(g, id, max) == Foremost(g, NewestFirst(g, Walk(g, id, 1, {}).linked), max)

-----------------------------------------------------------------------------
\* Chains

ChainFrom(g, text, limit, w, me) ==
    LET near == SelectSeq(w.near, LAMBDA p : p.me = me)
        last(id) == near[Max({i \in DOMAIN near : near[i].other = id})]
        ids == Distinct([i \in DOMAIN near |-> near[i].other])
        chosen == Follow(g, [i \in DOMAIN ids |-> last(ids[i])], text)
        new == SelectSeq(chosen, LAMBDA p : p.other \notin w.nodes)
        room == Top(new, Max({0, limit - Cardinality(w.nodes)}))
    IN [w EXCEPT !.nodes = @ \cup {room[i].other : i \in DOMAIN room},
                 !.edges = @ \o room,
                 !.left = IF Len(chosen) < Len(ids) THEN @ \cup {me} ELSE @]

\* On from the ends of the edges beyond the first k.
Onward(w, k) ==
    [w EXCEPT !.frontier = [i \in 1..(Len(w.edges) - k) |-> w.edges[k + i].other]]

ChainHop(g, text, limit, w) ==
    LET near == SelectSeq(Neighbours(g, w.frontier), LAMBDA p :
            p.other \notin w.nodes /\ ModelOf(g, p.other) # "Project" /\ p.other \in Live(g))
    IN IF Cardinality(w.nodes) >= limit THEN w
       ELSE Onward(FoldLeft(LAMBDA v, me : ChainFrom(g, text, limit, v, me),
                            [w EXCEPT !.near = near], w.frontier), Len(w.edges))

ChainRoots(roots) ==
    [nodes |-> ToSet(roots), edges |-> <<>>, left |-> {}, near |-> <<>>, frontier |-> roots]

Ids(rows) == [i \in DOMAIN rows |-> rows[i].doc.id]

Chain(g, text, depth, limit) ==
    FoldLeft(LAMBDA w, hop : ChainHop(g, Words(TermsPos(text)), limit, w),
             ChainRoots(Ids(EntryPoints(g, text))), [h \in 1..depth |-> h])

-----------------------------------------------------------------------------
\* A copy of one project

Adjacent(g, a, b) == \E l \in ToSet(g.links) : l.open /\ {l.source, l.target} = {a, b}

Shareable(g, id, hop) ==
    /\ id \in Live(g) /\ ModelOf(g, id) \notin Private
    /\ hop < 2 \/ ModelOf(g, id) \notin HubModels

ExpandableHubs(g, id) == ~IsConcept(NodeOf(g, id))
Expandable(g, id) == ModelOf(g, id) \notin HubModels /\ ~IsConcept(NodeOf(g, id))

ShareHop(g, w, hop) ==
    LET from == {id \in w.frontier : hop = 1 \/ Expandable(g, id)}
        new == {id \in Known(g) \ w.in : Shareable(g, id, hop)
                                         /\ \E f \in from : Adjacent(g, f, id)}
    IN [in |-> w.in \cup new, frontier |-> new]

\* The command line knows depths 1 and 2.
Included(g, root, depth) ==
    LET one == ShareHop(g, [in |-> {root}, frontier |-> {root}], 1)
    IN IF depth = 1 THEN one.in ELSE ShareHop(g, one, 2).in

\* Where a memory came from is not shared, and of a person little.
ToCopy(n) == {i \in DOMAIN n.parts :
    /\ n.parts[i].key \notin Provenance
    /\ n.model = "Person" => n.parts[i].key \in PersonKeep}
Copied(n) == [n EXCEPT !.parts = Picked(n.parts, ToCopy(n))]

Share(g, root, depth) ==
    LET in == Included(g, root, depth)
        nodes == Picked(g.nodes, {i \in DOMAIN g.nodes : g.nodes[i].id \in in})
    IN [nodes |-> [i \in DOMAIN nodes |-> Copied(nodes[i])],
        links |-> Picked(g.links, {i \in DOMAIN g.links :
            g.links[i].open /\ {g.links[i].source, g.links[i].target} \subseteq in})]

-----------------------------------------------------------------------------
\* Gaps

Gaps(g) ==
    LET docs == Corpus(g, FALSE)
        idf == Idf(docs)
        linked == {{l.source, l.target} : l \in ToSet(g.links)}
        concepts == {n.id : n \in {n \in ToSet(g.nodes) : IsConcept(n)}}
        live == {docs[i].id : i \in DOMAIN docs}
        lonely == {id \in live : \A p \in linked : id \notin p}
        shared(a, b) == a.terms \cap b.terms
        weight(a, b) == SumFunction([t \in shared(a, b) |->
            idf[t] * (IF t \in a.nameTerms \cup b.nameTerms THEN 3 ELSE 1)])
        pairs == {p \in (DOMAIN docs) \X (DOMAIN docs) :
            /\ p[1] < p[2] /\ {docs[p[1]].id, docs[p[2]].id} \notin linked
            /\ Cardinality(shared(docs[p[1]], docs[p[2]])) >= 2
            /\ weight(docs[p[1]], docs[p[2]]) >= GapMin}
    IN [orphans |-> lonely,
        conceptless |-> {id \in live \ lonely :
            \A p \in linked : id \in p => p \cap concepts = {}},
        suggestions |-> {{docs[p[1]].id, docs[p[2]].id} : p \in pairs}]

=============================================================================

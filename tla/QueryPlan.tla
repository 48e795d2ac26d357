----------------------------- MODULE QueryPlan -----------------------------
(***************************************************************************)
(* From a grounded question to rows: ceist/plan.py and the memory graph's  *)
(* side of it (planner.py).                                                *)
(*                                                                         *)
(* A plan is [type, node, where]; node is the grounding's, so that a plan  *)
(* names its variable.  A condition is [kind, neg, ...].  The SPARQL that  *)
(* a plan compiles to is modelled by the rows it selects: a plan's open    *)
(* links, values and dates hold of a live record, a sub-plan's of some     *)
(* record, a negated one's of none.  A record is one row.  Nodes of the    *)
(* graph have day, their date by field; a text contains a term when it has *)
(* the word.                                                               *)
(***************************************************************************)
EXTENDS Grounding

CONSTANTS
    DaysOf(_),          \* the days a date word means
    Salient,            \* model |-> the properties a row shows
    RecentLimit, RowLimit,      \* the most rows a query gives
    MaxRows, AskRows,   \* the most that the gate and memory_ask put into words
    AskedQuestions

-----------------------------------------------------------------------------
\* Plans

IsVar(g, n) == g.nodes[n].kind = "var"
Ends(e) == {e.source, e.target}
Other(e, n) == IF e.source = n THEN e.target ELSE e.source

\* The relations that leave a node, but the one it was reached by.
Leaving(g, n, via) == {k \in DOMAIN g.edges : k # via /\ n \in Ends(g.edges[k])}
LeavingInOrder(g, n, via) == Picked([k \in DOMAIN g.edges |-> k], Leaving(g, n, via))

\* _build and _plans go back and forth for ever between types joined twice.
Endless(g) ==
    \E j, k \in DOMAIN g.edges :
        /\ j # k /\ Ends(g.edges[j]) = Ends(g.edges[k])
        /\ \A n \in Ends(g.edges[j]) : IsVar(g, n)

\* Elsewhere a question of MaxVars types has no more than plans and their sub-plans: the
\* second type is reached from the subject, and nothing but records from there.
Onwards(g) ==
    Picked([k \in DOMAIN g.edges |-> k],
           {k \in Leaving(g, g.subject, 0) : IsVar(g, Other(g.edges[k], g.subject))})

\* _plans: the subject first, then linked sub-plans.
Plans(g) ==
    <<g.subject>> \o [i \in DOMAIN Onwards(g) |-> Other(g.edges[Onwards(g)[i]], g.subject)]

Owned(fields, type) == SelectSeq(fields, LAMBDA f : f.owners = {} \/ type \in f.owners)

\* The plan a value or a date joins: the first whose type has one of its fields; 0 for none.
Holder(g, fields) ==
    LET fits == SelectSeq(Plans(g), LAMBDA n : Owned(fields, g.nodes[n].type) # <<>>)
    IN IF fits = <<>> THEN 0 ELSE fits[1]

ValuesAt(g, n) == Picked(g.values, {i \in DOMAIN g.values : Holder(g, g.values[i].candidates) = n})

\* The field a date means, of those its plan's type has.
DateField(d, type) ==
    LET fit == Owned(d.fields, type)
        default == SelectSeq(fit, LAMBDA f : f.default)
    IN IF Len(fit) > 1 /\ default # <<>> THEN default ELSE fit

DateWord(g, d) == g.words[d.pos \div 4 + 1]
DatesAt(g, n) == Picked(g.dates, {i \in DOMAIN g.dates : Holder(g, g.dates[i].fields) = n})

\* Which way a relation runs, seen from a node.
WayOutward(e, n) == "out"
Way(e, n) == IF e.source = n THEN "out" ELSE "in"

\* What a relation, a value and a date ask of a record; the sub-plan of a relation to
\* another type is under[k].
LinkTo(g, n, k, under) ==
    LET e == g.edges[k]
        o == Other(e, n)
    IN [kind |-> "link", neg |-> e.negated, rel |-> Relations[e.relation].name,
        way |-> Way(e, n), to |-> IF IsVar(g, o) THEN "" ELSE g.nodes[o].doc.id, sub |-> under[k]]

HasValue(g, n, v) ==
    LET mine == Owned(v.candidates, g.nodes[n].type)[1]
    IN [kind |-> "value", neg |-> v.negated, field |-> mine.field, value |-> mine.value]

DateRange(g, n, d) ==
    [kind |-> "date", neg |-> d.negated, field |-> DateField(d, g.nodes[n].type)[1].field,
     days |-> DaysOf(DateWord(g, d))]

PlanAt(g, n, via, under) ==
    LET links == LeavingInOrder(g, n, via)
        values == ValuesAt(g, n)
        dates == DatesAt(g, n)
    IN [type |-> g.nodes[n].type, node |-> n, count |-> FALSE, recent |-> FALSE,
        where |-> [i \in DOMAIN links |-> LinkTo(g, n, links[i], under)]
            \o [i \in DOMAIN values |-> HasValue(g, n, values[i])]
            \o [i \in DOMAIN dates |-> DateRange(g, n, dates[i])]]

\* _build, _attach_values, _attach_dates
Nothing(g) == [k \in DOMAIN g.edges |-> <<>>]
SubPlans(g) ==
    [k \in DOMAIN g.edges |->
        IF k \in ToSet(Onwards(g))
        THEN <<PlanAt(g, Other(g.edges[k], g.subject), k, Nothing(g))>> ELSE <<>>]
WholePlan(g) == PlanAt(g, g.subject, 0, SubPlans(g))

\* A date that nothing has, or that may be either of two, refuses.
DateRefuses(g) ==
    \E k \in DOMAIN g.dates :
        \/ Holder(g, g.dates[k].fields) = 0
        \/ Len(DateField(g.dates[k], g.nodes[Holder(g, g.dates[k].fields)].type)) > 1

Linked(g, n) == \E k \in DOMAIN g.edges : n \in Ends(g.edges[k])

LooseAnchor(g) == g.edges = <<>> /\ g.anchors # <<>>

Uncovered(g) ==
    (Terms(g) \ Covered(g))
    \cup {g.words[v.pos \div 4 + 1] : v \in {v \in ToSet(g.values) : Holder(g, v.candidates) = 0}}

\* The strict plan, then the same question asked more loosely.
Wide(g, anchor) == [kind |-> anchor, neg |-> FALSE, to |-> g.nodes[g.anchors[1]].doc.id,
                    words |-> g.nodes[g.anchors[1]].match]

PlanOf(g, anchor, filter) ==
    [WholePlan(g) EXCEPT
            !.count = g.count, !.recent = g.recent,
            !.where = @ \o (IF LooseAnchor(g) THEN <<Wide(g, anchor)>> ELSE <<>>)
                \o (IF filter /\ g.contains # 0
                    THEN <<[kind |-> "contains", neg |-> g.containsNegated,
                            words |-> {g.words[g.contains]}]>> ELSE <<>>)]

Relaxations(g) ==
    (IF LooseAnchor(g) THEN <<PlanOf(g, "mention", TRUE)>> ELSE <<>>)
    \o (IF g.contains # 0 /\ ~g.containsNegated THEN <<PlanOf(g, "any", FALSE)>> ELSE <<>>)

\* interpret; coverage is asked for in tenths.
Outcome(g, q, tenths) ==
    LET direct == /\ g.anchors # <<>> /\ g.nodes[g.anchors[1]].doc.model \in Recallable
                  /\ \/ g.subject = 0
                     \/ g.edges = <<>> /\ g.nodes[g.subject].type = g.nodes[g.anchors[1]].type
        covered == Terms(g) # {} /\ 10 * Cardinality(Covered(g)) >= tenths * Cardinality(Terms(g))
    IN CASE ~IsQuestion(q) -> "statement"
         [] IsQuestion(q) /\ (g.refuse \/ g.unplaced \/ ~covered) -> "refused"
         [] OTHER -> IF direct THEN "direct"
                     ELSE IF g.subject = 0 THEN "refused"
                     ELSE IF Endless(g) THEN "raises"
                     ELSE IF DateRefuses(g) THEN "refused"
                     ELSE IF Len(g.anchors) > 1 /\ \E a \in ToSet(g.anchors) : ~Linked(g, a)
                     THEN "refused" ELSE "plan"

-----------------------------------------------------------------------------
\* Rows

Texts(graph, id, keys) ==
    LET node == NodeOf(graph, id)
        parts == SelectSeq(node.parts, LAMBDA p : p.key \in keys)
    IN FlattenSeq([i \in DOMAIN parts |-> FlattenSeq(parts[i].texts)])

Blob(graph, id) ==
    LET node == NodeOf(graph, id)
    IN ToSet(node.name) \cup ToSet(Texts(graph, id, Salient[node.model]))

LinkedBy(graph, rel, a, b) ==
    \E l \in ToSet(graph.links) : l.rel = rel /\ l.source = a /\ l.target = b /\ l.open

Touching(graph, a, b) ==
    \E l \in ToSet(graph.links) : l.open /\ {l.source, l.target} = {a, b}

IdsOf(graph, type) == {n.id : n \in {n \in ToSet(graph.nodes) : n.model = type}}

\* Whether a condition, but for its negation, holds of a record.
Across(graph, c, id, o) ==
    IF c.way = "out" THEN LinkedBy(graph, c.rel, id, o) ELSE LinkedBy(graph, c.rel, o, id)

HoldsAlone(graph, c, id) ==
    CASE c.kind = "link" -> Across(graph, c, id, c.to)
      [] c.kind = "any" -> Touching(graph, id, c.to)
      [] c.kind \in {"mention", "contains"} -> c.words \subseteq Blob(graph, id)
      [] c.kind = "value" -> Texts(graph, id, {c.field}) = <<c.value>>
      [] c.kind = "date" -> NodeOf(graph, id).day[c.field] \in c.days

SelectsAlone(graph, plan, id) ==
    /\ ~NodeOf(graph, id).dead
    /\ \A c \in ToSet(plan.where) : HoldsAlone(graph, c, id) <=> ~c.neg

\* Of a link to another type: some record of its sub-plan.
HoldsOfSome(graph, c, id) ==
    \E o \in IdsOf(graph, c.sub[1].type) :
        Across(graph, c, id, o) /\ SelectsAlone(graph, c.sub[1], o)

Holds(graph, c, id) ==
    IF c.kind = "link" /\ c.sub # <<>> THEN HoldsOfSome(graph, c, id) ELSE HoldsAlone(graph, c, id)

Selects(graph, plan, id) ==
    /\ ~NodeOf(graph, id).dead
    /\ \A c \in ToSet(plan.where) : Holds(graph, c, id) <=> ~c.neg

Selected(graph, plan) ==
    {id \in IdsOf(graph, plan.type) : Selects(graph, plan, id)}

\* The first few of some rows: any, but of recent ones the latest.
FirstFew(graph, plan, rows, few) ==
    LET day(id) == NodeOf(graph, id).day["updatedAt"]
    IN {first \in SUBSET rows :
            /\ Cardinality(first) = Min({few, Cardinality(rows)})
            /\ plan.recent => \A a \in first, b \in rows \ first : day(a) >= day(b)}

\* What the query of a plan gives.
RowsOf(graph, plan, limited) ==
    LET rows == Selected(graph, plan)
    IN FirstFew(graph, plan, rows,
                IF plan.recent THEN RecentLimit
                ELSE IF limited /\ ~plan.count THEN RowLimit ELSE Cardinality(rows))

\* Of these the first are put into words, and how many there are: "(+N more)", or the
\* number that a question of how many is answered with.
Replies(graph, plan, limited, most) ==
    UNION {{[said |-> "rows", rows |-> shown, total |-> Cardinality(found)] :
                shown \in FirstFew(graph, plan, found, most)} :
            found \in RowsOf(graph, plan, limited)}
NoRows(what) == [said |-> what, rows |-> {}, total |-> 0]

-----------------------------------------------------------------------------
\* The gate's answer, and memory_ask

QuestionDocs(graph) ==
    LET docs == Corpus(graph, TRUE)
        aliases(d) == UNION {Words(TermsPos(t)) :
            t \in UNION {ToSet(p.texts) : p \in {p \in ToSet(NodeOf(graph, d.id).parts) : p.key = "aliases"}}}
    IN [i \in DOMAIN docs |-> [docs[i] EXCEPT !.nameTerms = @ \cup aliases(docs[i])]]

Silent == NoRows("nothing")

UnderstoodWhole(g, q) ==
    /\ Outcome(g, q, 8) = "plan"
    /\ g.suggestions = 0 /\ ~g.loose /\ g.contains = 0
    /\ Uncovered(g) = {} /\ ~LooseAnchor(g)

\* answer: only what was understood whole, and has rows.
RowsIfAny(graph, plan) ==
    IF Selected(graph, plan) = {} THEN {Silent}
    ELSE Replies(graph, plan, FALSE, MaxRows)
AnswerOf(graph, q, g) ==
    IF UnderstoodWhole(g, q) THEN RowsIfAny(graph, PlanOf(g, "any", TRUE)) ELSE {Silent}
Answer(graph, q) == AnswerOf(graph, q, Ground(QuestionDocs(graph), q))

\* handle: rows of the plan, of the first relaxation that has some, or a neighbourhood
\* or a search instead.
Fallback(g) ==
    LET named == g.anchors # <<>> /\ g.nodes[g.anchors[1]].doc.model \in Recallable
    IN {NoRows(IF named THEN "recall" ELSE "search")}

FirstRows(graph, g, plans) ==
    LET some == {i \in DOMAIN plans : Selected(graph, plans[i]) # {}}
    IN IF some = {} THEN Fallback(g)
       ELSE Replies(graph, plans[Min(some)], TRUE, AskRows)

AskOf(graph, g, outcome) ==
    CASE outcome \in {"statement", "raises", "direct"} -> {NoRows(outcome)}
      [] outcome = "refused" -> Fallback(g)
      [] outcome = "plan" -> FirstRows(graph, g, <<PlanOf(g, "any", TRUE)>> \o Relaxations(g))
AskAs(graph, q, g) == AskOf(graph, g, Outcome(g, q, 6))
MemoryAsk(graph, q) == AskAs(graph, q, Ground(QuestionDocs(graph), q))

\* Question-shaped sentences of a prompt, each from its question word on, once.
FromItsWh(s) ==
    LET at == {i \in DOMAIN s.words : s.words[i] \in Wh}
    IN IF s.mark /\ at # {} THEN [s EXCEPT !.words = SubSeq(@, Min(at), Len(@))] ELSE s

QuestionCandidates(prompt) ==
    LET asked == [i \in DOMAIN prompt |-> FromItsWh(prompt[i])]
        first(i) == IsQuestion(prompt[i]) /\ \A j \in 1..(i - 1) :
                        ~IsQuestion(prompt[j]) \/ asked[j] # asked[i]
        kept == SelectSeq([i \in DOMAIN prompt |-> i], first)
    IN Top([k \in DOMAIN kept |-> asked[kept[k]]], AskedQuestions)

-----------------------------------------------------------------------------
\* What a question means, given what its words were grounded as, said without plans: an assignment of records to the
\* types it names that fits, and that no assignment to what a negated relation adds fits.

Near(g) ==
    {g.subject} \cup {n \in Vars(g) : \E k \in DOMAIN g.edges :
                        Ends(g.edges[k]) = {g.subject, n} /\ ~g.edges[k].negated}

\* Everything named hangs together with what is asked for.
Connected(g) ==
    /\ ~Endless(g)
    /\ \A n \in DOMAIN g.nodes : Linked(g, n) \/ n = g.subject
    /\ \A k \in DOMAIN g.edges : Ends(g.edges[k]) \cap Vars(g) # {}
    /\ \A n \in Vars(g) \ {g.subject} : \E k \in DOMAIN g.edges : Ends(g.edges[k]) = {g.subject, n}

\* An assignment fits when each record is what its type asks for, and the relations within
\* it hold, but for the negated ones: of those just the ones in also do.
Id(g, a, n) == IF IsVar(g, n) THEN a[n] ELSE g.nodes[n].doc.id
Related(graph, g, a, k) ==
    LinkedBy(graph, Relations[g.edges[k].relation].name,
             Id(g, a, g.edges[k].source), Id(g, a, g.edges[k].target))

IsOne(graph, g, n, id) ==
    LET has(v) == LET mine == Owned(v.candidates, g.nodes[n].type)[1]
                  IN Texts(graph, id, {mine.field}) = <<mine.value>>
        dated(d) == NodeOf(graph, id).day[DateField(d, g.nodes[n].type)[1].field]
                        \in DaysOf(DateWord(g, d))
    IN /\ ~NodeOf(graph, id).dead /\ NodeOf(graph, id).model = g.nodes[n].type
       /\ \A v \in ToSet(ValuesAt(g, n)) : has(v) <=> ~v.negated
       /\ \A d \in ToSet(DatesAt(g, n)) : dated(d) <=> ~d.negated

Within(g, S) == {k \in DOMAIN g.edges : Ends(g.edges[k]) \cap Vars(g) \subseteq S}

Fits(graph, g, a, also) ==
    /\ \A n \in DOMAIN a : IsOne(graph, g, n, a[n])
    /\ \A k \in Within(g, DOMAIN a) :
            Related(graph, g, a, k) <=> (k \in also \/ ~g.edges[k].negated)

\* The text filter, on what is asked for.
Mentions(graph, g, id) ==
    g.contains # 0 => (g.words[g.contains] \in Blob(graph, id) <=> ~g.containsNegated)

Meant(graph, g) ==
    LET ids == {n.id : n \in ToSet(graph.nodes)}
        beyond(k) == (Ends(g.edges[k]) \cap Vars(g)) \ Near(g)
        added == {k \in DOMAIN g.edges :
                    g.edges[k].negated /\ beyond(k) # {} /\ Ends(g.edges[k]) \cap Near(g) # {}}
        lacks(a, k) == ~\E b \in [Near(g) \cup beyond(k) -> ids] :
                            (\A n \in Near(g) : b[n] = a[n]) /\ Fits(graph, g, b, {k})
    IN {a[g.subject] : a \in {a \in [Near(g) -> ids] :
            /\ Fits(graph, g, a, {}) /\ Mentions(graph, g, a[g.subject])
            /\ \A k \in added : lacks(a, k)}}

=============================================================================

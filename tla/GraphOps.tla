------------------------------ MODULE GraphOps ------------------------------
(***************************************************************************)
(* The operations MemoryStore (claude_memory_graph/store.py) offers on the *)
(* graph value it holds in memory, as pure operators: lookups by name, the *)
(* creation and renaming of nodes, and the reified, bi-temporal edges.     *)
(*                                                                         *)
(* A node stands for the quads of one resource or concept, an edge for the *)
(* quads of one mem:CrossLink.  Every lookup of the code is per model, so  *)
(* one resource model and one concept type are enough: ResourceName holds  *)
(* the names of the one, Label the labels of the other.  Of a node's        *)
(* properties only the name and the invalidated flag are kept: an upsert    *)
(* of a name that is there changes the others and so leaves a node as it is.*)
(***************************************************************************)
EXTENDS Naturals

CONSTANTS
    Iri,            \* what uuid4 may mint for a node
    LinkIri,        \* what uuid4 may mint for an edge
    ResourceName,   \* names of the resource model
    Label,          \* labels of the concept type
    Fold,           \* [Label -> Label]: the normalised, case-folded label
    Similar,        \* the pairs names_similar accepts
    Relation,       \* relation names a caller may use
    BaseRelation,   \* the relations base.ttl declares
    SingleValued,   \* those of them marked mem:singleValued
    NoName,         \* a node whose name property was never written
    Never,          \* an absent timestamp
    NoKind          \* an absent mem:invalidationKind

ASSUME NamesAssumption ==
    /\ ResourceName \cap Label = {}
    /\ NoName \notin ResourceName \cup Label
    /\ Fold \in [Label -> Label]
    /\ Similar \subseteq ResourceName \X ResourceName

ASSUME RelationsAssumption ==
    /\ SingleValued \subseteq BaseRelation
    /\ BaseRelation \subseteq Relation

ASSUME TimeAssumption ==
    /\ Never \notin Nat
    /\ NoKind \notin {"worldChange", "correction"}

Time == Nat
Stamp == Time \cup {Never}
Kind == {"worldChange", "correction"}
AnyName == ResourceName \cup Label

Node == [iri : Iri, name : AnyName \cup {NoName}, live : BOOLEAN]

\* What create_link's metadata loop writes: the caller's own value of any of the
\* five keys the clocks are read from.  Other keys but linkSource, linkTarget and
\* linkRelation (a second end or relation, which nothing refuses) are payload.
Metadata == [from : Stamp, until : Stamp, created : Stamp, invalidated : Stamp,
             kind : Kind \cup {NoKind}]
NoMetadata == [from |-> Never, until |-> Never, created |-> Never,
               invalidated |-> Never, kind |-> NoKind]

\* An edge has what the caller said and, beside it, what the store stamped: a
\* key that is in both is two quads, and a reader sees either.
Link == [id : LinkIri, source : Iri, target : Iri, relation : Relation,
         said : Metadata, created : Time, from : Stamp, until : Stamp,
         invalidated : Stamp, kind : Kind \cup {NoKind}]

\* create_link reads the clock for the closure, for linkCreatedAt and for
\* linkValidFrom, and it may have moved in between.
ClockReads(start, end) ==
    {c \in [closed : start .. end, created : start .. end, from : start .. end] :
        c.closed <= c.created /\ c.created <= c.from}

-----------------------------------------------------------------------------
(* Lookups.  LIMIT 1 takes any one of the set. *)

FindResource(N, n) == {x \in N : x.name = n /\ x.live}

ExactConcept(N, l) == {x \in N : x.name = l}
FoldedConcept(N, l) == {x \in N : x.name \in Label /\ Fold[x.name] = Fold[l]}

FindConcept(N, l) ==
    IF ExactConcept(N, l) # {} THEN ExactConcept(N, l) ELSE FoldedConcept(N, l)

FindAny(N, n) == IF n \in Label THEN FindConcept(N, n) ELSE FindResource(N, n)

SimilarLive(N, n) == {x \in N : x.live /\ <<x.name, n>> \in Similar}

FreshIri(N) == Iri \ {x.iri : x \in N}
FreshLink(L) == LinkIri \ {l.id : l \in L}

-----------------------------------------------------------------------------
(* Nodes. *)

NewNode(i, n) == [iri |-> i, name |-> n, live |-> TRUE]

Replace(S, old, new) == (S \ {old}) \cup {new}

\* handle_resource creates past the similar-name guard only when forced.
MayCreate(N, n, force) ==
    FindResource(N, n) = {} /\ (force \/ SimilarLive(N, n) = {})

\* Mutant: the upsert looks for the exact label only.
UpsertExact(N, i, l) ==
    IF ExactConcept(N, l) # {} THEN N ELSE N \cup {NewNode(i, l)}

\* handle_concept: a concept that is already there is returned as it is.
UpsertConcept(N, i, l) ==
    IF FindConcept(N, l) # {} THEN N ELSE N \cup {NewNode(i, l)}

Renamed(N, x, n) == Replace(N, x, [x EXCEPT !.name = n])

Forgotten(N, x) == Replace(N, x, [x EXCEPT !.live = FALSE])

-----------------------------------------------------------------------------
(* Edges. *)

\* Written closed: by the caller's own linkValidUntil or linkInvalidatedAt.
BornClosed(l) == l.said.until # Never \/ l.said.invalidated # Never

Open(l) == l.until = Never /\ l.invalidated = Never /\ ~BornClosed(l)

SameEnds(l, s, t, r) == l.source = s /\ l.target = t /\ l.relation = r

FindOpen(L, s, t, r) == {l \in L : Open(l) /\ SameEnds(l, s, t, r)}

\* Mutant: the closure takes edges that are bounded already.
ConflictingEver(L, s, t, r) ==
    {l \in L : l.source = s /\ l.relation = r /\ l.target # t}

Conflicting(L, s, t, r) ==
    {l \in L : Open(l) /\ l.source = s /\ l.relation = r /\ l.target # t}

\* Mutant: the bound is read from the clock after the successor is stamped.
WorldChangedLate(l, now) ==
    [l EXCEPT !.until = now + 1, !.invalidated = now + 1, !.kind = "worldChange"]

WorldChanged(l, now) ==
    [l EXCEPT !.until = now, !.invalidated = now, !.kind = "worldChange"]

\* Mutant: a correction bounds the world clock as well.
CorrectedBoth(l, now) ==
    [l EXCEPT !.until = now, !.invalidated = now, !.kind = "correction"]

Corrected(l, now) ==
    [l EXCEPT !.invalidated = now, !.kind = "correction"]

\* Mutant: the conflicting edges are deleted.
DeleteConflicting(L, s, t, r, now) == L \ Conflicting(L, s, t, r)

\* The contradiction closure: every conflicting open edge is bounded.
CloseConflicting(L, s, t, r, now) ==
    (L \ Conflicting(L, s, t, r))
        \cup {WorldChanged(l, now) : l \in Conflicting(L, s, t, r)}

\* Mutant: linkCreatedAt takes the stamp of the world clock.
EdgeBackdated(i, s, t, r, said, created, from) ==
    [id |-> i, source |-> s, target |-> t, relation |-> r, said |-> said,
     created |-> from, from |-> from,
     until |-> Never, invalidated |-> Never, kind |-> NoKind]

\* An edge as create_link writes it: recorded, its world clock set, not revised.
Edge(i, s, t, r, said, created, from) ==
    [id |-> i, source |-> s, target |-> t, relation |-> r, said |-> said,
     created |-> created, from |-> from,
     until |-> Never, invalidated |-> Never, kind |-> NoKind]

\* The world clock defaults to a read of its own unless linkValidFrom is given.
FromStamp(m, c) == IF m.from = Never THEN c.from ELSE Never

NewLink(i, s, t, r, m, c) == Edge(i, s, t, r, m, c.created, FromStamp(m, c))

\* Mutant: no closure.
NotCleared(L, s, t, r, now) == L

Cleared(L, s, t, r, now) ==
    IF r \in SingleValued THEN CloseConflicting(L, s, t, r, now) ELSE L

\* Mutant: every call writes an edge.
CreateLinkAlways(L, i, s, t, r, m, c) ==
    Cleared(L, s, t, r, c.closed) \cup {NewLink(i, s, t, r, m, c)}

CreateLink(L, i, s, t, r, m, c) ==
    IF FindOpen(L, s, t, r) # {} THEN L
    ELSE Cleared(L, s, t, r, c.closed) \cup {NewLink(i, s, t, r, m, c)}

\* What of the metadata is written when the loop meets a malformed key: the keys
\* that came before it.
Parts(m) ==
    [from : {m.from, Never}, until : {m.until, Never}, created : {m.created, Never},
     invalidated : {m.invalidated, Never}, kind : {m.kind, NoKind}]

\* The edges create_link may then leave behind.
HalfLinks(i, s, t, r, m, c) ==
    {Edge(i, s, t, r, said, c.created, FromStamp(m, c)) : said \in Parts(m)}

CloseLink(L, l, kind, now) ==
    Replace(L, l, IF kind = "worldChange" THEN WorldChanged(l, now)
                                          ELSE Corrected(l, now))
=============================================================================

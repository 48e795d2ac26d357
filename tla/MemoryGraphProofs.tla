------------------------- MODULE MemoryGraphProofs -------------------------
(***************************************************************************)
(* Theorems about MemoryGraph for every set of names, nodes, edges and     *)
(* relations: the edges of a single-valued relation keep one current       *)
(* target and one answer at every instant, and implement the register file *)
(* of CurrentFacts; a name is an identity, and an edge leads to the node   *)
(* found under its name.  And about Lexicon, the same graph's phrasings of *)
(* relations: one taken away comes back only by a call or an adoption.     *)
(***************************************************************************)
EXTENDS MemoryGraph, Lexicon, TLAPS

-----------------------------------------------------------------------------
(* Lemmas about the edge operators *)

\* The three reads of the clock are in order and not before the call.
LEMMA ReadsInOrder ==
    ASSUME NEW n \in Time, NEW e \in Time, NEW c \in ClockReads(n, e)
    PROVE  /\ c.closed \in Time /\ c.created \in Time /\ c.from \in Time
           /\ n <= c.closed /\ c.closed <= c.created /\ c.created <= c.from
  BY DEF ClockReads, Time

\* Every edge a memory_link call may leave is an edge of the type, recorded at the
\* call, between the nodes and under the relation of the call, and not revised.
LEMMA HalfLinkShape ==
    ASSUME NEW i \in LinkIri, NEW s \in Iri, NEW t \in Iri, NEW r \in Relation,
           NEW m \in Metadata, NEW n \in Time, NEW c \in ClockReads(n, MaxTime),
           NEW h \in HalfLinks(i, s, t, r, m, c)
    PROVE  /\ h \in Link
           /\ SameEnds(h, s, t, r)
           /\ h.created = c.created
           /\ h.until = Never /\ h.invalidated = Never /\ h.kind = NoKind
           /\ h.from \in {c.from, Never}
<1>1. PICK said \in Parts(m) : h = Edge(i, s, t, r, said, c.created, FromStamp(m, c))
  BY DEF HalfLinks
<1>2. said \in Metadata
  BY DEF Parts, Metadata, Stamp
<1>3. c.created \in Time /\ c.from \in Time
  BY BoundsAssumption, ReadsInOrder DEF Time
<1>4. FromStamp(m, c) \in Stamp /\ FromStamp(m, c) \in {c.from, Never}
  BY <1>3 DEF FromStamp, Stamp
<1> QED
  BY <1>1, <1>2, <1>3, <1>4 DEF Edge, Link, Stamp, SameEnds

\* A call that was not interrupted leaves one of the edges an interrupted one
\* may leave.
LEMMA NewLinkIsHalf ==
    ASSUME NEW i, NEW s, NEW t, NEW r, NEW m \in Metadata, NEW c
    PROVE  NewLink(i, s, t, r, m, c) \in HalfLinks(i, s, t, r, m, c)
<1>1. m \in Parts(m)
  BY DEF Parts, Metadata
<1> QED  BY <1>1 DEF NewLink, HalfLinks

\* The closure keeps the type, opens nothing, and leaves no open edge of the
\* relation to another target; an edge it does not keep was bounded now.
LEMMA ClearedEdges ==
    ASSUME NEW L \in SUBSET Link, NEW s \in Iri, NEW t \in Iri, NEW r \in Relation,
           NEW n \in Time
    PROVE  /\ Cleared(L, s, t, r, n) \in SUBSET Link
           /\ \A l \in Cleared(L, s, t, r, n) :
                \/ l \in L /\ l \notin Conflicting(L, s, t, r)
                \/ l \in L /\ r \notin SingleValued
                \/ \E k \in L : Open(k) /\ l = WorldChanged(k, n)
           /\ \A l \in Cleared(L, s, t, r, n) : Open(l) => l \in L
           /\ r \in SingleValued =>
                \A l \in Cleared(L, s, t, r, n) :
                    Open(l) /\ l.source = s /\ l.relation = r => l.target = t
<1>1. \A k \in L : /\ WorldChanged(k, n) \in Link
                   /\ ~ Open(WorldChanged(k, n))
  BY TimeAssumption DEF WorldChanged, Link, Stamp, Time, Kind, Open, BornClosed
<1>2. CASE r \notin SingleValued
  BY <1>2 DEF Cleared
<1>3. CASE r \in SingleValued
  BY <1>1, <1>3 DEF Cleared, CloseConflicting, Conflicting
<1> QED  BY <1>2, <1>3

-----------------------------------------------------------------------------
(* What one step does to the edges *)

\* A memory_link between s and t, reading the clock as c, left the edge h after
\* the closure.
Linked(s, t, r, h, c) ==
    /\ FindOpen(links, s, t, r) = {}
    /\ c \in ClockReads(now, MaxTime)
    /\ \E i \in FreshLink(links), m \in Metadata : h \in HalfLinks(i, s, t, r, m, c)
    /\ links' = Cleared(links, s, t, r, c.closed) \cup {h}
    /\ now' = c.from

\* The reads of a call's clock are not before now.
LEMMA CallReads ==
    ASSUME TypeOK, NEW c \in ClockReads(now, MaxTime)
    PROVE  /\ now \in Time /\ c.closed \in Time /\ c.created \in Time /\ c.from \in Time
           /\ now <= c.closed /\ c.closed <= c.created /\ c.created <= c.from
<1>1. now \in Time /\ MaxTime \in Time
  BY BoundsAssumption DEF TypeOK, Time
<1> QED  BY <1>1, ReadsInOrder

\* A memory_unlink bounded the open edge l.
Bounded(l, kind) ==
    /\ Open(l)
    /\ links' = CloseLink(links, l, kind, now)
    /\ now' = now

\* A memory_unlink in mode remove took the edge l.
Deleted(l) == HardDelete /\ links' = links \ {l} /\ now' = now

\* A hard delete makes no edge.
LEMMA DeletedLeaves == \A l \in links : Deleted(l) => links' \subseteq links /\ now' = now
  BY DEF Deleted

\* Whatever tool runs, the edges stay, lose one, gain one after the closure, or
\* have one bounded; and the clock does not go back.
LEMMA EdgeSteps ==
    ASSUME TypeOK, [Next]_vars
    PROVE  \/ links' = links /\ now' \in Time /\ now <= now'
           \/ \E l \in links : Deleted(l)
           \/ \E s, t \in Iri, r \in Relation, h \in Link, c \in ClockReads(now, MaxTime) :
                Linked(s, t, r, h, c)
           \/ \E l \in links, kind \in Kind : Bounded(l, kind)
<1> USE DEF TypeOK
<1>1. CASE UNCHANGED <<links, now>>
  BY <1>1 DEF Time
<1> now \in Time
  OBVIOUS
<1>2. ASSUME NEW s \in AnyName, NEW t \in AnyName, NEW r \in Relation,
             NEW define \in BOOLEAN, NEW m \in Calls, NEW c \in ClockReads(now, MaxTime),
             LinkNodes(s, t, r, define, m, c)
      PROVE  \/ links' = links /\ now' \in Time /\ now <= now'
             \/ \E x, y \in Iri, h \in Link : Linked(x, y, r, h, c)
  <2>1. PICK x \in FindAny(nodes, s), y \in FindAny(nodes, t), i \in FreshLink(links) :
          links' = CreateLink(links, i, x.iri, y.iri, r, m, c)
    BY <1>2 DEF LinkNodes
  <2>2. x.iri \in Iri /\ y.iri \in Iri
    BY DEF FindAny, FindConcept, FindResource, ExactConcept, FoldedConcept, Node
  <2>3. m \in Metadata /\ i \in LinkIri
    BY BoundsAssumption DEF FreshLink
  <2>4. CASE FindOpen(links, x.iri, y.iri, r) # {}
    <3>1. links' = links /\ now' = c.from
      BY <1>2, <2>1, <2>4 DEF CreateLink, LinkNodes
    <3>2. c.from \in Time /\ now <= c.from
      BY BoundsAssumption, ReadsInOrder DEF Time
    <3> QED  BY <3>1, <3>2
  <2>5. CASE FindOpen(links, x.iri, y.iri, r) = {}
    <3>1. NewLink(i, x.iri, y.iri, r, m, c) \in HalfLinks(i, x.iri, y.iri, r, m, c)
      BY <2>3, NewLinkIsHalf
    <3>2. NewLink(i, x.iri, y.iri, r, m, c) \in Link
      BY <2>2, <2>3, <3>1, HalfLinkShape
    <3>3. Linked(x.iri, y.iri, r, NewLink(i, x.iri, y.iri, r, m, c), c)
      BY <1>2, <2>1, <2>3, <2>5, <3>1 DEF LinkNodes, Linked, CreateLink
    <3> QED  BY <2>2, <3>2, <3>3
  <2> QED  BY <2>4, <2>5
<1>3. ASSUME NEW s \in AnyName, NEW t \in AnyName, NEW r \in Relation,
             NEW define \in BOOLEAN, NEW m \in Calls, NEW c \in ClockReads(now, MaxTime),
             InterruptedLink(s, t, r, define, m, c)
      PROVE  \E x, y \in Iri, h \in Link : Linked(x, y, r, h, c)
  <2>1. PICK x \in FindAny(nodes, s), y \in FindAny(nodes, t), i \in FreshLink(links) :
          /\ FindOpen(links, x.iri, y.iri, r) = {}
          /\ \E l \in HalfLinks(i, x.iri, y.iri, r, m, c) :
                links' = Cleared(links, x.iri, y.iri, r, c.closed) \cup {l}
    BY <1>3 DEF InterruptedLink
  <2>2. x.iri \in Iri /\ y.iri \in Iri
    BY DEF FindAny, FindConcept, FindResource, ExactConcept, FoldedConcept, Node
  <2>3. m \in Metadata /\ i \in LinkIri
    BY BoundsAssumption DEF FreshLink
  <2>4. PICK h \in HalfLinks(i, x.iri, y.iri, r, m, c) :
          links' = Cleared(links, x.iri, y.iri, r, c.closed) \cup {h}
    BY <2>1
  <2>5. h \in Link
    BY <2>2, <2>3, HalfLinkShape
  <2>6. Linked(x.iri, y.iri, r, h, c)
    BY <1>3, <2>1, <2>3, <2>4 DEF InterruptedLink, Linked
  <2> QED  BY <2>2, <2>5, <2>6
<1>4. ASSUME NEW s \in AnyName, NEW t \in AnyName, NEW r \in Relation,
             NEW kind \in Kind, Unlink(s, t, r, kind)
      PROVE  \E l \in links : Bounded(l, kind)
  BY <1>4 DEF Unlink, Bounded, FindOpen
<1>5. ASSUME NEW s \in AnyName, NEW t \in AnyName, NEW r \in Relation,
             RemoveLink(s, t, r)
      PROVE  \E l \in links : Deleted(l)
  BY <1>5 DEF RemoveLink, Deleted, HardDelete
<1>6. CASE Tick
  BY <1>6 DEF Tick, Time
<1>7. Next => \/ UNCHANGED <<links, now>> \/ LinkCall \/ UnlinkCall \/ Tick
  BY DEF Next, Store, Rename, CreateResource, InterruptedCreate, StoreConcept,
         RenameResource, RenameConcept, Forget
<1>8. CASE LinkCall
  <2>1. \A s, t \in AnyName, r \in Relation :
          LinkUnresolved(s, t, r) => UNCHANGED <<links, now>>
    BY DEF LinkUnresolved
  <2> QED  BY <1>1, <1>2, <1>3, <1>8, <2>1 DEF LinkCall
<1>9. CASE UnlinkCall
  BY <1>4, <1>5, <1>9 DEF UnlinkCall
<1> QED  BY <1>1, <1>6, <1>7, <1>8, <1>9 DEF vars

-----------------------------------------------------------------------------
(* Type correctness *)

\* The nodes and the schema keep their types.
LEMMA NodesTyped == TypeOK /\ [Next]_vars => nodes' \subseteq Node /\ known' \subseteq Relation
<1> SUFFICES ASSUME TypeOK, [Next]_vars
             PROVE  nodes' \subseteq Node /\ known' \subseteq Relation
  OBVIOUS
<1> USE DEF TypeOK
<1>1. \A i \in FreshIri(nodes), n \in AnyName \cup {NoName} : NewNode(i, n) \in Node
  BY DEF FreshIri, NewNode, Node
<1>2. \A x \in nodes, n \in AnyName :
        Renamed(nodes, x, n) \subseteq Node /\ Forgotten(nodes, x) \subseteq Node
  BY DEF Renamed, Forgotten, Replace, Node
<1>3. CASE Store
  BY <1>1, <1>3 DEF Store, CreateResource, InterruptedCreate, StoreConcept,
                    UpsertConcept, AnyName
<1>4. CASE Rename
  BY <1>2, <1>4 DEF Rename, RenameResource, RenameConcept, FindResource,
                    FindConcept, ExactConcept, FoldedConcept, AnyName
<1>5. ASSUME NEW n \in ResourceName, Forget(n)
      PROVE  nodes' \subseteq Node /\ known' \subseteq Relation
  BY <1>2, <1>5 DEF Forget, FindResource, AnyName
<1>6. CASE LinkCall \/ UnlinkCall
  BY <1>6 DEF LinkCall, UnlinkCall, LinkNodes, InterruptedLink, LinkUnresolved,
              Unlink, RemoveLink
<1>7. CASE Tick \/ UNCHANGED vars
  BY <1>7 DEF Tick, vars
<1> QED  BY <1>3, <1>4, <1>5, <1>6, <1>7 DEF Next

\* Bounding an edge keeps the type and opens nothing.
LEMMA BoundedEdge ==
    ASSUME NEW l \in Link, NEW n \in Time, Open(l)
    PROVE  /\ WorldChanged(l, n) \in Link /\ ~ Open(WorldChanged(l, n))
           /\ Corrected(l, n) \in Link /\ ~ Open(Corrected(l, n))
  BY TimeAssumption DEF WorldChanged, Corrected, Link, Stamp, Time, Kind, Open, BornClosed

\* The type invariant is inductive.
LEMMA TypeInductive == TypeOK /\ [Next]_vars => TypeOK'
<1> SUFFICES ASSUME TypeOK, [Next]_vars
             PROVE  links' \subseteq Link /\ now' \in Time
  BY NodesTyped DEF TypeOK
<1> USE DEF TypeOK
<1>1. ASSUME NEW s \in Iri, NEW t \in Iri, NEW r \in Relation, NEW h \in Link,
             NEW c \in ClockReads(now, MaxTime), Linked(s, t, r, h, c)
      PROVE  links' \subseteq Link /\ now' \in Time
  <2>0. c.closed \in Time /\ c.from \in Time
    BY BoundsAssumption, ReadsInOrder DEF Time
  <2>1. Cleared(links, s, t, r, c.closed) \in SUBSET Link
    BY <2>0, ClearedEdges
  <2> QED  BY <1>1, <2>0, <2>1 DEF Linked
<1>2. ASSUME NEW l \in links, NEW kind \in Kind, Bounded(l, kind)
      PROVE  links' \subseteq Link /\ now' \in Time
  BY <1>2, BoundedEdge DEF Bounded, CloseLink, Replace
<1> QED  BY <1>1, <1>2, EdgeSteps, DeletedLeaves

\* Every reachable state is well typed.
THEOREM TypeCorrect == Spec => []TypeOK
<1>1. Init => TypeOK
  BY RelationsAssumption DEF Init, TypeOK, Time
<1> QED  BY <1>1, TypeInductive, PTL DEF Spec

-----------------------------------------------------------------------------
(* One current target *)

\* Open edges after a memory_link are open edges from before, or the new one.
LEMMA OpenAfterLink ==
    ASSUME TypeOK, NEW s \in Iri, NEW t \in Iri, NEW r \in Relation,
           NEW h \in Link, NEW c \in ClockReads(now, MaxTime), Linked(s, t, r, h, c)
    PROVE  /\ SameEnds(h, s, t, r)
           /\ \A l \in links' : Open(l) => l \in links \/ l = h
           /\ \A l \in links' : Open(l) /\ SameEnds(l, s, t, r) => l = h
           /\ r \in SingleValued =>
                \A l \in links' : Open(l) /\ l.source = s /\ l.relation = r => l = h
<1> USE DEF TypeOK
<1>0. c.closed \in Time /\ now \in Time
  BY CallReads
<1>1. PICK i \in FreshLink(links), m \in Metadata : h \in HalfLinks(i, s, t, r, m, c)
  BY DEF Linked
<1>2. SameEnds(h, s, t, r)
  <2>1. i \in LinkIri
    BY DEF FreshLink
  <2> QED  BY <1>0, <1>1, <2>1, HalfLinkShape
<1>3. \A l \in links' : l \in Cleared(links, s, t, r, c.closed) \/ l = h
  BY DEF Linked
<1>4. \A l \in links' : Open(l) => l \in links \/ l = h
  BY <1>0, <1>3, ClearedEdges
<1>5. \A l \in links' : Open(l) /\ SameEnds(l, s, t, r) => l = h
  BY <1>4 DEF Linked, FindOpen
<1>6. ASSUME r \in SingleValued, NEW l \in links', Open(l), l.source = s, l.relation = r
      PROVE  l = h
  <2>1. l = h \/ l.target = t
    BY <1>0, <1>3, <1>6, ClearedEdges
  <2> QED  BY <1>5, <1>6, <2>1 DEF SameEnds
<1> QED  BY <1>2, <1>4, <1>5, <1>6

\* Open edges after a bounding are open edges from before.
LEMMA OpenAfterBound ==
    ASSUME TypeOK, NEW l \in links, NEW kind \in Kind, Bounded(l, kind)
    PROVE  \A k \in links' : Open(k) => k \in links
  BY BoundedEdge DEF TypeOK, Bounded, CloseLink, Replace

OpenEdgesUnique == OneCurrentTarget /\ NoTwinEdges

\* Both uniqueness invariants survive every step.
LEMMA UniqueInductive == TypeOK /\ OpenEdgesUnique /\ [Next]_vars => OpenEdgesUnique'
<1> SUFFICES ASSUME TypeOK, OpenEdgesUnique, [Next]_vars
             PROVE  OpenEdgesUnique'
  OBVIOUS
<1> USE DEF OpenEdgesUnique, OneCurrentTarget, NoTwinEdges
<1>1. CASE \A l \in links' : Open(l) => l \in links
  BY <1>1
<1>2. ASSUME NEW s \in Iri, NEW t \in Iri, NEW r \in Relation, NEW h \in Link,
             NEW c \in ClockReads(now, MaxTime), Linked(s, t, r, h, c)
      PROVE  OpenEdgesUnique'
  BY <1>2, OpenAfterLink DEF SameEnds
<1>3. ASSUME NEW l \in links, NEW kind \in Kind, Bounded(l, kind)
      PROVE  OpenEdgesUnique'
  BY <1>1, <1>3, OpenAfterBound
<1> QED  BY <1>1, <1>2, <1>3, EdgeSteps, DeletedLeaves

\* A source never has two current targets of a single-valued relation.
THEOREM OneCurrentTargetHolds == Spec => []OneCurrentTarget
<1>1. Init => OpenEdgesUnique
  BY DEF Init, OpenEdgesUnique, OneCurrentTarget, NoTwinEdges
<1>2. OpenEdgesUnique => OneCurrentTarget
  BY DEF OpenEdgesUnique
<1> QED  BY <1>1, <1>2, UniqueInductive, TypeCorrect, PTL DEF Spec

\* Linking the same pair again never makes a second open edge.
THEOREM NoTwinEdgesHolds == Spec => []NoTwinEdges
<1>1. Init => OpenEdgesUnique
  BY DEF Init, OpenEdgesUnique, OneCurrentTarget, NoTwinEdges
<1>2. OpenEdgesUnique => NoTwinEdges
  BY DEF OpenEdgesUnique
<1> QED  BY <1>1, <1>2, UniqueInductive, TypeCorrect, PTL DEF Spec

-----------------------------------------------------------------------------
(* The two clocks *)

\* Of what the store wrote of an edge.
ClockRule(l, n) ==
    /\ l.created <= n
    /\ l.kind = "correction" => l.until = Never /\ l.invalidated # Never
    /\ l.kind = "worldChange" =>
        l.until = l.invalidated /\ l.until \in l.created .. n
    /\ l.kind = NoKind => l.until = Never /\ l.invalidated = Never
    /\ BornClosed(l) => l.kind = NoKind

\* Of what a reader finds of it.
ReaderRule(l, n) ==
    StoreKeysUnsaid(l) =>
        \/ Kinds(l) = {} /\ Invalidations(l) = {}
        \/ Kinds(l) = {"correction"} /\ Untils(l) = {} /\ Invalidations(l) # {}
        \/ /\ Kinds(l) = {"worldChange"}
           /\ \E t \in l.created .. n : Untils(l) = {t} /\ Invalidations(l) = {t}

\* The reader's rule follows: what the caller wrote is nothing to it, or closed the
\* edge before the store could.
LEMMA ReaderRuleFollows ==
    ASSUME NEW l \in Link, NEW n \in Time, ClockRule(l, n)
    PROVE  ReaderRule(l, n)
<1> SUFFICES ASSUME StoreKeysUnsaid(l)
             PROVE  \/ Kinds(l) = {} /\ Invalidations(l) = {}
                    \/ Kinds(l) = {"correction"} /\ Untils(l) = {} /\ Invalidations(l) # {}
                    \/ /\ Kinds(l) = {"worldChange"}
                       /\ \E t \in l.created .. n : Untils(l) = {t} /\ Invalidations(l) = {t}
  BY DEF ReaderRule
<1>1. l.kind \in {"worldChange", "correction", NoKind}
  BY DEF Link, Kind
<1>2. Kinds(l) = {l.kind} \ {NoKind} /\ Invalidations(l) = {l.invalidated} \ {Never}
  BY DEF StoreKeysUnsaid, Kinds, Invalidations
<1>3. CASE l.kind = NoKind
  BY <1>2, <1>3 DEF ClockRule
<1>4. l.kind # NoKind => l.said.until = Never
  BY DEF ClockRule, BornClosed
<1>5. l.kind # NoKind => Untils(l) = {l.until} \ {Never}
  BY <1>4 DEF Untils
<1>6. CASE l.kind = "correction"
  BY <1>2, <1>5, <1>6, TimeAssumption DEF ClockRule
<1>7. CASE l.kind = "worldChange"
  <2>1. l.until \in l.created .. n /\ l.invalidated = l.until
    BY <1>7 DEF ClockRule
  <2>2. l.until # Never
    BY <2>1, TimeAssumption DEF Link, Time
  <2> QED  BY <1>2, <1>5, <1>7, <2>1, <2>2, TimeAssumption
<1> QED  BY <1>1, <1>3, <1>6, <1>7

\* An edge that keeps the rule keeps it as the clock advances.
LEMMA ClockRuleLater ==
    ASSUME NEW l \in Link, NEW n \in Time, NEW q \in Time, n <= q, ClockRule(l, n)
    PROVE  ClockRule(l, q)
  BY DEF ClockRule, Link, Time

\* Bounding an open edge that keeps the rule yields one that keeps it.
LEMMA ClockRuleBounded ==
    ASSUME NEW l \in Link, NEW n \in Time, ClockRule(l, n), Open(l)
    PROVE  ClockRule(WorldChanged(l, n), n) /\ ClockRule(Corrected(l, n), n)
<1>1. /\ WorldChanged(l, n).kind = "worldChange" /\ WorldChanged(l, n).until = n
      /\ WorldChanged(l, n).invalidated = n /\ WorldChanged(l, n).created = l.created
      /\ WorldChanged(l, n).said = l.said
      /\ Corrected(l, n).kind = "correction" /\ Corrected(l, n).until = l.until
      /\ Corrected(l, n).invalidated = n /\ Corrected(l, n).created = l.created
      /\ Corrected(l, n).said = l.said
  BY DEF WorldChanged, Corrected, Link
<1>2. n \in l.created .. n /\ n # Never /\ l.created <= n
  BY TimeAssumption DEF ClockRule, Link, Time
<1>3. ~BornClosed(WorldChanged(l, n)) /\ ~BornClosed(Corrected(l, n)) /\ l.until = Never
  BY <1>1 DEF Open, BornClosed
<1> QED  BY <1>1, <1>2, <1>3, TimeAssumption DEF ClockRule

\* The new edge of a memory_link is in the links, recorded at the call, and every
\* other edge was there before or was open and is bounded by the call.
LEMMA EdgesAfterLink ==
    ASSUME TypeOK, NEW s \in Iri, NEW t \in Iri, NEW r \in Relation,
           NEW h \in Link, NEW c \in ClockReads(now, MaxTime), Linked(s, t, r, h, c)
    PROVE  /\ SameEnds(h, s, t, r) /\ h.created = c.created /\ h.from \in {c.from, Never}
           /\ h.until = Never /\ h.invalidated = Never /\ h.kind = NoKind
           /\ \A l \in links' :
                \/ l = h
                \/ l \in links
                \/ \E k \in links : Open(k) /\ l = WorldChanged(k, c.closed)
<1> USE DEF TypeOK
<1>0. c.closed \in Time /\ now \in Time
  BY CallReads
<1>1. PICK i \in FreshLink(links), m \in Metadata : h \in HalfLinks(i, s, t, r, m, c)
  BY DEF Linked
<1>2. i \in LinkIri
  BY DEF FreshLink
<1>3. \A l \in links' : l \in Cleared(links, s, t, r, c.closed) \/ l = h
  BY DEF Linked
<1>4. /\ SameEnds(h, s, t, r) /\ h.created = c.created /\ h.from \in {c.from, Never}
      /\ h.until = Never /\ h.invalidated = Never /\ h.kind = NoKind
  BY <1>0, <1>1, <1>2, HalfLinkShape
<1> QED  BY <1>0, <1>3, <1>4, ClearedEdges

\* The clock invariant is inductive.
LEMMA ClocksInductive == TypeOK /\ TypeOK' /\ ClocksAgree /\ [Next]_vars => ClocksAgree'
<1> SUFFICES ASSUME TypeOK, TypeOK', \A l \in links : ClockRule(l, now), [Next]_vars
             PROVE  \A l \in links' : ClockRule(l, now') /\ ReaderRule(l, now')
  BY DEF ClocksAgree, ClockRule, ReaderRule, BornClosed, StoreKeysUnsaid, Kinds,
         Invalidations, Untils
<1> SUFFICES \A l \in links' : ClockRule(l, now')
  BY ReaderRuleFollows DEF TypeOK
<1> USE DEF TypeOK
<1>1. CASE links' \subseteq links /\ now' \in Time /\ now <= now'
  BY <1>1, ClockRuleLater
<1>2. ASSUME NEW s \in Iri, NEW t \in Iri, NEW r \in Relation, NEW h \in Link,
             NEW c \in ClockReads(now, MaxTime), Linked(s, t, r, h, c)
      PROVE  \A l \in links' : ClockRule(l, now')
  <2>0. /\ now \in Time /\ c.closed \in Time /\ c.created \in Time /\ c.from \in Time
        /\ now <= c.closed /\ c.closed <= c.from /\ c.created <= c.from /\ now <= c.from
    BY CallReads DEF Time
  <2>1. /\ now' = c.from /\ h.created = c.created
        /\ h.until = Never /\ h.invalidated = Never /\ h.kind = NoKind
    BY <1>2, EdgesAfterLink DEF Linked
  <2>2. ClockRule(h, c.from)
    BY <2>0, <2>1, TimeAssumption DEF ClockRule, Time, Kind
  <2>3. \A k \in links : ClockRule(k, c.from)
    BY <2>0, ClockRuleLater
  <2>4. \A k \in links : Open(k) => ClockRule(WorldChanged(k, c.closed), c.from)
    <3> SUFFICES ASSUME NEW k \in links, Open(k)
                 PROVE  ClockRule(WorldChanged(k, c.closed), c.from)
      OBVIOUS
    <3>1. ClockRule(k, c.closed)
      BY <2>0, ClockRuleLater
    <3>2. ClockRule(WorldChanged(k, c.closed), c.closed)
      BY <2>0, <3>1, ClockRuleBounded
    <3>3. WorldChanged(k, c.closed) \in Link
      BY <2>0, BoundedEdge
    <3> QED  BY <2>0, <3>2, <3>3, ClockRuleLater
  <2> QED  BY <1>2, <2>1, <2>2, <2>3, <2>4, EdgesAfterLink
<1>3. ASSUME NEW l \in links, NEW kind \in Kind, Bounded(l, kind)
      PROVE  \A k \in links' : ClockRule(k, now')
  BY <1>3, ClockRuleBounded DEF Bounded, CloseLink, Replace
<1> QED  BY <1>1, <1>2, <1>3, EdgeSteps, DeletedLeaves DEF Time

\* In every reachable state the two clocks agree with the invalidation's kind: what the
\* store wrote of every edge, what a reader finds of those whose metadata left the
\* store's keys alone (store.py create_link, close_link).
THEOREM ClocksAgreeHolds == Spec => []ClocksAgree
<1>1. Init => ClocksAgree
  BY DEF Init, ClocksAgree
<1> QED  BY <1>1, ClocksInductive, TypeCorrect, PTL DEF Spec

-----------------------------------------------------------------------------
(* One answer at every instant *)

\* Bounding an edge leaves it who it was and takes instants away from it.
LEMMA BoundingShrinks ==
    ASSUME NEW l \in Link, NEW k \in Link, NEW n \in Time, Open(l), ClockRule(l, n),
           l # k, Rivals(WorldChanged(l, n), k), StampedByStore(WorldChanged(l, n)),
           Overlap(WorldChanged(l, n), k)
    PROVE  Rivals(l, k) /\ StampedByStore(l) /\ Overlap(l, k)
<1> DEFINE w == WorldChanged(l, n)
<1>1. /\ w.source = l.source /\ w.relation = l.relation /\ w.from = l.from
      /\ w.created = l.created /\ w.until = n /\ w.said = l.said
  BY DEF WorldChanged, Link
<1>2. l.kind # "correction" /\ l.until = Never
  BY DEF ClockRule, Open
<1> HIDE DEF w
<1>3. Rivals(w, k) /\ StampedByStore(w) /\ Overlap(w, k)
  BY DEF w
<1>4. Rivals(l, k)
  BY <1>1, <1>2, <1>3 DEF Rivals
<1>5. StampedByStore(l) /\ Overlap(l, k)
  BY <1>1, <1>2, <1>3, TimeAssumption DEF StampedByStore, Overlap, Time
<1> QED  BY <1>4, <1>5

\* Being rivals and overlapping are symmetric.
LEMMA RivalsSymmetric ==
    ASSUME NEW l \in Link, NEW k \in Link
    PROVE  (Rivals(l, k) <=> Rivals(k, l)) /\ (Overlap(l, k) <=> Overlap(k, l))
  BY DEF Rivals, Overlap

\* After a memory_link of a single-valued relation every other edge of its
\* source is over: it was closed before, or was the one open edge.
LEMMA RivalsAfterLink ==
    ASSUME TypeOK, NEW s \in Iri, NEW t \in Iri, NEW r \in SingleValued,
           NEW h \in Link, NEW c \in ClockReads(now, MaxTime), Linked(s, t, r, h, c),
           NEW l \in links', l # h, l.source = s, l.relation = r
    PROVE  \/ l \in links /\ ~ Open(l)
           \/ \E x \in Conflicting(links, s, t, r) : Open(x) /\ l = WorldChanged(x, c.closed)
<1>1. l \in Cleared(links, s, t, r, c.closed)
  BY DEF Linked
<1>2. r \in Relation
  BY RelationsAssumption
<1>3. ~ Open(l)
  BY <1>2, OpenAfterLink
<1> QED  BY <1>1, <1>3 DEF Cleared, CloseConflicting, Conflicting

\* An edge of another source or relation is what it was.
LEMMA OthersAfterLink ==
    ASSUME TypeOK, NEW s \in Iri, NEW t \in Iri, NEW r \in Relation,
           NEW h \in Link, NEW c \in ClockReads(now, MaxTime), Linked(s, t, r, h, c), NEW l \in links',
           l.source # s \/ l.relation # r
    PROVE  l \in links
<1>1. SameEnds(h, s, t, r)
  BY EdgesAfterLink
<1>2. l \in Cleared(links, s, t, r, c.closed)
  BY <1>1 DEF Linked, SameEnds
<1>3. \A x \in Conflicting(links, s, t, r) :
        WorldChanged(x, c.closed).source = s /\ WorldChanged(x, c.closed).relation = r
  BY DEF TypeOK, Conflicting, WorldChanged, Link
<1> QED  BY <1>2, <1>3 DEF Cleared, CloseConflicting

\* The invariant is inductive with the type, uniqueness and clock invariants.
LEMMA OneAnswerInductive ==
    /\ TypeOK /\ OpenEdgesUnique /\ ClocksAgree
    /\ OneAnswerAtEveryInstant /\ [Next]_vars /\ TypeOK'
    => OneAnswerAtEveryInstant'
<1> SUFFICES ASSUME TypeOK, TypeOK', OpenEdgesUnique, OneAnswerAtEveryInstant,
                    [Next]_vars, \A l \in links : ClockRule(l, now)
             PROVE  OneAnswerAtEveryInstant'
  BY DEF ClocksAgree, ClockRule
<1> links \subseteq Link /\ links' \subseteq Link /\ now \in Time
  BY DEF TypeOK
<1> DEFINE Clash(l, k) == /\ Rivals(l, k) /\ Overlap(l, k)
                          /\ StampedByStore(l) /\ StampedByStore(k)
<1> SUFFICES ASSUME NEW l \in links', NEW k \in links', Clash(l, k)
             PROVE  FALSE
  BY DEF OneAnswerAtEveryInstant
<1>1. \A x, y \in links : ~ Clash(x, y)
  BY DEF OneAnswerAtEveryInstant
<1>2. CASE links' \subseteq links
  BY <1>1, <1>2
<1>3. ASSUME NEW s \in Iri, NEW t \in Iri, NEW r \in Relation, NEW h \in Link,
             NEW c \in ClockReads(now, MaxTime), Linked(s, t, r, h, c)
      PROVE  FALSE
  <2>0. /\ c.closed \in Time /\ c.from \in Time
        /\ now <= c.closed /\ c.closed <= c.from
    BY CallReads DEF Time
  <2>1. CASE l.source # s \/ l.relation # r
    BY <1>1, <1>3, <2>1, OthersAfterLink DEF Rivals
  <2>2. CASE l.source = s /\ l.relation = r
    <3>1. r \in SingleValued /\ k.source = s /\ k.relation = r /\ l # k
      BY <2>2 DEF Rivals
    <3>2. \A x \in links' : x # h /\ x.source = s /\ x.relation = r =>
            \/ x \in links /\ ~ Open(x)
            \/ \E y \in Conflicting(links, s, t, r) :
                Open(y) /\ x = WorldChanged(y, c.closed)
      BY <1>3, <3>1, RivalsAfterLink
    <3>3. \A x, y \in Conflicting(links, s, t, r) : x = y
      BY <3>1 DEF Conflicting, OpenEdgesUnique, OneCurrentTarget
    <3>4. Conflicting(links, s, t, r) \subseteq links
      BY DEF Conflicting
    <3>5. ASSUME NEW x \in links', NEW y \in links', x # h, y # h,
                 Clash(x, y), x.source = s, x.relation = r
          PROVE  FALSE
      <4>1. y.source = s /\ y.relation = r /\ x # y
        BY <3>5 DEF Rivals
      <4>2. CASE x \in links /\ y \in links
        BY <1>1, <3>5, <4>2
      <4>0. \A w \in links : ClockRule(w, c.closed)
        BY <2>0, ClockRuleLater
      <4>3. ASSUME NEW w \in links, Open(w), x = WorldChanged(w, c.closed),
                   y \in links, ~ Open(y)
            PROVE  FALSE
        BY <1>1, <2>0, <3>5, <4>0, <4>3, BoundingShrinks
      <4>4. ASSUME NEW w \in links, Open(w), y = WorldChanged(w, c.closed),
                   x \in links, ~ Open(x)
            PROVE  FALSE
        <5>1. Clash(y, x)
          BY <3>5, RivalsSymmetric
        <5> QED  BY <1>1, <2>0, <4>0, <4>4, <5>1, BoundingShrinks
      <4> QED  BY <3>2, <3>3, <3>4, <3>5, <4>1, <4>2, <4>3, <4>4
    <3>6. ASSUME NEW x \in links', x # h, Clash(x, h), x.source = s, x.relation = r
          PROVE  FALSE
      <4>1. h.from = c.from /\ h.until = Never
        BY <1>3, <3>6, EdgesAfterLink DEF Rivals
      <4>3. x.until # Never => x.until \in Nat /\ x.until <= c.closed
        <5>1. CASE x \in links
          BY <2>0, <3>6, <5>1 DEF ClockRule, Link, Kind, Time
        <5>2. ASSUME NEW w \in links, x = WorldChanged(w, c.closed)
              PROVE  x.until = c.closed
          BY <5>2 DEF WorldChanged, Link
        <5> QED  BY <2>0, <3>2, <3>4, <3>6, <5>1, <5>2 DEF Time
      <4>4. x.until # Never
        <5>1. CASE x \in links /\ ~ Open(x)
          <6>1. ~BornClosed(x)
            BY <3>6 DEF StampedByStore, BornClosed
          <6> QED  BY <3>6, <5>1, <6>1 DEF Rivals, ClockRule, Open, Link, Kind
        <5>2. ASSUME NEW w \in links, x = WorldChanged(w, c.closed)
              PROVE  x.until # Never
          BY <2>0, <5>2, TimeAssumption DEF WorldChanged, Link, Time
        <5> QED  BY <3>2, <3>4, <3>6, <5>1, <5>2
      <4> QED  BY <2>0, <3>6, <4>1, <4>3, <4>4, TimeAssumption DEF Overlap, Time
    <3>7. Clash(k, l)
      BY RivalsSymmetric
    <3> QED  BY <2>2, <3>1, <3>5, <3>6, <3>7
  <2> QED  BY <2>1, <2>2
<1>4. ASSUME NEW b \in links, NEW kind \in Kind, Bounded(b, kind)
      PROVE  FALSE
  <2> DEFINE c == IF kind = "worldChange" THEN WorldChanged(b, now) ELSE Corrected(b, now)
  <2>1. links' = (links \ {b}) \cup {c} /\ Open(b)
    BY <1>4 DEF Bounded, CloseLink, Replace
  <2>2. kind # "worldChange" => c.kind = "correction"
    BY DEF Corrected, Link
  <2>3. ASSUME NEW y \in links, y # b, Clash(c, y)
        PROVE  FALSE
    <3>1. kind = "worldChange"
      BY <2>2, <2>3 DEF Rivals
    <3> QED  BY <1>1, <2>1, <2>3, <3>1, BoundingShrinks
  <2>4. Clash(k, l) /\ l # k
    BY RivalsSymmetric DEF Rivals
  <2> HIDE DEF c
  <2> QED  BY <1>1, <2>1, <2>3, <2>4
<1> QED  BY <1>2, <1>3, <1>4, EdgeSteps, DeletedLeaves

\* A point-in-time question about a single-valued relation never has two
\* answers among the edges the store stamped.
THEOREM OneAnswerHolds == Spec => []OneAnswerAtEveryInstant
<1>1. Init => OpenEdgesUnique /\ OneAnswerAtEveryInstant
  BY DEF Init, OpenEdgesUnique, OneCurrentTarget, NoTwinEdges, OneAnswerAtEveryInstant
<1> QED
  BY <1>1, UniqueInductive, OneAnswerInductive, TypeCorrect, ClocksAgreeHolds, PTL DEF Spec

-----------------------------------------------------------------------------
(* The register file of single-valued facts *)

\* The edges of single-valued relations that say the fact f.
Says(l, f) == l.relation \in SingleValued /\ f = FactOf(l)

\* It has an end in the world, from the store or from the caller.
Ended(l) == l.until # Never \/ l.said.until # Never

\* Present facts are what open edges say, past ones what ended edges say.
LEMMA PresentIs == \A f : f \in PresentFacts <=> \E l \in links : Says(l, f) /\ Open(l)
  BY DEF PresentFacts, Single, Says

\* The same of the past ones.
LEMMA PastIs == \A f : f \in PastFacts <=> \E l \in links : Says(l, f) /\ Ended(l)
<1>1. \A l : Untils(l) # {} <=> Ended(l)
  BY DEF Untils, Ended
<1> QED  BY <1>1 DEF PastFacts, Single, Says

\* After a step, too.
LEMMA PresentWillBe ==
    \A f : f \in PresentFacts' <=> \E l \in links' : Says(l, f) /\ Open(l)
  BY DEF PresentFacts, Single, Says

\* And of the past ones.
LEMMA PastWillBe ==
    \A f : f \in PastFacts' <=> \E l \in links' : Says(l, f) /\ Ended(l)
<1>1. \A l : Untils(l) # {} <=> Ended(l)
  BY DEF Untils, Ended
<1> QED  BY <1>1 DEF PastFacts, Single, Says

\* A present fact is said by one edge.
LEMMA SameFactSameEdge ==
    ASSUME TypeOK, OpenEdgesUnique, NEW l \in links, NEW k \in links, NEW f,
           Says(l, f), Says(k, f), Open(l), Open(k)
    PROVE  l = k
  BY DEF OpenEdgesUnique, OneCurrentTarget, Says, FactOf

\* What an edge says is a fact.
LEMMA FactTyped ==
    ASSUME TypeOK, NEW l \in links, NEW f, Says(l, f)
    PROVE  f \in Facts!Fact
  BY DEF TypeOK, Says, FactOf, Link, Facts!Fact

\* A deleted edge's fact is retracted, or one of the past is deleted, or other edges
\* go on saying it.
LEMMA DeleteStep ==
    ASSUME TypeOK, OpenEdgesUnique, NEW l \in links, links' = links \ {l}
    PROVE  [Facts!FactNext]_(Facts!factVars)
<1> DEFINE f == FactOf(l)
<1>1. CASE l.relation \notin SingleValued
  <2>1. PresentFacts' = PresentFacts /\ PastFacts' = PastFacts
    BY <1>1, PresentIs, PresentWillBe, PastIs, PastWillBe DEF Says
  <2> QED  BY <2>1 DEF Facts!factVars
<1>2. CASE l.relation \in SingleValued /\ Open(l)
  <2>1. Says(l, f) /\ f \in Facts!Fact /\ f \in PresentFacts
    BY <1>2, FactTyped, PresentIs DEF Says
  <2>2. PresentFacts' = PresentFacts \ {f}
    BY <1>2, <2>1, PresentIs, PresentWillBe, SameFactSameEdge DEF Says
  <2>3. PastFacts' = PastFacts
    BY <1>2, PastIs, PastWillBe DEF Open, BornClosed, Ended
  <2>4. Facts!Retract(f)
    BY <2>1, <2>2, <2>3 DEF Facts!Retract
  <2> QED  BY <2>1, <2>4 DEF Facts!FactNext
<1>3. CASE l.relation \in SingleValued /\ ~Open(l)
  <2>1. Says(l, f) /\ f \in Facts!Fact
    BY <1>3, FactTyped DEF Says
  <2>2. PresentFacts' = PresentFacts
    BY <1>3, PresentIs, PresentWillBe
  <2>3. PastFacts' = PastFacts \/ PastFacts' = PastFacts \ {f}
    BY <1>3, <2>1, PastIs, PastWillBe DEF Says
  <2>4. CASE PastFacts' = PastFacts
    BY <2>2, <2>4 DEF Facts!factVars
  <2>5. CASE PastFacts' = PastFacts \ {f}
    BY <2>1, <2>2, <2>5 DEF Facts!FactNext, Facts!Delete
  <2> QED  BY <2>3, <2>4, <2>5
<1> QED  BY <1>1, <1>2, <1>3

\* A bounded edge's fact ends, one marked wrong is retracted.
LEMMA BoundStep ==
    ASSUME TypeOK, OpenEdgesUnique, NEW l \in links, NEW kind \in Kind, Bounded(l, kind)
    PROVE  [Facts!FactNext]_(Facts!factVars)
<1> DEFINE f == FactOf(l)
           c == IF kind = "worldChange" THEN WorldChanged(l, now) ELSE Corrected(l, now)
<1>1. /\ links' = (links \ {l}) \cup {c} /\ Open(l) /\ ~Open(c)
      /\ FactOf(c) = f /\ c.relation = l.relation
      /\ ~Ended(l) /\ (Ended(c) <=> kind = "worldChange")
  BY BoundedEdge, TimeAssumption
     DEF Bounded, CloseLink, Replace, TypeOK, WorldChanged, Corrected, FactOf, Link, Time,
         Open, BornClosed, Ended
<1> HIDE DEF c
<1>2. CASE l.relation \notin SingleValued
  <2>1. PresentFacts' = PresentFacts /\ PastFacts' = PastFacts
    BY <1>1, <1>2, PresentIs, PresentWillBe, PastIs, PastWillBe DEF Says
  <2> QED  BY <2>1 DEF Facts!factVars
<1>3. CASE l.relation \in SingleValued
  <2>1. Says(l, f) /\ Says(c, f) /\ f \in Facts!Fact /\ f \in PresentFacts
    BY <1>1, <1>3, FactTyped, PresentIs DEF Says
  <2>2. PresentFacts' = PresentFacts \ {f}
    BY <1>1, <2>1, PresentIs, PresentWillBe, SameFactSameEdge DEF Says
  <2>3. CASE kind = "worldChange"
    <3>1. PastFacts' = PastFacts \cup {f}
      BY <1>1, <2>1, <2>3, PastIs, PastWillBe DEF Says
    <3> QED  BY <2>1, <2>2, <3>1 DEF Facts!FactNext, Facts!End
  <2>4. CASE kind # "worldChange"
    <3>1. PastFacts' = PastFacts
      BY <1>1, <2>4, PastIs, PastWillBe
    <3> QED  BY <2>1, <2>2, <3>1 DEF Facts!FactNext, Facts!Retract
  <2> QED  BY <2>3, <2>4
<1> QED  BY <1>2, <1>3

\* A new edge's fact is asserted, or recorded when the caller closed it; the closure
\* empties the slot.
LEMMA LinkStep ==
    ASSUME TypeOK, OpenEdgesUnique, NEW s \in Iri, NEW t \in Iri, NEW r \in Relation,
           NEW h \in Link, NEW c \in ClockReads(now, MaxTime), Linked(s, t, r, h, c)
    PROVE  [Facts!FactNext]_(Facts!factVars)
<1>0. c.closed \in Time
  BY CallReads
<1>1. SameEnds(h, s, t, r) /\ h.invalidated = Never /\ h.until = Never
  BY EdgesAfterLink
<1>2. links' = Cleared(links, s, t, r, c.closed) \cup {h}
  BY DEF Linked
<1>3. CASE r \notin SingleValued
  <2>1. links' = links \cup {h} /\ h.relation \notin SingleValued
    BY <1>1, <1>2, <1>3 DEF Cleared, SameEnds
  <2>2. PresentFacts' = PresentFacts /\ PastFacts' = PastFacts
    BY <2>1, PresentIs, PresentWillBe, PastIs, PastWillBe DEF Says
  <2> QED  BY <2>2 DEF Facts!factVars
<1>4. CASE r \in SingleValued
  <2> DEFINE f == FactOf(h)
             Old == Conflicting(links, s, t, r)
             About == Facts!About(f)
  <2>1. /\ f = [subject |-> s, slot |-> r, value |-> t] /\ f \in Facts!Fact
        /\ Says(h, f)
    BY <1>1, <1>4 DEF FactOf, Facts!Fact, SameEnds, Says
  <2>2. links' = (links \ Old) \cup {WorldChanged(l, c.closed) : l \in Old} \cup {h}
    BY <1>2, <1>4 DEF Cleared, CloseConflicting
  <2>3. \A l \in links : l \in Old <=> Says(l, FactOf(l)) /\ Open(l) /\ FactOf(l) \in About
    <3>1. \A l \in links : Open(l) /\ l.source = s /\ l.relation = r => l.target # t
      BY DEF Linked, FindOpen, SameEnds
    <3>2. \A l \in links : FactOf(l).subject = l.source /\ FactOf(l).slot = l.relation
      BY DEF FactOf
    <3>3. \A l \in links : l \in Old <=> Open(l) /\ l.source = s /\ l.relation = r
      BY <3>1 DEF Conflicting
    <3>4. \A l \in links : l.relation \in SingleValued /\ Open(l) => FactOf(l) \in PresentFacts
      BY PresentIs DEF Says
    <3>5. \A g : g \in About <=> g \in PresentFacts /\ g.subject = s /\ g.slot = r
      BY <2>1 DEF Facts!About
    <3> QED  BY <1>4, <3>2, <3>3, <3>4, <3>5 DEF Says
  <2>4. \A g : g \in About <=> \E l \in Old : Says(l, g)
    <3>1. \A g \in About : \E l \in links : Says(l, g) /\ Open(l)
      BY PresentIs DEF Facts!About
    <3> QED  BY <2>3, <3>1 DEF Says, Conflicting
  <2>5. f \notin PresentFacts
    BY <2>1, PresentIs DEF Linked, FindOpen, SameEnds, Says, FactOf
  <2>6. \A l \in Old : /\ l \in links /\ ~Ended(l) /\ ~Open(WorldChanged(l, c.closed))
                       /\ Ended(WorldChanged(l, c.closed))
                       /\ \A g : Says(WorldChanged(l, c.closed), g) <=> Says(l, g)
    BY <1>0, BoundedEdge, TimeAssumption
       DEF Conflicting, TypeOK, WorldChanged, Link, Time, Open, BornClosed, Ended, Says, FactOf
  <2> HIDE DEF f, Old, About
  <2>7. \A g : (\E l \in links \ Old : Says(l, g) /\ Open(l)) <=> g \in PresentFacts \ About
    BY <2>3, <2>4, PresentIs DEF Says
  <2>8. \A g : (\E l \in links \ Old : Says(l, g) /\ Ended(l)) <=> g \in PastFacts
    BY <2>6, PastIs
  <2>9. \A g : Says(h, g) <=> g = f
    BY <2>1 DEF Says
  <2>10. \A g : g \in PresentFacts' <=> g \in PresentFacts \ About \/ (g = f /\ Open(h))
    BY <2>2, <2>6, <2>7, <2>9, PresentWillBe
  <2>11. \A g : g \in PastFacts' <=> g \in PastFacts \cup About \/ (g = f /\ Ended(h))
    BY <2>2, <2>4, <2>6, <2>8, <2>9, PastWillBe
  <2>12. CASE Open(h)
    <3>1. PresentFacts' = (PresentFacts \ About) \cup {f}
      BY <2>10, <2>12
    <3>2. PastFacts' = PastFacts \cup (About \ {f})
      BY <2>5, <2>11, <2>12 DEF About, Facts!About, Open, BornClosed, Ended
    <3> QED  BY <2>1, <3>1, <3>2 DEF Facts!FactNext, Facts!Assert, About
  <2>13. CASE ~Open(h)
    <3>1. PresentFacts' = PresentFacts \ About
      BY <2>10, <2>13
    <3>2. PastFacts' \in {PastFacts \cup About \cup {f}, PastFacts \cup About}
      BY <2>11
    <3> QED  BY <2>1, <2>5, <3>1, <3>2 DEF Facts!FactNext, Facts!Record, About
  <2> QED  BY <2>12, <2>13
<1> QED  BY <1>3, <1>4

\* Every step of the edges is a step of the register file, or none.
LEMMA FactsStep == TypeOK /\ OpenEdgesUnique /\ [Next]_vars => [Facts!FactNext]_(Facts!factVars)
<1> SUFFICES ASSUME TypeOK, OpenEdgesUnique, [Next]_vars
             PROVE  [Facts!FactNext]_(Facts!factVars)
  OBVIOUS
<1>1. CASE links' = links
  <2>1. PresentFacts' = PresentFacts /\ PastFacts' = PastFacts
    BY <1>1 DEF PresentFacts, PastFacts, Single
  <2> QED  BY <2>1 DEF Facts!factVars
<1>2. ASSUME NEW l \in links, Deleted(l)
      PROVE  [Facts!FactNext]_(Facts!factVars)
  BY <1>2, DeleteStep DEF Deleted
<1> QED  BY <1>1, <1>2, BoundStep, LinkStep, EdgeSteps

\* The edges of the single-valued relations implement the register file, calls that
\* raise half way and hard deletes included (create_link, close_link, remove_link).
THEOREM FactsImplementedHolds == Spec => FactsImplemented
<1>1. Init => OpenEdgesUnique /\ Facts!FactInit
  <2>1. Init => PresentFacts = {} /\ PastFacts = {}
    BY DEF Init, PresentFacts, PastFacts, Single
  <2>2. Init => OpenEdgesUnique
    BY DEF Init, OpenEdgesUnique, OneCurrentTarget, NoTwinEdges
  <2> QED  BY <2>1, <2>2 DEF Facts!FactInit
<1> QED
  BY <1>1, FactsStep, UniqueInductive, TypeCorrect, PTL DEF Spec, FactsImplemented, Facts!FactSpec

-----------------------------------------------------------------------------
(* History is bounded, not lost *)

Bounding ==
    \A l \in links :
        \/ l \in links'
        \/ /\ Open(l)
           /\ \E t \in now .. now' : {WorldChanged(l, t), Corrected(l, t)} \cap links' # {}
        \/ HardDelete

\* A step keeps every edge, or bounds it at an instant of the step, or is a hard delete.
LEMMA BoundingSteps == TypeOK /\ [Next]_vars => Bounding
<1> SUFFICES ASSUME TypeOK, [Next]_vars
             PROVE  Bounding
  OBVIOUS
<1>1. ASSUME NEW s \in Iri, NEW t \in Iri, NEW r \in Relation, NEW h \in Link,
             NEW c \in ClockReads(now, MaxTime), Linked(s, t, r, h, c)
      PROVE  Bounding
  <2>1. \A l \in links : l \in Conflicting(links, s, t, r) => Open(l)
    BY DEF Conflicting
  <2>2. \A l \in links :
            \/ l \in Cleared(links, s, t, r, c.closed)
            \/ Open(l) /\ WorldChanged(l, c.closed) \in Cleared(links, s, t, r, c.closed)
    BY <2>1 DEF Cleared, CloseConflicting
  <2>3. c.closed \in now .. now'
    BY <1>1, CallReads DEF Linked, Time
  <2> QED  BY <1>1, <2>2, <2>3 DEF Linked, Bounding
<1>2. ASSUME NEW l \in links, NEW kind \in Kind, Bounded(l, kind)
      PROVE  Bounding
  <2>1. now \in now .. now'
    BY <1>2 DEF Bounded, TypeOK, Time
  <2> QED  BY <1>2, <2>1 DEF Bounded, CloseLink, Replace, Bounding
<1>3. CASE links' = links \/ \E l \in links : Deleted(l)
  BY <1>3 DEF Bounding, Deleted
<1> QED  BY <1>1, <1>2, <1>3, EdgeSteps

\* Nothing but a hard delete loses an edge, reopens one or moves the bounds of a closed
\* one (create_link, close_link).
THEOREM OnlyBoundedHolds == Spec => OnlyBounded
<1>1. TypeOK /\ [Next]_vars => [Bounding]_vars
  BY BoundingSteps
<1> QED  BY <1>1, TypeCorrect, PTL DEF Spec, OnlyBounded, Bounding

-----------------------------------------------------------------------------
(* Nodes.  The invariant adds that a node keeps the iri it was minted with, *)
(* that concepts are never forgotten, and that what an edge joins has a     *)
(* name.                                                                    *)

\* No two nodes share an iri.
OneNodePerIri == \A x, y \in nodes : x.iri = y.iri => x = y

\* memory_forget looks among the resources only.
ConceptsLive == \A x \in nodes : x.name \in Label => x.live

Taken(N, n) == IF n \in Label THEN FindConcept(N, n) # {} ELSE FindResource(N, n) # {}

SameSort(n, m) == (n \in ResourceName /\ m \in ResourceName) \/ (n \in Label /\ m \in Label)

NodesInv == TypeOK /\ NamesIdentify /\ OneNodePerIri /\ ConceptsLive

\* What e is the iri of has a name.
Resolves(N, e) == \E x \in N : x.iri = e /\ x.name \in AnyName

LinksInv == \A l \in links : l.relation \in known /\ Resolves(nodes, l.source) /\ Resolves(nodes, l.target)

-----------------------------------------------------------------------------
(* What one step does to the nodes *)

Made(i, n) ==
    /\ i \in FreshIri(nodes)
    /\ n = NoName \/ (n \in AnyName /\ ~Taken(nodes, n))
    /\ nodes' = nodes \cup {NewNode(i, n)}

Moved(x, n) ==
    /\ x \in nodes /\ n \in AnyName /\ SameSort(x.name, n) /\ ~Taken(nodes, n)
    /\ nodes' = Renamed(nodes, x, n)

Buried(x) ==
    /\ x \in nodes /\ x.name \in ResourceName
    /\ nodes' = Forgotten(nodes, x)

\* Whatever tool runs, the nodes stay, one is made, one gets a free name of its sort, or
\* a resource is forgotten.
LEMMA NodeSteps ==
    ASSUME TypeOK, [Next]_vars
    PROVE  \/ nodes' = nodes
           \/ \E i \in Iri, n \in AnyName \cup {NoName} : Made(i, n)
           \/ \E x \in nodes, n \in AnyName : Moved(x, n)
           \/ \E x \in nodes : Buried(x)
<1> USE NamesAssumption DEF AnyName
<1>1. CASE Store
  <2>1. ASSUME NEW n \in ResourceName, NEW force \in BOOLEAN,
               CreateResource(n, force) \/ InterruptedCreate(n, force)
        PROVE  \E i \in Iri, m \in AnyName \cup {NoName} : Made(i, m)
    <3>1. FindResource(nodes, n) = {} /\ n \notin Label
      BY <2>1 DEF CreateResource, InterruptedCreate, MayCreate
    <3> QED  BY <2>1, <3>1 DEF CreateResource, InterruptedCreate, FreshIri, Made, Taken
  <2>2. ASSUME NEW l \in Label, StoreConcept(l)
        PROVE  nodes' = nodes \/ \E i \in Iri, m \in AnyName \cup {NoName} : Made(i, m)
    BY <2>2 DEF StoreConcept, UpsertConcept, FreshIri, Made, Taken
  <2> QED  BY <1>1, <2>1, <2>2 DEF Store
<1>2. CASE Rename
  <2>1. ASSUME NEW old \in ResourceName, NEW new \in ResourceName, RenameResource(old, new)
        PROVE  \E x \in nodes, n \in AnyName : Moved(x, n)
    BY <2>1 DEF RenameResource, FindResource, Moved, SameSort, Taken
  <2>2. ASSUME NEW old \in Label, NEW new \in Label, RenameConcept(old, new)
        PROVE  \E x \in nodes, n \in AnyName : Moved(x, n)
    <3>1. \A x \in FindConcept(nodes, old) : x \in nodes /\ x.name \in Label
      BY DEF FindConcept, ExactConcept, FoldedConcept
    <3> QED  BY <2>2, <3>1 DEF RenameConcept, Moved, SameSort, Taken
  <2> QED  BY <1>2, <2>1, <2>2 DEF Rename
<1>3. ASSUME NEW n \in ResourceName, Forget(n)
      PROVE  \E x \in nodes : Buried(x)
  BY <1>3 DEF Forget, FindResource, Buried
<1>4. CASE LinkCall \/ UnlinkCall \/ Tick \/ UNCHANGED vars
  BY <1>4 DEF LinkCall, UnlinkCall, LinkNodes, InterruptedLink, LinkUnresolved,
              Unlink, RemoveLink, Tick, vars
<1> QED  BY <1>1, <1>2, <1>3, <1>4 DEF Next

-----------------------------------------------------------------------------
(* A name is an identity *)

\* A free name is the name of no node it could be taken for.
LEMMA FreeName ==
    ASSUME NodesInv, NEW n \in AnyName, ~Taken(nodes, n), NEW y \in nodes, y.live,
           \/ n \in ResourceName /\ y.name = n
           \/ n \in Label /\ y.name \in Label /\ Fold[y.name] = Fold[n]
    PROVE  FALSE
<1> USE NamesAssumption DEF AnyName
<1>1. CASE n \in ResourceName /\ y.name = n
  BY <1>1 DEF Taken, FindResource
<1>2. CASE n \in Label /\ y.name \in Label /\ Fold[y.name] = Fold[n]
  BY <1>2 DEF Taken, FindConcept, FoldedConcept, ExactConcept
<1> QED  BY <1>1, <1>2

\* A made node has a new iri and a name of its own.
LEMMA MadeKeeps ==
    ASSUME NodesInv, NEW i \in Iri, NEW n \in AnyName \cup {NoName}, Made(i, n)
    PROVE  NamesIdentify' /\ OneNodePerIri' /\ ConceptsLive'
<1> DEFINE z == NewNode(i, n)
<1>1. z.iri = i /\ z.name = n /\ z.live /\ nodes' = nodes \cup {z}
  BY DEF Made, NewNode
<1>2. \A y \in nodes : y.iri # i
  BY DEF Made, FreshIri
<1>3. \A y \in nodes : y.live => ~SameIdentity(z, y) /\ ~SameIdentity(y, z)
  <2> SUFFICES ASSUME NEW y \in nodes, y.live, SameIdentity(z, y) \/ SameIdentity(y, z)
               PROVE  FALSE
    OBVIOUS
  <2>1. n \in AnyName
    BY <1>1, NamesAssumption DEF SameIdentity, AnyName
  <2>2. ~Taken(nodes, n)
    BY <2>1, NamesAssumption DEF Made, AnyName
  <2>3. \/ n \in ResourceName /\ y.name = n
        \/ n \in Label /\ y.name \in Label /\ Fold[y.name] = Fold[n]
    BY <1>1 DEF SameIdentity
  <2> QED  BY <2>1, <2>2, <2>3, FreeName
<1> HIDE DEF z
<1>4. NamesIdentify'
  BY <1>1, <1>3 DEF NodesInv, NamesIdentify, SameIdentity
<1>5. OneNodePerIri'
  BY <1>1, <1>2 DEF NodesInv, OneNodePerIri
<1>6. ConceptsLive'
  BY <1>1 DEF NodesInv, ConceptsLive
<1> QED  BY <1>4, <1>5, <1>6

\* A renamed node keeps its iri and its sort, and gets a free name.
LEMMA MovedKeeps ==
    ASSUME NodesInv, NEW x \in nodes, NEW n \in AnyName, Moved(x, n)
    PROVE  NamesIdentify' /\ OneNodePerIri' /\ ConceptsLive'
<1> DEFINE z == [x EXCEPT !.name = n]
<1>1. z.iri = x.iri /\ z.name = n /\ z.live = x.live /\ nodes' = (nodes \ {x}) \cup {z}
  BY DEF Moved, Renamed, Replace, NodesInv, TypeOK, Node
<1>2. \A y \in nodes : y.live => ~SameIdentity(z, y) /\ ~SameIdentity(y, z)
  <2> SUFFICES ASSUME NEW y \in nodes, y.live, SameIdentity(z, y) \/ SameIdentity(y, z)
               PROVE  FALSE
    OBVIOUS
  <2>1. \/ n \in ResourceName /\ y.name = n
        \/ n \in Label /\ y.name \in Label /\ Fold[y.name] = Fold[n]
    BY <1>1 DEF SameIdentity
  <2> QED  BY <2>1, FreeName DEF Moved
<1> HIDE DEF z
<1>3. NamesIdentify'
  BY <1>1, <1>2 DEF NodesInv, NamesIdentify, SameIdentity
<1>4. OneNodePerIri'
  BY <1>1 DEF NodesInv, OneNodePerIri
<1>5. n \in Label => x.name \in Label
  BY NamesAssumption DEF Moved, SameSort
<1>6. ConceptsLive'
  BY <1>1, <1>5 DEF NodesInv, ConceptsLive
<1> QED  BY <1>3, <1>4, <1>6

\* A forgotten resource is no longer live, and nothing else changes.
LEMMA BuriedKeeps ==
    ASSUME NodesInv, NEW x \in nodes, Buried(x)
    PROVE  NamesIdentify' /\ OneNodePerIri' /\ ConceptsLive'
<1> DEFINE z == [x EXCEPT !.live = FALSE]
<1>1. z.iri = x.iri /\ z.name = x.name /\ ~z.live /\ nodes' = (nodes \ {x}) \cup {z}
  BY DEF Buried, Forgotten, Replace, NodesInv, TypeOK, Node
<1> HIDE DEF z
<1>2. NamesIdentify'
  BY <1>1 DEF NodesInv, NamesIdentify, SameIdentity
<1>3. OneNodePerIri'
  BY <1>1 DEF NodesInv, OneNodePerIri
<1>4. z.name \notin Label
  BY <1>1, NamesAssumption DEF Buried
<1>5. ConceptsLive'
  BY <1>1, <1>4 DEF NodesInv, ConceptsLive
<1> QED  BY <1>2, <1>3, <1>5

\* The invariant of the nodes is inductive.
LEMMA NodesInductive == NodesInv /\ [Next]_vars => NodesInv'
<1> SUFFICES ASSUME NodesInv, [Next]_vars PROVE NodesInv'
  OBVIOUS
<1>1. TypeOK /\ TypeOK'
  BY TypeInductive DEF NodesInv
<1>2. CASE nodes' = nodes
  BY <1>1, <1>2 DEF NodesInv, NamesIdentify, OneNodePerIri, ConceptsLive, SameIdentity
<1> QED
  BY <1>1, <1>2, NodeSteps, MadeKeeps, MovedKeeps, BuriedKeeps DEF NodesInv

LEMMA NodesInvHolds == Spec => []NodesInv
<1>1. Init => NodesInv
  BY RelationsAssumption DEF Init, NodesInv, TypeOK, NamesIdentify, OneNodePerIri, ConceptsLive, Time
<1> QED  BY <1>1, NodesInductive, PTL DEF Spec

\* No interleaving of upserts, renames, forgets and half-made nodes gives two live nodes
\* one name (tools/store_resource.py, tools/rename.py, tools/forget.py).
THEOREM NamesIdentifyHolds == Spec => []NamesIdentify
<1>1. NodesInv => NamesIdentify
  BY DEF NodesInv
<1> QED  BY <1>1, NodesInvHolds, PTL

-----------------------------------------------------------------------------
(* An edge leads to its ends *)

\* An edge stays, has its bounds changed, or is new between named nodes; the schema keeps
\* what it declared.
LEMMA EndsOfLinks ==
    ASSUME TypeOK, [Next]_vars
    PROVE  /\ known \subseteq known'
           /\ \A l \in links' :
                \/ \E k \in links : SameEnds(l, k.source, k.target, k.relation)
                \/ /\ l.relation \in known'
                   /\ Resolves(nodes, l.source) /\ Resolves(nodes, l.target)
<1> DEFINE Old(l) == \E k \in links : SameEnds(l, k.source, k.target, k.relation)
           New(l) == /\ l.relation \in known'
                     /\ Resolves(nodes, l.source) /\ Resolves(nodes, l.target)
           Goal == known \subseteq known' /\ \A l \in links' : Old(l) \/ New(l)
<1>0. links \subseteq Link /\ now \in Time
  BY DEF TypeOK
<1>1. \A n : \A k \in links : Old(k) /\ Old(WorldChanged(k, n)) /\ Old(Corrected(k, n))
  BY <1>0 DEF SameEnds, WorldChanged, Corrected, Link
<1>2. \A n \in AnyName : \A x \in FindAny(nodes, n) : x \in nodes /\ x.name \in AnyName
  BY NamesAssumption
     DEF FindAny, FindConcept, FindResource, ExactConcept, FoldedConcept, AnyName
<1>3. \A s, t, r, n : \A l \in Cleared(links, s, t, r, n) : Old(l)
  BY <1>1 DEF Cleared, CloseConflicting, Conflicting
<1>4. ASSUME LinkCall PROVE Goal
  <2>1. ASSUME NEW s \in AnyName, NEW t \in AnyName, NEW r \in Relation,
               NEW define \in BOOLEAN, NEW m \in Calls, NEW c \in ClockReads(now, MaxTime),
               LinkNodes(s, t, r, define, m, c)
        PROVE  Goal
    <3>1. PICK x \in FindAny(nodes, s), y \in FindAny(nodes, t), i \in FreshLink(links) :
            links' = CreateLink(links, i, x.iri, y.iri, r, m, c)
      BY <2>1 DEF LinkNodes
    <3>2. Resolves(nodes, x.iri) /\ Resolves(nodes, y.iri)
      BY <1>2 DEF Resolves
    <3>3. known' = known \cup {r}
      BY <2>1 DEF LinkNodes
    <3>4. New(NewLink(i, x.iri, y.iri, r, m, c))
      BY <3>2, <3>3 DEF NewLink, Edge
    <3>5. links' = links \/ links' = Cleared(links, x.iri, y.iri, r, c.closed)
                                        \cup {NewLink(i, x.iri, y.iri, r, m, c)}
      BY <3>1 DEF CreateLink
    <3> HIDE DEF Old, New
    <3> QED  BY <1>1, <1>3, <3>3, <3>4, <3>5
  <2>2. ASSUME NEW s \in AnyName, NEW t \in AnyName, NEW r \in Relation,
               NEW define \in BOOLEAN, NEW m \in Calls, NEW c \in ClockReads(now, MaxTime),
               InterruptedLink(s, t, r, define, m, c)
        PROVE  Goal
    <3>1. PICK x \in FindAny(nodes, s), y \in FindAny(nodes, t), i \in FreshLink(links) :
            \E l \in HalfLinks(i, x.iri, y.iri, r, m, c) :
                links' = Cleared(links, x.iri, y.iri, r, c.closed) \cup {l}
      BY <2>2 DEF InterruptedLink
    <3>2. Resolves(nodes, x.iri) /\ Resolves(nodes, y.iri)
      BY <1>2 DEF Resolves
    <3>3. known' = known \cup {r}
      BY <2>2 DEF InterruptedLink
    <3>4. \A l \in HalfLinks(i, x.iri, y.iri, r, m, c) : New(l)
      BY <3>2, <3>3 DEF HalfLinks, Edge
    <3> HIDE DEF Old, New
    <3> QED  BY <1>3, <3>1, <3>3, <3>4
  <2>3. ASSUME NEW s \in AnyName, NEW t \in AnyName, NEW r \in Relation, LinkUnresolved(s, t, r)
        PROVE  Goal
    BY <1>1, <2>3 DEF LinkUnresolved
  <2> HIDE DEF Goal
  <2> QED  BY <1>4, <2>1, <2>2, <2>3 DEF LinkCall
<1>5. ASSUME UnlinkCall PROVE Goal
  <2>1. ASSUME NEW s \in AnyName, NEW t \in AnyName, NEW r \in Relation, NEW kind \in Kind,
               Unlink(s, t, r, kind)
        PROVE  Goal
    <3>1. PICK l \in links : links' = CloseLink(links, l, kind, now)
      BY <2>1 DEF Unlink, FindOpen
    <3>2. known' = known
      BY <2>1 DEF Unlink
    <3> HIDE DEF Old
    <3> QED  BY <1>1, <3>1, <3>2 DEF CloseLink, Replace
  <2>2. ASSUME NEW s \in AnyName, NEW t \in AnyName, NEW r \in Relation, RemoveLink(s, t, r)
        PROVE  Goal
    BY <1>1, <2>2 DEF RemoveLink
  <2> HIDE DEF Goal
  <2> QED  BY <1>5, <2>1, <2>2 DEF UnlinkCall
<1>6. Next \/ UNCHANGED vars => LinkCall \/ UnlinkCall \/ UNCHANGED <<links, known>>
  BY DEF Next, Store, Rename, CreateResource, InterruptedCreate, StoreConcept,
         RenameResource, RenameConcept, Forget, Tick, vars
<1>7. CASE UNCHANGED <<links, known>>
  BY <1>1, <1>7
<1> QED  BY <1>4, <1>5, <1>6, <1>7

\* A node that has a name keeps one under its iri.
LEMMA NamedStayNamed ==
    ASSUME NodesInv, [Next]_vars, NEW e, Resolves(nodes, e)
    PROVE  Resolves(nodes', e)
<1>1. PICK y \in nodes : y.iri = e /\ y.name \in AnyName
  BY DEF Resolves
<1>2. nodes \subseteq Node
  BY DEF NodesInv, TypeOK
<1>3. CASE nodes' = nodes
  BY <1>3
<1>4. ASSUME NEW i \in Iri, NEW n \in AnyName \cup {NoName}, Made(i, n)
      PROVE  Resolves(nodes', e)
  BY <1>1, <1>4 DEF Made, Resolves
<1>5. ASSUME NEW x \in nodes, NEW n \in AnyName, Moved(x, n)
      PROVE  Resolves(nodes', e)
  <2> DEFINE z == [x EXCEPT !.name = n]
  <2>1. z.iri = x.iri /\ z.name = n /\ nodes' = (nodes \ {x}) \cup {z}
    BY <1>2, <1>5 DEF Moved, Renamed, Replace, Node
  <2> HIDE DEF z
  <2> QED  BY <1>1, <2>1 DEF Resolves
<1>6. ASSUME NEW x \in nodes, Buried(x)
      PROVE  Resolves(nodes', e)
  <2> DEFINE z == [x EXCEPT !.live = FALSE]
  <2>1. z.iri = x.iri /\ z.name = x.name /\ nodes' = (nodes \ {x}) \cup {z}
    BY <1>2, <1>6 DEF Buried, Forgotten, Replace, Node
  <2> HIDE DEF z
  <2> QED  BY <1>1, <2>1 DEF Resolves
<1> QED  BY <1>3, <1>4, <1>5, <1>6, NodeSteps DEF NodesInv

\* The invariant of the edges' ends is inductive.
LEMMA LinksInductive == NodesInv /\ LinksInv /\ [Next]_vars => LinksInv'
<1> SUFFICES ASSUME NodesInv, LinksInv, [Next]_vars, NEW l \in links'
             PROVE  l.relation \in known' /\ Resolves(nodes', l.source) /\ Resolves(nodes', l.target)
  BY DEF LinksInv, Resolves
<1>1. \A e : Resolves(nodes, e) => Resolves(nodes', e)
  BY NamedStayNamed
<1>2. CASE \E k \in links : SameEnds(l, k.source, k.target, k.relation)
  BY <1>1, <1>2, EndsOfLinks DEF NodesInv, LinksInv, SameEnds
<1>3. CASE l.relation \in known' /\ Resolves(nodes, l.source) /\ Resolves(nodes, l.target)
  BY <1>1, <1>3
<1> QED  BY <1>2, <1>3, EndsOfLinks DEF NodesInv

\* A live node with a name is what its name finds.
LEMMA FoundByName ==
    ASSUME NodesInv, NEW x \in nodes, x.name \in AnyName, x.live
    PROVE  FindAny(nodes, x.name) = {x}
<1>1. CASE x.name \in Label
  <2>1. ExactConcept(nodes, x.name) = {x}
    BY <1>1 DEF ExactConcept, NodesInv, ConceptsLive, NamesIdentify, SameIdentity
  <2> QED  BY <1>1, <2>1 DEF FindAny, FindConcept
<1>2. CASE x.name \notin Label
  <2>1. x.name \in ResourceName
    BY <1>2 DEF AnyName
  <2>2. FindResource(nodes, x.name) = {x}
    BY <2>1 DEF FindResource, NodesInv, NamesIdentify, SameIdentity
  <2> QED  BY <1>2, <2>2 DEF FindAny
<1> QED  BY <1>1, <1>2

\* Whatever was renamed, forgotten or half made, an edge's relation is declared and its
\* live ends are found under the names they have now (tools/rename.py, tools/link.py).
THEOREM EdgesResolveHolds == Spec => []EdgesResolve
<1>1. Init => LinksInv
  BY DEF Init, LinksInv
<1>2. NodesInv /\ LinksInv => EdgesResolve
  BY FoundByName DEF LinksInv, Resolves, EdgesResolve
<1> QED  BY <1>1, <1>2, LinksInductive, NodesInvHolds, PTL DEF Spec

-----------------------------------------------------------------------------
(* The phrasings of relations: only relations that were defined by a call  *)
(* lose some.                                                              *)

\* What was taken away was a phrasing of a relation some call defined.
OnlyOwnLose == \A p \in gone : p[1] \in added

\* A relation's phrasings are its own.
LEMMA FormsAreItsOwn == ASSUME NEW r, NEW fs, NEW p \in FormsOf(r, fs) PROVE p[1] = r
  BY DEF FormsOf

\* Removals are of relations a call defined, and those stay defined.
LEMMA OwnLoseInductive == OnlyOwnLose /\ [LexiconNext]_lexicon => OnlyOwnLose'
  <1> SUFFICES ASSUME OnlyOwnLose, [LexiconNext]_lexicon, NEW p \in gone'
               PROVE  p[1] \in added'
    BY DEF OnlyOwnLose
  <1>1. CASE UNCHANGED lexicon
    BY <1>1 DEF lexicon, OnlyOwnLose
  <1>2. ASSUME NEW r \in OwnRelations, NEW fs, AddRelation(r, fs) PROVE p[1] \in added'
    BY <1>2 DEF AddRelation, OnlyOwnLose
  <1>3. ASSUME NEW r, NEW adds, NEW removes, AmendRelation(r, adds, removes)
        PROVE  p[1] \in added'
    <2>1. CASE p \in gone
      BY <1>3, <2>1 DEF OnlyOwnLose, AmendRelation
    <2>2. CASE p \in FormsOf(r, removes)
      <3>1. removes # {} /\ p[1] = r
        BY <2>2, FormsAreItsOwn DEF FormsOf
      <3> QED
        BY <1>3, <3>1 DEF AmendRelation, Removable
    <2> QED
      BY <1>3, <2>1, <2>2 DEF AmendRelation
  <1>4. ASSUME NEW v \in DOMAIN BaseForms, LoadBase(v) PROVE p[1] \in added'
    BY <1>4 DEF LoadBase, OnlyOwnLose
  <1> QED
    BY <1>1, <1>2, <1>3, <1>4 DEF LexiconNext

\* What comes back although no call gave it back.
ComesBack(p) == p \in gone /\ p \in gone' /\ p \in forms' \ forms

\* Only a load of base.ttl brings something back, and only of an added relation.
LEMMA BackByAdoption ==
  ASSUME OnlyOwnLose, [LexiconNext]_lexicon, NEW p, ComesBack(p)
  PROVE  p[1] \in added /\ version' # version /\ p \in BaseForms[version']
  <1>1. p[1] \in added
    BY DEF OnlyOwnLose, ComesBack
  <1>2. ~ UNCHANGED lexicon
    BY DEF lexicon, ComesBack
  <1>3. \A r, fs : ~AddRelation(r, fs)
    BY DEF AddRelation, ComesBack
  <1>4. \A r, adds, removes : ~AmendRelation(r, adds, removes)
    BY DEF AmendRelation, ComesBack
  <1>5. PICK v \in DOMAIN BaseForms : LoadBase(v)
    BY <1>2, <1>3, <1>4 DEF LexiconNext
  <1> QED
    BY <1>1, <1>5 DEF LoadBase, ComesBack

\* Whatever is added, amended and loaded from base.ttl, a phrasing that was taken away
\* comes back only with a base.ttl that adopts a relation a call had added (store.py
\* amend_relation, _ensure_base_ontology).
THEOREM RemovedStaysRemovedHolds == LexiconSpec => RemovedStaysRemoved
  <1>1. LexiconInit => OnlyOwnLose
    BY DEF LexiconInit, OnlyOwnLose
  <1>2. OnlyOwnLose /\ [LexiconNext]_lexicon =>
          [\A p \in gone \cap gone' :
              p \in forms' \ forms =>
                p[1] \in added /\ version' # version /\ p \in BaseForms[version']]_lexicon
    BY BackByAdoption DEF ComesBack
  <1> QED
    BY <1>1, <1>2, OwnLoseInductive, PTL DEF LexiconSpec, RemovedStaysRemoved

=============================================================================

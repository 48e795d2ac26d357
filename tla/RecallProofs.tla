---------------------------- MODULE RecallProofs ----------------------------
(***************************************************************************)
(* What reads of the graph find: where the gate looks memories up, what a  *)
(* session is given of them, the copy of one project, what a recall        *)
(* reaches, and the rows that answer a question.                           *)
(***************************************************************************)
EXTENDS AmbientRecall, Reading, FiniteSetTheorems, NaturalsInduction, TLAPS

-----------------------------------------------------------------------------
(* Places in a sequence *)

\* How many of S there are up to l.
Rank(S, l) == Cardinality({m \in S : m <= l})

LEMMA RankCounts ==
    ASSUME NEW S \in SUBSET Nat, IsFiniteSet(S), NEW l \in S
    PROVE  Rank(S, l) \in 1..Cardinality(S)
<1> DEFINE below == {m \in S : m <= l}
<1>1. IsFiniteSet(below) /\ Cardinality(below) <= Cardinality(S)
  BY FS_Subset, below \in SUBSET S
<1>2. Cardinality(below) \in Nat /\ Cardinality(S) \in Nat
  BY <1>1, FS_CardinalityType
<1>3. Cardinality(below) # 0
  BY <1>1, FS_EmptySet, l \in below
<1> QED  BY <1>1, <1>2, <1>3 DEF Rank

LEMMA RanksDiffer ==
    ASSUME NEW S \in SUBSET Nat, IsFiniteSet(S), NEW l \in S, NEW m \in S, Rank(S, l) = Rank(S, m)
    PROVE  l = m
<1> SUFFICES ASSUME NEW a \in S, NEW b \in S, Rank(S, a) = Rank(S, b), a < b PROVE FALSE
  <2>1. l \in Nat /\ m \in Nat
    OBVIOUS
  <2> QED  BY <2>1
<1> DEFINE A == {x \in S : x <= a}
           B == {x \in S : x <= b}
<1>1. IsFiniteSet(B)
  <2>1. B \in SUBSET S
    OBVIOUS
  <2> QED  BY <2>1, FS_Subset
<1>2. A = B
  <2>1. ASSUME NEW x \in S, x <= a PROVE x <= b
    <3>1. x \in Nat /\ a \in Nat /\ b \in Nat
      OBVIOUS
    <3> QED  BY <2>1, <3>1
  <2>2. Cardinality(A) = Cardinality(B)
    BY DEF Rank
  <2>3. A \in SUBSET B
    BY <2>1
  <2> QED  BY <1>1, <2>2, <2>3, FS_Subset
<1>3. b \in B /\ b \notin A
  OBVIOUS
<1> QED  BY <1>2, <1>3

\* Every place is the one of its rank, and every rank has its place.
LEMMA NthFinds ==
    ASSUME NEW S \in SUBSET Nat, IsFiniteSet(S), NEW l \in S
    PROVE  Nth(S, Rank(S, l)) = l
<1> DEFINE m == Nth(S, Rank(S, l))
<1>1. Rank(S, m) = Rank(S, l) /\ m \in S
  BY DEF Nth, Rank
<1>2. ASSUME NEW x \in S, Rank(S, x) = Rank(S, l) PROVE x = l
  BY <1>2, RanksDiffer
<1> QED  BY <1>1, <1>2

LEMMA NthBelongs ==
    ASSUME NEW S \in SUBSET Nat, IsFiniteSet(S), NEW k \in 1..Cardinality(S)
    PROVE  Nth(S, k) \in S
<1> DEFINE n == Cardinality(S)
           rank == [l \in S |-> Rank(S, l)]
<1>1. n \in Nat
  BY FS_CardinalityType
<1>2. IsFiniteSet(1..n) /\ Cardinality(1..n) = n
  BY <1>1, FS_Interval
<1>3. rank \in [S -> 1..n]
  BY RankCounts
<1>4. rank \in Injection(S, 1..n)
  BY <1>3, RanksDiffer DEF Injection, IsInjective
<1>5. rank \in Surjection(S, 1..n)
  BY <1>2, <1>4, FS_Injection
<1>6. PICK l \in S : rank[l] = k
  BY <1>5 DEF Surjection
<1>7. Nth(S, k) = l
  BY <1>6, NthFinds
<1> QED  BY <1>7

\* t is what s has at these places, each once.
Drawn(t, s, S) ==
    \E n \in Nat : \E at \in Bijection(1..n, S) : t = [k \in 1..n |-> s[at[k]]]

\* What is picked out of a sequence is what is at the places, and all of it.
LEMMA PickedIs ==
    ASSUME NEW s, IsSeq(s), NEW S \in SUBSET DOMAIN s
    PROVE  /\ IsSeq(Picked(s, S)) /\ ToSet(Picked(s, S)) = {s[i] : i \in S}
           /\ S = DOMAIN s => Picked(s, S) = s
<1>1. Len(s) \in Nat /\ DOMAIN s = 1..Len(s) /\ s \in [1..Len(s) -> ToSet(s)]
  BY DEF IsSeq
<1>2. IsFiniteSet(1..Len(s)) /\ Cardinality(1..Len(s)) = Len(s)
  BY <1>1, FS_Interval, SMTT(30)
<1>3. IsFiniteSet(S) /\ Cardinality(S) \in Nat /\ S \in SUBSET Nat
  BY <1>1, <1>2, FS_Subset, FS_CardinalityType
<1> DEFINE p == Picked(s, S)
<1>4. DOMAIN p = 1..Cardinality(S) /\ \A k \in 1..Cardinality(S) : p[k] = s[Nth(S, k)] /\ Nth(S, k) \in S
  BY <1>3, NthBelongs DEF Picked
<1>5. p = [k \in 1..Cardinality(S) |-> p[k]]
  BY DEF Picked
<1> HIDE DEF p
<1>6. ToSet(p) = {s[i] : i \in S}
  <2>1. ASSUME NEW i \in S PROVE \E k \in DOMAIN p : p[k] = s[i]
    <3>1. Rank(S, i) \in 1..Cardinality(S) /\ Nth(S, Rank(S, i)) = i
      BY <1>3, RankCounts, NthFinds
    <3> QED  BY <1>4, <3>1
  <2> QED  BY <1>4, <2>1 DEF ToSet
<1>7. IsSeq(p)
  <2>1. p \in [1..Cardinality(S) -> ToSet(p)]
    BY <1>4, <1>5 DEF ToSet
  <2> QED  BY <1>3, <2>1 DEF IsSeq
<1>8. ASSUME S = DOMAIN s PROVE p = s
  <2>1. Cardinality(S) = Len(s)
    BY <1>1, <1>2, <1>8
  <2>2. ASSUME NEW k \in 1..Len(s) PROVE p[k] = s[k]
    <3>1. {m \in S : m <= k} = 1..k /\ k \in Nat
      BY <1>1, <1>8
    <3>2. Cardinality(1..k) = k
      BY <3>1, FS_Interval
    <3>3. Rank(S, k) = k
      BY <3>1, <3>2 DEF Rank
    <3>4. Nth(S, k) = k
      BY <1>1, <1>3, <1>8, <3>3, NthFinds
    <3> QED  BY <1>4, <2>1, <3>4
  <2>3. s = [k \in 1..Len(s) |-> s[k]]
    BY <1>1
  <2> QED  BY <1>5, <2>1, <2>2, <2>3
<1> QED  BY <1>6, <1>7, <1>8 DEF p

LEMMA PickedDraws ==
    ASSUME NEW s, IsSeq(s), NEW S \in SUBSET DOMAIN s
    PROVE  Drawn(Picked(s, S), s, S)
<1> DEFINE n == Cardinality(S)
           at == [k \in 1..n |-> Nth(S, k)]
           rank == [l \in S |-> Rank(S, l)]
<1>1. DOMAIN s = 1..Len(s) /\ Len(s) \in Nat
  BY DEF IsSeq
<1>2. IsFiniteSet(S) /\ n \in Nat /\ S \in SUBSET Nat
  <2>1. IsFiniteSet(1..Len(s))
    BY <1>1, FS_Interval
  <2> QED  BY <1>1, <2>1, FS_Subset, FS_CardinalityType
<1>3. \A l \in S : Rank(S, l) \in 1..n /\ Nth(S, Rank(S, l)) = l
  BY <1>2, RankCounts, NthFinds
<1>4. at \in [1..n -> S]
  BY <1>2, NthBelongs
<1>5. at \in Surjection(1..n, S)
  BY <1>3, <1>4 DEF Surjection
<1>6. IsFiniteSet(1..n) /\ Cardinality(1..n) = n
  BY <1>2, FS_Interval
<1>7. at \in Injection(1..n, S)
  <2> HIDE DEF at
  <2> QED  BY <1>5, <1>6, FS_Surjection
<1>8. Picked(s, S) = [k \in 1..n |-> s[at[k]]]
  BY DEF Picked
<1> HIDE DEF at, n
<1> QED  BY <1>2, <1>5, <1>7, <1>8 DEF Drawn, Bijection

\* The first of a sequence are of it.
LEMMA TopIs ==
    ASSUME NEW s, IsSeq(s), NEW k \in Int
    PROVE  IsSeq(Top(s, k)) /\ ToSet(Top(s, k)) \subseteq ToSet(s)
<1>1. Len(s) \in Nat /\ DOMAIN s = 1..Len(s)
  BY DEF IsSeq
<1> DEFINE m == Min({k, Len(s)})
<1>2. m \in Int /\ m <= Len(s)
  <2> DEFINE low == IF k <= Len(s) THEN k ELSE Len(s)
  <2>1. low \in {k, Len(s)} /\ \A y \in {k, Len(s)} : low <= y
    BY <1>1
  <2>2. m \in {k, Len(s)} /\ \A y \in {k, Len(s)} : m <= y
    BY <2>1 DEF Min
  <2> QED  BY <1>1, <2>2
<1> HIDE DEF m
<1> DEFINE t == Top(s, k)
<1>3. t = [i \in 1..m |-> s[i]]
  <2>1. t = SubSeq(s, 1, m)
    BY DEF Top, m
  <2>2. SubSeq(s, 1, m) = [i \in 1..(1 + m - 1) |-> s[i + 1 - 1]]
    BY <1>2
  <2>3. 1 + m - 1 = m /\ \A i \in 1..m : i + 1 - 1 = i
    BY <1>2
  <2> QED  BY <2>1, <2>2, <2>3
<1> HIDE DEF t
<1>4. ToSet(t) \subseteq ToSet(s)
  BY <1>1, <1>2, <1>3 DEF ToSet
<1>5. t \in [1..m -> ToSet(t)]
  BY <1>3 DEF ToSet
<1>6. IsSeq(t)
  <2>1. CASE m \in Nat
    BY <1>5, <2>1 DEF IsSeq
  <2>2. CASE m \notin Nat
    <3>1. 1..m = 1..0
      BY <1>2, <2>2
    <3>2. t \in [1..0 -> ToSet(t)]
      BY <1>5, <3>1
    <3> QED  BY <3>2 DEF IsSeq
  <2> QED  BY <2>1, <2>2
<1> QED  BY <1>4, <1>6 DEF t

\* What is ranked is what was scored: every rank has its place.
LEMMA RankedIs ==
    ASSUME NEW s, IsSeq(s), AreNumbers(s)
    PROVE  IsSeq(Ranked(s)) /\ ToSet(Ranked(s)) \subseteq ToSet(s) /\ Drawn(Ranked(s), s, DOMAIN s)
<1> DEFINE n == Len(s)
           at(i) == Cardinality(Before(s, i))
<1>1. n \in Nat /\ DOMAIN s = 1..n /\ \A i \in 1..n : s[i].score \in Int
  BY DEF IsSeq, AreNumbers
<1>2. IsFiniteSet(1..n) /\ Cardinality(1..n) = n
  BY <1>1, FS_Interval
<1> HIDE DEF n
<1>3. ASSUME NEW i \in 1..n
      PROVE  /\ IsFiniteSet(Before(s, i)) /\ i \notin Before(s, i)
             /\ Before(s, i) \subseteq 1..n /\ at(i) \in 0..(n - 1)
  <2>1. Before(s, i) \subseteq 1..n /\ i \notin Before(s, i)
    BY <1>1 DEF Before
  <2>2. IsFiniteSet(Before(s, i)) /\ at(i) \in Nat /\ at(i) <= n
    BY <1>2, <2>1, FS_Subset, FS_CardinalityType
  <2>3. at(i) # n
    BY <1>2, <2>1, FS_Subset
  <2> QED  BY <1>1, <2>1, <2>2, <2>3
<1>4. ASSUME NEW i \in 1..n, NEW j \in 1..n, at(i) = at(j) PROVE i = j
  <2>1. ASSUME NEW a \in 1..n, NEW b \in 1..n, at(a) = at(b), a \in Before(s, b) PROVE FALSE
    <3>1. Before(s, a) \subseteq Before(s, b)
      <4>1. ASSUME NEW x \in 1..n, x \in Before(s, a) PROVE x \in Before(s, b)
        <5>1. s[x].score \in Int /\ s[a].score \in Int /\ s[b].score \in Int
          BY <1>1
        <5>2. s[x].score > s[a].score \/ (s[x].score = s[a].score /\ x < a)
          BY <4>1 DEF Before
        <5>3. s[a].score > s[b].score \/ (s[a].score = s[b].score /\ a < b)
          BY <2>1 DEF Before
        <5>4. s[x].score > s[b].score \/ (s[x].score = s[b].score /\ x < b)
          BY <1>1, <5>1, <5>2, <5>3
        <5> QED  BY <1>1, <5>4 DEF Before
      <4> QED  BY <1>3, <4>1
    <3>2. Before(s, a) = Before(s, b)
      BY <1>3, <2>1, <3>1, FS_Subset
    <3> QED  BY <1>3, <2>1, <3>2
  <2>2. i = j \/ i \in Before(s, j) \/ j \in Before(s, i)
    BY <1>1 DEF Before
  <2> QED  BY <1>4, <2>1, <2>2
<1> DEFINE rank == [i \in 1..n |-> at(i) + 1]
<1>5. rank \in [1..n -> 1..n]
  <2>1. \A i \in 1..n : at(i) + 1 \in 1..n
    BY <1>1, <1>3
  <2> QED  BY <2>1
<1>6. rank \in Injection(1..n, 1..n)
  <2>1. ASSUME NEW i \in 1..n, NEW j \in 1..n, rank[i] = rank[j] PROVE i = j
    <3>1. at(i) \in Int /\ at(j) \in Int
      BY <1>1, <1>3
    <3>2. at(i) = at(j)
      BY <2>1, <3>1
    <3> QED  BY <1>4, <3>2
  <2> QED  BY <1>5, <2>1 DEF Injection, IsInjective
<1>7. rank \in Surjection(1..n, 1..n)
  BY <1>2, <1>6, FS_Injection
<1>8. ASSUME NEW k \in 1..n PROVE \E i \in 1..n : at(i) = k - 1
  <2>1. PICK i \in 1..n : rank[i] = k
    BY <1>7 DEF Surjection
  <2>2. at(i) \in Int
    BY <1>1, <1>3
  <2> QED  BY <2>1, <2>2
<1> DEFINE r == Ranked(s)
<1> DEFINE place(k) == CHOOSE i \in 1..n : at(i) = k - 1
<1>9. r = [k \in 1..n |-> s[place(k)]] /\ \A k \in 1..n : place(k) \in 1..n
  <2>1. r = [k \in 1..n |-> s[place(k)]]
    BY <1>1 DEF Ranked
  <2>2. ASSUME NEW k \in 1..n PROVE place(k) \in 1..n
    BY <1>8
  <2> QED  BY <2>1, <2>2
<1>10. \A k \in 1..n : at(place(k)) = k - 1
  BY <1>8
<1> HIDE DEF place
<1> HIDE DEF r
<1>11. r \in [1..n -> ToSet(r)] /\ ToSet(r) \subseteq ToSet(s)
  BY <1>1, <1>9 DEF ToSet
<1>12. Drawn(r, s, DOMAIN s)
  <2> DEFINE places == [k \in 1..n |-> place(k)]
  <2>1. places \in [1..n -> 1..n]
    BY <1>9
  <2>2. ASSUME NEW k \in 1..n, NEW m \in 1..n, place(k) = place(m) PROVE k = m
    BY <1>1, <1>10, <2>2
  <2>3. places \in Injection(1..n, 1..n)
    BY <2>1, <2>2 DEF Injection, IsInjective
  <2>4. places \in Surjection(1..n, 1..n)
    <3> HIDE DEF places
    <3> QED  BY <1>2, <2>3, FS_Injection
  <2>5. r = [k \in 1..n |-> s[places[k]]]
    BY <1>9
  <2> HIDE DEF places
  <2> QED  BY <1>1, <2>3, <2>4, <2>5 DEF Drawn, Bijection
<1> QED  BY <1>1, <1>11, <1>12 DEF r, IsSeq

-----------------------------------------------------------------------------
(* A copy of one project *)

\* The memories one link away that are shared, and what is shared beyond some of them.
FirstRing(g, root) == {n \in Live(g) \ {root} : Adjacent(g, root, n) /\ ModelOf(g, n) \notin Private}
Bridges(g, root) == {m \in FirstRing(g, root) : Expandable(g, m)}
SecondRing(g, root) ==
    {n \in Live(g) \ ({root} \cup FirstRing(g, root)) :
        /\ ModelOf(g, n) \notin Private \cup HubModels
        /\ \E m \in Bridges(g, root) : Adjacent(g, m, n)}

\* The walk includes just these.
LEMMA IncludedIs ==
    ASSUME NEW g, NEW root, NEW depth \in 1..2
    PROVE  Included(g, root, depth) =
               {root} \cup FirstRing(g, root) \cup IF depth = 1 THEN {} ELSE SecondRing(g, root)
<1> DEFINE zero == [in |-> {root}, frontier |-> {root}]
           one == ShareHop(g, zero, 1)
           two == ShareHop(g, one, 2)
<1>1. Live(g) \subseteq Known(g)
  BY DEF Live, Known
<1>2. one = [in |-> {root} \cup FirstRing(g, root), frontier |-> FirstRing(g, root)]
  BY <1>1 DEF ShareHop, Shareable, FirstRing
<1> HIDE DEF one
<1>3. two.in = {root} \cup FirstRing(g, root) \cup SecondRing(g, root)
  BY <1>1, <1>2 DEF ShareHop, Shareable, SecondRing, Bridges
<1> QED  BY <1>2, <1>3 DEF Included, one

\* A node's copy differs from it in its parts, of which it keeps none that say where it
\* comes from; a copy's is the same.
LEMMA CopiedIs ==
    ASSUME NEW n, {"id", "model", "parts", "dead"} \subseteq DOMAIN n, IsSeq(n.parts)
    PROVE  /\ \A f \in (DOMAIN n) \ {"parts"} : Copied(n)[f] = n[f]
           /\ DOMAIN Copied(n) = DOMAIN n /\ IsSeq(Copied(n).parts)
           /\ \A p \in ToSet(Copied(n).parts) : p.key \notin Provenance
           /\ Copied(Copied(n)) = Copied(n)
<1> DEFINE c == Copied(n)
<1>1. c = [n EXCEPT !.parts = Picked(n.parts, ToCopy(n))]
  BY DEF Copied
<1>2. Copied(c) = [c EXCEPT !.parts = Picked(c.parts, ToCopy(c))]
  BY DEF Copied
<1>3. /\ \A f \in (DOMAIN n) \ {"parts"} : c[f] = n[f]
      /\ DOMAIN c = DOMAIN n /\ c.parts = Picked(n.parts, ToCopy(n))
      /\ c = [f \in DOMAIN n |-> c[f]]
  BY <1>1
<1> HIDE DEF c
<1>4. IsSeq(c.parts) /\ ToSet(c.parts) = {n.parts[i] : i \in ToCopy(n)}
  <2>1. ToCopy(n) \in SUBSET DOMAIN n.parts
    BY DEF ToCopy
  <2> QED  BY <1>3, <2>1, PickedIs
<1>5. c.model = n.model
  BY <1>3
<1>6. \A p \in ToSet(c.parts) : p.key \notin Provenance /\ (c.model = "Person" => p.key \in PersonKeep)
  BY <1>4, <1>5 DEF ToCopy
<1>7. ToCopy(c) = DOMAIN c.parts
  BY <1>6 DEF ToSet, ToCopy
<1>8. Picked(c.parts, ToCopy(c)) = c.parts
  BY <1>4, <1>7, PickedIs
<1>9. Copied(c) = c
  BY <1>2, <1>3, <1>8
<1> QED  BY <1>3, <1>4, <1>6, <1>9 DEF c

\* The copy holds what the walk includes, and a copy of it is the same.
LEMMA CopyIs ==
    ASSUME NEW g, IsGraph(g), NEW root \in Live(g), NEW depth \in 1..2
    PROVE  /\ Known(Share(g, root, depth)) = Included(g, root, depth)
           /\ \A n \in ToSet(Share(g, root, depth).nodes) :
                \A p \in ToSet(n.parts) : p.key \notin Provenance
           /\ Share(Share(g, root, depth), root, depth) = Share(g, root, depth)
<1> DEFINE in == Included(g, root, depth)
           Nodes(h) == {i \in DOMAIN h.nodes : h.nodes[i].id \in in}
           Links(h) == {i \in DOMAIN h.links :
               h.links[i].open /\ {h.links[i].source, h.links[i].target} \subseteq in}
           Copies(s) == [i \in DOMAIN s |-> Copied(s[i])]
           a == Share(g, root, depth)
<1>1. a = [nodes |-> Copies(Picked(g.nodes, Nodes(g))), links |-> Picked(g.links, Links(g))]
  BY DEF Share
<1>2. /\ in = {root} \cup FirstRing(g, root) \cup IF depth = 1 THEN {} ELSE SecondRing(g, root)
      /\ in \subseteq Live(g) /\ root \in in
  <2>1. in = {root} \cup FirstRing(g, root) \cup IF depth = 1 THEN {} ELSE SecondRing(g, root)
    BY IncludedIs
  <2>2. FirstRing(g, root) \subseteq Live(g) /\ SecondRing(g, root) \subseteq Live(g)
    BY DEF FirstRing, SecondRing
  <2> HIDE DEF in
  <2> QED  BY <2>1, <2>2
<1> HIDE DEF a
<1> DEFINE s == Picked(g.nodes, Nodes(g))
<1>3. IsSeq(s) /\ ToSet(s) = {n \in ToSet(g.nodes) : n.id \in in}
  <2>1. IsSeq(s) /\ ToSet(s) = {g.nodes[i] : i \in Nodes(g)}
    BY PickedIs DEF IsGraph
  <2> QED  BY <2>1 DEF ToSet
<1>4. /\ IsSeq(a.links)
      /\ ToSet(a.links) = {l \in ToSet(g.links) : l.open /\ {l.source, l.target} \subseteq in}
  <2>1. IsSeq(a.links) /\ ToSet(a.links) = {g.links[i] : i \in Links(g)}
    BY <1>1, PickedIs DEF IsGraph
  <2> QED  BY <2>1 DEF ToSet
<1> HIDE DEF s
<1>5. a.nodes = Copies(s)
  BY <1>1 DEF s
<1>6. /\ IsSeq(a.nodes) /\ a.nodes = [i \in DOMAIN a.nodes |-> a.nodes[i]]
      /\ ToSet(a.nodes) = {Copied(n) : n \in ToSet(s)}
  <2>1. ToSet(a.nodes) = {Copied(n) : n \in ToSet(s)}
    BY <1>5 DEF ToSet
  <2>2. a.nodes \in [1..Len(s) -> ToSet(a.nodes)] /\ Len(s) \in Nat
    <3>1. DOMAIN s = 1..Len(s) /\ Len(s) \in Nat
      BY <1>3 DEF IsSeq
    <3> QED  BY <1>5, <3>1 DEF ToSet
  <2> QED  BY <2>1, <2>2 DEF IsSeq
<1>7. ASSUME NEW n \in ToSet(s)
      PROVE  /\ Copied(n).id = n.id /\ Copied(n).dead = n.dead /\ Copied(n).model = n.model
             /\ n \in ToSet(g.nodes) /\ n.id \in in
             /\ \A p \in ToSet(Copied(n).parts) : p.key \notin Provenance
             /\ Copied(Copied(n)) = Copied(n)
  <2>1. n \in ToSet(g.nodes) /\ n.id \in in
    BY <1>3
  <2>2. {"id", "model", "parts", "dead"} \subseteq DOMAIN n /\ IsSeq(n.parts)
    BY <2>1 DEF IsGraph
  <2>3. Copied(n).id = n.id /\ Copied(n).dead = n.dead /\ Copied(n).model = n.model
    BY <2>2, CopiedIs
  <2> QED  BY <2>1, <2>2, <2>3, CopiedIs
<1>8. ASSUME NEW x \in in
      PROVE  \E n \in ToSet(s) : n.id = x /\ ~n.dead /\ NodeOf(g, x) = n /\ NodeOf(a, x) = Copied(n)
  <2>1. PICK n \in ToSet(g.nodes) : n.id = x /\ ~n.dead
    BY <1>2 DEF Live
  <2>2. n \in ToSet(s)
    BY <1>3, <2>1
  <2>3. \A m \in ToSet(g.nodes) : m.id = x <=> m = n
    BY <2>1 DEF IsGraph
  <2>4. NodeOf(g, x) = n
    BY <2>1, <2>3 DEF NodeOf
  <2>5. Copied(n) \in ToSet(a.nodes) /\ Copied(n).id = x
    BY <1>6, <1>7, <2>1, <2>2
  <2>6. \A m \in ToSet(a.nodes) : m.id = x => m = Copied(n)
    BY <1>6, <1>7, <2>3
  <2>7. NodeOf(a, x) = Copied(n)
    BY <2>5, <2>6 DEF NodeOf
  <2> QED  BY <2>1, <2>2, <2>4, <2>7
<1>9. Known(a) = in /\ Live(a) = in
  <2>1. Known(a) \subseteq in /\ Live(a) \subseteq Known(a)
    BY <1>6, <1>7 DEF Known, Live
  <2>2. ASSUME NEW x \in in PROVE x \in Live(a)
    <3>1. PICK n \in ToSet(s) : n.id = x /\ ~n.dead
      BY <1>8
    <3>2. Copied(n) \in ToSet(a.nodes) /\ Copied(n).id = x /\ ~Copied(n).dead
      BY <1>6, <1>7, <3>1
    <3> QED  BY <3>2 DEF Live
  <2> QED  BY <2>1, <2>2
<1>10. \A x \in in : ModelOf(a, x) = ModelOf(g, x) /\ (Expandable(a, x) <=> Expandable(g, x))
  <2>1. ASSUME NEW x \in in
        PROVE  ModelOf(a, x) = ModelOf(g, x) /\ NodeOf(a, x).model = NodeOf(g, x).model
    BY <1>7, <1>8 DEF ModelOf
  <2> QED  BY <2>1 DEF Expandable, IsConcept
<1>11. \A x, y \in in : Adjacent(a, x, y) <=> Adjacent(g, x, y)
  <2>1. ASSUME NEW x \in in, NEW y \in in, NEW l \in ToSet(g.links), l.open,
               {l.source, l.target} = {x, y}
        PROVE  l \in ToSet(a.links)
    BY <1>4, <2>1
  <2> QED  BY <1>4, <2>1 DEF Adjacent
<1> HIDE DEF in
<1>12. FirstRing(a, root) = FirstRing(g, root)
  <2>1. FirstRing(g, root) \subseteq in
    BY <1>2
  <2>2. ASSUME NEW x \in in PROVE x \in FirstRing(a, root) <=> x \in FirstRing(g, root)
    BY <1>2, <1>9, <1>10, <1>11 DEF FirstRing
  <2>3. FirstRing(a, root) \subseteq in
    BY <1>9 DEF FirstRing
  <2> QED  BY <2>1, <2>2, <2>3
<1>13. ASSUME depth # 1 PROVE SecondRing(a, root) = SecondRing(g, root)
  <2>1. SecondRing(g, root) \subseteq in /\ FirstRing(g, root) \subseteq in
    BY <1>2, <1>13
  <2>2. Bridges(a, root) = Bridges(g, root) /\ Bridges(g, root) \subseteq in
    BY <1>10, <1>12, <2>1 DEF Bridges
  <2>3. ASSUME NEW x \in in PROVE x \in SecondRing(a, root) <=> x \in SecondRing(g, root)
    <3>1. \A m \in Bridges(g, root) : Adjacent(a, m, x) <=> Adjacent(g, m, x)
      BY <1>11, <2>2
    <3>2. x \in Live(a) /\ x \in Live(g) /\ ModelOf(a, x) = ModelOf(g, x)
      BY <1>2, <1>9, <1>10
    <3> QED  BY <1>12, <2>2, <3>1, <3>2 DEF SecondRing
  <2>4. SecondRing(a, root) \subseteq in
    BY <1>9 DEF SecondRing
  <2> QED  BY <2>1, <2>3, <2>4
<1>14. Included(a, root, depth) = in
  <2>1. Included(a, root, depth) =
            {root} \cup FirstRing(a, root) \cup IF depth = 1 THEN {} ELSE SecondRing(a, root)
    BY IncludedIs
  <2> QED  BY <1>2, <1>12, <1>13, <2>1
<1>15. Share(a, root, depth) =
           [nodes |-> Copies(Picked(a.nodes, Nodes(a))), links |-> Picked(a.links, Links(a))]
  BY <1>14 DEF Share
<1>16. Picked(a.nodes, Nodes(a)) = a.nodes
  <2>1. Nodes(a) = DOMAIN a.nodes
    BY <1>6, <1>7 DEF ToSet
  <2> QED  BY <1>6, <2>1, PickedIs
<1>17. Picked(a.links, Links(a)) = a.links
  <2>1. Links(a) = DOMAIN a.links
    BY <1>4 DEF ToSet
  <2> QED  BY <1>4, <2>1, PickedIs
<1>18. Copies(a.nodes) = a.nodes
  <2>1. \A i \in DOMAIN a.nodes : Copied(a.nodes[i]) = a.nodes[i]
    BY <1>6, <1>7 DEF ToSet
  <2> QED  BY <1>6, <2>1
<1>19. a = [nodes |-> a.nodes, links |-> a.links]
  BY <1>1
<1>20. Share(a, root, depth) = a
  BY <1>15, <1>16, <1>17, <1>18, <1>19
<1>21. \A n \in ToSet(a.nodes) : \A p \in ToSet(n.parts) : p.key \notin Provenance
  BY <1>6, <1>7
<1> QED  BY <1>9, <1>20, <1>21 DEF a, in

\* What the walk includes is the project and what is theirs of it.
LEMMA IncludedIsTheirs ==
    ASSUME asked.depth \in 1..2, asked.id \in Live(graph)
    PROVE  Included(graph, asked.id, asked.depth) =
               {asked.id} \cup {n \in Live(graph) : Theirs(asked.id, n)}
<1> DEFINE root == asked.id
<1>1. Included(graph, root, asked.depth) =
          {root} \cup FirstRing(graph, root) \cup IF asked.depth = 1 THEN {} ELSE SecondRing(graph, root)
  BY IncludedIs
<1>2. FirstRing(graph, root) = {n \in OneHop(root) : ModelOf(graph, n) \notin Private}
  BY DEF FirstRing, OneHop
<1>3. Bridges(graph, root) =
          {m \in OneHop(root) : ModelOf(graph, m) \notin Private \cup HubModels \cup ConceptTypes}
  BY <1>2 DEF Bridges, Expandable, IsConcept, ModelOf
<1>4. ASSUME NEW n \in Live(graph), n # root, asked.depth = 2
      PROVE  n \in FirstRing(graph, root) \cup SecondRing(graph, root) <=> Theirs(root, n)
  <2>1. ASSUME n \in SecondRing(graph, root) PROVE Theirs(root, n)
    <3>1. /\ n \notin OneHop(root) /\ ModelOf(graph, n) \notin Private \cup HubModels
          /\ \E m \in Bridges(graph, root) : Adjacent(graph, m, n)
      BY <1>2, <2>1 DEF SecondRing
    <3>2. n \in TwoHops(root)
      BY <1>3, <1>4, <3>1 DEF TwoHops
    <3> QED  BY <1>3, <1>4, <3>1, <3>2 DEF Theirs
  <2>2. ASSUME Theirs(root, n), n \notin FirstRing(graph, root) PROVE n \in SecondRing(graph, root)
    <3>1. /\ n \in TwoHops(root) /\ ModelOf(graph, n) \notin Private \cup HubModels
          /\ \E m \in Bridges(graph, root) : Adjacent(graph, m, n)
      BY <1>2, <1>3, <2>2 DEF Theirs
    <3> QED  BY <1>4, <2>2, <3>1 DEF SecondRing
  <2>3. n \in FirstRing(graph, root) => Theirs(root, n)
    BY <1>2 DEF Theirs
  <2> QED  BY <2>1, <2>2, <2>3
<1>5. ASSUME NEW n \in Live(graph), asked.depth = 1
      PROVE  n \in FirstRing(graph, root) <=> Theirs(root, n)
  BY <1>2, <1>5 DEF Theirs
<1>6. FirstRing(graph, root) \subseteq Live(graph) /\ SecondRing(graph, root) \subseteq Live(graph)
  BY DEF FirstRing, SecondRing
<1>7. CASE asked.depth = 1
  BY <1>1, <1>5, <1>6, <1>7
<1>8. CASE asked.depth = 2
  BY <1>1, <1>4, <1>6, <1>8
<1> QED  BY <1>7, <1>8

\* What was asked is one of the reads, and the answer of a share is the copy.
Asked == \E r \in Reads : graph = r[1] /\ asked = r[2]
Copy == Given("share") => answer = Share(graph, asked.id, asked.depth)

LEMMA AskedAndCopy == ReadSpec => [](Asked /\ Copy)
<1>1. ReadInit => Asked /\ Copy
  BY DEF ReadInit, Asked, Copy, Given
<1>2. Asked /\ Copy /\ [Read]_reading => (Asked /\ Copy)'
  <2> SUFFICES ASSUME Asked, Copy, [Read]_reading PROVE Asked' /\ Copy'
    OBVIOUS
  <2>1. CASE UNCHANGED reading
    BY <2>1 DEF reading, Asked, Copy, Given
  <2>2. CASE Read
    <3>1. graph' = graph /\ asked' = asked /\ answer' = Report
      BY <2>2 DEF Read
    <3>2. asked.kind = "share" => Report = Share(graph, asked.id, asked.depth)
      BY DEF Report
    <3> QED  BY <3>1, <3>2 DEF Asked, Copy, Given
  <2> QED  BY <2>1, <2>2
<1> QED  BY <1>1, <1>2, PTL DEF ReadSpec

\* `share` (share.py:84-155) writes a project's node and what the walk may include of the
\* memories within one or two open links, neither more nor less, strips from each what
\* says where it comes from, and shared once more is the same.
THEOREM ShareIsTheProjectHolds == ReadSpec => []ShareIsTheProject
<1>1. Asked /\ Copy => ShareIsTheProject
  <2> SUFFICES ASSUME Asked, Copy, Given("share") PROVE ShareIsTheProject
    BY DEF ShareIsTheProject
  <2>1. IsGraph(graph) /\ asked.depth \in 1..2 /\ asked.id \in Live(graph)
    BY ShareAssumption DEF Asked, Given, Live
  <2>2. answer = Share(graph, asked.id, asked.depth)
    BY DEF Copy
  <2> QED  BY <2>1, <2>2, CopyIs, IncludedIsTheirs DEF ShareIsTheProject
<1> QED  BY <1>1, AskedAndCopy, PTL

-----------------------------------------------------------------------------
(* The calendar, and the words for a range *)

LEMMA YearsAreInts == ASSUME NEW y \in Int PROVE D!DaysBefore(y) \in Int
  BY DEF D!DaysBefore

LEMMA YearLength ==
    ASSUME NEW y \in Nat \ {0}
    PROVE  D!DaysBefore(y + 1) = D!DaysBefore(y) + (IF D!Leap(y) THEN 366 ELSE 365)
  BY DEF D!DaysBefore, D!Leap

LEMMA YearsInOrder ==
    ASSUME NEW y \in Nat \ {0}, NEW z \in Nat, z > y
    PROVE  D!DaysBefore(z) >= D!DaysBefore(y + 1)
  BY DEF D!DaysBefore

LEMMA YearOfDay ==
    ASSUME NEW y \in Nat \ {0}, NEW k \in 1..366
    PROVE  y \in ((D!DaysBefore(y) + k) \div 366)..((D!DaysBefore(y) + k) \div 365 + 1)
  BY DEF D!DaysBefore

LEMMA MonthStep ==
    ASSUME NEW y \in Nat \ {0}, NEW m \in 1..11
    PROVE  D!DaysToMonth(y, m + 1) = D!DaysToMonth(y, m) + D!MonthLength(y, m)
  BY DEF D!DaysToMonth, D!MonthLength


LEMMA MonthsAreInts ==
    ASSUME NEW y \in Nat \ {0}, NEW m \in 1..12
    PROVE  D!DaysToMonth(y, m) \in 0..335
  BY DEF D!DaysToMonth

LEMMA MonthsInOrder ==
    ASSUME NEW y \in Nat \ {0}, NEW m \in 1..12, NEW k \in 1..12, k > m
    PROVE  D!DaysToMonth(y, k) >= D!DaysToMonth(y, m) + D!MonthLength(y, m)
  BY DEF D!DaysToMonth, D!MonthLength

LEMMA LastMonth ==
    ASSUME NEW y \in Nat \ {0}, NEW m \in 1..12
    PROVE  D!DaysToMonth(y, m) + D!MonthLength(y, m) <= IF D!Leap(y) THEN 366 ELSE 365
  BY DEF D!DaysToMonth, D!MonthLength

LEMMA GreatestIs ==
    ASSUME NEW S \in SUBSET Int, NEW a \in S, \A b \in S : a >= b
    PROVE  D!Max(S) = a
<1> DEFINE x == D!Max(S)
<1>1. x \in S /\ \A b \in S : x >= b
  BY DEF D!Max
<1> HIDE DEF x
<1>2. x \in Int /\ a \in Int /\ x >= a /\ a >= x
  BY <1>1
<1>3. x = a
  BY <1>2
<1> QED  BY <1>3 DEF x

\* Where a date is in its year.
LEMMA DateIs ==
    ASSUME NEW t, D!IsDate(t)
    PROVE  /\ t.y \in Nat \ {0} /\ t.m \in 1..12 /\ t.d \in 1..31 /\ t.d <= D!MonthLength(t.y, t.m)
           /\ t = [y |-> t.y, m |-> t.m, d |-> t.d]
           /\ D!MonthLength(t.y, t.m) \in 28..31
           /\ D!DaysBefore(t.y) \in Int /\ D!DaysToMonth(t.y, t.m) \in Int
           /\ D!DaysToMonth(t.y, t.m) + t.d \in 1..(IF D!Leap(t.y) THEN 366 ELSE 365)
           /\ D!Ordinal(t) = D!DaysBefore(t.y) + (D!DaysToMonth(t.y, t.m) + t.d)
           /\ D!Ordinal(t) \in Int
<1> DEFINE y == t.y  m == t.m  d == t.d  to == D!DaysToMonth(y, m)  long == D!MonthLength(y, m)
           before == D!DaysBefore(y)
<1>1. y \in Nat \ {0} /\ m \in 1..12 /\ d \in 1..31 /\ d <= long /\ t = [y |-> y, m |-> m, d |-> d]
  BY DEF D!IsDate
<1>2. D!Ordinal(t) = before + to + d
  BY DEF D!Ordinal
<1> HIDE DEF y, m, d
<1>3. long \in 28..31
  BY <1>1 DEF D!MonthLength
<1>4. to \in 0..335
  BY <1>1, MonthsAreInts
<1>5. before \in Int
  BY <1>1, YearsAreInts
<1>6. to + long <= IF D!Leap(y) THEN 366 ELSE 365
  BY <1>1, LastMonth
<1> HIDE DEF to, long, before
<1>7. to + d \in 1..(IF D!Leap(y) THEN 366 ELSE 365)
  BY <1>1, <1>3, <1>4, <1>6
<1>8. before + to + d = before + (to + d) /\ before + to + d \in Int
  BY <1>1, <1>4, <1>5
<1> QED  BY <1>1, <1>2, <1>3, <1>4, <1>5, <1>7, <1>8 DEF y, m, d, to, long, before

LEMMA DateOfOrdinal ==
    ASSUME NEW t, D!IsDate(t)
    PROVE  D!DateOf(D!Ordinal(t)) = t
<1> DEFINE n == D!Ordinal(t)
           y == t.y  m == t.m  d == t.d
           to(k) == D!DaysToMonth(y, k)  long == D!MonthLength(y, m)
           before(z) == D!DaysBefore(z)
           Y == {z \in (n \div 366)..(n \div 365 + 1) : before(z) < n}
           M == {k \in 1..12 : D!Ordinal(D!Date(y, k, 1)) <= n}
<1>1. y \in Nat \ {0} /\ m \in 1..12 /\ d \in 1..31 /\ d <= long /\ t = [y |-> y, m |-> m, d |-> d]
  BY DateIs
<1>2. /\ long \in Int /\ before(y) \in Int /\ to(m) \in Int
      /\ to(m) + d \in 1..(IF D!Leap(y) THEN 366 ELSE 365)
      /\ n = before(y) + (to(m) + d) /\ n \in Int
  BY DateIs
<1>3. \A k \in 1..12 : D!Ordinal(D!Date(y, k, 1)) = before(y) + to(k) + 1
  BY DEF D!Ordinal, D!Date
<1>4. D!DateOf(n) = LET z == D!Max({z \in (n \div 366)..(n \div 365 + 1) : D!DaysBefore(z) < n})
                        k == D!Max({k \in 1..12 : D!Ordinal(D!Date(z, k, 1)) <= n})
                    IN D!Date(z, k, n - D!Ordinal(D!Date(z, k, 1)) + 1)
  BY DEF D!DateOf
<1> HIDE DEF n, y, m, d
<1>5. y \in (n \div 366)..(n \div 365 + 1)
  <2> DEFINE q == to(m) + d
  <2>1. q \in 1..366
    BY <1>2
  <2>2. n = before(y) + q
    BY <1>2
  <2> HIDE DEF q
  <2>3. y \in ((before(y) + q) \div 366)..((before(y) + q) \div 365 + 1)
    <3>1. y \in Nat \ {0}
      BY <1>1
    <3> QED  BY <2>1, <3>1, YearOfDay, ZenonT(60)
  <2> QED  BY <2>2, <2>3
<1>6. \A z \in Int : z > y => before(z) >= n
  <2> TAKE z \in Int
  <2> HAVE z > y
  <2>1. before(z) >= before(y + 1)
    BY <1>1, YearsInOrder
  <2>2. before(y + 1) = before(y) + IF D!Leap(y) THEN 366 ELSE 365
    BY <1>1, YearLength
  <2>3. before(z) \in Int /\ before(y + 1) \in Int
    BY <1>1, YearsAreInts
  <2> HIDE DEF before, to
  <2> QED  BY <1>2, <2>1, <2>2, <2>3
<1>7. D!Max(Y) = y
  <2>1. Y \in SUBSET Int
    OBVIOUS
  <2>2. before(y) < n
    <3> HIDE DEF before, to
    <3> QED  BY <1>2
  <2>3. y \in Y
    BY <1>5, <2>2
  <2>4. \A z \in Y : y >= z
    <3> HIDE DEF before
    <3>1. \A z \in Y : z \in Int /\ before(z) < n /\ before(z) \in Int
      BY <2>1, YearsAreInts DEF before
    <3> QED  BY <1>1, <1>2, <1>6, <3>1
  <2> HIDE DEF Y
  <2> QED  BY <2>1, <2>3, <2>4, GreatestIs
<1>8. \A k \in 1..12 : to(k) \in Int /\ (k > m => to(k) >= to(m) + long)
  <2> TAKE k \in 1..12
  <2>1. to(k) \in 0..335
    BY <1>1, MonthsAreInts
  <2>2. k > m => to(k) >= to(m) + long
    BY <1>1, MonthsInOrder
  <2> HIDE DEF to, long
  <2> QED  BY <2>1, <2>2
<1>9. D!Max(M) = m
  <2>1. D!Ordinal(D!Date(y, m, 1)) <= n
    <3> HIDE DEF before, to
    <3> QED  BY <1>1, <1>2, <1>3
  <2>2. \A k \in 1..12 : D!Ordinal(D!Date(y, k, 1)) <= n => m >= k
    <3> HIDE DEF before, to, long
    <3> QED  BY <1>1, <1>2, <1>3, <1>8
  <2>3. M \in SUBSET Int /\ m \in M /\ \A k \in M : m >= k
    BY <1>1, <2>1, <2>2
  <2> HIDE DEF M
  <2> QED  BY <2>3, GreatestIs
<1>10. D!DateOf(n) = D!Date(y, m, n - D!Ordinal(D!Date(y, m, 1)) + 1)
  BY <1>4, <1>7, <1>9
<1>11. n - D!Ordinal(D!Date(y, m, 1)) + 1 = d
  <2> HIDE DEF before, to
  <2> QED  BY <1>1, <1>2, <1>3
<1>12. D!DateOf(n) = t
  BY <1>1, <1>10, <1>11 DEF D!Date
<1> QED  BY <1>12 DEF n

\* The day after.
DayAfter(t) ==
    IF t.d < D!MonthLength(t.y, t.m) THEN D!Date(t.y, t.m, t.d + 1)
    ELSE IF t.m < 12 THEN D!Date(t.y, t.m + 1, 1)
    ELSE D!Date(t.y + 1, 1, 1)

\* The day before, but for the first of all.
DayBefore(t) ==
    IF t.d > 1 THEN D!Date(t.y, t.m, t.d - 1)
    ELSE IF t.m > 1 THEN D!MonthEnd(t.y, t.m - 1)
    ELSE D!Date(t.y - 1, 12, 31)

LEMMA DayAfterIs ==
    ASSUME NEW t, D!IsDate(t)
    PROVE  /\ D!IsDate(DayAfter(t)) /\ D!Ordinal(DayAfter(t)) = D!Ordinal(t) + 1
           /\ D!Plus(t, 1) = DayAfter(t) /\ D!Plus(DayAfter(t), -1) = t
<1>1. t.y \in Nat \ {0} /\ t.m \in 1..12 /\ t.d \in 1..31 /\ t.d <= D!MonthLength(t.y, t.m)
      /\ t = [y |-> t.y, m |-> t.m, d |-> t.d]
  BY DEF D!IsDate
<1>2. D!IsDate(DayAfter(t))
  BY <1>1 DEF D!IsDate, DayAfter, D!Date, D!MonthLength
<1>3. D!MonthLength(t.y, t.m) \in 28..31
  BY <1>1 DEF D!MonthLength
<1>4. D!DaysToMonth(t.y, t.m) \in 0..335 /\ D!DaysBefore(t.y) \in Int
  BY <1>1, MonthsAreInts, YearsAreInts
<1>5. D!Ordinal(t) = D!DaysBefore(t.y) + D!DaysToMonth(t.y, t.m) + t.d
  BY DEF D!Ordinal
<1>6. D!Ordinal(DayAfter(t)) = D!DaysBefore(DayAfter(t).y) + D!DaysToMonth(DayAfter(t).y, DayAfter(t).m) + DayAfter(t).d
  BY DEF D!Ordinal
<1>7. D!Ordinal(DayAfter(t)) = D!Ordinal(t) + 1
  <2>1. CASE t.d < D!MonthLength(t.y, t.m)
    BY <1>1, <1>3, <1>4, <1>5, <1>6, <2>1, SMTT(30) DEF DayAfter, D!Date
  <2>2. CASE t.d = D!MonthLength(t.y, t.m) /\ t.m < 12
    <3>1. D!DaysToMonth(t.y, t.m + 1) = D!DaysToMonth(t.y, t.m) + D!MonthLength(t.y, t.m)
      BY <1>1, <2>2, MonthStep
    <3> QED  BY <1>1, <1>3, <1>4, <1>5, <1>6, <2>2, <3>1 DEF DayAfter, D!Date
  <2>3. CASE t.d = D!MonthLength(t.y, t.m) /\ t.m = 12
    <3>1. D!DaysToMonth(t.y, 12) + 31 = IF D!Leap(t.y) THEN 366 ELSE 365
      BY <1>1 DEF D!DaysToMonth
    <3>2. D!DaysToMonth(t.y + 1, 1) = 0
      BY <1>1 DEF D!DaysToMonth
    <3>3. t.d = 31
      BY <1>1, <2>3 DEF D!MonthLength
    <3>4. D!DaysBefore(t.y + 1) = D!DaysBefore(t.y) + (IF D!Leap(t.y) THEN 366 ELSE 365)
      BY <1>1, YearLength
    <3>5. DayAfter(t) = D!Date(t.y + 1, 1, 1)
      BY <1>1, <1>3, <2>3 DEF DayAfter
    <3>6. DayAfter(t).y = t.y + 1 /\ DayAfter(t).m = 1 /\ DayAfter(t).d = 1
      BY <3>5 DEF D!Date
    <3>7. D!Ordinal(t) = D!DaysBefore(t.y) + D!DaysToMonth(t.y, 12) + 31
      BY <1>5, <2>3, <3>3
    <3>8. D!Ordinal(DayAfter(t)) = D!DaysBefore(t.y + 1) + 0 + 1
      BY <1>6, <3>2, <3>6
    <3> QED  BY <1>4, <2>3, <3>1, <3>4, <3>7, <3>8
  <2> QED  BY <1>1, <1>3, <2>1, <2>2, <2>3
<1>8. D!Ordinal(t) \in Int
  BY DateIs
<1>9. D!Plus(t, 1) = DayAfter(t)
  BY <1>2, <1>7, DateOfOrdinal DEF D!Plus
<1>10. D!Plus(DayAfter(t), -1) = t
  BY <1>7, <1>8, DateOfOrdinal DEF D!Plus
<1> QED  BY <1>2, <1>7, <1>9, <1>10

LEMMA DayBeforeIs ==
    ASSUME NEW t, D!IsDate(t), t.y > 1
    PROVE  D!IsDate(DayBefore(t)) /\ DayAfter(DayBefore(t)) = t /\ D!Plus(t, -1) = DayBefore(t)
<1>1. t.y \in Nat \ {0} /\ t.m \in 1..12 /\ t.d \in 1..31 /\ t.d <= D!MonthLength(t.y, t.m)
      /\ t = [y |-> t.y, m |-> t.m, d |-> t.d]
  BY DEF D!IsDate
<1>2. D!IsDate(DayBefore(t))
  BY <1>1 DEF D!IsDate, DayBefore, D!Date, D!MonthEnd, D!MonthLength
<1>3. DayAfter(DayBefore(t)) = t
  BY <1>1 DEF DayBefore, DayAfter, D!Date, D!MonthEnd, D!MonthLength
<1> QED  BY <1>2, <1>3, DayAfterIs


LEMMA YearReadable ==
    ASSUME NEW n \in D!BareYears
    PROVE  D!Readable(D!Point("year", n))
  BY DEF D!Readable, D!Point

LEMMA CenturyReadable ==
    ASSUME NEW n \in 1..99
    PROVE  D!Readable(D!Point("century", n))
  BY DEF D!Readable, D!Point

LEMMA DecadeReadable ==
    ASSUME NEW n \in D!FourDigits, n % 10 = 0
    PROVE  D!Readable(D!Point("decade", n))
<1> DEFINE decades == {y \in D!FourDigits : y % 10 = 0}
<1>1. n \in decades
  OBVIOUS
<1> HIDE DEF decades
<1>2. D!Readable(D!Point("decade", n)) = (n \in decades)
  BY DEF D!Readable, D!Point, decades
<1> QED  BY <1>1, <1>2

LEMMA DayReadable ==
    ASSUME NEW t, t.y \in D!FourDigits
    PROVE  D!Readable(D!Day(t)) /\ D!Readable(D!Month(t))
<1>1. D!Readable(D!Day(t))
  BY DEF D!Readable, D!Day
<1>2. D!Readable(D!Month(t))
  BY DEF D!Readable, D!Month
<1> QED  BY <1>1, <1>2

LEMMA YearSpan ==
    ASSUME NEW today, NEW n \in Nat
    PROVE  D!Span(D!Point("year", n), today) = <<D!Date(n, 1, 1), D!Date(n, 12, 31)>>
  BY DEF D!Span, D!Point

LEMMA DecadeSpan ==
    ASSUME NEW today, NEW n \in Nat, n % 100 # 0
    PROVE  D!Span(D!Point("decade", n), today) = <<D!Date(n, 1, 1), D!Date(n + 9, 12, 31)>>
  BY DEF D!Span, D!Point

LEMMA CenturySpan ==
    ASSUME NEW today, NEW n \in Nat, n > 1
    PROVE  D!Span(D!Point("century", n), today)
               = <<D!Date(100 * (n - 1), 1, 1), D!Date(100 * (n - 1) + 99, 12, 31)>>
<1> DEFINE S == {100 * (n - 1), 1}
<1>1. S \in SUBSET Int /\ 100 * (n - 1) \in S /\ \A b \in S : 100 * (n - 1) >= b
  OBVIOUS
<1>2. D!Max(S) = 100 * (n - 1)
  BY <1>1, GreatestIs
<1> QED  BY <1>2 DEF D!Span, D!Point

LEMMA DaySpan ==
    ASSUME NEW today, NEW t, t = [y |-> t.y, m |-> t.m, d |-> t.d]
    PROVE  D!Span(D!Day(t), today) = <<t, t>>
  BY DEF D!Span, D!Day, D!Date

LEMMA MonthSpan ==
    ASSUME NEW today, NEW t
    PROVE  D!Span(D!Month(t), today) = <<D!Date(t.y, t.m, 1), D!MonthEnd(t.y, t.m)>>
  BY DEF D!Span, D!Month

\* The words for a range that one or two points make, of points that can be read.
LEMMA MeansOnePoint ==
    ASSUME NEW today, NEW p, NEW a, NEW b, D!Readable(p), D!Span(p, today) = <<a, b>>
    PROVE  /\ D!Means(D!Phrase("in", <<p>>), <<<<a>>, <<b>>>>, today)
           /\ D!Means(D!Phrase("before", <<p>>), <<<<>>, <<D!Plus(a, -1)>>>>, today)
           /\ D!Means(D!Phrase("after", <<p>>), <<<<D!Plus(b, 1)>>, <<>>>>, today)
<1>1. Head(<<p>>) = p /\ <<p>>[Len(<<p>>)] = p /\ DOMAIN <<p>> = {1} /\ <<p>>[1] = p
  OBVIOUS
<1>2. <<a, b>>[1] = a /\ <<a, b>>[2] = b
  OBVIOUS
<1>3. ASSUME NEW kind PROVE \A i \in DOMAIN D!Phrase(kind, <<p>>).points :
                              D!Readable(D!Phrase(kind, <<p>>).points[i])
  BY <1>1 DEF D!Phrase
<1>4. D!RangeOf(D!Phrase("in", <<p>>), today) = <<<<a>>, <<b>>>>
  BY <1>1, <1>2 DEF D!RangeOf, D!Phrase, D!Bounds
<1>5. D!RangeOf(D!Phrase("before", <<p>>), today) = <<<<>>, <<D!Plus(a, -1)>>>>
  BY <1>1, <1>2 DEF D!RangeOf, D!Phrase, D!Bounds
<1>6. D!RangeOf(D!Phrase("after", <<p>>), today) = <<<<D!Plus(b, 1)>>, <<>>>>
  BY <1>1, <1>2 DEF D!RangeOf, D!Phrase, D!Bounds
<1> QED  BY <1>3, <1>4, <1>5, <1>6 DEF D!Means

LEMMA MeansTwoPoints ==
    ASSUME NEW today, NEW p, NEW q, NEW a, NEW b, NEW c, NEW d, D!Readable(p), D!Readable(q),
           D!Span(p, today) = <<a, b>>, D!Span(q, today) = <<c, d>>
    PROVE  D!Means(D!Phrase("between", <<p, q>>), <<<<a>>, <<d>>>>, today)
<1>1. /\ Head(<<p, q>>) = p /\ <<p, q>>[Len(<<p, q>>)] = q
      /\ DOMAIN <<p, q>> = {1, 2} /\ <<p, q>>[1] = p /\ <<p, q>>[2] = q
  OBVIOUS
<1>2. <<a, b>>[1] = a /\ <<c, d>>[2] = d
  OBVIOUS
<1>3. D!RangeOf(D!Phrase("between", <<p, q>>), today) = <<<<a>>, <<d>>>>
  BY <1>1, <1>2 DEF D!RangeOf, D!Phrase, D!Bounds
<1> QED  BY <1>1, <1>3 DEF D!Means, D!Phrase

\* Days that the words for years and days can name.
Nameable(t) == D!IsDate(t) /\ t.y \in D!BareYears

LEMMA YearsKnown == \A y \in D!BareYears : y \in D!FourDigits /\ y \in Nat /\ y > 2
  BY DEF D!BareYears, D!FourDigits

LEMMA NameableIs ==
    ASSUME NEW t, Nameable(t)
    PROVE  /\ t.y \in D!BareYears /\ t.y \in Nat /\ t.m \in 1..12 /\ t.d \in 1..31
           /\ t = [y |-> t.y, m |-> t.m, d |-> t.d]
           /\ D!Readable(D!Point("year", t.y)) /\ D!Readable(D!Day(t)) /\ D!Readable(D!Month(t))
<1>1. t.m \in 1..12 /\ t.d \in 1..31 /\ t = [y |-> t.y, m |-> t.m, d |-> t.d]
  BY DateIs DEF Nameable
<1>2. t.y \in D!BareYears /\ t.y \in D!FourDigits /\ t.y \in Nat
  BY YearsKnown DEF Nameable
<1>3. D!Readable(D!Point("year", t.y))
  BY <1>2, YearReadable
<1>4. D!Readable(D!Day(t)) /\ D!Readable(D!Month(t))
  BY <1>2, DayReadable
<1> QED  BY <1>1, <1>2, <1>3, <1>4

LEMMA ClosedReadsBack ==
    ASSUME NEW lo, NEW hi, NEW today, Nameable(lo), Nameable(hi),
           ~D!FirstTenYears(<<<<lo>>, <<hi>>>>)
    PROVE  D!Means(D!Between(lo, hi), <<<<lo>>, <<hi>>>>, today)
<1> DEFINE range == <<<<lo>>, <<hi>>>>
<1>1. /\ lo.y \in D!BareYears /\ lo.y \in Nat /\ lo.m \in 1..12 /\ lo.d \in 1..31
      /\ lo = [y |-> lo.y, m |-> lo.m, d |-> lo.d]
      /\ D!Readable(D!Point("year", lo.y)) /\ D!Readable(D!Day(lo)) /\ D!Readable(D!Month(lo))
  BY NameableIs
<1>2. /\ hi.y \in D!BareYears /\ hi.y \in Nat /\ hi.m \in 1..12 /\ hi.d \in 1..31
      /\ hi = [y |-> hi.y, m |-> hi.m, d |-> hi.d]
      /\ D!Readable(D!Point("year", hi.y)) /\ D!Readable(D!Day(hi))
  BY NameableIs
<1>3. CASE lo = hi
  <2>1. D!Between(lo, hi) = D!Phrase("in", <<D!Day(lo)>>)
    BY <1>3 DEF D!Between
  <2>2. D!Span(D!Day(lo), today) = <<lo, lo>>
    BY <1>1, DaySpan
  <2>3. D!Means(D!Phrase("in", <<D!Day(lo)>>), <<<<lo>>, <<lo>>>>, today)
    <3> DEFINE p == D!Day(lo)
    <3>1. D!Readable(p) /\ D!Span(p, today) = <<lo, lo>>
      BY <1>1, <2>2
    <3> HIDE DEF p
    <3>2. D!Means(D!Phrase("in", <<p>>), <<<<lo>>, <<lo>>>>, today)
      BY <3>1, MeansOnePoint
    <3> QED  BY <3>2 DEF p
  <2> QED  BY <1>3, <2>1, <2>3
<1>4. ASSUME NEW p, D!Whole(lo, hi) = <<p>>, lo # hi, D!Readable(p), D!Span(p, today) = <<lo, hi>>
      PROVE  D!Means(D!Between(lo, hi), range, today)
  <2>1. D!Between(lo, hi) = D!Phrase("in", <<p>>)
    BY <1>4 DEF D!Between
  <2> QED  BY <1>4, <2>1, MeansOnePoint
<1>5. CASE lo # hi /\ D!WholeYears(lo, hi)
  <2>1. lo.m = 1 /\ lo.d = 1 /\ hi.m = 12 /\ hi.d = 31
    BY <1>5 DEF D!WholeYears
  <2>2. lo = D!Date(lo.y, 1, 1) /\ hi = D!Date(hi.y, 12, 31)
    BY <1>1, <1>2, <2>1 DEF D!Date
  <2>3. CASE lo.y = hi.y
    <3>1. D!Whole(lo, hi) = <<D!Point("year", lo.y)>>
      BY <1>5, <2>3 DEF D!Whole
    <3> DEFINE n == lo.y
    <3>2. D!Span(D!Point("year", n), today) = <<D!Date(n, 1, 1), D!Date(n, 12, 31)>>
      BY <1>1, YearSpan
    <3>3. lo = D!Date(n, 1, 1) /\ hi = D!Date(n, 12, 31)
      BY <2>2, <2>3
    <3>4. D!Span(D!Point("year", n), today) = <<lo, hi>>
      BY <3>2, <3>3
    <3> QED  BY <1>1, <1>4, <1>5, <3>1, <3>4
  <2>4. CASE lo.y % 100 = 0 /\ hi.y = lo.y + 99
    <3> DEFINE n == lo.y \div 100 + 1
    <3>1. n \in 11..21 /\ 100 * (n - 1) = lo.y
      BY <1>1, <2>4 DEF D!BareYears
    <3>2. lo.y # hi.y
      BY <1>1, <2>4
    <3>3. D!Whole(lo, hi) = <<D!Point("century", n)>>
      BY <1>5, <2>4, <3>2 DEF D!Whole
    <3> HIDE DEF n
    <3>4. D!Span(D!Point("century", n), today) = <<D!Date(lo.y, 1, 1), D!Date(lo.y + 99, 12, 31)>>
      BY <3>1, CenturySpan
    <3>5. D!Span(D!Point("century", n), today) = <<lo, hi>>
      BY <2>2, <2>4, <3>4
    <3>6. D!Readable(D!Point("century", n))
      <4>1. n \in 1..99
        BY <3>1
      <4> QED  BY <4>1, CenturyReadable
    <3> QED  BY <1>4, <1>5, <3>3, <3>5, <3>6
  <2>5. CASE lo.y % 10 = 0 /\ hi.y = lo.y + 9
    <3>1. lo.y % 100 # 0
      BY <1>5, <2>5 DEF D!FirstTenYears
    <3>2. lo.y # hi.y
      BY <1>1, <2>5
    <3>3. D!Whole(lo, hi) = <<D!Point("decade", lo.y)>>
      BY <1>5, <2>5, <3>1, <3>2 DEF D!Whole
    <3>4. D!Span(D!Point("decade", lo.y), today) = <<lo, hi>>
      BY <1>1, <2>2, <2>5, <3>1, DecadeSpan
    <3>5. D!Readable(D!Point("decade", lo.y))
      BY <1>1, <2>5, YearsKnown, DecadeReadable
    <3> QED  BY <1>4, <1>5, <3>3, <3>4, <3>5
  <2>6. CASE /\ lo.y # hi.y
             /\ ~(lo.y % 100 = 0 /\ hi.y = lo.y + 99) /\ ~(lo.y % 10 = 0 /\ hi.y = lo.y + 9)
    <3> DEFINE p == D!Point("year", lo.y)
               q == D!Point("year", hi.y)
    <3>1. D!Whole(lo, hi) = <<>>
      BY <1>5, <2>6 DEF D!Whole
    <3>2. D!Between(lo, hi) = D!Phrase("between", <<p, q>>)
      BY <1>5, <3>1 DEF D!Between
    <3>3. D!Span(p, today) = <<D!Date(lo.y, 1, 1), D!Date(lo.y, 12, 31)>>
      BY <1>1, YearSpan
    <3>4. D!Span(q, today) = <<D!Date(hi.y, 1, 1), D!Date(hi.y, 12, 31)>>
      BY <1>2, YearSpan
    <3>5. D!Readable(p) /\ D!Readable(q)
      BY <1>1, <1>2
    <3> HIDE DEF p, q
    <3> QED  BY <2>2, <3>2, <3>3, <3>4, <3>5, MeansTwoPoints
  <2> QED  BY <2>3, <2>4, <2>5, <2>6
<1>6. CASE lo # hi /\ ~D!WholeYears(lo, hi) /\ lo.d = 1 /\ hi = D!MonthEnd(lo.y, lo.m)
  <2>1. D!Whole(lo, hi) = <<D!Month(lo)>>
    BY <1>6 DEF D!Whole
  <2>2. D!Span(D!Month(lo), today) = <<D!Date(lo.y, lo.m, 1), D!MonthEnd(lo.y, lo.m)>>
    BY MonthSpan
  <2>3. lo = D!Date(lo.y, lo.m, 1)
    BY <1>1, <1>6 DEF D!Date
  <2> QED  BY <1>1, <1>4, <1>6, <2>1, <2>2, <2>3
<1>7. CASE lo # hi /\ ~D!WholeYears(lo, hi) /\ ~(lo.d = 1 /\ hi = D!MonthEnd(lo.y, lo.m))
  <2>1. D!Whole(lo, hi) = <<>>
    BY <1>7 DEF D!Whole
  <2>2. D!Between(lo, hi) = D!Phrase("between", <<D!Day(lo), D!Day(hi)>>)
    BY <1>7, <2>1 DEF D!Between
  <2>3. D!Span(D!Day(lo), today) = <<lo, lo>>
    BY <1>1, DaySpan
  <2>4. D!Span(D!Day(hi), today) = <<hi, hi>>
    BY <1>2, DaySpan
  <2> QED  BY <1>1, <1>2, <2>2, <2>3, <2>4, MeansTwoPoints
<1> QED  BY <1>3, <1>5, <1>6, <1>7

LEMMA BeforeReadsBack ==
    ASSUME NEW hi, NEW today, D!IsDate(hi), Nameable(D!Plus(hi, 1))
    PROVE  D!Means(D!Before(hi), <<<<>>, <<hi>>>>, today)
<1> DEFINE next == D!Plus(hi, 1)
           range == <<<<>>, <<hi>>>>
<1>1. D!Plus(next, -1) = hi
  BY DayAfterIs
<1>2. /\ next.y \in Nat /\ next.m \in 1..12 /\ next.d \in 1..31
      /\ next = [y |-> next.y, m |-> next.m, d |-> next.d]
      /\ D!Readable(D!Point("year", next.y)) /\ D!Readable(D!Day(next)) /\ D!Readable(D!Month(next))
  BY NameableIs
<1>3. D!Before(hi) = D!Phrase("before", <<IF next.m = 1 /\ next.d = 1 THEN D!Point("year", next.y)
                                          ELSE IF next.d = 1 THEN D!Month(next) ELSE D!Day(next)>>)
  BY DEF D!Before
<1> HIDE DEF next
<1>4. ASSUME NEW p, NEW b, D!Before(hi) = D!Phrase("before", <<p>>), D!Readable(p),
             D!Span(p, today) = <<next, b>>
      PROVE  D!Means(D!Before(hi), range, today)
  BY <1>1, <1>4, MeansOnePoint
<1>5. CASE next.m = 1 /\ next.d = 1
  <2>1. next = D!Date(next.y, 1, 1)
    BY <1>2, <1>5 DEF D!Date
  <2>2. D!Span(D!Point("year", next.y), today) = <<next, D!Date(next.y, 12, 31)>>
    BY <1>2, <2>1, YearSpan
  <2>3. D!Before(hi) = D!Phrase("before", <<D!Point("year", next.y)>>)
    BY <1>3, <1>5
  <2> QED  BY <1>2, <1>4, <2>2, <2>3
<1>6. CASE next.m # 1 /\ next.d = 1
  <2>1. next = D!Date(next.y, next.m, 1)
    BY <1>2, <1>6 DEF D!Date
  <2>2. D!Span(D!Month(next), today) = <<next, D!MonthEnd(next.y, next.m)>>
    BY <2>1, MonthSpan
  <2>3. D!Before(hi) = D!Phrase("before", <<D!Month(next)>>)
    BY <1>3, <1>6
  <2> QED  BY <1>2, <1>4, <2>2, <2>3
<1>7. CASE next.d # 1
  <2>1. D!Span(D!Day(next), today) = <<next, next>>
    BY <1>2, DaySpan
  <2>2. D!Before(hi) = D!Phrase("before", <<D!Day(next)>>)
    BY <1>3, <1>7
  <2> QED  BY <1>2, <1>4, <2>1, <2>2
<1> QED  BY <1>5, <1>6, <1>7

LEMMA AfterReadsBack ==
    ASSUME NEW lo, NEW today, D!IsDate(lo), lo.y > 1, Nameable(D!Plus(lo, -1))
    PROVE  D!Means(D!After(lo), <<<<lo>>, <<>>>>, today)
<1> DEFINE prev == D!Plus(lo, -1)
           range == <<<<lo>>, <<>>>>
<1>1. D!Plus(prev, 1) = lo /\ prev = DayBefore(lo)
  BY DayBeforeIs, DayAfterIs
<1>2. /\ prev.y \in Nat /\ prev.m \in 1..12 /\ prev.d \in 1..31
      /\ prev = [y |-> prev.y, m |-> prev.m, d |-> prev.d]
      /\ D!Readable(D!Point("year", prev.y)) /\ D!Readable(D!Day(prev)) /\ D!Readable(D!Month(prev))
  BY NameableIs
<1>3. D!After(lo) = D!Phrase("after", <<IF prev.m = 12 /\ prev.d = 31 THEN D!Point("year", prev.y)
                                        ELSE IF lo.d = 1 THEN D!Month(prev) ELSE D!Day(prev)>>)
  BY DEF D!After
<1>4. lo.d = 1 => prev = D!MonthEnd(prev.y, prev.m)
  <2>1. lo.y \in Nat \ {0} /\ lo.m \in 1..12
    BY DateIs
  <2> HIDE DEF prev
  <2> QED  BY <1>1, <2>1 DEF DayBefore, D!MonthEnd, D!Date, D!MonthLength
<1> HIDE DEF prev
<1>5. ASSUME NEW p, NEW a, D!After(lo) = D!Phrase("after", <<p>>), D!Readable(p),
             D!Span(p, today) = <<a, prev>>
      PROVE  D!Means(D!After(lo), range, today)
  BY <1>1, <1>5, MeansOnePoint
<1>6. CASE prev.m = 12 /\ prev.d = 31
  <2>1. prev = D!Date(prev.y, 12, 31)
    BY <1>2, <1>6 DEF D!Date
  <2>2. D!Span(D!Point("year", prev.y), today) = <<D!Date(prev.y, 1, 1), prev>>
    BY <1>2, <2>1, YearSpan
  <2>3. D!After(lo) = D!Phrase("after", <<D!Point("year", prev.y)>>)
    BY <1>3, <1>6
  <2> QED  BY <1>2, <1>5, <2>2, <2>3
<1>7. CASE ~(prev.m = 12 /\ prev.d = 31) /\ lo.d = 1
  <2>1. D!Span(D!Month(prev), today) = <<D!Date(prev.y, prev.m, 1), prev>>
    BY <1>4, <1>7, MonthSpan
  <2>2. D!After(lo) = D!Phrase("after", <<D!Month(prev)>>)
    BY <1>3, <1>7
  <2> QED  BY <1>2, <1>5, <2>1, <2>2
<1>8. CASE ~(prev.m = 12 /\ prev.d = 31) /\ lo.d # 1
  <2>1. D!Span(D!Day(prev), today) = <<prev, prev>>
    BY <1>2, DaySpan
  <2>2. D!After(lo) = D!Phrase("after", <<D!Day(prev)>>)
    BY <1>3, <1>8
  <2> QED  BY <1>2, <1>5, <2>1, <2>2
<1> QED  BY <1>6, <1>7, <1>8

\* The day before a day of the first year is of no year that words name.
LEMMA BeforeAllYears ==
    ASSUME NEW t, D!IsDate(t), t.y = 1
    PROVE  D!Plus(t, -1).y \in 0..2
<1> DEFINE n == D!Ordinal(t) + -1
           Y == {z \in (n \div 366)..(n \div 365 + 1) : D!DaysBefore(z) < n}
<1>1. n \in 0..365
  <2>1. D!DaysBefore(1) = 0
    BY DEF D!DaysBefore
  <2> QED  BY <2>1, DateIs
<1> HIDE DEF n
<1>2. n \div 366 = 0 /\ n \div 365 + 1 \in 1..2
  BY <1>1
<1>3. D!DaysBefore(0) < n
  BY <1>1 DEF D!DaysBefore
<1>4. 0 \in Y /\ Y \in SUBSET (0..2)
  BY <1>2, <1>3
<1> HIDE DEF Y
<1>5. D!Max(Y) \in Y
  <2>1. \E z \in Y : \A b \in Y : z >= b
    <3>1. CASE 2 \in Y
      BY <1>4, <3>1
    <3>2. CASE 2 \notin Y /\ 1 \in Y
      BY <1>4, <3>2
    <3>3. CASE 2 \notin Y /\ 1 \notin Y
      BY <1>4, <3>3
    <3> QED  BY <3>1, <3>2, <3>3
  <2> QED  BY <2>1 DEF D!Max
<1>6. D!DateOf(n).y = D!Max(Y)
  BY DEF D!DateOf, D!Date, Y
<1> QED  BY <1>4, <1>5, <1>6 DEF D!Plus, n

\* Every range of calendar days reads back, whatever the day it is asked on.
LEMMA RangesReadBack ==
    ASSUME NEW range, NEW today, D!Tellable(range)
    PROVE  D!LabelReadsBack(range, today)
<1>1. PICK lo, hi : /\ D!IsDate(lo) /\ D!IsDate(hi)
                    /\ range \in {<<<<lo>>, <<hi>>>>, <<<<>>, <<hi>>>>, <<<<lo>>, <<>>>>}
  BY DEF D!Tellable
<1>2. \A t \in D!DaysNamed(range) : t.y \in D!BareYears
  BY DEF D!Tellable
<1>3. CASE range = <<<<lo>>, <<hi>>>>
  <2>1. range[1] = <<lo>> /\ range[2] = <<hi>> /\ range[1] # <<>> /\ range[2] # <<>>
    BY <1>3
  <2>2. Nameable(lo) /\ Nameable(hi)
    BY <1>1, <1>2, <2>1 DEF Nameable, D!DaysNamed
  <2>3. D!Label(range) = D!Between(lo, hi)
    BY <2>1 DEF D!Label
  <2> QED  BY <1>3, <2>2, <2>3, ClosedReadsBack DEF D!LabelReadsBack
<1>4. CASE range = <<<<>>, <<hi>>>>
  <2>1. range[1] = <<>> /\ range[2] = <<hi>> /\ range[2] # <<>>
    BY <1>4
  <2>2. D!DaysNamed(range) = {D!Plus(hi, 1)}
    BY <2>1 DEF D!DaysNamed
  <2>3. Nameable(D!Plus(hi, 1))
    BY <1>1, <1>2, <2>2, DayAfterIs DEF Nameable
  <2>4. D!Label(range) = D!Before(hi)
    BY <2>1 DEF D!Label
  <2> QED  BY <1>1, <1>4, <2>3, <2>4, BeforeReadsBack DEF D!LabelReadsBack
<1>5. CASE range = <<<<lo>>, <<>>>>
  <2>1. range[1] = <<lo>> /\ range[2] = <<>> /\ range[1] # <<>>
    BY <1>5
  <2>2. D!DaysNamed(range) = {D!Plus(lo, -1)}
    BY <2>1 DEF D!DaysNamed
  <2>3. lo.y > 1
    <3>1. lo.y \in Nat \ {0}
      BY <1>1, DateIs
    <3> DEFINE year == D!Plus(lo, -1).y
    <3>2. year \in Nat /\ year > 2
      BY <1>2, <2>2, YearsKnown
    <3>3. lo.y = 1 => year \in 0..2
      BY <1>1, BeforeAllYears
    <3> HIDE DEF year
    <3> QED  BY <3>1, <3>2, <3>3
  <2>4. Nameable(D!Plus(lo, -1))
    BY <1>1, <1>2, <2>2, <2>3, DayBeforeIs DEF Nameable
  <2>5. D!Label(range) = D!After(lo)
    BY <2>1 DEF D!Label
  <2> QED  BY <1>1, <1>5, <2>3, <2>4, <2>5, AfterReadsBack DEF D!LabelReadsBack
<1> QED  BY <1>1, <1>3, <1>4, <1>5

\* A range that a date phrase was understood as is put into words that can be read and
\* mean that range again, on any day: through month ends, leap days and the turns of years,
\* decades and centuries, but for the first ten years of a century (`label`, dates.py).
THEOREM DatesReadBackHolds == ReadSpec => []DatesReadBack
<1>1. Asked => DatesReadBack
  BY DateAssumption, RangesReadBack DEF Asked, DatesReadBack, D!ReadsBack
<1> QED  BY <1>1, AskedAndCopy, PTL

-----------------------------------------------------------------------------
(* The index of the gate *)

IndexType == [stamp : Int, version : Int, near : Int]

Numbers ==
    /\ made \in Int /\ live \in Int
    /\ file \in [stamp : Int, version : Int]
    /\ copy \in [stamp : Int, version : Int, etag : Int]
    /\ {memo, pickle, lookup.index} \subseteq IndexType
    /\ lookup.stamp \in Int
    /\ lookup = [step |-> lookup.step, by |-> lookup.by, from |-> lookup.from,
                 stamp |-> lookup.stamp, index |-> lookup.index, kept |-> lookup.kept]

VersionsInOrder == 1 <= file.stamp /\ file.version <= live /\ live <= made

\* An index in the making, or one kept.
Current(i) ==
    i # NoIndex =>
        /\ i.stamp <= file.stamp
        /\ i.stamp = file.stamp => i.version >= file.version

IndexesCurrent ==
    world # "copy" =>
        /\ \A i \in {memo, pickle, lookup.index} : Current(i)
        /\ lookup.stamp <= file.stamp

\* A copy is put in place before the etag that came with it.
TagBehindCopy ==
    /\ copy.etag <= made /\ copy.version <= made
    /\ copy.etag <= copy.version \/ copy.etag \notin {live, file.version}

GateInv == world # "shared" => Numbers /\ VersionsInOrder /\ IndexesCurrent /\ TagBehindCopy

\* A session's own steps leave the graphs alone and drop or begin lookups.
LEMMA SessionKeeps ==
    ASSUME GateInv, Session \/ Ask
    PROVE  GateInv'
<1> SUFFICES ASSUME world' # "shared" PROVE GateInv'
  BY DEF GateInv
<1>1. UNCHANGED <<graphs, indexes>>
  BY DEF Session, Prime, AnswerPrompt, WriteEntry, Distilled, PreCompact, Ask, Begin, Warm
<1>2. world # "shared" /\ Numbers /\ VersionsInOrder /\ IndexesCurrent /\ TagBehindCopy
  BY <1>1 DEF GateInv, graphs
<1> DEFINE Blank(l) == /\ l = [step |-> l.step, by |-> l.by, from |-> l.from,
                               stamp |-> 0, index |-> NoIndex, kept |-> l.kept]
<1>3. ASSUME NEW by, Begin(by) PROVE Blank(lookup')
  BY <1>3 DEF Begin, NoLookup
<1>4. lookup' = lookup \/ Blank(lookup')
  <2>1. Blank(NoLookup)
    BY DEF NoLookup
  <2>2. CASE Session
    BY <2>1, <2>2 DEF Session, Prime, AnswerPrompt, WriteEntry, Distilled, PreCompact
  <2>3. CASE Ask
    BY <1>3, <2>3 DEF Ask, Warm
  <2> QED  BY <2>2, <2>3
<1>5. Numbers'
  BY <1>1, <1>2, <1>4 DEF Numbers, graphs, indexes, NoIndex, IndexType
<1>6. IndexesCurrent'
  BY <1>1, <1>2, <1>4 DEF IndexesCurrent, Current, VersionsInOrder, Numbers, graphs, indexes
<1> QED
  BY <1>1, <1>2, <1>5, <1>6 DEF GateInv, VersionsInOrder, TagBehindCopy, graphs

\* The writer makes newer graphs and newer files, and may fall back to the file's.
LEMMA WriterKeeps ==
    ASSUME GateInv, Writer
    PROVE  GateInv'
<1> SUFFICES ASSUME world' # "shared" PROVE GateInv'
  BY DEF GateInv
<1>1. world' = world /\ UNCHANGED <<copy, pickle>>
  BY DEF Writer, Mutate, Save, OtherSave, Refresh, WriterRestarts, graphs, indexes
<1>2. Numbers /\ VersionsInOrder /\ IndexesCurrent /\ TagBehindCopy
  BY <1>1 DEF GateInv
<1>3. CASE Mutate
  BY <1>2, <1>3 DEF Mutate, indexes, GateInv, Numbers, VersionsInOrder, IndexesCurrent, Current, TagBehindCopy
<1>4. CASE Save
  <2>1. /\ file' = [stamp |-> file.stamp + 1, version |-> live]
        /\ UNCHANGED <<world, made, live, copy, memo, pickle, lookup>>
    BY <1>4 DEF Save, indexes
  <2>2. Numbers' /\ VersionsInOrder' /\ TagBehindCopy'
    BY <1>2, <2>1 DEF Numbers, VersionsInOrder, TagBehindCopy
  <2>3. ASSUME NEW i \in {memo, pickle, lookup.index}, Current(i) PROVE Current(i)'
    BY <1>2, <2>1, <2>3 DEF Current, Numbers, IndexType, NoIndex
  <2>4. IndexesCurrent'
    BY <1>2, <2>1, <2>3 DEF IndexesCurrent, Numbers
  <2> QED  BY <2>2, <2>4 DEF GateInv
<1>5. CASE WriterRestarts
  <2>1. /\ live' = file.version /\ memo' = NoIndex
        /\ lookup' \in {lookup, NoLookup}
        /\ UNCHANGED <<world, made, file, copy, pickle>>
    BY <1>5 DEF WriterRestarts
  <2>2. Numbers' /\ VersionsInOrder' /\ TagBehindCopy'
    BY <1>2, <2>1 DEF Numbers, VersionsInOrder, TagBehindCopy, NoLookup, NoIndex, IndexType
  <2>3. IndexesCurrent'
    BY <1>2, <2>1 DEF IndexesCurrent, Current, NoLookup, VersionsInOrder, Numbers
  <2> QED  BY <2>2, <2>3 DEF GateInv
<1> QED
  BY <1>1, <1>3, <1>4, <1>5 DEF Writer, OtherSave, Refresh

\* What a lookup builds is of the file's graph, or of a newer one.
LEMMA BuiltCurrent ==
    ASSUME Numbers, VersionsInOrder, IndexesCurrent
    PROVE  /\ Built \in IndexType
           /\ world # "copy" => Current(Built)
<1>1. Opened \in Int /\ (world # "copy" => Opened >= file.version)
  BY DEF Opened, Numbers, VersionsInOrder
<1> DEFINE i == IF lookup.index = NoIndex
                THEN [stamp |-> lookup.stamp, version |-> Opened, near |-> 0] ELSE lookup.index
<1>2. i \in IndexType
  BY <1>1 DEF Numbers, IndexType
<1>3. world # "copy" => i.stamp <= file.stamp /\ (i.stamp = file.stamp => i.version >= file.version)
  <2>1. CASE lookup.index = NoIndex
    BY <1>1, <2>1 DEF IndexesCurrent
  <2>2. CASE lookup.index # NoIndex
    BY <2>2 DEF IndexesCurrent, Current
  <2> QED  BY <2>1, <2>2
<1>4. Built \in {i, [i EXCEPT !.near = Opened]}
  BY DEF Built
<1> HIDE DEF i
<1> QED
  BY <1>1, <1>2, <1>3, <1>4 DEF Current, IndexType

\* A lookup replaces and tags the copy, and takes and makes indexes.
LEMMA LookupKeeps ==
    ASSUME GateInv, Lookup
    PROVE  GateInv'
<1> SUFFICES ASSUME world' # "shared" PROVE GateInv'
  BY DEF GateInv
<1>1. UNCHANGED <<world, made, live, file>>
  BY DEF Lookup, KeepCopy, ReplaceCopy, TagCopy, TakeKey, Build, Killed, FallBack, graphs
<1>2. Numbers /\ VersionsInOrder /\ IndexesCurrent /\ TagBehindCopy
  BY <1>1 DEF GateInv
<1>3. VersionsInOrder'
  BY <1>1, <1>2 DEF VersionsInOrder
<1> DEFINE Same == lookup'.index = lookup.index /\ lookup'.stamp = lookup.stamp
<1>4. CASE KeepCopy \/ Killed \/ FallBack
  <2>1. UNCHANGED <<graphs, indexes>>
    BY <1>4 DEF KeepCopy, Killed, FallBack
  <2> DEFINE Shape(l) == l = [step |-> l.step, by |-> l.by, from |-> l.from,
                              stamp |-> l.stamp, index |-> l.index, kept |-> l.kept]
  <2>2. Shape(lookup) /\ lookup.index \in IndexType /\ lookup.stamp \in Int
    BY <1>2 DEF Numbers
  <2>3. Shape(lookup') /\ (Same \/ (lookup'.index = NoIndex /\ lookup'.stamp = 0))
    <3>1. CASE KeepCopy
      <4>1. lookup' = NoLookup \/ lookup' = [lookup EXCEPT !.step = "key"]
        BY <3>1 DEF KeepCopy
      <4>2. CASE lookup' = NoLookup
        BY <4>2 DEF NoLookup
      <4>3. CASE lookup' = [lookup EXCEPT !.step = "key"]
        BY <2>2, <4>3
      <4> QED  BY <4>1, <4>2, <4>3
    <3>2. CASE Killed
      BY <3>2 DEF Killed, NoLookup
    <3>3. CASE FallBack
      BY <3>3 DEF FallBack, NoLookup
    <3> QED  BY <1>4, <3>1, <3>2, <3>3
  <2>4. Numbers' /\ (Same \/ (lookup'.index = NoIndex /\ lookup'.stamp = 0))
    BY <1>2, <2>1, <2>2, <2>3 DEF Numbers, NoIndex, IndexType, graphs, indexes
  <2>5. IndexesCurrent'
    BY <1>2, <2>1, <2>4 DEF IndexesCurrent, Current, VersionsInOrder, Numbers, graphs, indexes
  <2> QED  BY <1>2, <1>3, <2>1, <2>4, <2>5 DEF GateInv, TagBehindCopy, graphs
<1>5. CASE ReplaceCopy \/ TagCopy
  <2>1. Same /\ UNCHANGED indexes
    BY <1>2, <1>5 DEF ReplaceCopy, TagCopy, Numbers
  <2> DEFINE C == [stamp : Int, version : Int, etag : Int]
  <2>2. copy \in C /\ live \in Int
    BY <1>2 DEF Numbers
  <2>3. /\ copy' \in C
        /\ \/ copy'.version = live /\ copy'.etag = copy.etag
           \/ copy'.version = copy.version /\ copy'.etag = copy.version
    <3>1. CASE ReplaceCopy
      <4>1. copy' = [copy EXCEPT !.stamp = @ + 1, !.version = live]
        BY <3>1 DEF ReplaceCopy, BodyKept
      <4>2. PICK d \in C : d.etag = copy.etag /\ copy' = [d EXCEPT !.version = live]
        <5>1. [copy EXCEPT !.stamp = @ + 1] \in C /\ [copy EXCEPT !.stamp = @ + 1].etag = copy.etag
          BY <2>2
        <5> QED  BY <4>1, <5>1, Zenon
      <4> QED  BY <2>2, <4>2
    <3>2. CASE TagCopy
      BY <2>2, <3>2 DEF TagCopy, EtagKept
    <3> QED  BY <1>5, <3>1, <3>2
  <2>4. lookup' = [step |-> lookup'.step, by |-> lookup'.by, from |-> lookup'.from,
                   stamp |-> lookup'.stamp, index |-> lookup'.index, kept |-> lookup'.kept]
    BY <1>2, <1>5 DEF ReplaceCopy, TagCopy, Numbers
  <2>5. Numbers'
    BY <1>1, <1>2, <2>1, <2>3, <2>4 DEF Numbers, indexes
  <2>6. TagBehindCopy'
    BY <1>1, <1>2, <2>3 DEF TagBehindCopy, VersionsInOrder, Numbers
  <2>7. IndexesCurrent'
    BY <1>1, <1>2, <2>1 DEF IndexesCurrent, Current, indexes
  <2> QED  BY <1>3, <2>5, <2>6, <2>7 DEF GateInv
<1>6. CASE TakeKey
  <2>1. UNCHANGED <<graphs, indexes>>
    BY <1>6 DEF TakeKey
  <2>2. Nq \in Int /\ (world # "copy" => Nq = file.stamp)
    BY <1>2 DEF Nq, Numbers
  <2>3. Found(Nq) \in {memo, pickle, NoIndex} /\ Found(Nq) \in IndexType
    BY <1>2 DEF Found, Numbers, NoIndex, IndexType
  <2>4. lookup' = [lookup EXCEPT !.step = "near", !.stamp = Nq, !.index = Found(Nq)]
    BY <1>6 DEF TakeKey, KeyTaken
  <2>5. Numbers' /\ lookup'.stamp = Nq /\ lookup'.index = Found(Nq)
    BY <1>2, <2>1, <2>2, <2>3, <2>4 DEF Numbers, graphs, indexes
  <2>6. IndexesCurrent'
    BY <1>2, <2>1, <2>2, <2>3, <2>5 DEF IndexesCurrent, Current, Numbers, graphs, indexes
  <2> QED  BY <1>2, <1>3, <2>1, <2>5, <2>6 DEF GateInv, TagBehindCopy, graphs
<1>7. CASE Build
  <2>1. UNCHANGED graphs /\ {memo', pickle'} \subseteq {memo, pickle, Built}
    BY <1>7 DEF Build
  <2>2. lookup' = NoLookup \/ lookup' = [lookup EXCEPT !.step = "answer", !.index = Built]
    BY <1>7 DEF Build
  <2>3. Built \in IndexType /\ (world # "copy" => Current(Built))
    BY <1>2, BuiltCurrent
  <2>4. /\ lookup'.index \in {NoIndex, Built}
        /\ lookup'.stamp \in {0, lookup.stamp}
        /\ lookup' = [step |-> lookup'.step, by |-> lookup'.by, from |-> lookup'.from,
                      stamp |-> lookup'.stamp, index |-> lookup'.index, kept |-> lookup'.kept]
    <3>1. CASE lookup' = NoLookup
      BY <3>1 DEF NoLookup
    <3>2. CASE lookup' = [lookup EXCEPT !.step = "answer", !.index = Built]
      BY <1>2, <3>2 DEF Numbers
    <3> QED  BY <2>2, <3>1, <3>2
  <2>5. Numbers'
    BY <1>2, <2>1, <2>3, <2>4 DEF Numbers, graphs, NoIndex, IndexType
  <2>6. IndexesCurrent'
    BY <1>2, <2>1, <2>3, <2>4 DEF IndexesCurrent, Current, VersionsInOrder, Numbers, graphs
  <2> QED  BY <1>2, <1>3, <2>1, <2>5, <2>6 DEF GateInv, TagBehindCopy, graphs
<1> QED
  BY <1>4, <1>5, <1>6, <1>7 DEF Lookup

LEMMA GateInductive == GateInv /\ [Next]_vars => GateInv'
<1> SUFFICES ASSUME GateInv, [Next]_vars PROVE GateInv'
  OBVIOUS
<1>1. CASE Next
  BY <1>1, SessionKeeps, WriterKeeps, LookupKeeps DEF Next, Elsewhere
<1>2. CASE UNCHANGED vars
  BY <1>2 DEF vars, graphs, indexes, GateInv, Numbers, VersionsInOrder, IndexesCurrent, Current, TagBehindCopy
<1> QED
  BY <1>1, <1>2

LEMMA GateAtFirst == Init => GateInv
<1> SUFFICES ASSUME Init PROVE GateInv
  OBVIOUS
<1>1. made \in Int
  BY DEF Init, IndexInit
<1> QED
  BY <1>1 DEF Init, IndexInit, GateInv, Numbers, VersionsInOrder, IndexesCurrent, Current, TagBehindCopy,
              NoIndex, NoLookup, IndexType

\* Unless other processes write the file beside the server, no index that bears the key
\* of the file as it is misses what was saved, whether it was built from the file or from
\* the live graph, between a call and its save or after a restart; and no copy the server
\* would answer 304 for is older than its graph, whatever was interrupted between the
\* copy and its etag (gate_index, warm_gate, fetch_replica).
THEOREM IndexesKeepUpHolds == Spec => []IndexesKeepUp
<1>1. GateInv => IndexesKeepUp
  BY DEF GateInv, Numbers, VersionsInOrder, IndexesCurrent, Current, TagBehindCopy,
         IndexesKeepUp, KeyIsNotAhead, TaggedCopyIsCurrent
<1> QED
  BY <1>1, GateAtFirst, GateInductive, PTL DEF Spec

-----------------------------------------------------------------------------
(* What a session is given *)

LEMMA NoneIsSeq == IsSeq(<<>>) /\ ToSet(<<>>) = {}
  BY DEF IsSeq, ToSet

\* The index speaks of memories that live in its graph.
LEMMA CorpusIs ==
    ASSUME NEW g, IsSeq(g.nodes)
    PROVE  /\ IsSeq(Corpus(g, FALSE))
           /\ \A d \in ToSet(Corpus(g, FALSE)) :
                \E n \in ToSet(g.nodes) : ~n.dead /\ d.id = n.id /\ d.name = n.name
<1> DEFINE places == {i \in DOMAIN g.nodes :
                        ~g.nodes[i].dead /\ (FALSE \/ ~IsConcept(g.nodes[i]))}
           kept == Picked(g.nodes, places)
           docs == Corpus(g, FALSE)
<1>1. IsSeq(kept) /\ ToSet(kept) = {g.nodes[i] : i \in places}
  BY PickedIs
<1>2. docs = [i \in DOMAIN kept |-> Doc(g, kept[i])]
  BY DEF Corpus
<1>3. \A n : Doc(g, n).id = n.id /\ Doc(g, n).name = n.name
  BY DEF Doc
<1>4. \A n \in ToSet(kept) : n \in ToSet(g.nodes) /\ ~n.dead
  BY <1>1 DEF ToSet
<1> HIDE DEF kept, docs
<1>5. IsSeq(docs)
  <2>1. Len(kept) \in Nat /\ DOMAIN kept = 1..Len(kept)
    BY <1>1 DEF IsSeq
  <2>2. docs \in [1..Len(kept) -> ToSet(docs)]
    BY <1>2, <2>1 DEF ToSet
  <2> QED  BY <2>1, <2>2 DEF IsSeq
<1>6. \A d \in ToSet(docs) : \E n \in ToSet(kept) : d = Doc(g, n)
  BY <1>2 DEF ToSet
<1>7. ASSUME NEW d \in ToSet(docs)
      PROVE  \E n \in ToSet(g.nodes) : ~n.dead /\ d.id = n.id /\ d.name = n.name
  <2>1. PICK n \in ToSet(kept) : d = Doc(g, n)
    BY <1>6
  <2>2. n \in ToSet(g.nodes) /\ ~n.dead
    BY <1>4
  <2>3. d.id = n.id /\ d.name = n.name
    BY <1>3, <2>1
  <2> QED  BY <2>2, <2>3
<1> QED  BY <1>5, <1>7 DEF docs

LEMMA DecideIs ==
    ASSUME NEW ranked, IsSeq(ranked)
    PROVE  IsSeq(Decide(ranked).group) /\ ToSet(Decide(ranked).group) \subseteq ToSet(ranked)
<1> DEFINE top == ranked[1].score
           places == {i \in DOMAIN ranked :
                         ranked[i].score >= AbsMin /\ 3 * ranked[i].score > 2 * top}
           band == Picked(ranked, places)
           group == Top(band, TopN)
<1>1. IsSeq(band) /\ ToSet(band) \subseteq ToSet(ranked)
  <2>1. IsSeq(band) /\ ToSet(band) = {ranked[i] : i \in places}
    BY PickedIs
  <2> QED  BY <2>1 DEF ToSet
<1>2. IsSeq(group) /\ ToSet(group) \subseteq ToSet(ranked)
  <2>1. TopN \in Int
    BY RecallAssumption
  <2> HIDE DEF band
  <2>2. IsSeq(group) /\ ToSet(group) \subseteq ToSet(band)
    BY <1>1, <2>1, TopIs
  <2> QED  BY <1>1, <2>2
<1>3. Decide(ranked).group \in {<<>>, group}
  BY DEF Decide, Silence
<1> QED  BY <1>2, <1>3, NoneIsSeq

LEMMA SemanticPickIs ==
    ASSUME NEW prompt, NEW docs, IsSeq(RankedByMeaning(prompt, docs))
    PROVE  /\ IsSeq(SemanticPick(prompt, docs))
           /\ ToSet(SemanticPick(prompt, docs)) \subseteq ToSet(RankedByMeaning(prompt, docs))
<1> DEFINE all == RankedByMeaning(prompt, docs)
           places == {i \in DOMAIN all : all[i].doc.model \notin EntityModels}
           ranked == Picked(all, places)
<1>1. IsSeq(ranked) /\ ToSet(ranked) \subseteq ToSet(all)
  <2>1. IsSeq(ranked) /\ ToSet(ranked) = {all[i] : i \in places}
    BY PickedIs
  <2> QED  BY <2>1 DEF ToSet
<1>2. SemanticPick(prompt, docs) \in {<<>>, <<ranked[1]>>}
      /\ (SemanticPick(prompt, docs) = <<ranked[1]>> => ranked # <<>> \/ <<ranked[1]>> = <<>>)
  BY DEF SemanticPick
<1> HIDE DEF ranked
<1>3. ranked # <<>> => ranked[1] \in ToSet(ranked)
  <2>1. Len(ranked) \in Nat /\ DOMAIN ranked = 1..Len(ranked) /\ (ranked # <<>> => Len(ranked) # 0)
    BY <1>1 DEF IsSeq
  <2> QED  BY <2>1 DEF ToSet
<1>4. IsSeq(<<ranked[1]>>) /\ ToSet(<<ranked[1]>>) = {ranked[1]} /\ <<ranked[1]>> # <<>>
  BY DEF IsSeq, ToSet
<1> HIDE DEF all
<1> QED  BY <1>1, <1>2, <1>3, <1>4, NoneIsSeq DEF all

\* What is scored is scored in its order.
LEMMA ScoredIs ==
    ASSUME NEW docs, IsSeq(docs), NEW s, DOMAIN s = DOMAIN docs,
           s = [i \in DOMAIN s |-> s[i]], \A i \in DOMAIN s : s[i].doc = docs[i]
    PROVE  IsSeq(s) /\ \A r \in ToSet(s) : r.doc \in ToSet(docs)
<1>1. Len(docs) \in Nat /\ DOMAIN docs = 1..Len(docs)
  BY DEF IsSeq
<1>2. s \in [1..Len(docs) -> ToSet(s)]
  BY <1>1 DEF ToSet
<1>3. IsSeq(s)
  BY <1>1, <1>2 DEF IsSeq
<1>4. \A r \in ToSet(s) : r.doc \in ToSet(docs)
  BY DEF ToSet
<1> QED  BY <1>3, <1>4

LEMMA GroupIs ==
    ASSUME NEW p \in Prompt, NEW v \in 1..MaxVersion, NEW n \in 1..MaxVersion
    PROVE  /\ IsSeq(Groups[p][v][n])
           /\ \A r \in ToSet(Groups[p][v][n]) : r.doc \in ToSet(Corpus(Graphs[v], FALSE))
<1> DEFINE docs == Corpus(Graphs[v], FALSE)
           near == Neighbourhood(Graphs[n], Project)
           scored == Scored(Text[p], docs, near)
           meant == ScoredByMeaning(Text[p], docs)
<1>1. IsSeq(docs)
  BY CorpusIs, RecallAssumption
<1>2. AreNumbers(scored) /\ AreNumbers(meant)
  BY ScoreAssumption
<1>3. Groups[p][v][n] = GroupFor(Text[p], [version |-> v, near |-> n])
  BY DEF Groups
<1>4. GroupFor(Text[p], [version |-> v, near |-> n]) \in
          {<<>>, Decide(Ranked(scored)).group, SemanticPick(Text[p], docs)}
  BY DEF GroupFor, RankedFor
<1> HIDE DEF docs
<1>5. IsSeq(scored) /\ \A r \in ToSet(scored) : r.doc \in ToSet(docs)
  <2>1. /\ DOMAIN scored = DOMAIN docs /\ scored = [i \in DOMAIN scored |-> scored[i]]
        /\ \A i \in DOMAIN scored : scored[i].doc = docs[i]
    BY DEF Scored
  <2> HIDE DEF scored
  <2> QED  BY <1>1, <2>1, ScoredIs
<1>6. IsSeq(meant) /\ \A r \in ToSet(meant) : r.doc \in ToSet(docs)
  <2>1. /\ DOMAIN meant = DOMAIN docs /\ meant = [i \in DOMAIN meant |-> meant[i]]
        /\ \A i \in DOMAIN meant : meant[i].doc = docs[i]
    BY DEF ScoredByMeaning
  <2> HIDE DEF meant
  <2> QED  BY <1>1, <2>1, ScoredIs
<1>7. /\ IsSeq(Ranked(scored)) /\ ToSet(Ranked(scored)) \subseteq ToSet(scored)
      /\ IsSeq(Ranked(meant)) /\ ToSet(Ranked(meant)) \subseteq ToSet(meant)
  BY <1>2, <1>5, <1>6, RankedIs
<1>8. IsSeq(Decide(Ranked(scored)).group) /\ ToSet(Decide(Ranked(scored)).group) \subseteq ToSet(scored)
  BY <1>7, DecideIs
<1>9. IsSeq(SemanticPick(Text[p], docs)) /\ ToSet(SemanticPick(Text[p], docs)) \subseteq ToSet(meant)
  BY <1>7, SemanticPickIs DEF RankedByMeaning
<1> HIDE DEF scored, meant
<1> QED  BY <1>3, <1>4, <1>5, <1>6, <1>8, <1>9, NoneIsSeq DEF docs

-----------------------------------------------------------------------------
(* The versions a lookup answers from *)

VersionRange == 1..MaxVersion
IndexInRange == [stamp : Int, version : VersionRange, near : 0..MaxVersion]

Shaped(l) == l = [step |-> l.step, by |-> l.by, from |-> l.from, stamp |-> l.stamp,
                  index |-> l.index, kept |-> l.kept]

\* A replica is looked up once it is there, and an answer's index is of two graphs there
\* have been.
LookupInRange(l) ==
    /\ Shaped(l) /\ l.stamp \in Int
    /\ l.index \in IndexInRange \cup {NoIndex}
    /\ world = "copy" => /\ l.from # "live"
                         /\ l.step \in {"tag", "key", "near"} => copy.stamp # 0
    /\ l.step = "answer" => l.index # NoIndex /\ l.index.near # 0
    /\ l.step = "none" => l.from = "none"

FilesInRange ==
    /\ made \in VersionRange /\ live \in VersionRange
    /\ file \in [stamp : Int, version : VersionRange]
    /\ copy \in [stamp : Nat, version : 0..MaxVersion, etag : Int]
    /\ copy.stamp # 0 => copy.version # 0

InRange ==
    /\ FilesInRange /\ {memo, pickle} \subseteq IndexInRange \cup {NoIndex}
    /\ LookupInRange(lookup)

LEMMA NoLookupInRange == LookupInRange(NoLookup) /\ NoLookup.step = "none" /\ NoLookup.index = NoIndex
  BY DEF LookupInRange, Shaped, NoLookup

LEMMA BeginIs ==
    ASSUME NEW by, Begin(by)
    PROVE  /\ UNCHANGED <<graphs, indexes>> /\ LookupInRange(lookup')
           /\ lookup'.index = NoIndex /\ lookup'.kept = Kept /\ lookup'.step # "none"
<1> DEFINE first == IF world = "copy" THEN "fetch" ELSE "key"
           from == IF OnServer THEN "live" ELSE "disk"
<1>1. UNCHANGED <<graphs, indexes>>
  BY DEF Begin
<1>2. lookup' = [step |-> first, by |-> by, from |-> from, stamp |-> 0, index |-> NoIndex,
                 kept |-> Kept]
  <2>1. lookup' = [NoLookup EXCEPT !.step = first, !.by = by, !.from = from, !.kept = Kept]
    BY DEF Begin
  <2> HIDE DEF first, from
  <2> QED  BY <2>1 DEF NoLookup
<1>3. first \in {"fetch", "key"} /\ (world = "copy" => first = "fetch" /\ from = "disk")
  BY DEF OnServer
<1> HIDE DEF first, from
<1>4. /\ lookup'.step = first /\ lookup'.from = from /\ lookup'.stamp = 0
      /\ lookup'.index = NoIndex /\ lookup'.kept = Kept /\ Shaped(lookup')
  BY <1>2 DEF Shaped
<1>5. LookupInRange(lookup')
  BY <1>3, <1>4 DEF LookupInRange
<1> QED  BY <1>1, <1>3, <1>4, <1>5

\* What a session does, and a writer, takes a lookup no further.
LEMMA OthersInRange ==
    ASSUME InRange, Session \/ Ask \/ Writer
    PROVE  InRange'
<1>1. CASE Session
  <2>1. UNCHANGED <<graphs, indexes>> /\ lookup' \in {lookup, NoLookup}
    BY <1>1 DEF Session, Prime, AnswerPrompt, WriteEntry, Distilled, PreCompact
  <2> QED  BY <2>1, NoLookupInRange DEF InRange, FilesInRange, LookupInRange, graphs, indexes
<1>2. CASE Ask
  <2>1. UNCHANGED <<graphs, indexes>> /\ LookupInRange(lookup')
    BY <1>2, BeginIs DEF Ask, Warm
  <2> QED  BY <2>1 DEF InRange, FilesInRange, LookupInRange, graphs, indexes
<1>3. CASE Writer
  <2>1. world' = world /\ UNCHANGED <<copy, pickle>>
    BY <1>3 DEF Writer, Mutate, Save, OtherSave, Refresh, WriterRestarts, indexes
  <2>2. lookup' \in {lookup, NoLookup} /\ memo' \in {memo, NoIndex}
    BY <1>3 DEF Writer, Mutate, Save, OtherSave, Refresh, WriterRestarts, indexes
  <2>3. FilesInRange'
    <3>1. MaxVersion \in Nat
      BY RecallAssumption
    <3>2. CASE Mutate
      BY <2>1, <3>1, <3>2 DEF Mutate, InRange, FilesInRange, VersionRange
    <3>3. CASE Save
      BY <2>1, <3>1, <3>3 DEF Save, InRange, FilesInRange, VersionRange
    <3>4. CASE OtherSave
      BY <2>1, <3>1, <3>4 DEF OtherSave, InRange, FilesInRange, VersionRange
    <3>5. CASE Refresh \/ WriterRestarts
      BY <2>1, <3>1, <3>5 DEF Refresh, WriterRestarts, InRange, FilesInRange, VersionRange
    <3> QED  BY <1>3, <3>2, <3>3, <3>4, <3>5 DEF Writer
  <2> QED  BY <2>1, <2>2, <2>3, NoLookupInRange DEF InRange, LookupInRange
<1> QED  BY <1>1, <1>2, <1>3

LEMMA BuiltInRange ==
    ASSUME InRange, lookup.step = "near"
    PROVE  /\ Built \in IndexInRange /\ (lookup.by # "warm" => Built.near # 0)
           /\ Built = lookup.index \/ lookup.index = NoIndex \/ Built.version = lookup.index.version
           /\ lookup.index = NoIndex => Built.version = Opened
<1>1. MaxVersion \in Nat
  BY RecallAssumption
<1>2. Opened \in VersionRange
  BY <1>1 DEF Opened, InRange, FilesInRange, LookupInRange, VersionRange
<1> DEFINE i == IF lookup.index = NoIndex
                THEN [stamp |-> lookup.stamp, version |-> Opened, near |-> 0] ELSE lookup.index
<1>3. i \in IndexInRange
  BY <1>1, <1>2 DEF InRange, LookupInRange, IndexInRange
<1>4. lookup.index # NoIndex => i = lookup.index
  OBVIOUS
<1>5. lookup.index = NoIndex => i.version = Opened
  OBVIOUS
<1>6. Built = IF i.near = 0 /\ lookup.by # "warm" THEN [i EXCEPT !.near = Opened] ELSE i
  BY DEF Built
<1> HIDE DEF i
<1>7. Built \in IndexInRange /\ (lookup.by # "warm" => Built.near # 0) /\ Built.version = i.version
  BY <1>1, <1>2, <1>3, <1>6 DEF IndexInRange, VersionRange
<1> QED  BY <1>4, <1>5, <1>7

LEMMA LookupStaysInRange ==
    ASSUME InRange, Lookup
    PROVE  InRange'
<1>1. UNCHANGED <<world, made, live, file>>
  BY DEF Lookup, KeepCopy, ReplaceCopy, TagCopy, TakeKey, Build, Killed, FallBack, graphs
<1> DEFINE Same == lookup'.index = lookup.index /\ lookup'.stamp = lookup.stamp
                   /\ lookup'.from = lookup.from
<1>2. Shaped(lookup)
  BY DEF InRange, LookupInRange
<1>3. CASE KeepCopy \/ Killed \/ FallBack
  <2>1. UNCHANGED <<graphs, indexes>>
    BY <1>3 DEF KeepCopy, Killed, FallBack
  <2>2. LookupInRange(lookup')
    <3>1. CASE lookup' = NoLookup
      BY <3>1, NoLookupInRange
    <3>2. CASE lookup' = [lookup EXCEPT !.step = "key"] /\ copy.stamp # 0
      <4>1. Shaped(lookup') /\ Same /\ lookup'.step = "key"
        BY <1>2, <3>2 DEF Shaped
      <4> QED  BY <3>2, <4>1 DEF InRange, LookupInRange
    <3>3. CASE FallBack
      <4>1. lookup' = [step |-> "key", by |-> lookup.by, from |-> "disk", stamp |-> 0,
                       index |-> NoIndex, kept |-> lookup.kept]
        BY <3>3 DEF FallBack, NoLookup
      <4>2. Shaped(lookup')
        BY <4>1 DEF Shaped
      <4>3. world # "copy"
        BY <3>3 DEF FallBack, InRange, LookupInRange
      <4> QED  BY <4>1, <4>2, <4>3 DEF LookupInRange
    <3> QED  BY <1>3, <3>1, <3>2, <3>3 DEF KeepCopy, Killed
  <2> QED  BY <2>1, <2>2 DEF InRange, FilesInRange, LookupInRange, graphs, indexes
<1>4. CASE ReplaceCopy \/ TagCopy
  <2>1. UNCHANGED indexes /\ lookup' = [lookup EXCEPT !.step = lookup'.step]
        /\ lookup'.step \in {"tag", "key"} /\ Shaped(lookup')
    BY <1>2, <1>4 DEF ReplaceCopy, TagCopy, Shaped
  <2>2. Same
    BY <1>2, <2>1 DEF Shaped
  <2> DEFINE C == [stamp : Nat, version : 0..MaxVersion, etag : Int]
  <2>3. copy \in C /\ live \in 1..MaxVersion /\ MaxVersion \in Nat /\ (copy.stamp # 0 => copy.version # 0)
    BY RecallAssumption DEF InRange, FilesInRange, VersionRange
  <2>4. /\ copy' \in C /\ (copy'.stamp # 0 => copy'.version # 0)
        /\ world = "copy" => copy'.stamp # 0
    <3>1. CASE ReplaceCopy
      <4>1. copy' = [copy EXCEPT !.stamp = @ + 1, !.version = live]
        BY <3>1 DEF ReplaceCopy, BodyKept
      <4>2. copy' = [stamp |-> copy.stamp + 1, version |-> live, etag |-> copy.etag]
        <5>1. copy = [stamp |-> copy.stamp, version |-> copy.version, etag |-> copy.etag]
          BY <2>3
        <5> QED  BY <4>1, <5>1
      <4> QED  BY <2>3, <4>2
    <3>2. CASE TagCopy
      <4>1. copy' = [copy EXCEPT !.etag = copy.version]
        BY <3>2 DEF TagCopy, EtagKept
      <4>2. world = "copy" => copy.stamp # 0
        BY <3>2 DEF TagCopy, InRange, LookupInRange
      <4>3. copy'.stamp = copy.stamp /\ copy'.version = copy.version /\ copy' \in C
        BY <2>3, <4>1
      <4> QED  BY <2>3, <3>2, <4>2, <4>3
    <3> QED  BY <1>4, <3>1, <3>2
  <2>5. LookupInRange(lookup)'
    BY <1>1, <2>1, <2>2, <2>4 DEF InRange, LookupInRange
  <2> QED  BY <1>1, <2>1, <2>3, <2>4, <2>5 DEF InRange, FilesInRange, indexes
<1>5. CASE TakeKey
  <2>1. UNCHANGED <<graphs, indexes>>
    BY <1>5 DEF TakeKey
  <2>2. Nq \in Int
    BY DEF Nq, InRange, FilesInRange
  <2>3. Found(Nq) \in {memo, pickle, NoIndex}
    BY DEF Found
  <2>4. lookup' = [lookup EXCEPT !.step = "near", !.stamp = Nq, !.index = Found(Nq)]
    BY <1>5 DEF TakeKey, KeyTaken
  <2>5. /\ Shaped(lookup') /\ lookup'.stamp = Nq /\ lookup'.index = Found(Nq)
        /\ lookup'.step = "near" /\ lookup'.from = lookup.from
    BY <1>2, <2>4 DEF Shaped
  <2>6. LookupInRange(lookup')
    BY <1>5, <2>2, <2>3, <2>5 DEF TakeKey, InRange, LookupInRange
  <2> QED  BY <2>1, <2>6 DEF InRange, FilesInRange, LookupInRange, graphs, indexes
<1>6. CASE Build
  <2>1. UNCHANGED graphs /\ {memo', pickle'} \subseteq {memo, pickle, Built} /\ lookup.step = "near"
    BY <1>6 DEF Build
  <2>2. \/ lookup' = NoLookup
        \/ lookup' = [lookup EXCEPT !.step = "answer", !.index = Built] /\ lookup.by # "warm"
    BY <1>6 DEF Build
  <2>3. Built \in IndexInRange /\ (lookup.by # "warm" => Built.near # 0)
    BY <2>1, BuiltInRange
  <2>4. Built # NoIndex
    BY <2>3, RecallAssumption DEF IndexInRange, VersionRange, NoIndex
  <2>5. LookupInRange(lookup')
    <3>1. CASE lookup' = NoLookup
      BY <3>1, NoLookupInRange
    <3>2. CASE lookup' = [lookup EXCEPT !.step = "answer", !.index = Built] /\ lookup.by # "warm"
      <4>1. /\ Shaped(lookup') /\ lookup'.index = Built /\ lookup'.stamp = lookup.stamp
            /\ lookup'.step = "answer" /\ lookup'.from = lookup.from
        BY <1>2, <3>2 DEF Shaped
      <4> QED  BY <2>3, <2>4, <3>2, <4>1 DEF InRange, LookupInRange
    <3> QED  BY <2>2, <3>1, <3>2
  <2> QED  BY <2>1, <2>3, <2>5 DEF InRange, FilesInRange, LookupInRange, graphs
<1> QED  BY <1>3, <1>4, <1>5, <1>6 DEF Lookup

-----------------------------------------------------------------------------
(* What a prompt is given *)

LEMMA DocsOfIs ==
    ASSUME NEW entries \in SUBSET DOMAIN Entries
    PROVE  /\ IsSeq(DocsOf(entries))
           /\ \A d \in ToSet(DocsOf(entries)) : \E e \in entries : d = LogDoc(Entries[e])
<1>1. Len(Entries) \in Nat /\ DOMAIN Entries = 1..Len(Entries)
  BY RecallAssumption DEF IsSeq
<1>2. IsFiniteSet(1..Len(Entries))
  BY <1>1, FS_Interval
<1>3. IsFiniteSet(entries) /\ Cardinality(entries) \in Nat /\ entries \in SUBSET Nat
  BY <1>1, <1>2, FS_Subset, FS_CardinalityType
<1> DEFINE n == Cardinality(entries)
           docs == DocsOf(entries)
<1>4. \A k \in 1..n : Nth(entries, k) \in entries
  BY <1>3, NthBelongs
<1>5. docs = [k \in 1..n |-> LogDoc(Entries[Nth(entries, k)])]
  BY DEF DocsOf
<1> HIDE DEF docs, n
<1>6. docs \in [1..n -> ToSet(docs)]
  BY <1>5 DEF ToSet
<1>7. IsSeq(docs)
  BY <1>3, <1>6 DEF IsSeq, n
<1>8. \A d \in ToSet(docs) : \E e \in entries : d = LogDoc(Entries[e])
  BY <1>4, <1>5 DEF ToSet
<1> QED  BY <1>7, <1>8 DEF docs

\* What the log gives is not seen yet, and was written where the session did not write or
\* no longer sees it.
Injectable(key) ==
    /\ key \notin session.injectedLog
    /\ \E e \in log : /\ key = Key(Entries[e])
                      /\ Entries[e].file \notin touched \/ session.compacted

LEMMA LogRecallIs ==
    ASSUME NEW p \in Prompt, NEW v \in VersionRange, NEW budget \in Int, NEW exclude,
           log \subseteq DOMAIN Entries
    PROVE  \A d \in ToSet(LogRecall(Text[p], GraphIdf[v], budget, exclude)) :
             Injectable(d.key) /\ <<d.model, d.name>> \notin exclude
<1> DEFINE ok == {e \in log : (Entries[e].file \notin touched \/ session.compacted)
                              /\ TermsPos(Entries[e].text) # <<>>}
           docs == DocsOf(ok)
           scored == LogScored(Text[p], docs, GraphIdf[v])
           ranked == Ranked(scored)
           places == {i \in DOMAIN ranked :
                        /\ ranked[i].score >= LogAbsMin
                        /\ ranked[i].doc.key \notin session.injectedLog
                        /\ <<ranked[i].doc.model, ranked[i].doc.name>> \notin exclude}
           eligible == Picked(ranked, places)
           found == [k \in DOMAIN eligible |-> eligible[k].doc]
<1>1. LogRecall(Text[p], GraphIdf[v], budget, exclude) = Top(found, budget)
  BY DEF LogRecall, LogDocs
<1>2. IsSeq(docs) /\ \A d \in ToSet(docs) : \E e \in ok : d = LogDoc(Entries[e])
  BY DocsOfIs
<1>3. AreNumbers(scored)
  BY ScoreAssumption DEF VersionRange
<1>4. ok \subseteq log /\ \A e \in ok : Entries[e].file \notin touched \/ session.compacted
  OBVIOUS
<1> HIDE DEF ok, docs
<1>5. IsSeq(scored) /\ \A r \in ToSet(scored) : r.doc \in ToSet(docs)
  <2>1. /\ DOMAIN scored = DOMAIN docs /\ scored = [i \in DOMAIN scored |-> scored[i]]
        /\ \A i \in DOMAIN scored : scored[i].doc = docs[i]
    BY DEF LogScored
  <2> HIDE DEF scored
  <2> QED  BY <1>2, <2>1, ScoredIs
<1> HIDE DEF scored
<1>6. IsSeq(ranked) /\ ToSet(ranked) \subseteq ToSet(scored)
  BY <1>3, <1>5, RankedIs
<1> HIDE DEF ranked
<1>7. IsSeq(eligible) /\ ToSet(eligible) = {ranked[i] : i \in places}
  BY <1>6, PickedIs
<1>8. \A r \in ToSet(eligible) : /\ r \in ToSet(ranked) /\ r.doc.key \notin session.injectedLog
                                 /\ <<r.doc.model, r.doc.name>> \notin exclude
  BY <1>7 DEF ToSet
<1> HIDE DEF eligible
<1>9. IsSeq(found) /\ ToSet(found) = {r.doc : r \in ToSet(eligible)}
  <2>1. Len(eligible) \in Nat /\ DOMAIN eligible = 1..Len(eligible)
    BY <1>7 DEF IsSeq
  <2>2. found \in [1..Len(eligible) -> ToSet(found)]
    BY <2>1 DEF ToSet
  <2>3. IsSeq(found)
    BY <2>1, <2>2 DEF IsSeq
  <2> QED  BY <2>3 DEF ToSet
<1> HIDE DEF found
<1>10. ToSet(Top(found, budget)) \subseteq ToSet(found)
  BY <1>9, TopIs
<1>11. ASSUME NEW d \in ToSet(found)
       PROVE  Injectable(d.key) /\ <<d.model, d.name>> \notin exclude
  <2>1. PICK r \in ToSet(eligible) : d = r.doc
    BY <1>9
  <2>2. d.key \notin session.injectedLog /\ <<d.model, d.name>> \notin exclude
    BY <1>8, <2>1
  <2>3. PICK e \in ok : d = LogDoc(Entries[e])
    BY <1>2, <1>5, <1>6, <1>8, <2>1
  <2>4. d.key = Key(Entries[e])
    BY <2>3 DEF LogDoc
  <2> QED  BY <1>4, <2>2, <2>3, <2>4 DEF Injectable
<1> QED  BY <1>1, <1>10, <1>11

LivesIn(g, d) == \E n \in ToSet(g.nodes) : n.id = d.id /\ ~n.dead /\ n.name = d.name

\* What a prompt is given was not given before, lives in the graph that was looked up,
\* and does not come from the graph and from the log.
LEMMA RecallIs ==
    ASSUME NEW p \in Prompt, NEW v \in VersionRange, NEW near \in VersionRange,
           NEW index, index.version = v, index.near = near, log \subseteq DOMAIN Entries
    PROVE  LET r == Recall(p, index) IN
           /\ \A d \in ToSet(r.graph) : d.id \notin session.injected /\ LivesIn(Graphs[v], d)
           /\ \A e \in ToSet(r.log) : Injectable(e.id)
           /\ \A d \in ToSet(r.graph), e \in ToSet(r.log) :
                <<d.model, d.name>> # <<e.model, e.name>>
<1> DEFINE group == Groups[p][v][near]
           places == {i \in DOMAIN group : group[i].doc.id \notin session.injected}
           fresh == Picked(group, places)
           budget == IF fresh = <<>> THEN TopN ELSE Max({1, TopN - Len(fresh)})
           exclude == IF fresh = <<>> THEN {} ELSE Named(group)
           entries == LogRecall(Text[p], GraphIdf[v], budget, exclude)
           memories == [k \in DOMAIN fresh |-> Line(fresh[k].doc.id, fresh[k].doc)]
           lines == [k \in DOMAIN entries |-> Line(entries[k].key, entries[k])]
           r == Recall(p, index)
<1>1. /\ IsSeq(group)
      /\ \A m \in ToSet(group) : m.doc \in ToSet(Corpus(Graphs[v], FALSE))
  BY GroupIs DEF VersionRange
<1>2. \/ r.graph = memories /\ r.log = lines
      \/ r.graph = <<>> /\ r.log = <<>>
  <2>1. r = RecallOf(p, index, group)
    BY DEF Recall
  <2>2. NewIn(group) = fresh
    BY DEF NewIn
  <2> HIDE DEF group, places, fresh
  <2>3. Beside(p, index, group, fresh) = entries
    BY DEF Beside
  <2> HIDE DEF budget, exclude, entries, r
  <2>4. r = Lines(p, fresh, entries)
    BY <2>1, <2>2, <2>3 DEF RecallOf, RecallNew
  <2> QED  BY <2>4 DEF Lines
<1> HIDE DEF group, r
<1>3. IsSeq(fresh) /\ ToSet(fresh) = {group[i] : i \in places}
  BY <1>1, PickedIs
<1>4. \A m \in ToSet(fresh) : m \in ToSet(group) /\ m.doc.id \notin session.injected
  BY <1>3 DEF ToSet
<1> HIDE DEF places
<1>5. budget \in Int
  <2>1. TopN \in Int
    BY RecallAssumption
  <2>2. Len(fresh) \in Int
    BY <1>3 DEF IsSeq
  <2> HIDE DEF fresh
  <2> DEFINE room == TopN - Len(fresh)
             high == IF room >= 1 THEN room ELSE 1
  <2>3. room \in Int
    BY <2>1, <2>2
  <2> HIDE DEF room
  <2>4. high \in {1, room} /\ \A y \in {1, room} : high >= y
    BY <2>3
  <2>5. Max({1, room}) \in {1, room}
    BY <2>4 DEF Max
  <2> QED  BY <2>1, <2>3, <2>5 DEF room
<1> HIDE DEF budget
<1>6. \A d \in ToSet(entries) : Injectable(d.key) /\ <<d.model, d.name>> \notin exclude
  <2> HIDE DEF exclude
  <2> QED  BY <1>5, LogRecallIs
<1>7. /\ ToSet(memories) = {Line(m.doc.id, m.doc) : m \in ToSet(fresh)}
      /\ ToSet(lines) = {Line(d.key, d) : d \in ToSet(entries)}
  <2> HIDE DEF fresh, entries
  <2> QED  BY DEF ToSet
<1> HIDE DEF entries, memories, lines
<1>8. ASSUME NEW d \in ToSet(memories)
      PROVE  /\ d.id \notin session.injected /\ <<d.model, d.name>> \in exclude
             /\ LivesIn(Graphs[v], d)
  <2>1. PICK m \in ToSet(fresh) : d = Line(m.doc.id, m.doc)
    BY <1>7
  <2>2. d.id = m.doc.id /\ d.model = m.doc.model /\ d.name = m.doc.name
    BY <2>1 DEF Line
  <2>3. fresh # <<>>
    BY <2>1, NoneIsSeq
  <2>4. <<m.doc.model, m.doc.name>> \in Named(group)
    BY <1>4, <2>1 DEF Named, ToSet
  <2>5. PICK n \in ToSet(Graphs[v].nodes) : ~n.dead /\ m.doc.id = n.id /\ m.doc.name = n.name
    <3>1. IsSeq(Graphs[v].nodes)
      BY RecallAssumption DEF VersionRange
    <3>2. m.doc \in ToSet(Corpus(Graphs[v], FALSE))
      BY <1>1, <1>4
    <3> HIDE DEF fresh, memories
    <3>3. \A x \in ToSet(Corpus(Graphs[v], FALSE)) :
            \E n \in ToSet(Graphs[v].nodes) : ~n.dead /\ x.id = n.id /\ x.name = n.name
      BY <3>1, CorpusIs
    <3> QED  BY <3>2, <3>3
  <2>6. LivesIn(Graphs[v], d)
    BY <2>2, <2>5 DEF LivesIn
  <2> QED  BY <1>4, <2>2, <2>3, <2>4, <2>6
<1> HIDE DEF exclude
<1>9. ASSUME NEW e \in ToSet(lines)
      PROVE  Injectable(e.id) /\ <<e.model, e.name>> \notin exclude
  <2>1. PICK d \in ToSet(entries) : e = Line(d.key, d)
    BY <1>7
  <2>2. e.id = d.key /\ e.model = d.model /\ e.name = d.name
    BY <2>1 DEF Line
  <2> QED  BY <1>6, <2>1, <2>2
<1>10. CASE r.graph = memories /\ r.log = lines
  BY <1>8, <1>9, <1>10 DEF r
<1>11. CASE r.graph = <<>> /\ r.log = <<>>
  BY <1>11, NoneIsSeq DEF r
<1> QED  BY <1>2, <1>10, <1>11

LEMMA AnswersAre ==
    ASSUME NEW p \in Prompt
    PROVE  \A q \in ToSet(Answers(p)) : q \notin session.answered
<1> DEFINE some == Top(Questions[p], MaxQuestions)
           places == {i \in DOMAIN some : some[i] \notin session.answered /\ some[i] \in Understood}
<1>1. IsSeq(some)
  <2>1. IsSeq(Questions[p]) /\ MaxQuestions \in Int
    BY RecallAssumption
  <2> QED  BY <2>1, TopIs
<1>2. Answers(p) = Picked(some, places)
  BY DEF Answers
<1> HIDE DEF some
<1>3. ToSet(Picked(some, places)) = {some[i] : i \in places}
  BY <1>1, PickedIs
<1> QED  BY <1>2, <1>3

-----------------------------------------------------------------------------
(* Over a session *)

\* The session remembers all it was given, and what it wrote lies in files it touched.
Remembered ==
    /\ session = [primed |-> session.primed, injected |-> session.injected,
                  injectedLog |-> session.injectedLog, answered |-> session.answered,
                  compacted |-> session.compacted]
    /\ given \subseteq ({"memory"} \X session.injected) \cup ({"entry"} \X session.injectedLog)
                       \cup ({"answer"} \X session.answered)
    /\ log \subseteq DOMAIN Entries
    /\ \A e \in conversation : Entries[e].file \in touched

\* What a prompt is given when its lookup has found an index.
LEMMA AnswerIs ==
    ASSUME InRange, Remembered, NEW p \in Prompt, AnswerPrompt(p)
    PROVE  /\ reply' = [prime |-> FALSE, graph |-> reply'.graph, log |-> reply'.log,
                        answers |-> reply'.answers, kept |-> lookup.kept]
           /\ \A d \in ToSet(reply'.graph) :
                d.id \notin session.injected /\ LivesIn(Graphs[lookup.index.version], d)
           /\ \A e \in ToSet(reply'.log) : Injectable(e.id)
           /\ \A d \in ToSet(reply'.graph), e \in ToSet(reply'.log) :
                <<d.model, d.name>> # <<e.model, e.name>>
           /\ \A q \in ToSet(reply'.answers) : q \notin session.answered
           /\ lookup.index # NoIndex /\ lookup.index.version \in VersionRange
<1> DEFINE v == lookup.index.version
           near == lookup.index.near
           r == Recall(p, lookup.index)
<1>1. lookup.index # NoIndex /\ v \in VersionRange /\ near \in VersionRange
  BY RecallAssumption DEF AnswerPrompt, InRange, LookupInRange, IndexInRange, VersionRange
<1>2. reply' = [prime |-> FALSE, graph |-> r.graph, log |-> r.log, answers |-> Answers(p),
                kept |-> lookup.kept]
  BY DEF AnswerPrompt, ReplyOf
<1>3. /\ \A d \in ToSet(r.graph) : d.id \notin session.injected /\ LivesIn(Graphs[v], d)
      /\ \A e \in ToSet(r.log) : Injectable(e.id)
      /\ \A d \in ToSet(r.graph), e \in ToSet(r.log) : <<d.model, d.name>> # <<e.model, e.name>>
  BY <1>1, RecallIs DEF Remembered
<1> HIDE DEF r
<1>4. reply'.graph = r.graph /\ reply'.log = r.log /\ reply'.answers = Answers(p)
  BY <1>2
<1> QED  BY <1>1, <1>2, <1>3, <1>4, AnswersAre

\* Every other step gives nothing.
LEMMA OthersGiveNothing ==
    ASSUME Ask \/ Elsewhere \/ Prime
             \/ (\E e \in DOMAIN Entries : WriteEntry(e))
             \/ (\E f \in {Entries[e].file : e \in DOMAIN Entries} : Distilled(f)) \/ PreCompact
    PROVE  reply'.graph = <<>> /\ reply'.log = <<>> /\ reply'.answers = <<>>
<1>1. reply' = NoReply \/ reply' = [NoReply EXCEPT !.prime = TRUE]
  BY DEF Ask, Elsewhere, Prime, WriteEntry, Distilled, PreCompact, Quiet
<1> QED  BY <1>1 DEF NoReply

LEMMA RememberedInductive ==
    ASSUME InRange, Remembered, [Next]_vars
    PROVE  Remembered'
<1>1. CASE Ask \/ Elsewhere \/ Prime \/ PreCompact \/ UNCHANGED vars
  <2>1. UNCHANGED <<log, touched, given>> /\ conversation' \in {conversation, {}}
    BY <1>1 DEF Ask, Elsewhere, Prime, PreCompact, vars, ours
  <2>2. \/ session' = session
        \/ session' = [session EXCEPT !.primed = TRUE]
        \/ session' = [session EXCEPT !.compacted = TRUE]
    BY <1>1 DEF Ask, Elsewhere, Prime, PreCompact, vars, ours
  <2>3. /\ session' = [primed |-> session'.primed, injected |-> session'.injected,
                       injectedLog |-> session'.injectedLog, answered |-> session'.answered,
                       compacted |-> session'.compacted]
        /\ session'.injected = session.injected /\ session'.injectedLog = session.injectedLog
        /\ session'.answered = session.answered
    BY <2>2 DEF Remembered
  <2> QED  BY <2>1, <2>3 DEF Remembered
<1>2. CASE \E e \in DOMAIN Entries : WriteEntry(e)
  BY <1>2 DEF WriteEntry, Remembered
<1>3. CASE \E f \in {Entries[e].file : e \in DOMAIN Entries} : Distilled(f)
  BY <1>3 DEF Distilled, Remembered
<1>4. ASSUME NEW p \in Prompt, AnswerPrompt(p) PROVE Remembered'
  <2> DEFINE ids(s) == {d.id : d \in ToSet(s)}
  <2>1. session' = [session EXCEPT !.injected = @ \cup ids(reply'.graph),
                                   !.injectedLog = @ \cup ids(reply'.log),
                                   !.answered = @ \cup ToSet(reply'.answers)]
    BY <1>4 DEF AnswerPrompt, Remember
  <2>2. given' = given \cup LinesOf(reply') /\ UNCHANGED <<log, touched, conversation>>
    BY <1>4 DEF AnswerPrompt
  <2>3. LinesOf(reply') = ({"memory"} \X ids(reply'.graph)) \cup ({"entry"} \X ids(reply'.log))
                          \cup ({"answer"} \X ToSet(reply'.answers))
    BY DEF LinesOf
  <2> HIDE DEF ids
  <2>4. session' = [primed |-> session.primed, injected |-> session.injected \cup ids(reply'.graph),
                    injectedLog |-> session.injectedLog \cup ids(reply'.log),
                    answered |-> session.answered \cup ToSet(reply'.answers),
                    compacted |-> session.compacted]
    BY <2>1 DEF Remembered
  <2>5. /\ session' = [primed |-> session'.primed, injected |-> session'.injected,
                       injectedLog |-> session'.injectedLog, answered |-> session'.answered,
                       compacted |-> session'.compacted]
        /\ session'.injected = session.injected \cup ids(reply'.graph)
        /\ session'.injectedLog = session.injectedLog \cup ids(reply'.log)
        /\ session'.answered = session.answered \cup ToSet(reply'.answers)
    BY <2>4
  <2>6. given' \subseteq ({"memory"} \X session'.injected) \cup ({"entry"} \X session'.injectedLog)
                       \cup ({"answer"} \X session'.answered)
    BY <2>2, <2>3, <2>5 DEF Remembered
  <2> QED  BY <2>2, <2>5, <2>6 DEF Remembered
<1> QED  BY <1>1, <1>2, <1>3, <1>4 DEF Next, Session

LEMMA InRangeInductive ==
    ASSUME InRange, [Next]_vars
    PROVE  InRange'
<1>1. CASE Next
  BY <1>1, OthersInRange, LookupStaysInRange DEF Next, Elsewhere
<1>2. CASE UNCHANGED vars
  BY <1>2 DEF vars, graphs, indexes, InRange, FilesInRange, LookupInRange
<1> QED  BY <1>1, <1>2

LEMMA SessionAtFirst == Init => InRange /\ Remembered
<1> SUFFICES ASSUME Init PROVE InRange /\ Remembered
  OBVIOUS
<1>1. made \in VersionRange
  BY RecallAssumption DEF Init, IndexInit, VersionRange
<1>2. InRange
  BY <1>1, NoLookupInRange, RecallAssumption DEF Init, IndexInit, InRange, FilesInRange, LookupInRange
<1>3. Remembered
  BY DEF Init, Remembered
<1> QED  BY <1>2, <1>3

LEMMA SessionInvariant == Spec => [](InRange /\ Remembered)
  BY SessionAtFirst, InRangeInductive, RememberedInductive, PTL DEF Spec

\* Over a whole session, through lookups that find old indexes, rebuild them or fall back
\* to the disk, no memory, log entry or answer that the session was given is given again,
\* and no prompt is given one memory from the graph and from the log (injected,
\* injected_log, answered and exclude of gate/recall.py's RecallExtension).
THEOREM NeverTwiceHolds == Spec => NeverTwice
<1> DEFINE Fresh == /\ LinesOf(reply') \cap given = {}
                    /\ \A d \in ToSet(reply'.graph), e \in ToSet(reply'.log) :
                         <<d.model, d.name>> # <<e.model, e.name>>
<1>1. ASSUME InRange, Remembered, [Next]_vars PROVE [reply' # NoReply => Fresh]_vars
  <2>1. CASE UNCHANGED vars
    BY <2>1
  <2>2. ASSUME NEW p \in Prompt, AnswerPrompt(p) PROVE Fresh
    <3>1. /\ \A d \in ToSet(reply'.graph) : d.id \notin session.injected
          /\ \A e \in ToSet(reply'.log) : e.id \notin session.injectedLog
          /\ \A q \in ToSet(reply'.answers) : q \notin session.answered
          /\ \A d \in ToSet(reply'.graph), e \in ToSet(reply'.log) :
                <<d.model, d.name>> # <<e.model, e.name>>
      BY <1>1, <2>2, AnswerIs DEF Injectable
    <3>2. ASSUME NEW x \in LinesOf(reply'), x \in given PROVE FALSE
      <4>1. CASE \E d \in ToSet(reply'.graph) : x = <<"memory", d.id>>
        BY <1>1, <3>1, <3>2, <4>1 DEF Remembered
      <4>2. CASE \E d \in ToSet(reply'.log) : x = <<"entry", d.id>>
        BY <1>1, <3>1, <3>2, <4>2 DEF Remembered
      <4>3. CASE \E q \in ToSet(reply'.answers) : x = <<"answer", q>>
        BY <1>1, <3>1, <3>2, <4>3 DEF Remembered
      <4> QED  BY <3>2, <4>1, <4>2, <4>3 DEF LinesOf
    <3> QED  BY <3>1, <3>2
  <2>3. CASE reply'.graph = <<>> /\ reply'.log = <<>> /\ reply'.answers = <<>>
    <3>1. LinesOf(reply') = {}
      BY <2>3, NoneIsSeq DEF LinesOf
    <3> QED  BY <2>3, <3>1, NoneIsSeq
  <2> QED  BY <1>1, <2>1, <2>2, <2>3, OthersGiveNothing DEF Next, Session
<1>2. (InRange /\ Remembered) /\ [Next]_vars => [reply' # NoReply => Fresh]_vars
  BY <1>1
<1> QED  BY <1>2, SessionInvariant, PTL DEF Spec, NeverTwice

\* Until a compaction a session is given no entry it wrote itself, in whatever order it
\* wrote, asked and had files promoted (session_corpus.py:7; touched is asked when the log
\* is read, so a file it wrote after a prompt is silent from the next one on).
THEOREM NoEchoHolds == Spec => []NoEcho
<1>1. Init => NoEcho
  BY NoneIsSeq DEF Init, NoEcho, NoReply
<1>2. ASSUME InRange, Remembered, NoEcho, [Next]_vars PROVE NoEcho'
  <2>1. CASE UNCHANGED vars
    BY <1>2, <2>1 DEF vars, NoEcho
  <2>2. CASE reply'.graph = <<>> /\ reply'.log = <<>> /\ reply'.answers = <<>>
    BY <2>2, NoneIsSeq DEF NoEcho
  <2>3. ASSUME NEW p \in Prompt, AnswerPrompt(p) PROVE NoEcho'
    <3>1. session'.compacted = session.compacted /\ conversation' = conversation
      BY <1>2, <2>3 DEF AnswerPrompt, Remember, Remembered
    <3>2. \A d \in ToSet(reply'.log) : Injectable(d.id)
      BY <1>2, <2>3, AnswerIs
    <3>3. ASSUME ~session.compacted, NEW d \in ToSet(reply'.log), NEW e \in conversation
          PROVE  Key(Entries[e]) # d.id
      <4>1. PICK x \in log : d.id = Key(Entries[x]) /\ Entries[x].file \notin touched
        BY <3>2, <3>3 DEF Injectable
      <4>2. Entries[e].file \in touched
        BY <1>2 DEF Remembered
      <4> QED  BY <4>1, <4>2 DEF Key
    <3> QED  BY <3>1, <3>3 DEF NoEcho
  <2> QED  BY <1>2, <2>1, <2>2, <2>3, OthersGiveNothing DEF Next, Session
<1>3. (InRange /\ Remembered) /\ NoEcho /\ [Next]_vars => NoEcho'
  BY <1>2
<1> QED  BY <1>1, <1>3, SessionInvariant, PTL DEF Spec

-----------------------------------------------------------------------------
(* What was forgotten *)

\* The oldest version a memory may be in when a lookup began is no newer than the file,
\* and no newer than the index that the lookup has found or made.
KeptVersions(S) == \E a, b \in VersionRange : S = {a, b}
NotOlder(l) ==
    l.step # "none" =>
        /\ KeptVersions(l.kept)
        /\ \E low \in l.kept : low <= file.version
                               /\ (l.index # NoIndex => low <= l.index.version)

NothingOld == world \notin {"copy", "shared"} => NotOlder(lookup)

LEMMA NothingOldInductive ==
    ASSUME GateInv, InRange, NothingOld, [Next]_vars
    PROVE  NothingOld'
<1> SUFFICES ASSUME world' \notin {"copy", "shared"} PROVE NotOlder(lookup)'
  BY DEF NothingOld
<1>1. world' = world
  BY DEF Next, Ask, Elsewhere, Session, Prime, AnswerPrompt, WriteEntry, Distilled, PreCompact,
         Begin, Warm, Writer, Mutate, Save, OtherSave, Refresh, WriterRestarts, Lookup, KeepCopy,
         ReplaceCopy, TagCopy, TakeKey, Build, Killed, FallBack, graphs, vars
<1>2. NotOlder(lookup) /\ VersionsInOrder /\ IndexesCurrent
  BY <1>1 DEF NothingOld, GateInv
<1>3. /\ file.version \in Int /\ live \in Int /\ file.version <= live
      /\ file.version \in VersionRange /\ live \in VersionRange
  BY <1>2, RecallAssumption DEF InRange, FilesInRange, VersionRange, VersionsInOrder
<1>4. CASE lookup' = lookup /\ file'.version >= file.version
  <2>1. file'.version \in Int
    <3>1. InRange'
      BY InRangeInductive
    <3> QED  BY <3>1, RecallAssumption DEF InRange, FilesInRange, VersionRange
  <2>2. \A a \in VersionRange : a \in Int
    BY DEF VersionRange
  <2>3. ASSUME NEW low \in lookup.kept, KeptVersions(lookup.kept), low <= file.version
        PROVE  low <= file'.version
    <3>1. low \in Int
      BY <2>2, <2>3 DEF KeptVersions
    <3> QED  BY <1>3, <1>4, <2>1, <2>3, <3>1
  <2> QED  BY <1>2, <1>4, <2>3 DEF NotOlder
<1>5. CASE lookup' = NoLookup
  BY <1>5 DEF NotOlder, NoLookup
<1>6. CASE Session
  <2>1. lookup' \in {lookup, NoLookup} /\ file' = file
    BY <1>6 DEF Session, Prime, AnswerPrompt, WriteEntry, Distilled, PreCompact, graphs
  <2> QED  BY <1>3, <1>4, <1>5, <2>1
<1>7. CASE Ask
  <2>1. lookup'.index = NoIndex /\ lookup'.kept = {live, file.version} /\ file' = file
    BY <1>7, BeginIs DEF Ask, Warm, Kept, graphs
  <2> QED  BY <1>3, <2>1 DEF NotOlder, KeptVersions
<1>8. CASE Writer
  <2>1. lookup' \in {lookup, NoLookup}
    BY <1>8 DEF Writer, Mutate, Save, OtherSave, Refresh, WriterRestarts
  <2>2. file'.version >= file.version
    BY <1>1, <1>3, <1>8 DEF Writer, Mutate, Save, OtherSave, Refresh, WriterRestarts
  <2> QED  BY <1>4, <1>5, <2>1, <2>2
<1>9. CASE Lookup
  <2>1. file' = file
    BY <1>9 DEF Lookup, KeepCopy, ReplaceCopy, TagCopy, TakeKey, Build, Killed, FallBack, graphs
  <2>2. Shaped(lookup)
    BY DEF InRange, LookupInRange
  <2> DEFINE Follows(i) == lookup'.kept = lookup.kept /\ lookup'.index = i /\ lookup.step # "none"
  <2>3. ASSUME NEW i, Follows(i), i \in {lookup.index, NoIndex} PROVE NotOlder(lookup)'
    BY <1>2, <2>1, <2>3 DEF NotOlder
  <2>4. ASSUME NEW i, Follows(i), i # NoIndex => i.version \in Int /\ file.version <= i.version
        PROVE  NotOlder(lookup)'
    <3>1. PICK low \in lookup.kept : low <= file.version
      BY <1>2, <2>4 DEF NotOlder
    <3>2. KeptVersions(lookup.kept) /\ low \in Int
      BY <1>2, <2>4, <3>1 DEF NotOlder, KeptVersions, VersionRange
    <3>3. i # NoIndex => low <= i.version
      BY <1>3, <2>4, <3>1, <3>2
    <3> QED  BY <2>1, <2>4, <3>1, <3>2, <3>3 DEF NotOlder
  <2>5. CASE KeepCopy \/ ReplaceCopy \/ TagCopy
    <3>1. lookup' = NoLookup \/ lookup' = [lookup EXCEPT !.step = lookup'.step]
      BY <2>2, <2>5 DEF KeepCopy, ReplaceCopy, TagCopy, Shaped
    <3>2. CASE lookup' = [lookup EXCEPT !.step = lookup'.step]
      <4>1. Follows(lookup.index)
        BY <2>2, <2>5, <3>2 DEF KeepCopy, ReplaceCopy, TagCopy, Shaped
      <4> QED  BY <2>3, <4>1
    <3> QED  BY <1>5, <3>1, <3>2
  <2>6. CASE Killed
    BY <1>5, <2>6 DEF Killed
  <2>7. CASE FallBack
    <3>1. lookup' = [step |-> "key", by |-> lookup.by, from |-> "disk", stamp |-> 0,
                     index |-> NoIndex, kept |-> lookup.kept]
      BY <2>7 DEF FallBack, NoLookup
    <3>2. lookup'.kept = lookup.kept /\ lookup'.index = NoIndex
      BY <3>1
    <3>3. lookup.step # "none"
      BY <2>7 DEF FallBack, InRange, LookupInRange
    <3>4. Follows(NoIndex)
      BY <3>2, <3>3
    <3> QED  BY <2>3, <3>4
  <2>8. CASE TakeKey
    <3>1. Follows(Found(file.stamp)) /\ lookup.step = "key"
      BY <1>1, <2>2, <2>8 DEF TakeKey, KeyTaken, Nq, Shaped
    <3>2. Found(file.stamp) \in {memo, pickle, NoIndex}
          /\ (Found(file.stamp) # NoIndex => Found(file.stamp).stamp = file.stamp)
      BY DEF Found
    <3>3. Found(file.stamp) # NoIndex =>
              Found(file.stamp).version \in Int /\ file.version <= Found(file.stamp).version
      <4> SUFFICES ASSUME NEW i \in {memo, pickle}, i # NoIndex, i.stamp = file.stamp
                   PROVE  i.version \in Int /\ file.version <= i.version
        BY <3>2
      <4>1. i.version \in Int
        BY DEF InRange, IndexInRange, VersionRange
      <4>2. i.version >= file.version
        BY <1>1, <1>2 DEF IndexesCurrent, Current
      <4> QED  BY <1>3, <4>1, <4>2
    <3> QED  BY <2>4, <3>1, <3>3
  <2>9. CASE Build
    <3>1. lookup' = NoLookup \/ lookup' = [lookup EXCEPT !.step = "answer", !.index = Built]
      BY <2>9 DEF Build
    <3>2. lookup.step = "near"
      BY <2>9 DEF Build
    <3>3. CASE lookup' = [lookup EXCEPT !.step = "answer", !.index = Built]
      <4>1. Follows(Built)
        BY <2>2, <3>2, <3>3 DEF Shaped
      <4>2. /\ Built \in IndexInRange
            /\ Built = lookup.index \/ lookup.index = NoIndex \/ Built.version = lookup.index.version
            /\ lookup.index = NoIndex => Built.version = Opened
        BY <3>2, BuiltInRange
      <4>3. CASE lookup.index = NoIndex
        <5>1. Opened \in {live, file.version}
          BY <1>1 DEF Opened
        <5> QED  BY <1>3, <2>4, <4>1, <4>2, <4>3, <5>1
      <4>4. CASE lookup.index # NoIndex
        <5>1. Built.version = lookup.index.version
          BY <4>2, <4>4
        <5> QED  BY <1>2, <2>1, <3>2, <4>1, <4>4, <5>1 DEF NotOlder
      <4> QED  BY <4>3, <4>4
    <3> QED  BY <1>5, <3>1, <3>3
  <2> QED  BY <1>9, <2>5, <2>6, <2>7, <2>8, <2>9 DEF Lookup
<1>10. CASE UNCHANGED vars
  BY <1>3, <1>4, <1>10 DEF vars, graphs
<1> QED  BY <1>6, <1>7, <1>8, <1>9, <1>10 DEF Next, Elsewhere

LEMMA LeastKept ==
    ASSUME NEW S, KeptVersions(S), NEW low \in S
    PROVE  Min(S) \in S /\ Min(S) \in Int /\ low \in Int /\ Min(S) <= low
<1>1. PICK a \in VersionRange, b \in VersionRange : S = {a, b}
  BY DEF KeptVersions
<1>2. a \in Int /\ b \in Int
  BY DEF VersionRange
<1> DEFINE least == IF a <= b THEN a ELSE b
<1>3. least \in S /\ \A y \in S : least <= y
  BY <1>1, <1>2
<1>4. Min(S) \in S /\ \A y \in S : Min(S) <= y
  BY <1>3 DEF Min
<1> QED  BY <1>1, <1>2, <1>4

\* A memory that the graph a hook answers from has lost, in the saved file and in the
\* writer's memory, before the hook began is not shown: neither an index kept under an
\* old key nor one made while the writer saved, restarted or died brings it back (where
\* the gate reads the disk or the server's live store, and no other process writes).
THEOREM ForgottenIsNotShownHolds == Spec => []ForgottenIsNotShown
<1>1. Init => NothingOld /\ ForgottenIsNotShown
  BY NoneIsSeq DEF Init, IndexInit, NothingOld, NotOlder, NoLookup, ForgottenIsNotShown, NoReply
<1>2. ASSUME GateInv, InRange, Remembered, NothingOld, ForgottenIsNotShown, [Next]_vars
      PROVE  ForgottenIsNotShown'
  <2>1. CASE UNCHANGED vars
    BY <1>2, <2>1 DEF vars, graphs, ForgottenIsNotShown
  <2>2. CASE reply'.graph = <<>> /\ reply'.log = <<>> /\ reply'.answers = <<>>
    BY <2>2, NoneIsSeq DEF ForgottenIsNotShown
  <2>3. ASSUME NEW p \in Prompt, AnswerPrompt(p) PROVE ForgottenIsNotShown'
    <3> SUFFICES ASSUME world' \notin {"copy", "shared"}, NEW d \in ToSet(reply'.graph)
                 PROVE  \E v \in Min(reply'.kept)..MaxVersion : LivesIn(Graphs[v], d)
      BY DEF ForgottenIsNotShown, LivesIn
    <3>1. world' = world /\ lookup.step = "answer"
      BY <2>3 DEF AnswerPrompt, graphs
    <3> DEFINE v == lookup.index.version
    <3>2. /\ reply' = [prime |-> FALSE, graph |-> reply'.graph, log |-> reply'.log,
                       answers |-> reply'.answers, kept |-> lookup.kept]
          /\ LivesIn(Graphs[v], d) /\ lookup.index # NoIndex /\ v \in VersionRange
      BY <1>2, <2>3, AnswerIs
    <3>3. reply'.kept = lookup.kept
      BY <3>2
    <3>4. PICK low \in lookup.kept : low <= v
      BY <1>2, <3>1, <3>2 DEF NothingOld, NotOlder
    <3>5. KeptVersions(lookup.kept)
      BY <1>2, <3>1 DEF NothingOld, NotOlder
    <3>6. Min(lookup.kept) \in Int /\ low \in Int /\ Min(lookup.kept) <= low
      BY <3>4, <3>5, LeastKept
    <3>7. v \in Min(lookup.kept)..MaxVersion
      BY <3>2, <3>4, <3>6 DEF VersionRange
    <3> QED  BY <3>2, <3>3, <3>7
  <2> QED  BY <1>2, <2>1, <2>2, <2>3, OthersGiveNothing DEF Next, Session
<1>3. GateInv /\ (InRange /\ Remembered) /\ (NothingOld /\ ForgottenIsNotShown) /\ [Next]_vars
          => (NothingOld /\ ForgottenIsNotShown)'
  BY <1>2, NothingOldInductive
<1> QED
  BY <1>1, <1>3, GateAtFirst, GateInductive, SessionInvariant, PTL DEF Spec

-----------------------------------------------------------------------------
(* Induction, and the recursions it shows to be what they say *)

LEMMA LeastExists ==
    ASSUME NEW T \in SUBSET Nat, T # {}
    PROVE  \E x \in T : \A y \in T : x <= y
<1> DEFINE less == {p \in Nat \X Nat : p[1] < p[2]}
<1>1. IsWellFoundedOn(less, Nat)
  <2>1. less = OpToRel(<, Nat)
    BY Zenon DEF OpToRel
  <2> QED  BY <2>1, NatLessThanWellFounded, Zenon
<1>2. PICK x \in T : \A y \in T : <<y, x>> \notin less
  BY <1>1, WFMin
<1>3. ASSUME NEW y \in T PROVE x <= y
  <2>1. <<y, x>> \in Nat \X Nat /\ <<y, x>>[1] = y /\ <<y, x>>[2] = x
    OBVIOUS
  <2>2. ~(y < x)
    BY <1>2, <2>1, Zenon
  <2> QED  BY <2>2
<1> QED  BY <1>3

LEMMA AllNaturals ==
    ASSUME NEW S \in SUBSET Nat, 0 \in S, \A n \in S : n + 1 \in S
    PROVE  S = Nat
<1> SUFFICES ASSUME Nat \ S # {} PROVE FALSE
  OBVIOUS
<1>1. PICK x \in Nat \ S : \A y \in Nat \ S : x <= y
  BY LeastExists
<1>2. x - 1 \in Nat /\ x - 1 \in S
  BY <1>1
<1> QED  BY <1>1, <1>2

\* A sum of finitely many numbers is a number.
TermOf(f, it, s) ==
    IF s = {} THEN 0 ELSE f[CHOOSE x \in s : TRUE] + it[s \ {CHOOSE x \in s : TRUE}]

LEMMA SumUnfolds ==
    ASSUME NEW f
    PROVE  SumFunction(f) = (CHOOSE it : it = [s \in SUBSET DOMAIN f |-> TermOf(f, it, s)])[DOMAIN f]
BY DEF SumFunction, SumFunctionOnSet, FoldFunctionOnSet, MapThenFoldSet, TermOf

LEMMA SumIs ==
    ASSUME NEW f, IsFiniteSet(DOMAIN f), \A x \in DOMAIN f : f[x] \in Int
    PROVE  SumFunction(f) \in Int
<1> DEFINE Dom == DOMAIN f
           Small(n) == {s \in SUBSET Dom : Cardinality(s) <= n}
           Sums(it, n) == \A s \in Small(n) : it[s] = TermOf(f, it, s)
           S == {n \in Nat : \E it \in [Small(n) -> Int] : Sums(it, n)}
<1>1. \A s \in SUBSET Dom : IsFiniteSet(s) /\ Cardinality(s) \in Nat /\ (Cardinality(s) = 0 <=> s = {})
  BY FS_Subset, FS_CardinalityType, FS_EmptySet
<1>2. ASSUME NEW s \in SUBSET Dom, s # {}
      PROVE  LET c == CHOOSE x \in s : TRUE IN
             c \in Dom /\ s \ {c} \in SUBSET Dom /\ Cardinality(s \ {c}) = Cardinality(s) - 1
  BY <1>1, <1>2, FS_RemoveElement
<1>3. 0 \in S
  <2> DEFINE it == [s \in Small(0) |-> 0]
  <2>1. \A s \in Small(0) : s = {}
    BY <1>1
  <2>2. it \in [Small(0) -> Int] /\ Sums(it, 0)
    BY <2>1 DEF TermOf
  <2> QED  BY <2>2
<1>4. ASSUME NEW n \in S PROVE n + 1 \in S
  <2>1. PICK it \in [Small(n) -> Int] : Sums(it, n)
    BY <1>4
  <2> DEFINE more == [s \in Small(n + 1) |-> TermOf(f, it, s)]
  <2>2. ASSUME NEW s \in Small(n + 1), s # {}
        PROVE  /\ s \ {CHOOSE x \in s : TRUE} \in Small(n)
               /\ f[CHOOSE x \in s : TRUE] \in Int
               /\ it[s \ {CHOOSE x \in s : TRUE}] \in Int
    <3>1. s \ {CHOOSE x \in s : TRUE} \in Small(n) /\ (CHOOSE x \in s : TRUE) \in Dom
      BY <1>1, <1>2, <2>2
    <3> QED  BY <2>1, <3>1
  <2>3. more \in [Small(n + 1) -> Int]
    <3>1. ASSUME NEW s \in Small(n + 1) PROVE TermOf(f, it, s) \in Int
      BY <2>2 DEF TermOf
    <3> QED  BY <3>1
  <2>4. ASSUME NEW s \in Small(n) PROVE more[s] = it[s]
    <3>1. s \in Small(n + 1)
      BY <1>1
    <3> QED  BY <2>1, <3>1
  <2>5. ASSUME NEW s \in Small(n + 1) PROVE more[s] = TermOf(f, more, s)
    <3>1. more[s] = TermOf(f, it, s)
      OBVIOUS
    <3>2. s # {} => more[s \ {CHOOSE x \in s : TRUE}] = it[s \ {CHOOSE x \in s : TRUE}]
      BY <2>2, <2>4
    <3> HIDE DEF more
    <3> QED  BY <3>1, <3>2, Zenon DEF TermOf
  <2>6. n + 1 \in Nat
    BY <1>4
  <2> HIDE DEF more, Small
  <2>7. Sums(more, n + 1)
    BY <2>5
  <2> QED  BY <2>3, <2>6, <2>7, Zenon
<1>5. Cardinality(Dom) \in S
  <2>1. S \in SUBSET Nat
    OBVIOUS
  <2> HIDE DEF S
  <2> QED  BY <1>1, <1>3, <1>4, <2>1, AllNaturals
<1>6. Small(Cardinality(Dom)) = SUBSET Dom
  BY <1>1, FS_Subset
<1> DEFINE chosen == CHOOSE it : it = [s \in SUBSET Dom |-> TermOf(f, it, s)]
<1>7. chosen = [s \in SUBSET Dom |-> TermOf(f, chosen, s)]
  <2>1. PICK it \in [SUBSET Dom -> Int] : \A s \in SUBSET Dom : it[s] = TermOf(f, it, s)
    BY <1>5, <1>6
  <2>2. it = [s \in SUBSET Dom |-> TermOf(f, it, s)]
    BY <2>1
  <2> QED  BY <2>2
<1> HIDE DEF chosen
<1> DEFINE T == {n \in Nat : \A s \in Small(n) : chosen[s] \in Int}
<1>8. 0 \in T
  BY <1>1, <1>7 DEF TermOf
<1>9. ASSUME NEW n \in T PROVE n + 1 \in T
  <2>1. ASSUME NEW s \in Small(n + 1), s # {} PROVE chosen[s] \in Int
    <3>1. s \ {CHOOSE x \in s : TRUE} \in Small(n) /\ (CHOOSE x \in s : TRUE) \in Dom
      BY <1>1, <1>2, <2>1
    <3>2. chosen[s \ {CHOOSE x \in s : TRUE}] \in Int
      BY <3>1
    <3> QED  BY <1>7, <2>1, <3>1, <3>2 DEF TermOf
  <2>2. ASSUME NEW s \in Small(n + 1), s = {} PROVE chosen[s] \in Int
    BY <1>7, <2>2 DEF TermOf
  <2> QED  BY <2>1, <2>2
<1>10. Cardinality(Dom) \in T
  <2>1. T \in SUBSET Nat
    OBVIOUS
  <2> HIDE DEF T
  <2> QED  BY <1>1, <1>8, <1>9, <2>1, AllNaturals
<1>11. chosen[Dom] \in Int
  BY <1>6, <1>10
<1> QED  BY <1>11, SumUnfolds DEF chosen

-----------------------------------------------------------------------------
(* Sequences joined, picked from and ranked *)

\* One after the other.
LEMMA ConcatIs ==
    ASSUME NEW s, NEW t, IsSeq(s), IsSeq(t)
    PROVE  /\ IsSeq(s \o t) /\ ToSet(s \o t) = ToSet(s) \cup ToSet(t)
           /\ Len(s \o t) = Len(s) + Len(t)
           /\ \A i \in 1..(Len(s) + Len(t)) :
                (s \o t)[i] = IF i <= Len(s) THEN s[i] ELSE t[i - Len(s)]
<1> DEFINE A == ToSet(s) \cup ToSet(t)
           c == s \o t
           m == Len(s)
           n == Len(t)
<1>1. /\ s \in Seq(A) /\ t \in Seq(A) /\ m \in Nat /\ n \in Nat
      /\ DOMAIN s = 1..m /\ DOMAIN t = 1..n
  BY DEF IsSeq
<1>2. /\ c \in Seq(A) /\ Len(c) = m + n /\ DOMAIN c = 1..(m + n)
      /\ \A i \in 1..(m + n) : c[i] = IF i <= m THEN s[i] ELSE t[i - m]
  BY <1>1
<1> HIDE DEF A, c, m, n
<1>3. \A i \in 1..n : m + i \in 1..(m + n) /\ c[m + i] = t[i]
  BY <1>1, <1>2
<1>4. \A i \in 1..m : i \in 1..(m + n) /\ c[i] = s[i]
  BY <1>1, <1>2
<1>5. \A i \in 1..(m + n) : i <= m \/ i - m \in 1..n
  BY <1>1
<1>6. ToSet(c) \subseteq ToSet(s) \cup ToSet(t)
  <2>1. ASSUME NEW i \in 1..(m + n) PROVE c[i] \in ToSet(s) \cup ToSet(t)
    <3>1. CASE i <= m
      <4>1. i \in DOMAIN s /\ c[i] = s[i]
        BY <1>1, <1>2, <3>1
      <4> QED  BY <4>1 DEF ToSet
    <3>2. CASE ~(i <= m)
      <4>1. i - m \in DOMAIN t /\ c[i] = t[i - m]
        BY <1>1, <1>2, <1>5, <3>2
      <4> QED  BY <4>1 DEF ToSet
    <3> QED  BY <3>1, <3>2
  <2> QED  BY <1>2, <2>1 DEF ToSet
<1>7. ToSet(s) \subseteq ToSet(c) /\ ToSet(t) \subseteq ToSet(c)
  <2>1. \A i \in DOMAIN s : s[i] \in ToSet(c)
    BY <1>1, <1>2, <1>4 DEF ToSet
  <2>2. \A i \in DOMAIN t : t[i] \in ToSet(c)
    BY <1>1, <1>2, <1>3 DEF ToSet
  <2> QED  BY <2>1, <2>2 DEF ToSet
<1>8. c \in Seq(ToSet(c))
  <2>1. c = [i \in 1..(m + n) |-> c[i]] /\ m + n \in Nat
    BY <1>1, <1>2
  <2>2. c \in [1..(m + n) -> ToSet(c)]
    BY <1>2, <2>1 DEF ToSet
  <2> QED  BY <2>1, <2>2
<1> QED  BY <1>2, <1>6, <1>7, <1>8 DEF IsSeq, c, m, n

\* One after the other, of however many.
Joined(ss, it, i) == IF i = 1 THEN ss[i] ELSE it[i - 1] \o ss[i]

LEMMA FlattenUnfolds ==
    ASSUME NEW ss
    PROVE  FlattenSeq(ss) =
               IF Len(ss) = 0 THEN ss
               ELSE (CHOOSE it : it = [i \in 1..Len(ss) |-> Joined(ss, it, i)])[Len(ss)]
BY DEF FlattenSeq, Joined

LEMMA FlattenIs ==
    ASSUME NEW ss, IsSeq(ss), \A i \in DOMAIN ss : IsSeq(ss[i])
    PROVE  /\ IsSeq(FlattenSeq(ss))
           /\ ToSet(FlattenSeq(ss)) = UNION {ToSet(ss[i]) : i \in DOMAIN ss}
<1> DEFINE n == Len(ss)
<1>1. n \in Nat /\ DOMAIN ss = 1..n /\ ss \in Seq(ToSet(ss))
  BY DEF IsSeq
<1>2. CASE n = 0
  <2>1. FlattenSeq(ss) = ss /\ DOMAIN ss = {}
    BY <1>1, <1>2, FlattenUnfolds
  <2> QED  BY <2>1 DEF ToSet
<1>3. CASE n # 0
  <2> HIDE DEF n
  <2> DEFINE Joins(it, k) == it = [i \in 1..k |-> Joined(ss, it, i)]
             S == {k \in Nat : \E it : Joins(it, k)}
             chosen == CHOOSE it : Joins(it, n)
  <2>1. 0 \in S
    <3>1. Joins([i \in 1..0 |-> ss], 0)
      OBVIOUS
    <3> QED  BY <3>1
  <2>2. ASSUME NEW k \in S PROVE k + 1 \in S
    <3>1. PICK it : Joins(it, k)
      BY <2>2
    <3> DEFINE more == [i \in 1..(k + 1) |-> Joined(ss, it, i)]
    <3>2. \A i \in 1..k : more[i] = it[i]
      BY <2>2, <3>1
    <3>3. ASSUME NEW i \in 1..(k + 1) PROVE Joined(ss, it, i) = Joined(ss, more, i)
      <4>1. i = 1 \/ i - 1 \in 1..k
        BY <2>2
      <4> HIDE DEF more
      <4> QED  BY <3>2, <4>1 DEF Joined
    <3>4. Joins(more, k + 1)
      BY <3>3
    <3> HIDE DEF Joins
    <3>5. k + 1 \in Nat
      BY <2>2
    <3> QED  BY <3>4, <3>5, Zenon
  <2>3. n \in S
    <3>1. S \in SUBSET Nat
      OBVIOUS
    <3> HIDE DEF S
    <3> QED  BY <1>1, <2>1, <2>2, <3>1, AllNaturals
  <2>4. Joins(chosen, n)
    BY <2>3, Zenon
  <2>5. FlattenSeq(ss) = chosen[n]
    BY <1>3, FlattenUnfolds DEF n
  <2> HIDE DEF chosen
  <2>6. \A i \in 1..n : chosen[i] = Joined(ss, chosen, i)
    BY <2>4
  <2> DEFINE Whole(k) == /\ IsSeq(chosen[k])
                         /\ ToSet(chosen[k]) = UNION {ToSet(ss[i]) : i \in 1..k}
             T == {k \in Nat : k \in 1..n => Whole(k)}
  <2>7. 0 \in T
    OBVIOUS
  <2>8. ASSUME NEW k \in T PROVE k + 1 \in T
    <3> SUFFICES ASSUME k + 1 \in 1..n PROVE Whole(k + 1)
      BY <2>8
    <3>1. CASE k = 0
      <4>1. chosen[1] = ss[1] /\ 1 \in DOMAIN ss /\ 1..1 = {1}
        BY <1>1, <1>3, <2>6, <3>1 DEF Joined
      <4>2. Whole(1)
        BY <4>1
      <4> HIDE DEF Whole
      <4> QED  BY <3>1, <4>2
    <3>2. CASE k # 0
      <4>1. k \in 1..n /\ k + 1 \in DOMAIN ss /\ k + 1 # 1 /\ (k + 1) - 1 = k
        BY <1>1, <2>8, <3>2
      <4>2. chosen[k + 1] = chosen[k] \o ss[k + 1]
        BY <2>6, <4>1 DEF Joined
      <4>3. Whole(k)
        BY <2>8, <4>1
      <4>4. /\ IsSeq(chosen[k + 1])
            /\ ToSet(chosen[k + 1]) = ToSet(chosen[k]) \cup ToSet(ss[k + 1])
        BY <4>1, <4>2, <4>3, ConcatIs
      <4>5. 1..(k + 1) = (1..k) \cup {k + 1}
        BY <4>1
      <4> HIDE DEF chosen
      <4> QED  BY <4>3, <4>4, <4>5
    <3> QED  BY <3>1, <3>2
  <2>9. Whole(n)
    <3>1. T \in SUBSET Nat /\ n \in 1..n
      BY <1>1, <1>3
    <3> HIDE DEF Whole
    <3>2. T = Nat
      <4> HIDE DEF T
      <4> QED  BY <2>7, <2>8, <3>1, AllNaturals
    <3> QED  BY <1>1, <3>1, <3>2
  <2> QED  BY <1>1, <2>5, <2>9
<1> QED  BY <1>2, <1>3

\* What is drawn of a sequence is its elements, and no two where they were not.
LEMMA DrawnIs ==
    ASSUME NEW s, NEW S \in SUBSET DOMAIN s, NEW t, Drawn(t, s, S)
    PROVE  /\ IsSeq(t) /\ ToSet(t) = {s[i] : i \in S}
           /\ IsInjective(s) => IsInjective(t)
<1>1. PICK n \in Nat : \E at \in Bijection(1..n, S) : t = [k \in 1..n |-> s[at[k]]]
  BY DEF Drawn
<1> PICK at \in Bijection(1..n, S) : t = [k \in 1..n |-> s[at[k]]]
  BY <1>1
<1>2. at \in [1..n -> S] /\ (\A i \in S : \E k \in 1..n : at[k] = i) /\ IsInjective(at)
  BY <1>1 DEF Bijection, Injection, Surjection
<1>3. ToSet(t) = {s[i] : i \in S} /\ DOMAIN t = 1..n
  BY <1>1, <1>2 DEF ToSet
<1>4. t \in [1..n -> ToSet(t)]
  BY <1>1 DEF ToSet
<1>5. ASSUME IsInjective(s), NEW k \in 1..n, NEW m \in 1..n, t[k] = t[m] PROVE k = m
  <2>1. s[at[k]] = s[at[m]] /\ at[k] \in DOMAIN s /\ at[m] \in DOMAIN s
    BY <1>1, <1>2, <1>5
  <2>2. at[k] = at[m]
    BY <1>5, <2>1 DEF IsInjective
  <2> QED  BY <1>2, <2>2 DEF IsInjective
<1>6. IsInjective(s) => IsInjective(t)
  BY <1>3, <1>5 DEF IsInjective
<1> QED  BY <1>3, <1>4, <1>6 DEF IsSeq

\* Pairs of which no two lead to the same node.
OneEach(s) == IsInjective(Others(s))
OthersOf(s) == {p.other : p \in ToSet(s)}

LEMMA DrawnOneEach ==
    ASSUME NEW s, NEW S \in SUBSET DOMAIN s, NEW t, Drawn(t, s, S),
           \A i, j \in S : s[i].other = s[j].other => i = j
    PROVE  OneEach(t)
<1>1. PICK n \in Nat : \E at \in Bijection(1..n, S) : t = [k \in 1..n |-> s[at[k]]]
  BY DEF Drawn
<1> PICK at \in Bijection(1..n, S) : t = [k \in 1..n |-> s[at[k]]]
  BY <1>1
<1>2. at \in [1..n -> S] /\ IsInjective(at)
  BY <1>1 DEF Bijection, Injection
<1>3. DOMAIN Others(t) = 1..n /\ \A k \in 1..n : Others(t)[k] = s[at[k]].other
  BY <1>1 DEF Others
<1>4. ASSUME NEW k \in 1..n, NEW m \in 1..n, Others(t)[k] = Others(t)[m] PROVE k = m
  <2>1. at[k] = at[m]
    BY <1>2, <1>3, <1>4
  <2> QED  BY <1>2, <2>1 DEF IsInjective
<1> QED  BY <1>3, <1>4 DEF OneEach, IsInjective

LEMMA OneEachIs ==
    ASSUME NEW s
    PROVE  /\ OneEach(s) <=> \A i, j \in DOMAIN s : s[i].other = s[j].other => i = j
           /\ OneEach(s) => IsInjective(s)
           /\ OthersOf(s) = {s[i].other : i \in DOMAIN s} /\ OthersOf(s) = ToSet(Others(s))
<1>1. DOMAIN Others(s) = DOMAIN s /\ \A i \in DOMAIN s : Others(s)[i] = s[i].other
  BY DEF Others
<1>2. OneEach(s) <=> \A i, j \in DOMAIN s : s[i].other = s[j].other => i = j
  BY <1>1 DEF OneEach, IsInjective
<1>3. OneEach(s) => IsInjective(s)
  BY <1>2 DEF IsInjective
<1>4. OthersOf(s) = {s[i].other : i \in DOMAIN s} /\ OthersOf(s) = ToSet(Others(s))
  BY <1>1 DEF OthersOf, ToSet
<1> QED  BY <1>2, <1>3, <1>4

LEMMA AsManyOthers ==
    ASSUME NEW s, IsSeq(s), OneEach(s)
    PROVE  Cardinality(OthersOf(s)) = Len(s)
<1> DEFINE n == Len(s)
           o == Others(s)
<1>1. n \in Nat /\ DOMAIN s = 1..n
  BY DEF IsSeq
<1> HIDE DEF n
<1>2. IsFiniteSet(1..n) /\ Cardinality(1..n) = n
  BY <1>1, FS_Interval
<1>3. DOMAIN o = 1..n /\ ToSet(o) = OthersOf(s) /\ o = [i \in 1..n |-> o[i]]
  BY <1>1, OneEachIs DEF Others
<1> HIDE DEF o
<1>4. o \in [1..n -> OthersOf(s)] /\ \A x \in OthersOf(s) : \E i \in 1..n : o[i] = x
  BY <1>3 DEF ToSet
<1>5. o \in Injection(1..n, OthersOf(s)) /\ o \in Surjection(1..n, OthersOf(s))
  BY <1>4 DEF OneEach, Injection, Surjection, o
<1> QED  BY <1>2, <1>5, FS_Surjection DEF n

\* Of what repeats, what comes first.
LEMMA DistinctIs ==
    ASSUME NEW s, IsSeq(s)
    PROVE  /\ IsSeq(Distinct(s)) /\ ToSet(Distinct(s)) = ToSet(s)
           /\ IsInjective(Distinct(s))
<1> DEFINE S == {i \in DOMAIN s : \A j \in 1..(i - 1) : s[j] # s[i]}
           t == Distinct(s)
<1>1. DOMAIN s = 1..Len(s) /\ Len(s) \in Nat /\ S \in SUBSET DOMAIN s
  BY DEF IsSeq
<1>2. Drawn(t, s, S)
  BY <1>1, PickedDraws DEF Distinct
<1>3. ASSUME NEW i \in S, NEW j \in S, s[i] = s[j] PROVE i = j
  <2>1. ~(i < j) /\ ~(j < i)
    <3>1. \A k \in 1..(j - 1) : s[k] # s[j]
      OBVIOUS
    <3>2. \A k \in 1..(i - 1) : s[k] # s[i]
      OBVIOUS
    <3> QED  BY <1>1, <1>3, <3>1, <3>2
  <2> QED  BY <1>1, <2>1
<1>4. ASSUME NEW i \in DOMAIN s PROVE \E j \in S : s[j] = s[i]
  <2> DEFINE T == {j \in DOMAIN s : s[j] = s[i]}
  <2>1. T \in SUBSET Nat /\ T # {}
    BY <1>1
  <2>2. PICK j \in T : \A k \in T : j <= k
    BY <2>1, LeastExists
  <2>3. \A k \in 1..(j - 1) : k \in DOMAIN s /\ k < j
    BY <1>1
  <2>4. \A k \in 1..(j - 1) : s[k] # s[j]
    BY <1>1, <2>2, <2>3
  <2> QED  BY <2>2, <2>4
<1> HIDE DEF S, t
<1>5. IsSeq(t) /\ ToSet(t) = {s[i] : i \in S}
  BY <1>1, <1>2, DrawnIs
<1>6. ToSet(t) = ToSet(s)
  BY <1>1, <1>4, <1>5 DEF ToSet
<1>7. IsInjective(t)
  <2>1. PICK n \in Nat : \E at \in Bijection(1..n, S) : t = [k \in 1..n |-> s[at[k]]]
    BY <1>2 DEF Drawn
  <2> PICK at \in Bijection(1..n, S) : t = [k \in 1..n |-> s[at[k]]]
    BY <2>1
  <2>2. at \in [1..n -> S] /\ IsInjective(at)
    BY <2>1 DEF Bijection, Injection
  <2>3. ASSUME NEW k \in 1..n, NEW m \in 1..n, t[k] = t[m] PROVE k = m
    <3>1. at[k] = at[m]
      BY <1>3, <2>1, <2>2, <2>3
    <3> QED  BY <2>2, <3>1 DEF IsInjective
  <2> QED  BY <2>1, <2>3 DEF IsInjective
<1> QED  BY <1>5, <1>6, <1>7 DEF t

LEMMA FirstOfIs ==
    ASSUME NEW s, IsSeq(s)
    PROVE  /\ IsSeq(FirstOf(s)) /\ ToSet(FirstOf(s)) \subseteq ToSet(s)
           /\ OthersOf(FirstOf(s)) = OthersOf(s) /\ OneEach(FirstOf(s))
<1> DEFINE S == {i \in DOMAIN s : \A j \in 1..(i - 1) : s[j].other # s[i].other}
           t == FirstOf(s)
<1>1. DOMAIN s = 1..Len(s) /\ Len(s) \in Nat /\ S \in SUBSET DOMAIN s
  BY DEF IsSeq
<1>2. Drawn(t, s, S)
  BY <1>1, PickedDraws DEF FirstOf
<1>3. ASSUME NEW i \in S, NEW j \in S, s[i].other = s[j].other PROVE i = j
  <2>1. ~(i < j) /\ ~(j < i)
    <3>1. \A k \in 1..(j - 1) : s[k].other # s[j].other
      OBVIOUS
    <3>2. \A k \in 1..(i - 1) : s[k].other # s[i].other
      OBVIOUS
    <3> QED  BY <1>1, <1>3, <3>1, <3>2
  <2> QED  BY <1>1, <2>1
<1>4. ASSUME NEW i \in DOMAIN s PROVE \E j \in S : s[j].other = s[i].other
  <2> DEFINE T == {j \in DOMAIN s : s[j].other = s[i].other}
  <2>1. T \in SUBSET Nat /\ T # {}
    BY <1>1
  <2>2. PICK j \in T : \A k \in T : j <= k
    BY <2>1, LeastExists
  <2>3. \A k \in 1..(j - 1) : k \in DOMAIN s /\ k < j
    BY <1>1
  <2>4. \A k \in 1..(j - 1) : s[k].other # s[j].other
    BY <1>1, <2>2, <2>3
  <2> QED  BY <2>2, <2>4
<1> HIDE DEF S, t
<1>5. IsSeq(t) /\ ToSet(t) = {s[i] : i \in S}
  BY <1>1, <1>2, DrawnIs
<1>6. OneEach(t)
  BY <1>1, <1>2, <1>3, DrawnOneEach
<1>7. ToSet(t) \subseteq ToSet(s)
  BY <1>1, <1>5 DEF ToSet
<1>8. OthersOf(t) = OthersOf(s)
  <2>1. OthersOf(t) = {s[i].other : i \in S}
    BY <1>5 DEF OthersOf
  <2>2. OthersOf(s) = {s[i].other : i \in DOMAIN s}
    BY OneEachIs
  <2> QED  BY <1>1, <1>4, <2>1, <2>2
<1> QED  BY <1>5, <1>6, <1>7, <1>8 DEF t

-----------------------------------------------------------------------------
(* The links of a node *)

\* Links that a walk can follow, as either of their ends sees them.
Passable(g) == {l \in ToSet(g.links) : l.open /\ {l.source, l.target} \subseteq Known(g)}
OpenPairs(g) == {PairOf(l, way) : l \in Passable(g), way \in Ways}
PairsAt(g, S) == {p \in OpenPairs(g) : p.me \in S}

LEMMA OpenPairsIs ==
    ASSUME NEW g
    PROVE  /\ \A p \in OpenPairs(g) :
                /\ p.me \in Known(g) /\ p.other \in Known(g) /\ Adjacent(g, p.me, p.other)
                /\ p = [me |-> p.me, other |-> p.other, rel |-> p.rel, dir |-> p.dir]
           /\ \A a, b \in Known(g) :
                Adjacent(g, a, b) => \E p \in OpenPairs(g) : p.me = a /\ p.other = b
<1>1. ASSUME NEW l \in Passable(g), NEW way \in Ways
      PROVE  LET p == PairOf(l, way) IN
             /\ p.me \in Known(g) /\ p.other \in Known(g) /\ {p.me, p.other} = {l.source, l.target}
             /\ l \in ToSet(g.links) /\ l.open
             /\ p = [me |-> p.me, other |-> p.other, rel |-> p.rel, dir |-> p.dir]
  BY DEF Passable, PairOf
<1>2. ASSUME NEW p \in OpenPairs(g)
      PROVE  /\ p.me \in Known(g) /\ p.other \in Known(g) /\ Adjacent(g, p.me, p.other)
             /\ p = [me |-> p.me, other |-> p.other, rel |-> p.rel, dir |-> p.dir]
  <2>1. PICK l \in Passable(g), way \in Ways : p = PairOf(l, way)
    BY DEF OpenPairs
  <2> QED  BY <1>1, <2>1 DEF Adjacent
<1>3. ASSUME NEW a \in Known(g), NEW b \in Known(g), Adjacent(g, a, b)
      PROVE  \E p \in OpenPairs(g) : p.me = a /\ p.other = b
  <2>1. PICK l \in ToSet(g.links) : l.open /\ {l.source, l.target} = {a, b}
    BY <1>3 DEF Adjacent
  <2>2. l \in Passable(g)
    BY <2>1 DEF Passable
  <2>3. (l.source = a /\ l.target = b) \/ (l.source = b /\ l.target = a)
    BY <2>1
  <2>4. \E way \in Ways : PairOf(l, way).me = a /\ PairOf(l, way).other = b
    BY <2>3 DEF Ways, PairOf
  <2> QED  BY <2>2, <2>4 DEF OpenPairs
<1> QED  BY <1>2, <1>3

LEMMA PairsOfIs ==
    ASSUME NEW g, IsSeq(g.links), NEW me, NEW way
    PROVE  /\ IsSeq(PairsOf(g, me, way))
           /\ ToSet(PairsOf(g, me, way)) =
                {p \in {PairOf(l, way) : l \in Passable(g)} : p.me = me}
<1> DEFINE S == {i \in DOMAIN g.links :
               /\ g.links[i].open /\ {g.links[i].source, g.links[i].target} \subseteq Known(g)
               /\ PairOf(g.links[i], way).me = me}
           s == [i \in DOMAIN g.links |-> PairOf(g.links[i], way)]
<1>1. DOMAIN g.links = 1..Len(g.links) /\ Len(g.links) \in Nat
  BY DEF IsSeq
<1>2. PairsOf(g, me, way) = Picked(s, S)
  BY DEF PairsOf
<1>3. Passable(g) = {g.links[i] : i \in {i \in DOMAIN g.links :
          g.links[i].open /\ {g.links[i].source, g.links[i].target} \subseteq Known(g)}}
  BY DEF Passable, ToSet
<1>4. {s[i] : i \in S} = {p \in {PairOf(l, way) : l \in Passable(g)} : p.me = me}
  BY <1>3
<1>5. IsSeq(s) /\ S \in SUBSET DOMAIN s
  <2>1. s \in [1..Len(g.links) -> ToSet(s)]
    BY <1>1 DEF ToSet
  <2> QED  BY <1>1, <2>1 DEF IsSeq
<1> HIDE DEF s, S
<1> QED  BY <1>2, <1>4, <1>5, PickedIs

LEMMA NeighboursIs ==
    ASSUME NEW g, IsSeq(g.links), NEW ids, IsSeq(ids)
    PROVE  /\ IsSeq(Neighbours(g, ids)) /\ IsInjective(Neighbours(g, ids))
           /\ ToSet(Neighbours(g, ids)) = PairsAt(g, ToSet(ids))
<1> DEFINE both(me) == PairsOf(g, me, "outgoing") \o PairsOf(g, me, "incoming")
           ss == [i \in DOMAIN ids |-> both(ids[i])]
<1>1. DOMAIN ids = 1..Len(ids) /\ Len(ids) \in Nat
  BY DEF IsSeq
<1>2. ASSUME NEW me PROVE IsSeq(both(me)) /\ ToSet(both(me)) = PairsAt(g, {me})
  <2>1. ToSet(PairsOf(g, me, "outgoing")) \cup ToSet(PairsOf(g, me, "incoming")) = PairsAt(g, {me})
    BY PairsOfIs DEF PairsAt, OpenPairs, Ways
  <2>2. IsSeq(PairsOf(g, me, "outgoing")) /\ IsSeq(PairsOf(g, me, "incoming"))
    BY PairsOfIs
  <2> QED  BY <2>1, <2>2, ConcatIs
<1>3. Neighbours(g, ids) = Distinct(FlattenSeq(ss))
  BY DEF Neighbours
<1> HIDE DEF both
<1>4. IsSeq(ss) /\ DOMAIN ss = DOMAIN ids /\ \A i \in DOMAIN ss : IsSeq(ss[i])
  <2>1. DOMAIN ss = DOMAIN ids /\ \A i \in DOMAIN ss : IsSeq(ss[i])
    BY <1>2
  <2>2. ss \in [1..Len(ids) -> ToSet(ss)]
    BY <1>1 DEF ToSet
  <2> HIDE DEF ss
  <2> QED  BY <1>1, <2>1, <2>2 DEF IsSeq
<1>5. UNION {ToSet(ss[i]) : i \in DOMAIN ss} = PairsAt(g, ToSet(ids))
  <2>1. \A i \in DOMAIN ids : ToSet(ss[i]) = PairsAt(g, {ids[i]})
    BY <1>2
  <2> HIDE DEF ss
  <2> QED  BY <1>4, <2>1 DEF PairsAt, ToSet
<1> HIDE DEF ss
<1>6. IsSeq(FlattenSeq(ss)) /\ ToSet(FlattenSeq(ss)) = PairsAt(g, ToSet(ids))
  BY <1>4, <1>5, FlattenIs
<1> QED  BY <1>3, <1>6, DistinctIs

\* There are no more of them than two for every link.
Core(p) == [me |-> p.me, other |-> p.other, rel |-> p.rel, dir |-> p.dir]
IsPairs(g, s) ==
    /\ IsSeq(s) /\ \A p \in ToSet(s) : Core(p) \in OpenPairs(g)
    /\ \A i, j \in DOMAIN s : Core(s[i]) = Core(s[j]) => i = j

LEMMA PairsAreFew ==
    ASSUME NEW g, IsSeq(g.links), NEW s, IsPairs(g, s)
    PROVE  Len(s) \in Nat /\ Len(s) <= 2 * Len(g.links)
<1> DEFINE m == Len(g.links)
           n == Len(s)
           P == (1..m) \X Ways
           Sees(i, q) == Core(s[i]) = PairOf(g.links[q[1]], q[2])
           from == [i \in 1..n |-> CHOOSE q \in P : Sees(i, q)]
<1>1. m \in Nat /\ DOMAIN g.links = 1..m /\ n \in Nat /\ DOMAIN s = 1..n
  BY DEF IsSeq, IsPairs
<1>2. ASSUME NEW i \in 1..n PROVE \E q \in P : Sees(i, q)
  <2>1. PICK l \in ToSet(g.links), way \in Ways : Core(s[i]) = PairOf(l, way)
    <3>1. Core(s[i]) \in OpenPairs(g)
      BY <1>1 DEF IsPairs, ToSet
    <3> QED  BY <3>1 DEF OpenPairs, Passable
  <2>2. PICK k \in 1..m : g.links[k] = l
    BY <1>1 DEF ToSet
  <2>3. <<k, way>> \in P /\ Sees(i, <<k, way>>)
    BY <2>1, <2>2
  <2> QED  BY <2>3
<1> HIDE DEF Sees
<1>3. from \in [1..n -> P] /\ \A i \in 1..n : Sees(i, from[i])
  BY <1>2
<1> HIDE DEF from
<1>4. ASSUME NEW i \in 1..n, NEW j \in 1..n, from[i] = from[j] PROVE i = j
  <2>1. Core(s[i]) = Core(s[j])
    BY <1>3, <1>4 DEF Sees
  <2> QED  BY <1>1, <2>1 DEF IsPairs
<1>5. from \in Injection(1..n, P)
  BY <1>3, <1>4 DEF Injection, IsInjective
<1> HIDE DEF m, n
<1>6. IsFiniteSet(1..m) /\ Cardinality(1..m) = m /\ Cardinality(1..n) = n
  BY <1>1, FS_Interval
<1>7. IsFiniteSet(Ways) /\ Cardinality(Ways) = 2
  <2>1. IsFiniteSet({"incoming"}) /\ Cardinality({"incoming"}) = 1
    BY FS_Singleton
  <2>2. Ways = {"incoming"} \cup {"outgoing"} /\ "outgoing" \notin {"incoming"}
    BY DEF Ways
  <2> QED  BY <2>1, <2>2, FS_AddElement
<1>8. IsFiniteSet(P) /\ Cardinality(P) = m * 2
  <2>1. IsFiniteSet(P) /\ Cardinality(P) = Cardinality(1..m) * Cardinality(Ways)
    BY <1>6, <1>7, FS_Product, Zenon
  <2> HIDE DEF P
  <2> QED  BY <1>6, <1>7, <2>1
<1>9. Cardinality(1..n) <= Cardinality(P)
  BY <1>5, <1>8, FS_Injection
<1>10. n <= m * 2
  BY <1>6, <1>8, <1>9
<1> QED  BY <1>1, <1>10 DEF m, n

-----------------------------------------------------------------------------
(* What concerns a focus *)

LEMMA RelevanceIs ==
    ASSUME NEW g, NEW members, IsSeq(members), NEW focus, IsFiniteSet(focus),
           \A c \in 1..Len(members) : Rare[Len(members)][c] \in Int
    PROVE  LET scored == Relevance(g, members, focus) IN
           /\ IsSeq(scored) /\ AreNumbers(scored)
           /\ \A r \in ToSet(scored) : r.member \in ToSet(members)
<1> DEFINE n == Len(members)
           part(i) == [w \in SharedBy(g, members[i], focus) |->
                          Rare[n][Cardinality(Sharing(g, members, focus, w))]]
           s == Relevance(g, members, focus)
<1>1. n \in Nat /\ DOMAIN members = 1..n
  BY DEF IsSeq
<1>2. s = [i \in 1..n |-> [member |-> members[i], score |-> SumFunction(part(i))]]
  BY <1>1 DEF Relevance
<1>3. ASSUME NEW i \in 1..n PROVE SumFunction(part(i)) \in Int
  <2>1. IsFiniteSet(SharedBy(g, members[i], focus))
    <3>1. SharedBy(g, members[i], focus) \in SUBSET focus
      BY DEF SharedBy
    <3> QED  BY <3>1, FS_Subset
  <2>2. ASSUME NEW w \in SharedBy(g, members[i], focus)
        PROVE  Rare[n][Cardinality(Sharing(g, members, focus, w))] \in Int
    <3> DEFINE T == Sharing(g, members, focus, w)
    <3>1. T \in SUBSET (1..n) /\ i \in T
      BY <1>1, <2>2 DEF Sharing
    <3> HIDE DEF T, n
    <3>2. IsFiniteSet(1..n) /\ Cardinality(1..n) = n
      BY <1>1, FS_Interval
    <3>3. IsFiniteSet(T) /\ Cardinality(T) <= n
      BY <3>1, <3>2, FS_Subset
    <3>4. Cardinality(T) \in Nat /\ Cardinality(T) # 0
      BY <3>1, <3>3, FS_CardinalityType, FS_EmptySet
    <3>5. Cardinality(T) \in 1..n
      BY <1>1, <3>3, <3>4
    <3> QED  BY <3>5 DEF T, n
  <2>3. DOMAIN part(i) = SharedBy(g, members[i], focus) /\ \A w \in DOMAIN part(i) : part(i)[w] \in Int
    BY <2>2
  <2> HIDE DEF part
  <2> QED  BY <2>1, <2>3, SumIs
<1> HIDE DEF s, part, n
<1>4. DOMAIN s = 1..n /\ \A i \in 1..n : s[i].score \in Int /\ s[i].member = members[i]
  BY <1>2, <1>3
<1>5. IsSeq(s)
  <2>1. s \in [1..n -> ToSet(s)]
    BY <1>2, <1>4 DEF ToSet
  <2> QED  BY <1>1, <2>1 DEF IsSeq
<1>6. AreNumbers(s)
  BY <1>4 DEF AreNumbers
<1>7. \A r \in ToSet(s) : r.member \in ToSet(members)
  BY <1>1, <1>4 DEF ToSet
<1> QED  BY <1>5, <1>6, <1>7 DEF s

\* The members that are chosen are members.
LEMMA RelevantIs ==
    ASSUME NEW g, NEW members, IsSeq(members), NEW focus, IsFiniteSet(focus), NEW k \in Int,
           \A c \in 1..Len(members) : Rare[Len(members)][c] \in Int
    PROVE  LET chosen == Relevant(g, members, focus, k) IN
           IsSeq(chosen) /\ ToSet(chosen) \subseteq ToSet(members)
<1> DEFINE s == Relevance(g, members, focus)
           r == Ranked(s)
           p == Positive(r)
           t == Top(p, k)
<1>1. IsSeq(s) /\ AreNumbers(s) /\ \A x \in ToSet(s) : x.member \in ToSet(members)
  BY RelevanceIs
<1> HIDE DEF s
<1>2. IsSeq(r) /\ ToSet(r) \subseteq ToSet(s)
  BY <1>1, RankedIs
<1> HIDE DEF r
<1>3. IsSeq(p) /\ ToSet(p) \subseteq ToSet(r)
  <2> DEFINE S == {i \in DOMAIN r : r[i].score > 0}
  <2>1. S \in SUBSET DOMAIN r
    OBVIOUS
  <2>2. IsSeq(p) /\ ToSet(p) = {r[i] : i \in S}
    BY <1>2, <2>1, PickedIs DEF Positive
  <2> QED  BY <2>1, <2>2 DEF ToSet
<1> HIDE DEF p
<1>4. IsSeq(t) /\ ToSet(t) \subseteq ToSet(p)
  BY <1>3, TopIs
<1> HIDE DEF t
<1>5. DOMAIN t = 1..Len(t) /\ Len(t) \in Nat
  BY <1>4 DEF IsSeq
<1> DEFINE m == MembersOf(t)
<1>6. DOMAIN m = 1..Len(t) /\ \A i \in DOMAIN m : m[i] = t[i].member
  BY <1>5 DEF MembersOf
<1>7. m \in [1..Len(t) -> ToSet(m)]
  BY <1>5 DEF MembersOf, ToSet
<1>8. IsSeq(m)
  BY <1>5, <1>7 DEF IsSeq
<1>9. \A i \in DOMAIN m : m[i] \in ToSet(members)
  <2>1. \A i \in DOMAIN t : t[i] \in ToSet(s)
    BY <1>2, <1>3, <1>4 DEF ToSet
  <2> QED  BY <1>1, <1>5, <1>6, <2>1
<1>10. ToSet(m) \subseteq ToSet(members)
  BY <1>9 DEF ToSet
<1>11. Relevant(g, members, focus, k) = m
  BY DEF Relevant, s, r, p, t
<1> QED  BY <1>8, <1>10, <1>11

\* What may be asked of rarities of a graph's links.
RaresOf(g) == \A n \in 1..(2 * Len(g.links)) : \A c \in 1..n : Rare[n][c] \in Int

LEMMA RelevantPairs ==
    ASSUME NEW g, IsSeq(g.links), RaresOf(g), NEW members, IsPairs(g, members),
           NEW focus, IsFiniteSet(focus), NEW k \in Int
    PROVE  LET chosen == Relevant(g, members, focus, k) IN
           IsSeq(chosen) /\ ToSet(chosen) \subseteq ToSet(members)
<1>1. IsSeq(members) /\ Len(members) \in Nat /\ Len(members) <= 2 * Len(g.links)
  BY PairsAreFew DEF IsPairs
<1>2. Len(g.links) \in Nat
  BY DEF IsSeq
<1>3. ASSUME NEW c \in 1..Len(members) PROVE Rare[Len(members)][c] \in Int
  <2>1. Len(members) \in 1..(2 * Len(g.links))
    BY <1>1, <1>2
  <2> QED  BY <2>1 DEF RaresOf
<1> QED  BY <1>1, <1>3, RelevantIs

-----------------------------------------------------------------------------
(* One hop of a recall *)

\* What a hop finds and follows, and what hubs would flood it with.
Newly(g, w, hop) ==
    Along(FirstOf(Brought(g, w, hop, Neighbours(g, w.frontier), FALSE)), hop)
Flood(g, w, hop) == Brought(g, w, hop, Neighbours(g, w.frontier), TRUE)

\* What is live, not seen yet and one open link from where the walk stands.
NextTo(g, w) == {n \in Live(g) \ w.seen : \E m \in ToSet(w.frontier) : Adjacent(g, m, n)}

BringsJust(g, w, hop, pairs, byHub) ==
    LET b == Brought(g, w, hop, pairs, byHub) IN
    /\ IsSeq(b) /\ IsInjective(b)
    /\ ToSet(b) = {p \in ToSet(pairs) :
            IsHub(pairs, p.me, hop) = byHub /\ p.other \in Live(g) \ w.seen}

LEMMA BroughtIs ==
    ASSUME NEW g, NEW w, NEW hop, NEW pairs, IsSeq(pairs), IsInjective(pairs), NEW byHub
    PROVE  BringsJust(g, w, hop, pairs, byHub)
<1> DEFINE Bring(p) == IsHub(pairs, p.me, hop) = byHub /\ p.other \in Live(g) \ w.seen
           S == {i \in DOMAIN pairs : Bring(pairs[i])}
           b == Brought(g, w, hop, pairs, byHub)
<1>1. b = Picked(pairs, S)
  BY DEF Brought
<1> HIDE DEF Bring, b
<1>2. S \in SUBSET DOMAIN pairs
  OBVIOUS
<1>3. Drawn(b, pairs, S)
  BY <1>1, <1>2, PickedDraws
<1>4. IsSeq(b) /\ ToSet(b) = {pairs[i] : i \in S} /\ IsInjective(b)
  <2> HIDE DEF S
  <2> QED  BY <1>2, <1>3, DrawnIs
<1>5. {pairs[i] : i \in S} = {p \in ToSet(pairs) : Bring(p)}
  BY DEF ToSet
<1> QED  BY <1>4, <1>5 DEF b, Bring, BringsJust

LEMMA AlongIs ==
    ASSUME NEW g, NEW s, IsSeq(s), OneEach(s), ToSet(s) \subseteq OpenPairs(g), NEW hop
    PROVE  LET t == Along(s, hop) IN
           /\ IsPairs(g, t) /\ OneEach(t) /\ OthersOf(t) = OthersOf(s)
           /\ \A p \in ToSet(t) :
                /\ \E q \in ToSet(s) : p.me = q.me /\ p.other = q.other
                /\ p.via = IF hop > 1 THEN p.me ELSE None
<1> DEFINE t == Along(s, hop)
<1>1. DOMAIN s = 1..Len(s) /\ Len(s) \in Nat /\ DOMAIN t = DOMAIN s
  BY DEF IsSeq, Along
<1>2. ASSUME NEW k \in DOMAIN s
      PROVE  /\ t[k].me = s[k].me /\ t[k].other = s[k].other
             /\ t[k].via = IF hop > 1 THEN t[k].me ELSE None
             /\ Core(t[k]) = Core(s[k]) /\ Core(s[k]) = s[k]
  <2>1. /\ t[k].me = s[k].me /\ t[k].other = s[k].other
        /\ t[k].via = IF hop > 1 THEN t[k].me ELSE None
        /\ t[k].rel = s[k].rel /\ t[k].dir = s[k].dir
    BY DEF Along
  <2>2. s[k] \in OpenPairs(g)
    BY DEF ToSet
  <2>3. Core(s[k]) = s[k]
    BY <2>2, OpenPairsIs DEF Core
  <2> HIDE DEF t
  <2> QED  BY <2>1, <2>3 DEF Core
<1>3. IsSeq(t)
  <2>1. t \in [1..Len(s) -> ToSet(t)]
    BY <1>1 DEF ToSet, Along
  <2> QED  BY <1>1, <2>1 DEF IsSeq
<1> HIDE DEF t
<1>4. OneEach(t) /\ OthersOf(t) = OthersOf(s)
  <2>1. OneEach(t) <=> \A i, j \in DOMAIN t : t[i].other = t[j].other => i = j
    BY OneEachIs, Zenon
  <2>2. \A i, j \in DOMAIN s : s[i].other = s[j].other => i = j
    BY OneEachIs, Zenon
  <2>3. OthersOf(t) = {t[i].other : i \in DOMAIN t} /\ OthersOf(s) = {s[i].other : i \in DOMAIN s}
    BY OneEachIs, Zenon
  <2> QED  BY <1>1, <1>2, <2>1, <2>2, <2>3
<1>5. \A p \in ToSet(t) : \E k \in DOMAIN s : p = t[k]
  BY <1>1 DEF ToSet
<1>6. \A k \in DOMAIN s : s[k] \in ToSet(s) /\ s[k] \in OpenPairs(g)
  BY DEF ToSet
<1>7. \A p \in ToSet(t) :
        /\ \E q \in ToSet(s) : p.me = q.me /\ p.other = q.other
        /\ p.via = IF hop > 1 THEN p.me ELSE None
        /\ Core(p) \in OpenPairs(g)
  BY <1>2, <1>5, <1>6
<1>8. ASSUME NEW i \in DOMAIN t, NEW j \in DOMAIN t, Core(t[i]) = Core(t[j]) PROVE i = j
  <2>1. t[i].other = t[j].other
    BY <1>8 DEF Core
  <2> QED  BY <1>4, <2>1, OneEachIs
<1>9. IsPairs(g, t)
  BY <1>3, <1>7, <1>8 DEF IsPairs
<1> QED  BY <1>4, <1>7, <1>9 DEF t

LEMMA HopFinds ==
    ASSUME NEW g, IsSeq(g.links), NEW w, IsSeq(w.frontier), ToSet(w.frontier) \subseteq Known(g),
           NEW hop
    PROVE  /\ IsPairs(g, Newly(g, w, hop)) /\ OneEach(Newly(g, w, hop))
           /\ OthersOf(Newly(g, w, hop)) \subseteq NextTo(g, w)
           /\ \A p \in ToSet(Newly(g, w, hop)) :
                p.me \in ToSet(w.frontier) /\ p.via = IF hop > 1 THEN p.me ELSE None
           /\ IsPairs(g, Flood(g, w, hop))
           /\ \A p \in ToSet(Flood(g, w, hop)) : p.me \in ToSet(w.frontier) /\ p.other \in NextTo(g, w)
           /\ ~(hop > 1) => ToSet(Flood(g, w, hop)) = {}
           /\ ToSet(Flood(g, w, hop)) = {} => OthersOf(Newly(g, w, hop)) = NextTo(g, w)
<1> DEFINE pairs == Neighbours(g, w.frontier)
           at == ToSet(w.frontier)
           calm == Brought(g, w, hop, pairs, FALSE)
           flood == Brought(g, w, hop, pairs, TRUE)
           first == FirstOf(calm)
           New(p) == p.other \in Live(g) \ w.seen
           Hub(p) == IsHub(pairs, p.me, hop)
<1>1. IsSeq(pairs) /\ IsInjective(pairs) /\ ToSet(pairs) = PairsAt(g, at)
  BY NeighboursIs
<1>2. Newly(g, w, hop) = Along(first, hop) /\ Flood(g, w, hop) = flood
  BY DEF Newly, Flood
<1> HIDE DEF pairs
<1>3. /\ IsSeq(calm) /\ IsInjective(calm) /\ IsSeq(flood) /\ IsInjective(flood)
      /\ ToSet(calm) = {p \in PairsAt(g, at) : Hub(p) = FALSE /\ New(p)}
      /\ ToSet(flood) = {p \in PairsAt(g, at) : Hub(p) = TRUE /\ New(p)}
  <2>1. /\ IsSeq(calm) /\ IsInjective(calm)
        /\ ToSet(calm) = {p \in ToSet(pairs) : Hub(p) = FALSE /\ New(p)}
    <3>1. BringsJust(g, w, hop, pairs, FALSE)
      BY <1>1, BroughtIs, Zenon
    <3> QED  BY <3>1, Zenon DEF BringsJust
  <2>2. /\ IsSeq(flood) /\ IsInjective(flood)
        /\ ToSet(flood) = {p \in ToSet(pairs) : Hub(p) = TRUE /\ New(p)}
    <3>1. BringsJust(g, w, hop, pairs, TRUE)
      BY <1>1, BroughtIs, Zenon
    <3> QED  BY <3>1, Zenon DEF BringsJust
  <2> HIDE DEF calm, flood, Hub, New
  <2> QED  BY <1>1, <2>1, <2>2
<1>4. \A p \in PairsAt(g, at) : Hub(p) = FALSE \/ Hub(p) = TRUE
  BY DEF IsHub
<1>5. ~(hop > 1) => \A p : Hub(p) # TRUE
  BY DEF IsHub
<1> HIDE DEF calm, flood, Hub
<1>6. /\ IsSeq(first) /\ ToSet(first) \subseteq ToSet(calm)
      /\ OthersOf(first) = OthersOf(calm) /\ OneEach(first)
  BY <1>3, FirstOfIs
<1> HIDE DEF first
<1>7. \A p \in PairsAt(g, at) :
        /\ p \in OpenPairs(g) /\ p.me \in at /\ Core(p) = p
        /\ New(p) => p.other \in NextTo(g, w)
  BY OpenPairsIs DEF PairsAt, Core, NextTo
<1>8. \A n \in NextTo(g, w) : \E p \in PairsAt(g, at) : p.other = n /\ New(p)
  <2>1. ASSUME NEW n \in NextTo(g, w) PROVE \E p \in PairsAt(g, at) : p.other = n /\ New(p)
    <3>1. PICK m \in at : Adjacent(g, m, n)
      BY DEF NextTo
    <3>2. n \in Known(g) /\ m \in Known(g) /\ n \in Live(g) \ w.seen
      BY DEF NextTo, Live, Known
    <3>3. PICK p \in OpenPairs(g) : p.me = m /\ p.other = n
      BY <3>1, <3>2, OpenPairsIs
    <3> QED  BY <3>1, <3>2, <3>3 DEF PairsAt
  <2> QED  BY <2>1
<1>9. ToSet(first) \subseteq OpenPairs(g)
  BY <1>3, <1>6, <1>7
<1> HIDE DEF New
<1> DEFINE found == Along(first, hop)
<1>10. /\ IsPairs(g, found) /\ OneEach(found) /\ OthersOf(found) = OthersOf(first)
       /\ \A p \in ToSet(found) :
            /\ \E q \in ToSet(first) : p.me = q.me /\ p.other = q.other
            /\ p.via = IF hop > 1 THEN p.me ELSE None
  BY <1>6, <1>9, AlongIs
<1> HIDE DEF found
<1>11. OthersOf(found) \subseteq NextTo(g, w)
  BY <1>3, <1>6, <1>7, <1>10 DEF OthersOf
<1>12. \A p \in ToSet(found) : p.me \in at
  BY <1>3, <1>6, <1>7, <1>10
<1>13. IsPairs(g, flood)
  <2>1. \A p \in ToSet(flood) : Core(p) = p /\ p \in OpenPairs(g)
    BY <1>3, <1>7
  <2>2. \A i \in DOMAIN flood : flood[i] \in ToSet(flood)
    BY DEF ToSet
  <2>3. ASSUME NEW i \in DOMAIN flood, NEW j \in DOMAIN flood, Core(flood[i]) = Core(flood[j])
        PROVE  i = j
    BY <1>3, <2>1, <2>2, <2>3 DEF IsInjective
  <2> QED  BY <1>3, <2>1, <2>3 DEF IsPairs
<1>14. \A p \in ToSet(flood) : p.me \in at /\ p.other \in NextTo(g, w)
  BY <1>3, <1>7
<1>15. ~(hop > 1) => ToSet(flood) = {}
  BY <1>3, <1>5
<1>16. ASSUME ToSet(flood) = {} PROVE NextTo(g, w) \subseteq OthersOf(found)
  <2>1. ASSUME NEW n \in NextTo(g, w) PROVE n \in OthersOf(calm)
    <3>1. PICK p \in PairsAt(g, at) : p.other = n /\ New(p)
      BY <1>8
    <3>2. p \in ToSet(calm)
      BY <1>3, <1>4, <1>16, <3>1
    <3> QED  BY <3>1, <3>2 DEF OthersOf
  <2> QED  BY <1>6, <1>10, <2>1
<1>17. found = Newly(g, w, hop) /\ flood = Flood(g, w, hop)
  BY <1>2 DEF found
<1> QED  BY <1>10, <1>11, <1>12, <1>13, <1>14, <1>15, <1>16, <1>17

LEMMA ConcatOneEach ==
    ASSUME NEW s, NEW t, IsSeq(s), IsSeq(t), OneEach(s), OneEach(t), OthersOf(s) \cap OthersOf(t) = {}
    PROVE  OneEach(s \o t) /\ OthersOf(s \o t) = OthersOf(s) \cup OthersOf(t)
<1> DEFINE m == Len(s)
           n == Len(t)
           c == s \o t
<1>1. m \in Nat /\ n \in Nat /\ DOMAIN s = 1..m /\ DOMAIN t = 1..n
  BY DEF IsSeq
<1>2. /\ IsSeq(c) /\ ToSet(c) = ToSet(s) \cup ToSet(t) /\ Len(c) = m + n
      /\ \A i \in 1..(m + n) : c[i] = IF i <= m THEN s[i] ELSE t[i - m]
  BY ConcatIs
<1>3. DOMAIN c = 1..(m + n)
  BY <1>2 DEF IsSeq
<1> HIDE DEF m, n, c
<1>4. OthersOf(c) = OthersOf(s) \cup OthersOf(t)
  BY <1>2 DEF OthersOf
<1>5. /\ \A i \in 1..m : s[i].other \in OthersOf(s)
      /\ \A i \in 1..n : t[i].other \in OthersOf(t)
  BY <1>1 DEF OthersOf, ToSet
<1>6. /\ \A i, j \in DOMAIN s : s[i].other = s[j].other => i = j
      /\ \A i, j \in DOMAIN t : t[i].other = t[j].other => i = j
  BY OneEachIs, Zenon
<1>7. ASSUME NEW i \in 1..(m + n), NEW j \in 1..(m + n), c[i].other = c[j].other PROVE i = j
  <2>1. \/ i \in 1..m /\ c[i] = s[i]
        \/ i - m \in 1..n /\ c[i] = t[i - m] /\ ~(i <= m)
    BY <1>1, <1>2
  <2>2. \/ j \in 1..m /\ c[j] = s[j]
        \/ j - m \in 1..n /\ c[j] = t[j - m] /\ ~(j <= m)
    BY <1>1, <1>2
  <2>3. CASE i \in 1..m /\ c[i] = s[i]
    <3>1. j \in 1..m /\ c[j] = s[j]
      BY <1>5, <1>7, <2>2, <2>3
    <3> QED  BY <1>1, <1>6, <1>7, <2>3, <3>1
  <2>4. CASE i - m \in 1..n /\ c[i] = t[i - m]
    <3>1. j - m \in 1..n /\ c[j] = t[j - m]
      BY <1>5, <1>7, <2>2, <2>4
    <3>2. i - m = j - m
      BY <1>1, <1>6, <1>7, <2>4, <3>1
    <3> QED  BY <1>1, <3>2
  <2> QED  BY <2>1, <2>3, <2>4
<1>8. OneEach(c)
  BY <1>3, <1>7, OneEachIs
<1> QED  BY <1>4, <1>8 DEF c

LEMMA ConcatPairs ==
    ASSUME NEW g, NEW s, NEW t, IsPairs(g, s), IsPairs(g, t),
           \A p \in ToSet(s), q \in ToSet(t) : p.me # q.me
    PROVE  IsPairs(g, s \o t)
<1> DEFINE m == Len(s)
           n == Len(t)
           c == s \o t
<1>1. /\ m \in Nat /\ n \in Nat /\ DOMAIN s = 1..m /\ DOMAIN t = 1..n /\ IsSeq(s) /\ IsSeq(t)
  BY DEF IsSeq, IsPairs
<1>2. /\ IsSeq(c) /\ ToSet(c) = ToSet(s) \cup ToSet(t) /\ Len(c) = m + n
      /\ \A i \in 1..(m + n) : c[i] = IF i <= m THEN s[i] ELSE t[i - m]
  BY <1>1, ConcatIs
<1>3. DOMAIN c = 1..(m + n)
  BY <1>2 DEF IsSeq
<1> HIDE DEF m, n, c
<1>4. /\ \A i \in 1..m : s[i] \in ToSet(s)
      /\ \A i \in 1..n : t[i] \in ToSet(t)
  BY <1>1 DEF ToSet
<1>5. \A p \in ToSet(s), q \in ToSet(t) : Core(p) # Core(q)
  BY DEF Core
<1>6. /\ \A i, j \in DOMAIN s : Core(s[i]) = Core(s[j]) => i = j
      /\ \A i, j \in DOMAIN t : Core(t[i]) = Core(t[j]) => i = j
  BY DEF IsPairs
<1>7. ASSUME NEW i \in 1..(m + n), NEW j \in 1..(m + n), Core(c[i]) = Core(c[j]) PROVE i = j
  <2>1. \/ i \in 1..m /\ c[i] = s[i]
        \/ i - m \in 1..n /\ c[i] = t[i - m] /\ ~(i <= m)
    BY <1>1, <1>2
  <2>2. \/ j \in 1..m /\ c[j] = s[j]
        \/ j - m \in 1..n /\ c[j] = t[j - m] /\ ~(j <= m)
    BY <1>1, <1>2
  <2>3. CASE i \in 1..m /\ c[i] = s[i]
    <3>1. j \in 1..m /\ c[j] = s[j]
      BY <1>4, <1>5, <1>7, <2>2, <2>3
    <3> QED  BY <1>1, <1>6, <1>7, <2>3, <3>1
  <2>4. CASE i - m \in 1..n /\ c[i] = t[i - m]
    <3>1. j - m \in 1..n /\ c[j] = t[j - m]
      BY <1>4, <1>5, <1>7, <2>2, <2>4
    <3>2. i - m = j - m
      BY <1>1, <1>6, <1>7, <2>4, <3>1
    <3> QED  BY <1>1, <3>2
  <2> QED  BY <2>1, <2>3, <2>4
<1>8. \A p \in ToSet(c) : Core(p) \in OpenPairs(g)
  BY <1>2 DEF IsPairs
<1> QED  BY <1>2, <1>3, <1>7, <1>8 DEF IsPairs, c

LEMMA FollowIs ==
    ASSUME NEW g, IsSeq(g.links), RaresOf(g), NEW found, IsPairs(g, found),
           NEW about, IsFiniteSet(about), Beam \in Int
    PROVE  LET followed == Follow(g, found, about) IN
           /\ IsSeq(followed) /\ ToSet(followed) \subseteq ToSet(found)
           /\ Len(found) <= Beam => followed = found
BY RelevantPairs DEF Follow, IsPairs

\* A graph that can be walked from a node, and what holds wherever the walk gets.
Walkable(g, id, about) ==
    /\ IsSeq(g.links) /\ RaresOf(g) /\ id \in Known(g) /\ None \notin Known(g)
    /\ IsFiniteSet(about) /\ Beam \in Int

Walked(g, id, w) ==
    /\ IsSeq(w.linked) /\ OneEach(w.linked) /\ OthersOf(w.linked) \subseteq Live(g) \ {id}
    /\ w.seen = {id} \cup OthersOf(w.linked)
    /\ IsSeq(w.frontier) /\ ToSet(w.frontier) \subseteq w.seen
    /\ IsPairs(g, w.hubs) /\ \A p \in ToSet(w.hubs) : p.me \in w.seen \ ToSet(w.frontier)

LEMMA HopIs ==
    ASSUME NEW g, NEW about, NEW w, NEW hop
    PROVE  LET v == Hop(g, about, w, hop) IN
           /\ v.seen = w.seen \cup OthersOf(Newly(g, w, hop))
           /\ v.linked = w.linked \o Newly(g, w, hop)
           /\ v.hubs = w.hubs \o Flood(g, w, hop)
           /\ v.frontier = Others(Follow(g, Newly(g, w, hop), about))
<1>1. Hop(g, about, w, hop) = Reached(g, about, w, Newly(g, w, hop), Flood(g, w, hop))
  BY DEF Hop, HopAlong, Newly, Flood
<1>2. OthersOf(Newly(g, w, hop)) = ToSet(Others(Newly(g, w, hop)))
  BY OneEachIs, Zenon
<1> QED  BY <1>1, <1>2 DEF Reached

LEMMA OthersIs ==
    ASSUME NEW s, IsSeq(s)
    PROVE  IsSeq(Others(s)) /\ ToSet(Others(s)) = OthersOf(s)
<1>1. DOMAIN s = 1..Len(s) /\ Len(s) \in Nat
  BY DEF IsSeq
<1>2. Others(s) \in [1..Len(s) -> ToSet(Others(s))]
  BY <1>1 DEF Others, ToSet
<1>3. ToSet(Others(s)) = OthersOf(s)
  BY OneEachIs, Zenon
<1> QED  BY <1>1, <1>2, <1>3 DEF IsSeq

LEMMA HopKeeps ==
    ASSUME NEW g, NEW id, NEW about, Walkable(g, id, about), NEW w, Walked(g, id, w), NEW hop
    PROVE  Walked(g, id, Hop(g, about, w, hop))
<1> DEFINE v == Hop(g, about, w, hop)
           found == Newly(g, w, hop)
           flood == Flood(g, w, hop)
           followed == Follow(g, found, about)
<1>1. Live(g) \subseteq Known(g)
  BY DEF Live, Known
<1>2. w.seen \subseteq Known(g) /\ ToSet(w.frontier) \subseteq Known(g) /\ id \in w.seen
  BY <1>1 DEF Walked, Walkable
<1>3. /\ IsPairs(g, found) /\ OneEach(found) /\ OthersOf(found) \subseteq NextTo(g, w)
      /\ IsPairs(g, flood)
      /\ \A p \in ToSet(flood) : p.me \in ToSet(w.frontier) /\ p.other \in NextTo(g, w)
  <2>1. IsSeq(g.links) /\ IsSeq(w.frontier)
    BY DEF Walkable, Walked
  <2> QED  BY <1>2, <2>1, HopFinds
<1>4. /\ v.seen = w.seen \cup OthersOf(found) /\ v.linked = w.linked \o found
      /\ v.hubs = w.hubs \o flood /\ v.frontier = Others(followed)
  BY HopIs
<1>5. NextTo(g, w) \subseteq Live(g) \ w.seen
  BY DEF NextTo
<1>6. IsSeq(followed) /\ ToSet(followed) \subseteq ToSet(found)
  <2> HIDE DEF found
  <2> QED  BY <1>3, FollowIs DEF Walkable
<1> HIDE DEF v, found, flood, followed
<1>7. IsSeq(v.linked) /\ OneEach(v.linked) /\ OthersOf(v.linked) = OthersOf(w.linked) \cup OthersOf(found)
  <2>1. IsSeq(w.linked) /\ OneEach(w.linked) /\ OthersOf(w.linked) \subseteq w.seen
    BY DEF Walked
  <2>2. IsSeq(found) /\ OthersOf(w.linked) \cap OthersOf(found) = {}
    BY <1>3, <1>5, <2>1 DEF IsPairs
  <2> QED  BY <1>3, <1>4, <2>1, <2>2, ConcatIs, ConcatOneEach
<1>8. OthersOf(v.linked) \subseteq Live(g) \ {id} /\ v.seen = {id} \cup OthersOf(v.linked)
  BY <1>2, <1>3, <1>4, <1>5, <1>7 DEF Walked
<1>9. IsSeq(v.frontier) /\ ToSet(v.frontier) \subseteq OthersOf(found)
  BY <1>4, <1>6, OthersIs DEF OthersOf
<1>10. IsPairs(g, v.hubs) /\ ToSet(v.hubs) = ToSet(w.hubs) \cup ToSet(flood)
  <2>1. IsPairs(g, w.hubs) /\ \A p \in ToSet(w.hubs) : p.me \notin ToSet(w.frontier)
    BY DEF Walked
  <2>2. IsSeq(w.hubs) /\ IsSeq(flood)
    BY <1>3, <2>1 DEF IsPairs
  <2> QED  BY <1>3, <1>4, <2>1, <2>2, ConcatIs, ConcatPairs
<1>11. \A p \in ToSet(v.hubs) : p.me \in v.seen \ ToSet(v.frontier)
  <2>1. \A p \in ToSet(v.hubs) : p.me \in w.seen
    BY <1>3, <1>10 DEF Walked
  <2>2. ToSet(v.frontier) \cap w.seen = {}
    BY <1>3, <1>5, <1>9
  <2> QED  BY <1>4, <2>1, <2>2
<1>12. ToSet(v.frontier) \subseteq v.seen
  BY <1>4, <1>9
<1>13. Walked(g, id, v)
  BY <1>7, <1>8, <1>9, <1>10, <1>11, <1>12 DEF Walked
<1> QED  BY <1>13 DEF v

-----------------------------------------------------------------------------
(* The walk of a recall *)

Step(g, id, about, walk, h) ==
    IF h = 0 THEN AtNode(id) ELSE Hop(g, about, walk[h - 1], h)

LEMMA WalkUnfolds ==
    ASSUME NEW g, NEW id, NEW depth, NEW about
    PROVE  Walk(g, id, depth, about) =
               (CHOOSE walk : walk = [h \in 0..Hops(depth) |-> Step(g, id, about, walk, h)])[Hops(depth)]
BY DEF Walk, Step

\* The walk starts at the node and takes its hops one by one.
IsWalk(g, id, depth, about, walk) ==
    /\ Walk(g, id, depth, about) = walk[Hops(depth)] /\ walk[0] = AtNode(id)
    /\ \A h \in 1..Hops(depth) : walk[h] = Hop(g, about, walk[h - 1], h)

LEMMA WalkIs ==
    ASSUME NEW g, NEW id, NEW depth \in Int, NEW about
    PROVE  \E walk : IsWalk(g, id, depth, about, walk)
<1> DEFINE n == Hops(depth)
           Steps(walk, k) == walk = [h \in 0..k |-> Step(g, id, about, walk, h)]
           S == {k \in Nat : \E walk : Steps(walk, k)}
           chosen == CHOOSE walk : Steps(walk, n)
<1>1. n \in Nat /\ n >= 1
  BY DEF Hops
<1>2. 0 \in S
  <2> DEFINE walk == [h \in 0..0 |-> AtNode(id)]
  <2>1. \A h \in 0..0 : h = 0
    OBVIOUS
  <2>2. Steps(walk, 0)
    BY <2>1 DEF Step
  <2> QED  BY <2>2
<1>3. ASSUME NEW k \in S PROVE k + 1 \in S
  <2>1. PICK walk : Steps(walk, k)
    BY <1>3
  <2> DEFINE more == [h \in 0..(k + 1) |-> Step(g, id, about, walk, h)]
  <2>2. \A h \in 0..k : more[h] = walk[h]
    BY <1>3, <2>1
  <2>3. ASSUME NEW h \in 0..(k + 1) PROVE Step(g, id, about, walk, h) = Step(g, id, about, more, h)
    <3>1. h = 0 \/ h - 1 \in 0..k
      BY <1>3
    <3> HIDE DEF more
    <3> QED  BY <2>2, <3>1 DEF Step
  <2>4. Steps(more, k + 1)
    BY <2>3
  <2> HIDE DEF Steps
  <2>5. k + 1 \in Nat
    BY <1>3
  <2> QED  BY <2>4, <2>5, Zenon
<1>4. n \in S
  <2>1. S \in SUBSET Nat
    OBVIOUS
  <2> HIDE DEF S
  <2> QED  BY <1>1, <1>2, <1>3, <2>1, AllNaturals
<1>5. Steps(chosen, n)
  BY <1>4, Zenon
<1>6. Walk(g, id, depth, about) = chosen[n]
  BY WalkUnfolds
<1> HIDE DEF chosen, n
<1>7. \A h \in 0..n : chosen[h] = Step(g, id, about, chosen, h)
  BY <1>5
<1>8. chosen[0] = AtNode(id) /\ \A h \in 1..n : chosen[h] = Hop(g, about, chosen[h - 1], h)
  BY <1>1, <1>7 DEF Step
<1> QED  BY <1>6, <1>8 DEF n, IsWalk

\* Who is one open link away from a node.
NextDoor(g, id) == {n \in Live(g) \ {id} : Adjacent(g, id, n)}
DirectOf(w) == {p \in ToSet(w.linked) : p.via = None}
OthersIn(S) == {p.other : p \in S}

LEMMA AtNodeIs ==
    ASSUME NEW g, NEW id
    PROVE  /\ Walked(g, id, AtNode(id)) /\ NextTo(g, AtNode(id)) = NextDoor(g, id)
           /\ ToSet(AtNode(id).linked) = {} /\ ToSet(AtNode(id).hubs) = {}
<1> DEFINE w == AtNode(id)
<1>1. /\ w.seen = {id} /\ w.linked = <<>> /\ w.hubs = <<>> /\ w.frontier = <<id>>
  BY DEF AtNode
<1>2. IsSeq(<<>>) /\ ToSet(<<>>) = {}
  BY NoneIsSeq
<1>3. IsSeq(<<id>>) /\ ToSet(<<id>>) = {id}
  BY DEF IsSeq, ToSet
<1>4. OthersOf(<<>>) = {}
  BY <1>2 DEF OthersOf
<1>5. OneEach(<<>>)
  BY DEF OneEach, IsInjective, Others
<1>6. IsPairs(g, <<>>)
  BY <1>2 DEF IsPairs
<1>7. Walked(g, id, w)
  BY <1>1, <1>2, <1>3, <1>4, <1>5, <1>6 DEF Walked
<1>8. NextTo(g, w) = NextDoor(g, id)
  BY <1>1, <1>3 DEF NextTo, NextDoor
<1> QED  BY <1>1, <1>2, <1>7, <1>8

\* The first hop finds just the neighbours, by no hub and via none; it follows them all
\* where they are few.
LEMMA FirstHopIs ==
    ASSUME NEW g, NEW id, NEW about, Walkable(g, id, about)
    PROVE  LET w == Hop(g, about, AtNode(id), 1) IN
           /\ OthersIn(DirectOf(w)) = NextDoor(g, id) /\ DirectOf(w) = ToSet(w.linked)
           /\ ToSet(w.hubs) = {} /\ w.seen = {id} \cup NextDoor(g, id)
           /\ ToSet(w.frontier) \subseteq NextDoor(g, id)
           /\ Cardinality(NextDoor(g, id)) <= Beam => ToSet(w.frontier) = NextDoor(g, id)
<1> DEFINE o == AtNode(id)
           found == Newly(g, o, 1)
           flood == Flood(g, o, 1)
           followed == Follow(g, found, about)
           w == Hop(g, about, o, 1)
<1>1. /\ Walked(g, id, o) /\ NextTo(g, o) = NextDoor(g, id)
      /\ ToSet(o.linked) = {} /\ ToSet(o.hubs) = {} /\ o.seen = {id} /\ ToSet(o.frontier) = {id}
  <2>1. o.seen = {id} /\ o.frontier = <<id>>
    BY DEF AtNode
  <2>2. ToSet(<<id>>) = {id}
    BY DEF ToSet
  <2> QED  BY <2>1, <2>2, AtNodeIs
<1>2. /\ IsSeq(g.links) /\ IsSeq(o.frontier) /\ ToSet(o.frontier) \subseteq Known(g)
      /\ IsSeq(o.linked) /\ IsSeq(o.hubs)
  BY <1>1 DEF Walkable, Walked, IsPairs
<1> HIDE DEF o
<1>3. /\ IsPairs(g, found) /\ OneEach(found) /\ ToSet(flood) = {} /\ OthersOf(found) = NextTo(g, o)
      /\ \A p \in ToSet(found) : p.via = None
      /\ IsPairs(g, flood)
  <2>1. ~(1 > 1)
    OBVIOUS
  <2> QED  BY <1>2, <2>1, HopFinds
<1>4. /\ w.seen = o.seen \cup OthersOf(found) /\ w.linked = o.linked \o found
      /\ w.hubs = o.hubs \o flood /\ w.frontier = Others(followed)
  BY HopIs
<1>5. /\ IsSeq(followed) /\ ToSet(followed) \subseteq ToSet(found)
      /\ Len(found) <= Beam => followed = found
  <2> HIDE DEF found
  <2> QED  BY <1>3, FollowIs DEF Walkable
<1> HIDE DEF found, flood, followed, w
<1>6. IsSeq(found) /\ IsSeq(flood) /\ Cardinality(OthersOf(found)) = Len(found)
  BY <1>3, AsManyOthers DEF IsPairs
<1>7. ToSet(w.linked) = ToSet(found) /\ ToSet(w.hubs) = {}
  <2>1. /\ ToSet(o.linked \o found) = ToSet(o.linked) \cup ToSet(found)
        /\ ToSet(o.hubs \o flood) = ToSet(o.hubs) \cup ToSet(flood)
    BY <1>2, <1>6, ConcatIs, Zenon
  <2> QED  BY <1>1, <1>3, <1>4, <2>1
<1>8. DirectOf(w) = ToSet(w.linked) /\ OthersIn(DirectOf(w)) = OthersOf(found)
  BY <1>3, <1>7 DEF DirectOf, OthersIn, OthersOf
<1>9. ToSet(w.frontier) = OthersOf(followed)
  BY <1>4, <1>5, OthersIs
<1>10. OthersOf(followed) \subseteq OthersOf(found)
  BY <1>5 DEF OthersOf
<1> QED  BY <1>1, <1>3, <1>4, <1>5, <1>6, <1>7, <1>8, <1>9, <1>10 DEF o, w

\* A later hop finds nothing without a way to it.
LEMMA LaterHopIs ==
    ASSUME NEW g, NEW id, NEW about, Walkable(g, id, about), NEW w, Walked(g, id, w),
           NEW hop \in Int, hop > 1
    PROVE  DirectOf(Hop(g, about, w, hop)) = DirectOf(w)
<1> DEFINE found == Newly(g, w, hop)
           v == Hop(g, about, w, hop)
<1>1. ToSet(w.frontier) \subseteq Known(g)
  BY DEF Walked, Walkable, Live, Known
<1>2. IsPairs(g, found) /\ \A p \in ToSet(found) : p.via # None
  <2>1. IsSeq(g.links) /\ IsSeq(w.frontier) /\ None \notin Known(g)
    BY DEF Walkable, Walked
  <2> QED  BY <1>1, <2>1, HopFinds
<1>3. v.linked = w.linked \o found
  BY HopIs
<1> HIDE DEF found, v
<1>4. ToSet(v.linked) = ToSet(w.linked) \cup ToSet(found)
  BY <1>2, <1>3, ConcatIs DEF Walked, IsPairs
<1> QED  BY <1>2, <1>4 DEF DirectOf, v

\* Wherever the walk gets, what is direct is what is next door.
LEMMA WalkReaches ==
    ASSUME NEW g, NEW id, NEW about, Walkable(g, id, about), NEW depth \in Int
    PROVE  LET w == Walk(g, id, depth, about) IN
           Walked(g, id, w) /\ OthersIn(DirectOf(w)) = NextDoor(g, id)
<1> DEFINE n == Hops(depth)
<1>1. n \in Nat /\ n >= 1
  BY DEF Hops
<1> PICK walk : IsWalk(g, id, depth, about, walk)
  BY WalkIs
<1>2. /\ Walk(g, id, depth, about) = walk[n] /\ walk[0] = AtNode(id)
      /\ \A h \in 1..n : walk[h] = Hop(g, about, walk[h - 1], h)
  BY DEF IsWalk
<1> HIDE DEF n
<1> DEFINE Good(h) == Walked(g, id, walk[h]) /\ (h > 0 => OthersIn(DirectOf(walk[h])) = NextDoor(g, id))
           S == {h \in Nat : h \in 0..n => Good(h)}
<1>3. 0 \in S
  <2>1. Good(0)
    BY <1>2, AtNodeIs
  <2> HIDE DEF Good
  <2> QED  BY <2>1
<1>4. ASSUME NEW h \in S PROVE h + 1 \in S
  <2> SUFFICES ASSUME h + 1 \in 0..n PROVE Good(h + 1)
    BY <1>4
  <2>1. Good(h) /\ h \in Nat
    BY <1>1, <1>4
  <2>2. walk[h + 1] = Hop(g, about, walk[h], h + 1)
    <3>1. h + 1 \in 1..n /\ (h + 1) - 1 = h
      BY <1>1, <1>4
    <3> QED  BY <1>2, <3>1
  <2>3. Walked(g, id, walk[h + 1])
    BY <2>1, <2>2, HopKeeps
  <2>4. OthersIn(DirectOf(walk[h + 1])) = NextDoor(g, id)
    <3>1. CASE h = 0
      <4>1. walk[h + 1] = Hop(g, about, AtNode(id), 1)
        BY <1>2, <2>2, <3>1
      <4> QED  BY <4>1, FirstHopIs
    <3>2. CASE h # 0
      <4>1. h + 1 \in Int /\ h + 1 > 1 /\ h > 0
        BY <2>1, <3>2
      <4>2. DirectOf(walk[h + 1]) = DirectOf(walk[h])
        BY <2>1, <2>2, <4>1, LaterHopIs
      <4> QED  BY <2>1, <4>1, <4>2
    <3> QED  BY <3>1, <3>2
  <2> QED  BY <2>3, <2>4
<1>5. Good(n)
  <2>1. S \in SUBSET Nat /\ n \in 0..n
    BY <1>1
  <2> HIDE DEF Good
  <2>2. S = Nat
    <3> HIDE DEF S
    <3> QED  BY <1>3, <1>4, <2>1, AllNaturals
  <2> QED  BY <1>1, <2>1, <2>2
<1> QED  BY <1>1, <1>2, <1>5

\* Who is two links away and no nearer.
TwoDoors(g, id) ==
    {n \in Live(g) \ (NextDoor(g, id) \cup {id}) : \E m \in NextDoor(g, id) : Adjacent(g, m, n)}
ViaOf(w) == {p \in ToSet(w.linked) : p.via # None}

LEMMA SecondHopIs ==
    ASSUME NEW g, NEW id, NEW about, Walkable(g, id, about)
    PROVE  LET w == Hop(g, about, Hop(g, about, AtNode(id), 1), 2) IN
           /\ OthersIn(ViaOf(w)) \subseteq TwoDoors(g, id)
           /\ OthersOf(w.hubs) \subseteq TwoDoors(g, id)
           /\ Cardinality(NextDoor(g, id)) <= Beam /\ ToSet(w.hubs) = {}
                => OthersIn(ViaOf(w)) = TwoDoors(g, id)
<1> DEFINE v == Hop(g, about, AtNode(id), 1)
           w == Hop(g, about, v, 2)
           found == Newly(g, v, 2)
           flood == Flood(g, v, 2)
<1>1. /\ Walked(g, id, v) /\ DirectOf(v) = ToSet(v.linked) /\ ToSet(v.hubs) = {}
      /\ v.seen = {id} \cup NextDoor(g, id) /\ ToSet(v.frontier) \subseteq NextDoor(g, id)
      /\ Cardinality(NextDoor(g, id)) <= Beam => ToSet(v.frontier) = NextDoor(g, id)
  BY AtNodeIs, HopKeeps, FirstHopIs
<1> HIDE DEF v
<1>2. /\ IsSeq(g.links) /\ None \notin Known(g) /\ IsSeq(v.frontier) /\ ToSet(v.frontier) \subseteq Known(g)
      /\ IsSeq(v.linked) /\ IsSeq(v.hubs)
  BY <1>1 DEF Walkable, Walked, IsPairs, NextDoor, Live, Known
<1>3. /\ IsSeq(found) /\ OthersOf(found) \subseteq NextTo(g, v)
      /\ \A p \in ToSet(found) : p.via # None
      /\ IsSeq(flood) /\ OthersOf(flood) \subseteq NextTo(g, v)
      /\ ToSet(flood) = {} => OthersOf(found) = NextTo(g, v)
  <2>1. 2 > 1
    OBVIOUS
  <2> QED  BY <1>2, <2>1, HopFinds DEF IsPairs, OthersOf
<1>4. w.linked = v.linked \o found /\ w.hubs = v.hubs \o flood
  BY HopIs
<1> HIDE DEF found, flood, w
<1>5. ToSet(w.linked) = ToSet(v.linked) \cup ToSet(found) /\ ToSet(w.hubs) = ToSet(flood)
  <2>1. /\ ToSet(v.linked \o found) = ToSet(v.linked) \cup ToSet(found)
        /\ ToSet(v.hubs \o flood) = ToSet(v.hubs) \cup ToSet(flood)
    BY <1>2, <1>3, ConcatIs, Zenon
  <2> QED  BY <1>1, <1>4, <2>1
<1>6. OthersIn(ViaOf(w)) = OthersOf(found)
  <2>1. \A p \in ToSet(v.linked) : p.via = None
    BY <1>1 DEF DirectOf
  <2>2. ViaOf(w) = ToSet(found)
    BY <1>3, <1>5, <2>1 DEF ViaOf
  <2> QED  BY <2>2 DEF OthersIn, OthersOf
<1>7. NextTo(g, v) \subseteq TwoDoors(g, id)
  BY <1>1 DEF NextTo, TwoDoors
<1>8. ToSet(v.frontier) = NextDoor(g, id) => NextTo(g, v) = TwoDoors(g, id)
  BY <1>1 DEF NextTo, TwoDoors
<1>9. OthersOf(w.hubs) = OthersOf(flood)
  BY <1>5 DEF OthersOf
<1> QED  BY <1>1, <1>3, <1>5, <1>6, <1>7, <1>8, <1>9 DEF v, w

LEMMA ShortWalkIs ==
    ASSUME NEW g, NEW id, NEW about, NEW depth \in Int
    PROVE  /\ depth <= 1 => Walk(g, id, depth, about) = Hop(g, about, AtNode(id), 1)
           /\ depth = 2 =>
                Walk(g, id, depth, about) = Hop(g, about, Hop(g, about, AtNode(id), 1), 2)
<1> DEFINE n == Hops(depth)
<1> PICK walk : IsWalk(g, id, depth, about, walk)
  BY WalkIs
<1>1. /\ Walk(g, id, depth, about) = walk[n] /\ walk[0] = AtNode(id)
      /\ \A h \in 1..n : walk[h] = Hop(g, about, walk[h - 1], h)
  BY DEF IsWalk
<1>2. n >= 1 /\ n \in Nat /\ (depth <= 1 => n = 1) /\ (depth = 2 => n = 2)
  BY DEF Hops
<1> HIDE DEF n
<1>3. walk[1] = Hop(g, about, AtNode(id), 1)
  <2>1. 1 \in 1..n /\ 1 - 1 = 0
    BY <1>2
  <2> QED  BY <1>1, <2>1
<1>4. ASSUME depth = 2 PROVE walk[2] = Hop(g, about, walk[1], 2)
  <2>1. 2 \in 1..n /\ 2 - 1 = 1
    BY <1>2, <1>4
  <2> QED  BY <1>1, <2>1
<1> QED  BY <1>1, <1>2, <1>3, <1>4

-----------------------------------------------------------------------------
(* What a recall shows *)

LEMMA NewestFirstDraws ==
    ASSUME NEW g, \A n \in ToSet(g.nodes) : n.day["updatedAt"] \in Int,
           NEW s, IsSeq(s), OthersOf(s) \subseteq Known(g)
    PROVE  Drawn(NewestFirst(g, s), s, DOMAIN s)
<1> DEFINE rows == [i \in DOMAIN s |->
               [it |-> s[i], score |-> NodeOf(g, s[i].other).day["updatedAt"]]]
           r == Ranked(rows)
<1>1. DOMAIN s = 1..Len(s) /\ Len(s) \in Nat
  BY DEF IsSeq
<1>2. ASSUME NEW i \in DOMAIN s PROVE NodeOf(g, s[i].other).day["updatedAt"] \in Int
  <2>1. s[i].other \in Known(g)
    BY DEF OthersOf, ToSet
  <2>2. \E n \in ToSet(g.nodes) : n.id = s[i].other
    BY <2>1 DEF Known
  <2>3. NodeOf(g, s[i].other) \in ToSet(g.nodes)
    BY <2>2 DEF NodeOf
  <2> QED  BY <2>3
<1>3. IsSeq(rows) /\ AreNumbers(rows)
  <2>1. rows \in [1..Len(s) -> ToSet(rows)]
    BY <1>1 DEF ToSet
  <2>2. AreNumbers(rows)
    BY <1>2 DEF AreNumbers
  <2> QED  BY <1>1, <2>1, <2>2 DEF IsSeq
<1>4. DOMAIN rows = DOMAIN s /\ \A i \in DOMAIN s : rows[i].it = s[i]
  OBVIOUS
<1>5. NewestFirst(g, s) = [k \in DOMAIN r |-> r[k].it]
  BY DEF NewestFirst
<1> HIDE DEF rows
<1>6. Drawn(r, rows, DOMAIN rows)
  BY <1>3, RankedIs
<1> HIDE DEF r
<1>7. PICK n \in Nat : \E at \in Bijection(1..n, DOMAIN s) : r = [k \in 1..n |-> rows[at[k]]]
  BY <1>4, <1>6 DEF Drawn
<1>8. PICK at \in Bijection(1..n, DOMAIN s) : r = [k \in 1..n |-> rows[at[k]]]
  BY <1>7
<1>9. at \in [1..n -> DOMAIN s]
  BY <1>8 DEF Bijection, Injection
<1>10. NewestFirst(g, s) = [k \in 1..n |-> s[at[k]]]
  BY <1>4, <1>5, <1>8, <1>9
<1> QED  BY <1>8, <1>10 DEF Drawn

ShowsAll(w, a) ==
    /\ ToSet(a.shown) = ToSet(w.linked)
    /\ Cardinality(OthersOf(a.shown)) = Len(a.shown)
    /\ DOMAIN a.hubs = {p.me : p \in ToSet(w.hubs)}
    /\ \A h \in DOMAIN a.hubs : ToSet(a.hubs[h]) \subseteq ToSet(w.hubs)

LEMMA ShownIs ==
    ASSUME NEW g, NEW id, NEW about, Walkable(g, id, about), HubPicks \in Int,
           \A n \in ToSet(g.nodes) : n.day["updatedAt"] \in Int,
           NEW w, Walked(g, id, w)
    PROVE  ShowsAll(w, Shown(g, w, 0, about))
<1> DEFINE s == w.linked
           D1 == {i \in DOMAIN s : s[i].via = None}
           D2 == {i \in DOMAIN s : s[i].via # None}
           first == Direct(s)
           newest == NewestFirst(g, first)
           further == Further(s)
           all == newest \o further
           a == Shown(g, w, 0, about)
<1>1. IsSeq(s) /\ OneEach(s) /\ OthersOf(s) \subseteq Known(g) /\ IsPairs(g, w.hubs)
  BY DEF Walked, Live, Known
<1>2. \A i, j \in DOMAIN s : s[i].other = s[j].other => i = j
  BY <1>1, OneEachIs, Zenon
<1>3. D1 \in SUBSET DOMAIN s /\ D2 \in SUBSET DOMAIN s
  OBVIOUS
<1>4. /\ Drawn(first, s, D1) /\ IsSeq(first) /\ ToSet(first) = {s[i] : i \in D1} /\ OneEach(first)
  <2>1. Drawn(first, s, D1)
    BY <1>1, <1>3, PickedDraws DEF Direct
  <2> HIDE DEF D1, s, first
  <2> QED  BY <1>2, <1>3, <2>1, DrawnIs, DrawnOneEach
<1>5. /\ Drawn(further, s, D2) /\ IsSeq(further) /\ ToSet(further) = {s[i] : i \in D2}
      /\ OneEach(further)
  <2>1. Drawn(further, s, D2)
    BY <1>1, <1>3, PickedDraws DEF Further
  <2> HIDE DEF D2, s, further
  <2> QED  BY <1>2, <1>3, <2>1, DrawnIs, DrawnOneEach
<1> HIDE DEF first, further
<1>6. ToSet(first) \cup ToSet(further) = ToSet(s) /\ OthersOf(first) \subseteq Known(g)
  <2>1. ToSet(first) \cup ToSet(further) = ToSet(s)
    BY <1>4, <1>5 DEF ToSet
  <2> QED  BY <1>1, <2>1 DEF OthersOf
<1>7. OthersOf(first) \cap OthersOf(further) = {}
  BY <1>2, <1>4, <1>5 DEF OthersOf
<1>8. IsSeq(newest) /\ ToSet(newest) = ToSet(first) /\ OneEach(newest)
  <2>1. Drawn(newest, first, DOMAIN first)
    BY <1>4, <1>6, NewestFirstDraws
  <2>2. \A i, j \in DOMAIN first : first[i].other = first[j].other => i = j
    BY <1>4, OneEachIs, Zenon
  <2>3. ToSet(first) = {first[i] : i \in DOMAIN first}
    BY DEF ToSet
  <2> HIDE DEF newest
  <2> QED  BY <2>1, <2>2, <2>3, DrawnIs, DrawnOneEach
<1> HIDE DEF newest
<1>9. /\ IsSeq(all) /\ ToSet(all) = ToSet(s) /\ OneEach(all)
  <2>1. OthersOf(newest) = OthersOf(first)
    BY <1>8 DEF OthersOf
  <2>2. OneEach(newest \o further)
    BY <1>5, <1>7, <1>8, <2>1, ConcatOneEach, Zenon
  <2>3. IsSeq(newest \o further) /\ ToSet(newest \o further) = ToSet(newest) \cup ToSet(further)
    BY <1>5, <1>8, ConcatIs, Zenon
  <2> QED  BY <1>6, <1>8, <2>2, <2>3
<1>10. /\ a.shown = all
       /\ a.hubs = [h \in {w.hubs[i].me : i \in DOMAIN w.hubs} |->
                       Relevant(g, MembersAt(w, h), about, HubPicks)]
  BY DEF Shown, all, newest, first, further
<1> HIDE DEF all, a
<1>11. ToSet(a.shown) = ToSet(w.linked) /\ Cardinality(OthersOf(a.shown)) = Len(a.shown)
  BY <1>9, <1>10, AsManyOthers
<1>12. DOMAIN a.hubs = {p.me : p \in ToSet(w.hubs)}
  BY <1>10 DEF ToSet
<1>13. ASSUME NEW h \in DOMAIN a.hubs PROVE ToSet(a.hubs[h]) \subseteq ToSet(w.hubs)
  <2> DEFINE S == {i \in DOMAIN w.hubs : w.hubs[i].me = h}
             m == MembersAt(w, h)
  <2>1. S \in SUBSET DOMAIN w.hubs /\ IsSeq(w.hubs)
    BY <1>1 DEF IsPairs
  <2>2. Drawn(m, w.hubs, S) /\ m = Picked(w.hubs, S)
    BY <2>1, PickedDraws DEF MembersAt
  <2> HIDE DEF S, m
  <2>3. IsSeq(m) /\ ToSet(m) = {w.hubs[i] : i \in S}
    BY <2>1, <2>2, DrawnIs
  <2>4. ToSet(m) \subseteq ToSet(w.hubs)
    BY <2>1, <2>3 DEF ToSet
  <2>5. IsPairs(g, m)
    <3>1. \A i, j \in DOMAIN w.hubs : Core(w.hubs[i]) = Core(w.hubs[j]) => i = j
      BY <1>1 DEF IsPairs
    <3>2. IsInjective(w.hubs)
      BY <3>1 DEF IsInjective
    <3>3. IsInjective(m)
      BY <2>1, <2>2, <3>2, DrawnIs
    <3>4. \A p, q \in ToSet(w.hubs) : Core(p) = Core(q) => p = q
      BY <3>1 DEF ToSet
    <3>5. \A i \in DOMAIN m : m[i] \in ToSet(w.hubs)
      BY <2>4 DEF ToSet
    <3>6. \A i, j \in DOMAIN m : Core(m[i]) = Core(m[j]) => i = j
      BY <3>3, <3>4, <3>5 DEF IsInjective
    <3> QED  BY <1>1, <2>3, <2>4, <3>6 DEF IsPairs
  <2>6. ToSet(Relevant(g, m, about, HubPicks)) \subseteq ToSet(m)
    BY <2>5, RelevantPairs DEF Walkable
  <2>7. a.hubs[h] = Relevant(g, m, about, HubPicks)
    BY <1>10 DEF m
  <2> QED  BY <2>4, <2>6, <2>7
<1> QED  BY <1>11, <1>12, <1>13 DEF a, ShowsAll

\* The answer of a recall is what is shown of its walk.
Recalled ==
    Given("recall") => answer = RecallFrom(graph, asked.id, asked.depth, 0, asked.focus)

LEMMA AskedAndRecalled == ReadSpec => [](Asked /\ Recalled)
<1>1. ReadInit => Asked /\ Recalled
  BY DEF ReadInit, Asked, Recalled, Given
<1>2. Asked /\ Recalled /\ [Read]_reading => (Asked /\ Recalled)'
  <2> SUFFICES ASSUME Asked, Recalled, [Read]_reading PROVE Asked' /\ Recalled'
    OBVIOUS
  <2>1. CASE UNCHANGED reading
    BY <2>1 DEF reading, Asked, Recalled, Given
  <2>2. CASE Read
    <3>1. graph' = graph /\ asked' = asked /\ answer' = Report
      BY <2>2 DEF Read
    <3>2. asked.kind = "recall" =>
              Report = RecallFrom(graph, asked.id, asked.depth, 0, asked.focus)
      BY DEF Report
    <3> QED  BY <3>1, <3>2 DEF Asked, Recalled, Given
  <2> QED  BY <2>1, <2>2
<1> QED  BY <1>1, <1>2, PTL DEF ReadSpec

LEMMA RecallIsMeant ==
    ASSUME Asked, Recalled, Given("recall")
    PROVE  RecallReaches
<1> DEFINE id == asked.id
           about == FocusOf(graph, id, asked.focus)
           w == Walk(graph, id, asked.depth, about)
           via == {n \in ToSet(answer.shown) : n.via # None}
           direct == ToSet(answer.shown) \ via
           flood == UNION {OthersIn(ToSet(answer.hubs[h])) : h \in DOMAIN answer.hubs}
           further == IF asked.depth <= 1 THEN {} ELSE TwoHops(id)
<1>1. /\ Walkable(graph, id, about) /\ HubPicks \in Int /\ asked.depth \in Int
      /\ \A n \in ToSet(graph.nodes) : n.day["updatedAt"] \in Int
  BY WalkAssumption DEF Asked, Given, Walkable, RaresOf
<1>2. answer = Shown(graph, w, 0, about)
  BY DEF Recalled, RecallFrom
<1> HIDE DEF about
<1>3. Walked(graph, id, w) /\ OthersIn(DirectOf(w)) = NextDoor(graph, id)
  BY <1>1, WalkReaches
<1>4. OneHop(id) = NextDoor(graph, id) /\ TwoHops(id) = TwoDoors(graph, id)
  BY DEF OneHop, TwoHops, NextDoor, TwoDoors
<1> HIDE DEF w
<1>5. /\ ToSet(answer.shown) = ToSet(w.linked)
      /\ Cardinality(OthersOf(answer.shown)) = Len(answer.shown)
      /\ DOMAIN answer.hubs = {p.me : p \in ToSet(w.hubs)}
      /\ \A h \in DOMAIN answer.hubs : ToSet(answer.hubs[h]) \subseteq ToSet(w.hubs)
  <2>1. ShowsAll(w, answer)
    BY <1>1, <1>2, <1>3, ShownIs
  <2> QED  BY <2>1 DEF ShowsAll
<1>6. via = ViaOf(w) /\ direct = DirectOf(w)
  BY <1>5 DEF ViaOf, DirectOf
<1>7. OthersIn(direct) = OneHop(id)
  BY <1>3, <1>4, <1>6
<1>8. flood \subseteq OthersOf(w.hubs)
  BY <1>5 DEF OthersIn, OthersOf
<1>9. ASSUME asked.depth <= 2
      PROVE  /\ OthersIn(via) \cup flood \subseteq further
             /\ Cardinality(OneHop(id)) <= Beam /\ DOMAIN answer.hubs = {} => OthersIn(via) = further
  <2>1. CASE asked.depth <= 1
    <3>1. w = Hop(graph, about, AtNode(id), 1)
      BY <1>1, <2>1, ShortWalkIs DEF w
    <3>2. DirectOf(w) = ToSet(w.linked) /\ ToSet(w.hubs) = {}
      BY <1>1, <3>1, FirstHopIs
    <3>3. via = {} /\ OthersOf(w.hubs) = {}
      BY <1>6, <3>2 DEF ViaOf, DirectOf, OthersOf
    <3>4. OthersIn(via) = {}
      BY <3>3 DEF OthersIn
    <3>5. further = {}
      BY <2>1
    <3> QED  BY <1>8, <3>3, <3>4, <3>5
  <2>2. CASE ~(asked.depth <= 1)
    <3>1. asked.depth = 2 /\ further = TwoDoors(graph, id)
      BY <1>1, <1>4, <1>9, <2>2
    <3>2. w = Hop(graph, about, Hop(graph, about, AtNode(id), 1), 2)
      BY <1>1, <3>1, ShortWalkIs DEF w
    <3>3. /\ OthersIn(ViaOf(w)) \subseteq TwoDoors(graph, id)
          /\ OthersOf(w.hubs) \subseteq TwoDoors(graph, id)
          /\ Cardinality(NextDoor(graph, id)) <= Beam /\ ToSet(w.hubs) = {}
               => OthersIn(ViaOf(w)) = TwoDoors(graph, id)
      BY <1>1, <3>2, SecondHopIs
    <3>4. DOMAIN answer.hubs = {} => ToSet(w.hubs) = {}
      BY <1>5
    <3> HIDE DEF via, flood, further
    <3> QED  BY <1>4, <1>6, <1>8, <3>1, <3>3, <3>4
  <2> QED  BY <2>1, <2>2
<1>10. Cardinality(OthersIn(ToSet(answer.shown))) = Len(answer.shown)
  BY <1>5 DEF OthersIn, OthersOf
<1> QED  BY <1>7, <1>9, <1>10, ZenonT(30) DEF RecallReaches, OthersIn

\* `recall` (store.py:732-775) walks hop by hop past hubs that it only samples, over a
\* frontier that tools/recall.py ranks and cuts (:140-144): of any graph, at any depth, all
\* that is live and next to the node is shown, and nothing twice; and at the depths up to
\* two, what lies two links away is missed only where a hub is named in its stead or the
\* first hop had to be cut.
THEOREM RecallReachesHolds == ReadSpec => []RecallReaches
<1>1. Asked /\ Recalled => RecallReaches
  BY RecallIsMeant DEF RecallReaches
<1> QED  BY <1>1, AskedAndRecalled, PTL

-----------------------------------------------------------------------------
(* What a question means, and the rows it gets *)

\* The elements of a sequence made of another's.
LEMMA EachOf ==
    ASSUME NEW s, IsSeq(s), NEW f, f = [i \in DOMAIN s |-> f[i]]
    PROVE  IsSeq(f) /\ ToSet(f) = {f[i] : i \in DOMAIN s}
BY DEF IsSeq, ToSet

\* The relations that leave a node, in the order of the edges.
LEMMA LeavingIs ==
    ASSUME NEW g, IsSeq(g.edges), NEW S \in SUBSET DOMAIN g.edges
    PROVE  LET p == Picked([k \in DOMAIN g.edges |-> k], S) IN IsSeq(p) /\ ToSet(p) = S
<1> DEFINE s == [k \in DOMAIN g.edges |-> k]
<1>1. IsSeq(s) /\ DOMAIN s = DOMAIN g.edges
  BY DEF IsSeq, ToSet
<1>2. {s[i] : i \in S} = S
  OBVIOUS
<1> HIDE DEF s
<1> QED  BY <1>1, <1>2, PickedIs DEF s

\* What a plan asks of a record.
Asks(g, n, via, under) ==
    {LinkTo(g, n, k, under) : k \in Leaving(g, n, via)}
    \cup {HasValue(g, n, v) : v \in ToSet(ValuesAt(g, n))}
    \cup {DateRange(g, n, d) : d \in ToSet(DatesAt(g, n))}

LEMMA PlanAtIs ==
    ASSUME NEW g, IsSeq(g.edges), IsSeq(g.values), IsSeq(g.dates), NEW n, NEW via, NEW under
    PROVE  /\ PlanAt(g, n, via, under).type = g.nodes[n].type
           /\ IsSeq(PlanAt(g, n, via, under).where)
           /\ ToSet(PlanAt(g, n, via, under).where) = Asks(g, n, via, under)
<1> DEFINE links == LeavingInOrder(g, n, via)
           values == ValuesAt(g, n)
           dates == DatesAt(g, n)
           a == [i \in DOMAIN links |-> LinkTo(g, n, links[i], under)]
           b == [i \in DOMAIN values |-> HasValue(g, n, values[i])]
           c == [i \in DOMAIN dates |-> DateRange(g, n, dates[i])]
<1>1. PlanAt(g, n, via, under).where = a \o b \o c /\ PlanAt(g, n, via, under).type = g.nodes[n].type
  BY DEF PlanAt
<1>2. IsSeq(links) /\ ToSet(links) = Leaving(g, n, via)
  BY LeavingIs DEF LeavingInOrder, Leaving
<1>3. IsSeq(values) /\ IsSeq(dates)
  BY PickedIs DEF ValuesAt, DatesAt
<1>4. /\ ToSet(links) = {links[i] : i \in DOMAIN links}
      /\ ToSet(values) = {values[i] : i \in DOMAIN values}
      /\ ToSet(dates) = {dates[i] : i \in DOMAIN dates}
  BY DEF ToSet
<1> HIDE DEF links, values, dates
<1>5. /\ IsSeq(a) /\ ToSet(a) = {LinkTo(g, n, links[i], under) : i \in DOMAIN links}
      /\ IsSeq(b) /\ ToSet(b) = {HasValue(g, n, values[i]) : i \in DOMAIN values}
      /\ IsSeq(c) /\ ToSet(c) = {DateRange(g, n, dates[i]) : i \in DOMAIN dates}
  <2>1. /\ a = [i \in DOMAIN links |-> a[i]] /\ b = [i \in DOMAIN values |-> b[i]]
        /\ c = [i \in DOMAIN dates |-> c[i]]
    OBVIOUS
  <2>2. \A i \in DOMAIN links : a[i] = LinkTo(g, n, links[i], under)
    OBVIOUS
  <2>3. \A i \in DOMAIN values : b[i] = HasValue(g, n, values[i])
    OBVIOUS
  <2>4. \A i \in DOMAIN dates : c[i] = DateRange(g, n, dates[i])
    OBVIOUS
  <2> HIDE DEF a, b, c
  <2>5. IsSeq(a) /\ ToSet(a) = {LinkTo(g, n, links[i], under) : i \in DOMAIN links}
    BY <1>2, <2>1, <2>2, EachOf
  <2>6. IsSeq(b) /\ ToSet(b) = {HasValue(g, n, values[i]) : i \in DOMAIN values}
    BY <1>3, <2>1, <2>3, EachOf
  <2>7. IsSeq(c) /\ ToSet(c) = {DateRange(g, n, dates[i]) : i \in DOMAIN dates}
    BY <1>3, <2>1, <2>4, EachOf
  <2> QED  BY <2>5, <2>6, <2>7
<1> HIDE DEF a, b, c
<1>6. IsSeq(a \o b \o c) /\ ToSet(a \o b \o c) = ToSet(a) \cup ToSet(b) \cup ToSet(c)
  BY <1>5, ConcatIs
<1>7. ToSet(a) = {LinkTo(g, n, k, under) : k \in Leaving(g, n, via)}
  BY <1>2, <1>4, <1>5
<1>8. ToSet(b) = {HasValue(g, n, v) : v \in ToSet(values)}
  BY <1>4, <1>5
<1>9. ToSet(c) = {DateRange(g, n, d) : d \in ToSet(dates)}
  BY <1>4, <1>5
<1> QED  BY <1>1, <1>6, <1>7, <1>8, <1>9 DEF Asks, values, dates

\* What a relation seen from one of its ends says of a record there and one across.
Reaches(h, g, n, k, id, o) ==
    LET rel == Relations[g.edges[k].relation].name
    IN IF g.edges[k].source = n THEN LinkedBy(h, rel, id, o) ELSE LinkedBy(h, rel, o, id)
There(g, n, k) == Other(g.edges[k], n)

LEMMA AcrossIs ==
    ASSUME NEW h, NEW g, NEW n, NEW k, NEW under, NEW id, NEW o
    PROVE  Across(h, LinkTo(g, n, k, under), id, o) <=> Reaches(h, g, n, k, id, o)
BY DEF Across, LinkTo, Way, Reaches

LEMMA RelatedIs ==
    ASSUME NEW h, NEW g, NEW a, NEW k, NEW n \in Ends(g.edges[k])
    PROVE  Related(h, g, a, k) <=> Reaches(h, g, n, k, Id(g, a, n), Id(g, a, There(g, n, k)))
BY DEF Related, Reaches, There, Other, Ends

\* A value or a date is asked of a record as of one that fits.
LEMMA FieldsAre ==
    ASSUME NEW h, NEW g, NEW n, NEW id
    PROVE  IsOne(h, g, n, id) <=>
              /\ ~NodeOf(h, id).dead /\ NodeOf(h, id).model = g.nodes[n].type
              /\ \A v \in ToSet(ValuesAt(g, n)) :
                    HoldsAlone(h, HasValue(g, n, v), id) <=> ~HasValue(g, n, v).neg
              /\ \A d \in ToSet(DatesAt(g, n)) :
                    HoldsAlone(h, DateRange(g, n, d), id) <=> ~DateRange(g, n, d).neg
<1>1. ASSUME NEW v
      PROVE  /\ HoldsAlone(h, HasValue(g, n, v), id) <=>
                    Texts(h, id, {Owned(v.candidates, g.nodes[n].type)[1].field})
                        = <<Owned(v.candidates, g.nodes[n].type)[1].value>>
             /\ HasValue(g, n, v).neg = v.negated
  BY DEF HoldsAlone, HasValue
<1>2. ASSUME NEW d
      PROVE  /\ HoldsAlone(h, DateRange(g, n, d), id) <=>
                    NodeOf(h, id).day[DateField(d, g.nodes[n].type)[1].field] \in DaysOf(DateWord(g, d))
             /\ DateRange(g, n, d).neg = d.negated
  BY DEF HoldsAlone, DateRange
<1> QED  BY <1>1, <1>2, Zenon DEF IsOne

\* What stands at the end of a relation that has no sub-plan.
DocAt(g, n) == IF IsVar(g, n) THEN "" ELSE g.nodes[n].doc.id

LEMMA LinkAlone ==
    ASSUME NEW h, NEW g, NEW n, NEW k, NEW under, NEW id
    PROVE  /\ HoldsAlone(h, LinkTo(g, n, k, under), id) <=> Reaches(h, g, n, k, id, DocAt(g, There(g, n, k)))
           /\ LinkTo(g, n, k, under).neg = g.edges[k].negated
           /\ LinkTo(g, n, k, under).sub = under[k]
           /\ LinkTo(g, n, k, under).kind = "link"
           /\ ~LinkTo(g, n, k, under).neg <=> ~g.edges[k].negated
<1>1. /\ LinkTo(g, n, k, under).kind = "link" /\ LinkTo(g, n, k, under).neg = g.edges[k].negated
      /\ LinkTo(g, n, k, under).to = DocAt(g, There(g, n, k)) /\ LinkTo(g, n, k, under).sub = under[k]
  BY DEF LinkTo, DocAt, There
<1>2. HoldsAlone(h, LinkTo(g, n, k, under), id)
        <=> Across(h, LinkTo(g, n, k, under), id, LinkTo(g, n, k, under).to)
  BY <1>1 DEF HoldsAlone
<1>3. ~LinkTo(g, n, k, under).neg <=> ~g.edges[k].negated
  BY <1>1, Zenon
<1> QED  BY <1>1, <1>2, <1>3, AcrossIs, Zenon

\* A sub-plan's records: those of its type with its relations to records.
LinksAs(h, g, n, via, id) ==
    \A k \in Leaving(g, n, via) :
        Reaches(h, g, n, k, id, DocAt(g, There(g, n, k))) <=> ~g.edges[k].negated

LEMMA AloneIs ==
    ASSUME NEW h, NEW g, IsSeq(g.edges), IsSeq(g.values), IsSeq(g.dates),
           NEW n, NEW via, NEW under, NEW id, NodeOf(h, id).model = g.nodes[n].type
    PROVE  SelectsAlone(h, PlanAt(g, n, via, under), id)
                <=> IsOne(h, g, n, id) /\ LinksAs(h, g, n, via, id)
<1> DEFINE Fine(c) == HoldsAlone(h, c, id) <=> ~c.neg
<1>1. SelectsAlone(h, PlanAt(g, n, via, under), id) <=>
        ~NodeOf(h, id).dead /\ \A c \in Asks(g, n, via, under) : Fine(c)
  BY PlanAtIs DEF SelectsAlone
<1>2. (\A c \in Asks(g, n, via, under) : Fine(c)) <=>
        /\ \A k \in Leaving(g, n, via) : Fine(LinkTo(g, n, k, under))
        /\ \A v \in ToSet(ValuesAt(g, n)) : Fine(HasValue(g, n, v))
        /\ \A d \in ToSet(DatesAt(g, n)) : Fine(DateRange(g, n, d))
  <2> HIDE DEF Fine
  <2> QED  BY DEF Asks
<1>3. (\A k \in Leaving(g, n, via) : Fine(LinkTo(g, n, k, under))) <=> LinksAs(h, g, n, via, id)
  <2>1. ASSUME NEW k
        PROVE  Fine(LinkTo(g, n, k, under)) <=>
                (Reaches(h, g, n, k, id, DocAt(g, There(g, n, k))) <=> ~g.edges[k].negated)
    BY LinkAlone, Zenon
  <2> HIDE DEF Fine
  <2> QED  BY <2>1, Zenon DEF LinksAs
<1> QED  BY <1>1, <1>2, <1>3, FieldsAre, Zenon

\* Nodes differ in their ids.
LEMMA IdsOfIs ==
    ASSUME NEW h, IsGraph(h), NEW type
    PROVE  IdsOf(h, type) = {id \in Known(h) : NodeOf(h, id).model = type}
<1>1. ASSUME NEW n \in ToSet(h.nodes) PROVE NodeOf(h, n.id) = n
  BY DEF NodeOf, IsGraph
<1> QED  BY <1>1 DEF IdsOf, Known

\* Only relations to the other type have sub-plans.
LEMMA SubPlansAre ==
    ASSUME NEW g, IsSeq(g.edges), NEW k \in Leaving(g, g.subject, 0)
    PROVE  SubPlans(g)[k] = IF IsVar(g, There(g, g.subject, k))
                            THEN <<PlanAt(g, There(g, g.subject, k), k, Nothing(g))>> ELSE <<>>
<1>1. ToSet(Onwards(g)) = {j \in Leaving(g, g.subject, 0) : IsVar(g, There(g, g.subject, j))}
  BY LeavingIs DEF Onwards, There, Leaving
<1> QED  BY <1>1 DEF SubPlans, Leaving, There

\* What a relation of the subject asks of a record.
Crosses(h, g, k, id) ==
    IF IsVar(g, There(g, g.subject, k))
    THEN \E o \in IdsOf(h, g.nodes[There(g, g.subject, k)].type) :
            /\ Reaches(h, g, g.subject, k, id, o)
            /\ IsOne(h, g, There(g, g.subject, k), o) /\ LinksAs(h, g, There(g, g.subject, k), k, o)
    ELSE Reaches(h, g, g.subject, k, id, DocAt(g, There(g, g.subject, k)))

LEMMA LinkHolds ==
    ASSUME NEW h, IsGraph(h), NEW g, IsSeq(g.edges), IsSeq(g.values), IsSeq(g.dates),
           NEW k \in Leaving(g, g.subject, 0), NEW id
    PROVE  Holds(h, LinkTo(g, g.subject, k, SubPlans(g)), id) <=> Crosses(h, g, k, id)
<1> DEFINE c == LinkTo(g, g.subject, k, SubPlans(g))
           n == There(g, g.subject, k)
           p == PlanAt(g, n, k, Nothing(g))
<1>1. /\ HoldsAlone(h, c, id) <=> Reaches(h, g, g.subject, k, id, DocAt(g, n))
      /\ c.sub = SubPlans(g)[k] /\ c.kind = "link"
  BY LinkAlone
<1>2. SubPlans(g)[k] = IF IsVar(g, n) THEN <<p>> ELSE <<>>
  BY SubPlansAre
<1>3. CASE ~IsVar(g, n)
  <2>1. c.sub = <<>>
    BY <1>1, <1>2, <1>3
  <2> HIDE DEF c, n
  <2>2. Holds(h, c, id) <=> HoldsAlone(h, c, id)
    BY <2>1 DEF Holds
  <2> QED  BY <1>1, <1>3, <2>2 DEF Crosses, n, c
<1>4. CASE IsVar(g, n)
  <2>1. c.sub # <<>> /\ c.sub[1] = p /\ p.type = g.nodes[n].type
    BY <1>1, <1>2, <1>4, PlanAtIs
  <2>2. ASSUME NEW o \in IdsOf(h, g.nodes[n].type)
        PROVE  Across(h, c, id, o) /\ SelectsAlone(h, p, o) <=>
                Reaches(h, g, g.subject, k, id, o) /\ IsOne(h, g, n, o) /\ LinksAs(h, g, n, k, o)
    BY AcrossIs, AloneIs, IdsOfIs
  <2> HIDE DEF c, n, p
  <2>3. Holds(h, c, id) <=>
          \E o \in IdsOf(h, g.nodes[n].type) : Across(h, c, id, o) /\ SelectsAlone(h, p, o)
    BY <1>1, <2>1 DEF Holds, HoldsOfSome
  <2> QED  BY <1>4, <2>2, <2>3 DEF Crosses, n, c
<1> QED  BY <1>3, <1>4

\* Where everything hangs together no anchor is loose.
LEMMA NoneLoose ==
    ASSUME NEW g, WellGrounded(g), Connected(g), g.subject \in Vars(g)
    PROVE  ~LooseAnchor(g)
<1> SUFFICES ASSUME g.edges = <<>>, g.anchors # <<>> PROVE FALSE
  BY DEF LooseAnchor
<1>1. IsSeq(g.anchors) /\ g.anchors[1] \in ToSet(g.anchors)
  BY DEF WellGrounded, IsSeq, ToSet
<1>2. g.anchors[1] \in DOMAIN g.nodes /\ g.anchors[1] # g.subject
  BY <1>1 DEF WellGrounded
<1>3. Linked(g, g.anchors[1])
  BY <1>2 DEF Connected
<1> QED  BY <1>3 DEF Linked

LEMMA ShortSeqs ==
    ASSUME NEW x
    PROVE  IsSeq(<<>>) /\ ToSet(<<>>) = {} /\ IsSeq(<<x>>) /\ ToSet(<<x>>) = {x}
BY DEF IsSeq, ToSet

\* The text filter as a condition.
Filter(g) ==
    [kind |-> "contains", neg |-> g.containsNegated, words |-> {g.words[g.contains]}]

LEMMA WholeAsks ==
    ASSUME NEW g, WellGrounded(g), Connected(g), g.subject \in Vars(g)
    PROVE  LET p == PlanOf(g, "any", TRUE)
           IN /\ p.type = g.nodes[g.subject].type /\ p.recent = g.recent /\ p.count = g.count
              /\ ToSet(p.where) = Asks(g, g.subject, 0, SubPlans(g))
                                    \cup (IF g.contains # 0 THEN {Filter(g)} ELSE {})
<1> DEFINE w == WholePlan(g).where
           f == IF g.contains # 0 THEN <<Filter(g)>> ELSE <<>>
           p == PlanOf(g, "any", TRUE)
<1>1. ~LooseAnchor(g)
  BY NoneLoose
<1>2. /\ WholePlan(g).type = g.nodes[g.subject].type /\ IsSeq(w)
      /\ ToSet(w) = Asks(g, g.subject, 0, SubPlans(g))
  BY PlanAtIs DEF WholePlan, WellGrounded
<1>3. /\ p.type = WholePlan(g).type /\ p.recent = g.recent /\ p.count = g.count
      /\ p.where = w \o <<>> \o f
  BY <1>1 DEF PlanOf, Filter, WholePlan, PlanAt
<1>4. IsSeq(f) /\ ToSet(f) = IF g.contains # 0 THEN {Filter(g)} ELSE {}
  BY ShortSeqs
<1>5. IsSeq(<<>>) /\ ToSet(<<>>) = {}
  BY ShortSeqs
<1> HIDE DEF w, f
<1>6. ToSet(w \o <<>> \o f) = ToSet(w) \cup ToSet(f)
  BY <1>2, <1>4, <1>5, ConcatIs
<1> QED  BY <1>2, <1>3, <1>4, <1>6

\* The whole plan, of a record of the subject's type.
LEMMA WholeIs ==
    ASSUME NEW h, IsGraph(h), NEW g, WellGrounded(g), Connected(g), g.subject \in Vars(g),
           NEW id, NodeOf(h, id).model = g.nodes[g.subject].type
    PROVE  Selects(h, PlanOf(g, "any", TRUE), id) <=>
              /\ IsOne(h, g, g.subject, id) /\ Mentions(h, g, id)
              /\ \A k \in Leaving(g, g.subject, 0) : Crosses(h, g, k, id) <=> ~g.edges[k].negated
<1> DEFINE n == g.subject
           under == SubPlans(g)
           p == PlanOf(g, "any", TRUE)
           Fine(c) == Holds(h, c, id) <=> ~c.neg
           Alone(c) == HoldsAlone(h, c, id) <=> ~c.neg
<1>1. IsSeq(g.edges) /\ IsSeq(g.values) /\ IsSeq(g.dates)
  BY DEF WellGrounded
<1>2. ToSet(p.where) = Asks(g, n, 0, under) \cup (IF g.contains # 0 THEN {Filter(g)} ELSE {})
  BY WholeAsks
<1>3. Selects(h, p, id) <=> ~NodeOf(h, id).dead /\ \A c \in ToSet(p.where) : Fine(c)
  BY DEF Selects
<1>4. ASSUME NEW k \in Leaving(g, n, 0)
      PROVE  Fine(LinkTo(g, n, k, under)) <=> (Crosses(h, g, k, id) <=> ~g.edges[k].negated)
  <2>1. Holds(h, LinkTo(g, n, k, under), id) <=> Crosses(h, g, k, id)
    BY <1>1, LinkHolds
  <2>2. ~LinkTo(g, n, k, under).neg <=> ~g.edges[k].negated
    BY LinkAlone, Zenon
  <2> QED  BY <2>1, <2>2, Zenon
<1>5. ASSUME NEW v
      PROVE  Fine(HasValue(g, n, v)) <=> Alone(HasValue(g, n, v))
  BY DEF Holds, HasValue
<1>6. ASSUME NEW d
      PROVE  Fine(DateRange(g, n, d)) <=> Alone(DateRange(g, n, d))
  BY DEF Holds, DateRange
<1>7. (g.contains # 0 => Fine(Filter(g))) <=> Mentions(h, g, id)
  <2>1. Holds(h, Filter(g), id) <=> g.words[g.contains] \in Blob(h, id)
    BY DEF Holds, HoldsAlone, Filter
  <2>2. ~Filter(g).neg <=> ~g.containsNegated
    BY DEF Filter
  <2> QED  BY <2>1, <2>2, Zenon DEF Mentions
<1> HIDE DEF Fine
<1>8. (\A c \in ToSet(p.where) : Fine(c)) <=>
        /\ \A k \in Leaving(g, n, 0) : Fine(LinkTo(g, n, k, under))
        /\ \A v \in ToSet(ValuesAt(g, n)) : Fine(HasValue(g, n, v))
        /\ \A d \in ToSet(DatesAt(g, n)) : Fine(DateRange(g, n, d))
        /\ g.contains # 0 => Fine(Filter(g))
  <2> HIDE DEF n, under, p
  <2> QED  BY <1>2 DEF Asks
<1>9. IsOne(h, g, n, id) <=>
        /\ ~NodeOf(h, id).dead
        /\ \A v \in ToSet(ValuesAt(g, n)) : Alone(HasValue(g, n, v))
        /\ \A d \in ToSet(DatesAt(g, n)) : Alone(DateRange(g, n, d))
  BY FieldsAre, Zenon
<1> HIDE DEF Alone, p, n, under
<1>10. (\A v \in ToSet(ValuesAt(g, n)) : Fine(HasValue(g, n, v)))
          <=> (\A v \in ToSet(ValuesAt(g, n)) : Alone(HasValue(g, n, v)))
  BY <1>5, Zenon
<1>11. (\A d \in ToSet(DatesAt(g, n)) : Fine(DateRange(g, n, d)))
          <=> (\A d \in ToSet(DatesAt(g, n)) : Alone(DateRange(g, n, d)))
  BY <1>6, Zenon
<1>12. (\A k \in Leaving(g, n, 0) : Fine(LinkTo(g, n, k, under)))
          <=> (\A k \in Leaving(g, n, 0) : Crosses(h, g, k, id) <=> ~g.edges[k].negated)
  BY <1>4, Zenon
<1>13. Selects(h, p, id) <=>
        /\ IsOne(h, g, n, id) /\ Mentions(h, g, id)
        /\ \A k \in Leaving(g, n, 0) : Crosses(h, g, k, id) <=> ~g.edges[k].negated
  BY <1>3, <1>7, <1>8, <1>9, <1>10, <1>11, <1>12, Zenon
<1> QED  BY <1>13 DEF p, n

-----------------------------------------------------------------------------

LEMMA EdgesAre ==
    ASSUME NEW g, WellGrounded(g), NEW k \in DOMAIN g.edges, NEW n \in Ends(g.edges[k])
    PROVE  /\ n \in DOMAIN g.nodes /\ There(g, n, k) \in DOMAIN g.nodes
           /\ Ends(g.edges[k]) = {n, There(g, n, k)} /\ There(g, n, k) # n
           /\ k # 0
<1>1. g.edges[k] \in ToSet(g.edges) /\ k # 0
  BY DEF WellGrounded, IsSeq, ToSet
<1> QED  BY <1>1 DEF WellGrounded, Ends, There, Other

LEMMA VarsAre ==
    ASSUME NEW g, NEW n \in DOMAIN g.nodes
    PROVE  IsVar(g, n) <=> n \in Vars(g)
BY DEF IsVar, Vars

\* A relation of a type to a record, under an assignment.
LEMMA ToRecord ==
    ASSUME NEW h, NEW g, WellGrounded(g), NEW k \in DOMAIN g.edges,
           NEW n \in Ends(g.edges[k]), n \in Vars(g), There(g, n, k) \notin Vars(g), NEW a
    PROVE  Related(h, g, a, k) <=> Reaches(h, g, n, k, a[n], DocAt(g, There(g, n, k)))
<1>1. IsVar(g, n) /\ ~IsVar(g, There(g, n, k))
  BY EdgesAre, VarsAre
<1>2. Id(g, a, n) = a[n] /\ Id(g, a, There(g, n, k)) = DocAt(g, There(g, n, k))
  BY <1>1 DEF Id, DocAt
<1> QED  BY <1>2, RelatedIs

\* Two types at most: the subject, or it and one that one relation joins to it.
LEMMA FewTypes ==
    ASSUME NEW g, WellGrounded(g), Connected(g), g.subject \in Vars(g)
    PROVE  \/ Vars(g) = {g.subject}
           \/ \E v \in Vars(g), j \in DOMAIN g.edges :
                /\ v # g.subject /\ Vars(g) = {g.subject, v} /\ Ends(g.edges[j]) = {g.subject, v}
                /\ \A k \in DOMAIN g.edges : Ends(g.edges[k]) = {g.subject, v} => k = j
<1> SUFFICES ASSUME NEW v \in Vars(g), v # g.subject
             PROVE  \E j \in DOMAIN g.edges :
                        /\ Vars(g) = {g.subject, v} /\ Ends(g.edges[j]) = {g.subject, v}
                        /\ \A k \in DOMAIN g.edges : Ends(g.edges[k]) = {g.subject, v} => k = j
  OBVIOUS
<1> DEFINE s == g.subject
<1>1. IsFiniteSet(Vars(g))
  <2>1. Len(g.nodes) \in Nat /\ DOMAIN g.nodes = 1..Len(g.nodes)
    BY DEF WellGrounded, IsSeq
  <2>2. IsFiniteSet(1..Len(g.nodes))
    BY <2>1, FS_Interval
  <2> QED  BY <2>1, <2>2, FS_Subset DEF Vars
<1>2. ASSUME NEW w \in Vars(g), w # s, w # v PROVE FALSE
  <2>1. IsFiniteSet({s}) /\ Cardinality({s}) = 1
    BY FS_Singleton
  <2>2. IsFiniteSet({s} \cup {v}) /\ Cardinality({s} \cup {v}) = 2
    BY <2>1, FS_AddElement
  <2>3. IsFiniteSet(({s} \cup {v}) \cup {w}) /\ Cardinality(({s} \cup {v}) \cup {w}) = 3
    BY <1>2, <2>2, FS_AddElement
  <2>4. Cardinality(({s} \cup {v}) \cup {w}) <= Cardinality(Vars(g))
    BY <1>1, FS_Subset
  <2>5. Cardinality(Vars(g)) <= 2
    BY DEF WellGrounded, MaxVars
  <2>6. Cardinality(Vars(g)) \in Nat
    BY <1>1, FS_CardinalityType
  <2> QED  BY <2>3, <2>4, <2>5, <2>6
<1>3. Vars(g) = {s, v}
  BY <1>2
<1>4. PICK j \in DOMAIN g.edges : Ends(g.edges[j]) = {s, v}
  BY DEF Connected
<1>5. ASSUME NEW k \in DOMAIN g.edges, Ends(g.edges[k]) = {s, v} PROVE k = j
  <2>1. \A n \in Ends(g.edges[k]) : IsVar(g, n)
    BY <1>3, <1>5, VarsAre DEF Vars
  <2> QED  BY <1>4, <1>5, <2>1 DEF Connected, Endless
<1> QED  BY <1>3, <1>4, <1>5

\* Who is meant, with what a negated relation adds.
AddedTo(g) ==
    {k \in DOMAIN g.edges :
        /\ g.edges[k].negated /\ (Ends(g.edges[k]) \cap Vars(g)) \ Near(g) # {}
        /\ Ends(g.edges[k]) \cap Near(g) # {}}
Lacks(h, g, a, k) ==
    ~\E b \in [Near(g) \cup ((Ends(g.edges[k]) \cap Vars(g)) \ Near(g)) -> Known(h)] :
        (\A n \in Near(g) : b[n] = a[n]) /\ Fits(h, g, b, {k})

LEMMA MeantIs ==
    ASSUME NEW h, NEW g, NEW id
    PROVE  id \in Meant(h, g) <=>
              \E a \in [Near(g) -> Known(h)] :
                /\ a[g.subject] = id /\ Fits(h, g, a, {}) /\ Mentions(h, g, id)
                /\ \A k \in AddedTo(g) : Lacks(h, g, a, k)
BY DEF Meant, AddedTo, Lacks, Known

LEMMA SelectedIs ==
    ASSUME NEW h, IsGraph(h), NEW g, WellGrounded(g), Connected(g), g.subject \in Vars(g), NEW id
    PROVE  id \in Selected(h, PlanOf(g, "any", TRUE)) <=>
              /\ id \in Known(h) /\ IsOne(h, g, g.subject, id) /\ Mentions(h, g, id)
              /\ \A k \in Leaving(g, g.subject, 0) : Crosses(h, g, k, id) <=> ~g.edges[k].negated
<1> DEFINE p == PlanOf(g, "any", TRUE)
<1>1. p.type = g.nodes[g.subject].type
  BY WholeAsks
<1>2. id \in Selected(h, p) <=>
        id \in Known(h) /\ NodeOf(h, id).model = g.nodes[g.subject].type /\ Selects(h, p, id)
  <2> HIDE DEF p
  <2>1. IdsOf(h, p.type) = {i \in Known(h) : NodeOf(h, i).model = g.nodes[g.subject].type}
    BY <1>1, IdsOfIs
  <2> QED  BY <2>1 DEF Selected
<1>3. IsOne(h, g, g.subject, id) => NodeOf(h, id).model = g.nodes[g.subject].type
  BY DEF IsOne
<1>4. NodeOf(h, id).model = g.nodes[g.subject].type =>
        (Selects(h, p, id) <=>
              /\ IsOne(h, g, g.subject, id) /\ Mentions(h, g, id)
              /\ \A k \in Leaving(g, g.subject, 0) : Crosses(h, g, k, id) <=> ~g.edges[k].negated)
  BY WholeIs
<1> HIDE DEF p
<1>5. id \in Selected(h, p) <=>
              /\ id \in Known(h) /\ IsOne(h, g, g.subject, id) /\ Mentions(h, g, id)
              /\ \A k \in Leaving(g, g.subject, 0) : Crosses(h, g, k, id) <=> ~g.edges[k].negated
  BY <1>2, <1>3, <1>4, Zenon
<1> QED  BY <1>5 DEF p

\* A question of one type.
LEMMA OneTypeIs ==
    ASSUME NEW h, IsGraph(h), NEW g, WellGrounded(g), Connected(g), Vars(g) = {g.subject}
    PROVE  Selected(h, PlanOf(g, "any", TRUE)) = Meant(h, g)
<1> DEFINE s == g.subject
<1>1. Leaving(g, s, 0) = DOMAIN g.edges
  <2>1. ASSUME NEW k \in DOMAIN g.edges PROVE s \in Ends(g.edges[k]) /\ k # 0
    <3>1. s \in Ends(g.edges[k])
      BY DEF Connected
    <3> QED  BY <3>1, EdgesAre
  <2> QED  BY <2>1 DEF Leaving
<1>2. ASSUME NEW k \in DOMAIN g.edges
      PROVE  /\ s \in Ends(g.edges[k]) /\ There(g, s, k) \notin Vars(g)
             /\ \A id : Crosses(h, g, k, id) <=> Reaches(h, g, s, k, id, DocAt(g, There(g, s, k)))
  <2>1. s \in Ends(g.edges[k])
    BY <1>1 DEF Leaving
  <2>2. There(g, s, k) \notin Vars(g) /\ ~IsVar(g, There(g, s, k))
    BY <2>1, EdgesAre, VarsAre
  <2> QED  BY <2>1, <2>2 DEF Crosses
<1>3. Near(g) = {s}
  BY DEF Near
<1>4. Within(g, {s}) = DOMAIN g.edges
  BY DEF Within
<1>5. AddedTo(g) = {}
  BY <1>3 DEF AddedTo
<1>6. ASSUME NEW a \in [{s} -> Known(h)]
      PROVE  Fits(h, g, a, {}) <=>
                /\ IsOne(h, g, s, a[s])
                /\ \A k \in DOMAIN g.edges : Crosses(h, g, k, a[s]) <=> ~g.edges[k].negated
  <2>1. ASSUME NEW k \in DOMAIN g.edges
        PROVE  Related(h, g, a, k) <=> Crosses(h, g, k, a[s])
    BY <1>2, ToRecord
  <2>2. Fits(h, g, a, {}) <=>
            /\ \A n \in {s} : IsOne(h, g, n, a[n])
            /\ \A k \in DOMAIN g.edges : Related(h, g, a, k) <=> (k \in {} \/ ~g.edges[k].negated)
    BY <1>4, Zenon DEF Fits
  <2> QED  BY <2>1, <2>2, Zenon
<1>7. ASSUME NEW id
      PROVE  id \in Selected(h, PlanOf(g, "any", TRUE)) <=>
              /\ id \in Known(h) /\ IsOne(h, g, s, id) /\ Mentions(h, g, id)
              /\ \A k \in DOMAIN g.edges : Crosses(h, g, k, id) <=> ~g.edges[k].negated
  BY <1>1, SelectedIs
<1>8. ASSUME NEW id
      PROVE  id \in Meant(h, g) <=>
              /\ id \in Known(h) /\ IsOne(h, g, s, id) /\ Mentions(h, g, id)
              /\ \A k \in DOMAIN g.edges : Crosses(h, g, k, id) <=> ~g.edges[k].negated
  <2> HIDE DEF s
  <2>1. id \in Meant(h, g) <=>
            \E a \in [{s} -> Known(h)] : a[s] = id /\ Fits(h, g, a, {}) /\ Mentions(h, g, id)
    BY <1>3, <1>5, MeantIs DEF s
  <2>2. id \in Known(h) => [n \in {s} |-> id] \in [{s} -> Known(h)] /\ [n \in {s} |-> id][s] = id
    OBVIOUS
  <2>3. \A a \in [{s} -> Known(h)] : a[s] \in Known(h)
    OBVIOUS
  <2> QED  BY <1>6, <2>1, <2>2, <2>3, Zenon
<1> QED  BY <1>7, <1>8

\* Two types and the relation that joins them.
Joins(g, v, j) ==
    /\ v \in Vars(g) /\ v # g.subject /\ Vars(g) = {g.subject, v}
    /\ j \in DOMAIN g.edges /\ Ends(g.edges[j]) = {g.subject, v}
    /\ \A k \in DOMAIN g.edges : Ends(g.edges[k]) = {g.subject, v} => k = j

LEMMA TwoTypes ==
    ASSUME NEW h, NEW g, WellGrounded(g), Connected(g), NEW v, NEW j, Joins(g, v, j)
    PROVE  /\ There(g, g.subject, j) = v /\ g.subject \in Vars(g)
           /\ \A n \in Vars(g) : \A k \in Leaving(g, n, j) :
                There(g, n, k) \notin Vars(g) /\ Ends(g.edges[k]) \cap Vars(g) = {n}
           /\ Leaving(g, g.subject, 0) = {j} \cup Leaving(g, g.subject, j)
           /\ Within(g, {g.subject, v}) =
                {j} \cup Leaving(g, g.subject, j) \cup Leaving(g, v, j)
           /\ Within(g, {g.subject}) = Leaving(g, g.subject, j)
<1> DEFINE s == g.subject
<1>1. /\ v \in Vars(g) /\ v # s /\ Vars(g) = {s, v} /\ j \in DOMAIN g.edges
      /\ Ends(g.edges[j]) = {s, v}
      /\ \A k \in DOMAIN g.edges : Ends(g.edges[k]) = {s, v} => k = j
  BY DEF Joins
<1>2. There(g, s, j) = v
  BY <1>1, EdgesAre
<1>3. ASSUME NEW n \in Vars(g), NEW k \in Leaving(g, n, j)
      PROVE  There(g, n, k) \notin Vars(g) /\ Ends(g.edges[k]) \cap Vars(g) = {n}
  <2>1. k \in DOMAIN g.edges /\ k # j /\ n \in Ends(g.edges[k])
    BY DEF Leaving
  <2>2. There(g, n, k) # n /\ Ends(g.edges[k]) = {n, There(g, n, k)}
    BY <2>1, EdgesAre
  <2>3. There(g, n, k) \notin Vars(g)
    <3>1. SUFFICES ASSUME There(g, n, k) \in Vars(g) PROVE FALSE
      OBVIOUS
    <3>2. {n, There(g, n, k)} = {s, v}
      BY <1>1, <2>2, <3>1
    <3> QED  BY <1>1, <2>1, <2>2, <3>2
  <2> QED  BY <2>2, <2>3
<1>4. \A k \in DOMAIN g.edges : k # 0 /\ Ends(g.edges[k]) \cap {s, v} # {}
  <2>1. \A k \in DOMAIN g.edges : Ends(g.edges[k]) \cap {s, v} # {}
    BY <1>1 DEF Connected
  <2> QED  BY <2>1, EdgesAre
<1>5. Leaving(g, s, 0) = {j} \cup Leaving(g, s, j)
  BY <1>1, <1>4 DEF Leaving
<1>6. Within(g, {s, v}) = {j} \cup Leaving(g, s, j) \cup Leaving(g, v, j)
  BY <1>1, <1>4 DEF Within, Leaving
<1>7. Within(g, {s}) = Leaving(g, s, j)
  <2>1. ASSUME NEW k \in Within(g, {s}) PROVE k \in Leaving(g, s, j)
    BY <1>1, <1>4 DEF Within, Leaving
  <2>2. ASSUME NEW k \in Leaving(g, s, j) PROVE k \in Within(g, {s})
    BY <1>1, <1>3 DEF Within, Leaving
  <2> QED  BY <2>1, <2>2
<1> QED  BY <1>1, <1>2, <1>3, <1>5, <1>6, <1>7

LEMMA FitsOne ==
    ASSUME NEW h, NEW g, WellGrounded(g), Connected(g), NEW v, NEW j, Joins(g, v, j),
           NEW a \in [{g.subject} -> Known(h)]
    PROVE  Fits(h, g, a, {}) <=>
              IsOne(h, g, g.subject, a[g.subject]) /\ LinksAs(h, g, g.subject, j, a[g.subject])
<1> DEFINE s == g.subject
<1>1. s \in Vars(g) /\ Within(g, {s}) = Leaving(g, s, j)
  BY TwoTypes
<1>2. ASSUME NEW k \in Leaving(g, s, j)
      PROVE  Related(h, g, a, k) <=> Reaches(h, g, s, k, a[s], DocAt(g, There(g, s, k)))
  <2>1. There(g, s, k) \notin Vars(g) /\ k \in DOMAIN g.edges /\ s \in Ends(g.edges[k])
    BY <1>1, TwoTypes DEF Leaving
  <2> QED  BY <1>1, <2>1, ToRecord
<1>3. DOMAIN a = {s}
  OBVIOUS
<1> HIDE DEF s
<1>4. Fits(h, g, a, {}) <=>
        /\ \A n \in {s} : IsOne(h, g, n, a[n])
        /\ \A k \in Leaving(g, s, j) : Related(h, g, a, k) <=> (k \in {} \/ ~g.edges[k].negated)
  BY <1>1, <1>3, Zenon DEF Fits
<1>5. Fits(h, g, a, {}) <=> IsOne(h, g, s, a[s]) /\ LinksAs(h, g, s, j, a[s])
  BY <1>2, <1>4, Zenon DEF LinksAs
<1> QED  BY <1>5 DEF s

LEMMA FitsBoth ==
    ASSUME NEW h, NEW g, WellGrounded(g), Connected(g), NEW v, NEW j, Joins(g, v, j),
           NEW b \in [{g.subject, v} -> Known(h)], NEW also \in SUBSET {j}
    PROVE  Fits(h, g, b, also) <=>
              /\ IsOne(h, g, g.subject, b[g.subject]) /\ IsOne(h, g, v, b[v])
              /\ LinksAs(h, g, g.subject, j, b[g.subject]) /\ LinksAs(h, g, v, j, b[v])
              /\ Reaches(h, g, g.subject, j, b[g.subject], b[v])
                    <=> (j \in also \/ ~g.edges[j].negated)
<1> DEFINE s == g.subject
<1>1. /\ s \in Vars(g) /\ v \in Vars(g) /\ There(g, s, j) = v /\ j \in DOMAIN g.edges
      /\ s \in Ends(g.edges[j])
      /\ Within(g, {s, v}) = {j} \cup Leaving(g, s, j) \cup Leaving(g, v, j)
  BY TwoTypes DEF Joins
<1>2. ASSUME NEW n \in Vars(g), NEW k \in Leaving(g, n, j)
      PROVE  /\ Related(h, g, b, k) <=> Reaches(h, g, n, k, b[n], DocAt(g, There(g, n, k)))
             /\ k \notin also
  <2>1. There(g, n, k) \notin Vars(g) /\ k \in DOMAIN g.edges /\ n \in Ends(g.edges[k]) /\ k # j
    BY TwoTypes DEF Leaving
  <2> QED  BY <2>1, ToRecord
<1>3. Related(h, g, b, j) <=> Reaches(h, g, s, j, b[s], b[v])
  <2>1. IsVar(g, s) /\ IsVar(g, v)
    BY <1>1 DEF Vars, IsVar
  <2>2. Id(g, b, s) = b[s] /\ Id(g, b, v) = b[v]
    BY <2>1 DEF Id
  <2> QED  BY <1>1, <2>2, RelatedIs
<1>4. DOMAIN b = {s, v}
  OBVIOUS
<1> DEFINE Fine(k) == Related(h, g, b, k) <=> (k \in also \/ ~g.edges[k].negated)
<1>5. ASSUME NEW n \in Vars(g)
      PROVE  (\A k \in Leaving(g, n, j) : Fine(k)) <=> LinksAs(h, g, n, j, b[n])
  BY <1>2, Zenon DEF LinksAs
<1>6. Fine(j) <=> (Reaches(h, g, s, j, b[s], b[v]) <=> (j \in also \/ ~g.edges[j].negated))
  BY <1>3, Zenon
<1> HIDE DEF s, Fine
<1>7. Fits(h, g, b, also) <=>
        (\A n \in {s, v} : IsOne(h, g, n, b[n])) /\ \A k \in Within(g, {s, v}) : Fine(k)
  BY <1>4, Zenon DEF Fits, Fine
<1>8. (\A k \in Within(g, {s, v}) : Fine(k)) <=>
        /\ Fine(j) /\ (\A k \in Leaving(g, s, j) : Fine(k)) /\ (\A k \in Leaving(g, v, j) : Fine(k))
  BY <1>1
<1>9. Fits(h, g, b, also) <=>
        /\ IsOne(h, g, s, b[s]) /\ IsOne(h, g, v, b[v])
        /\ LinksAs(h, g, s, j, b[s]) /\ LinksAs(h, g, v, j, b[v])
        /\ Reaches(h, g, s, j, b[s], b[v]) <=> (j \in also \/ ~g.edges[j].negated)
  BY <1>1, <1>5, <1>6, <1>7, <1>8, Zenon
<1> QED  BY <1>9 DEF s

\* A question of two types: the relation between them asks for some record of the other
\* type, or for none.
Partner(h, g, v, j, id, o) ==
    Reaches(h, g, g.subject, j, id, o) /\ IsOne(h, g, v, o) /\ LinksAs(h, g, v, j, o)

LEMMA SelectedOfTwo ==
    ASSUME NEW h, IsGraph(h), NEW g, WellGrounded(g), Connected(g), NEW v, NEW j, Joins(g, v, j), NEW id
    PROVE  id \in Selected(h, PlanOf(g, "any", TRUE)) <=>
              /\ id \in Known(h) /\ IsOne(h, g, g.subject, id) /\ Mentions(h, g, id)
              /\ LinksAs(h, g, g.subject, j, id)
              /\ (\E o \in Known(h) : Partner(h, g, v, j, id, o)) <=> ~g.edges[j].negated
<1> DEFINE s == g.subject
           Fine(k) == Crosses(h, g, k, id) <=> ~g.edges[k].negated
<1>1. /\ s \in Vars(g) /\ v \in Vars(g) /\ There(g, s, j) = v
      /\ Leaving(g, s, 0) = {j} \cup Leaving(g, s, j)
  BY TwoTypes DEF Joins
<1>2. Crosses(h, g, j, id) <=> \E o \in Known(h) : Partner(h, g, v, j, id, o)
  <2>1. IsVar(g, v)
    BY <1>1 DEF Vars, IsVar
  <2>2. IdsOf(h, g.nodes[v].type) = {o \in Known(h) : NodeOf(h, o).model = g.nodes[v].type}
    BY IdsOfIs
  <2>3. \A o : IsOne(h, g, v, o) => NodeOf(h, o).model = g.nodes[v].type
    BY DEF IsOne
  <2>4. Crosses(h, g, j, id) <=> \E o \in IdsOf(h, g.nodes[v].type) : Partner(h, g, v, j, id, o)
    BY <1>1, <2>1 DEF Crosses, Partner
  <2> QED  BY <2>2, <2>3, <2>4 DEF Partner
<1>3. (\A k \in Leaving(g, s, j) : Fine(k)) <=> LinksAs(h, g, s, j, id)
  <2>1. ASSUME NEW k \in Leaving(g, s, j)
        PROVE  Crosses(h, g, k, id) <=> Reaches(h, g, s, k, id, DocAt(g, There(g, s, k)))
    <3>1. There(g, s, k) \notin Vars(g) /\ k \in DOMAIN g.edges /\ s \in Ends(g.edges[k])
      BY <1>1, TwoTypes DEF Leaving
    <3>2. ~IsVar(g, There(g, s, k))
      BY <3>1, EdgesAre, VarsAre
    <3> QED  BY <3>2 DEF Crosses
  <2> QED  BY <2>1, Zenon DEF LinksAs
<1>4. id \in Selected(h, PlanOf(g, "any", TRUE)) <=>
        /\ id \in Known(h) /\ IsOne(h, g, s, id) /\ Mentions(h, g, id)
        /\ \A k \in Leaving(g, s, 0) : Fine(k)
  BY <1>1, SelectedIs
<1> HIDE DEF s, Fine
<1>5. (\A k \in Leaving(g, s, 0) : Fine(k)) <=> Fine(j) /\ \A k \in Leaving(g, s, j) : Fine(k)
  BY <1>1
<1>6. Fine(j) <=> ((\E o \in Known(h) : Partner(h, g, v, j, id, o)) <=> ~g.edges[j].negated)
  BY <1>2, Zenon DEF Fine
<1>7. id \in Selected(h, PlanOf(g, "any", TRUE)) <=>
        /\ id \in Known(h) /\ IsOne(h, g, s, id) /\ Mentions(h, g, id)
        /\ LinksAs(h, g, s, j, id)
        /\ (\E o \in Known(h) : Partner(h, g, v, j, id, o)) <=> ~g.edges[j].negated
  BY <1>3, <1>4, <1>5, <1>6, Zenon
<1> QED  BY <1>7 DEF s

\* Which types are near, and what a negated relation adds.
LEMMA NearOfTwo ==
    ASSUME NEW h, NEW g, WellGrounded(g), Connected(g), NEW v, NEW j, Joins(g, v, j)
    PROVE  /\ ~g.edges[j].negated => Near(g) = {g.subject, v} /\ AddedTo(g) = {}
           /\ g.edges[j].negated =>
                /\ Near(g) = {g.subject} /\ AddedTo(g) = {j}
                /\ Near(g) \cup ((Ends(g.edges[j]) \cap Vars(g)) \ Near(g)) = {g.subject, v}
<1> DEFINE s == g.subject
<1>1. /\ v \in Vars(g) /\ v # s /\ Vars(g) = {s, v} /\ j \in DOMAIN g.edges
      /\ Ends(g.edges[j]) = {s, v}
      /\ \A k \in DOMAIN g.edges : Ends(g.edges[k]) = {s, v} => k = j
  BY DEF Joins
<1> HIDE DEF s
<1>2. CASE ~g.edges[j].negated
  <2>1. Near(g) = {s, v}
    BY <1>1, <1>2 DEF Near, s
  <2>2. AddedTo(g) = {}
    BY <1>1, <2>1 DEF AddedTo
  <2> QED  BY <1>2, <2>1, <2>2 DEF s
<1>3. CASE g.edges[j].negated
  <2>1. Near(g) = {s}
    BY <1>1, <1>3 DEF Near, s
  <2>2. ASSUME NEW k \in AddedTo(g) PROVE k = j
    <3>1. k \in DOMAIN g.edges /\ s \in Ends(g.edges[k]) /\ v \in Ends(g.edges[k])
      BY <1>1, <2>1 DEF AddedTo
    <3>2. Ends(g.edges[k]) = {s, v}
      BY <1>1, <3>1 DEF Ends
    <3> QED  BY <1>1, <3>1, <3>2
  <2>3. j \in AddedTo(g)
    BY <1>1, <1>3, <2>1 DEF AddedTo
  <2>4. Near(g) \cup ((Ends(g.edges[j]) \cap Vars(g)) \ Near(g)) = {s, v}
    BY <1>1, <2>1
  <2> QED  BY <1>3, <2>1, <2>2, <2>3, <2>4 DEF s
<1> QED  BY <1>2, <1>3

\* A question of two types.
LEMMA TwoTypesIs ==
    ASSUME NEW h, IsGraph(h), NEW g, WellGrounded(g), Connected(g), NEW v, NEW j, Joins(g, v, j)
    PROVE  Selected(h, PlanOf(g, "any", TRUE)) = Meant(h, g)
<1> DEFINE s == g.subject
           Fit(id) == IsOne(h, g, s, id) /\ LinksAs(h, g, s, j, id)
           Some(id) == \E o \in Known(h) : Partner(h, g, v, j, id, o)
<1>1. s # v
  BY DEF Joins
<1>2. ASSUME NEW id
      PROVE  id \in Selected(h, PlanOf(g, "any", TRUE)) <=>
              id \in Known(h) /\ Fit(id) /\ Mentions(h, g, id) /\ (Some(id) <=> ~g.edges[j].negated)
  BY SelectedOfTwo
<1>3. CASE ~g.edges[j].negated
  <2>1. Near(g) = {s, v} /\ AddedTo(g) = {}
    BY <1>3, NearOfTwo
  <2>2. ASSUME NEW b \in [{s, v} -> Known(h)]
        PROVE  Fits(h, g, b, {}) <=> Fit(b[s]) /\ Partner(h, g, v, j, b[s], b[v])
    BY <1>3, FitsBoth DEF Partner
  <2>3. ASSUME NEW id
        PROVE  id \in Meant(h, g) <=>
                \E b \in [{s, v} -> Known(h)] :
                    b[s] = id /\ Fit(b[s]) /\ Partner(h, g, v, j, b[s], b[v]) /\ Mentions(h, g, id)
    <3>1. id \in Meant(h, g) <=>
            \E b \in [{s, v} -> Known(h)] : b[s] = id /\ Fits(h, g, b, {}) /\ Mentions(h, g, id)
      BY <2>1, MeantIs
    <3> HIDE DEF s, Fit
    <3> QED  BY <2>2, <3>1, Zenon
  <2>4. ASSUME NEW id
        PROVE  id \in Meant(h, g) <=> id \in Known(h) /\ Fit(id) /\ Mentions(h, g, id) /\ Some(id)
    <3>1. ASSUME NEW b \in [{s, v} -> Known(h)] PROVE b[s] \in Known(h) /\ b[v] \in Known(h)
      OBVIOUS
    <3>2. ASSUME NEW o \in Known(h), id \in Known(h)
          PROVE  \E b \in [{s, v} -> Known(h)] : b[s] = id /\ b[v] = o
      <4> DEFINE b == [n \in {s, v} |-> IF n = s THEN id ELSE o]
      <4>1. b \in [{s, v} -> Known(h)] /\ b[s] = id /\ b[v] = o
        BY <1>1, <3>2
      <4> HIDE DEF b
      <4> QED  BY <4>1
    <3> HIDE DEF s, Fit
    <3>3. ASSUME id \in Meant(h, g)
          PROVE  id \in Known(h) /\ Fit(id) /\ Mentions(h, g, id) /\ Some(id)
      BY <2>3, <3>1, <3>3
    <3>4. ASSUME id \in Known(h), Fit(id), Mentions(h, g, id), Some(id)
          PROVE  id \in Meant(h, g)
      <4>1. PICK o \in Known(h) : Partner(h, g, v, j, id, o)
        BY <3>4
      <4>2. PICK b \in [{s, v} -> Known(h)] : b[s] = id /\ b[v] = o
        BY <3>2, <3>4
      <4> QED  BY <2>3, <3>4, <4>1, <4>2
    <3> HIDE DEF Some
    <3> QED  BY <3>3, <3>4, Zenon
  <2> HIDE DEF Fit, Some
  <2>5. ASSUME NEW id
        PROVE  id \in Selected(h, PlanOf(g, "any", TRUE)) <=> id \in Meant(h, g)
    BY <1>2, <1>3, <2>4, Zenon
  <2> QED  BY <2>5
<1>4. CASE g.edges[j].negated
  <2>1. /\ Near(g) = {s} /\ AddedTo(g) = {j}
        /\ Near(g) \cup ((Ends(g.edges[j]) \cap Vars(g)) \ Near(g)) = {s, v}
    BY <1>4, NearOfTwo
  <2>2. ASSUME NEW b \in [{s, v} -> Known(h)]
        PROVE  Fits(h, g, b, {j}) <=> Fit(b[s]) /\ Partner(h, g, v, j, b[s], b[v])
    BY <1>4, FitsBoth DEF Partner
  <2>3. ASSUME NEW a \in [{s} -> Known(h)]
        PROVE  Fits(h, g, a, {}) <=> Fit(a[s])
    BY FitsOne
  <2>4. ASSUME NEW a \in [{s} -> Known(h)], Fit(a[s])
        PROVE  Lacks(h, g, a, j) <=> ~Some(a[s])
    <3>1. Lacks(h, g, a, j) <=>
            ~\E b \in [{s, v} -> Known(h)] : b[s] = a[s] /\ Fits(h, g, b, {j})
      <4>1. \A b : (\A n \in {s} : b[n] = a[n]) <=> b[s] = a[s]
        OBVIOUS
      <4> HIDE DEF s
      <4> QED  BY <2>1, <4>1, Zenon DEF Lacks
    <3>2. a[s] \in Known(h) /\ \A b \in [{s, v} -> Known(h)] : b[v] \in Known(h)
      OBVIOUS
    <3>3. ASSUME NEW o \in Known(h)
          PROVE  \E b \in [{s, v} -> Known(h)] : b[s] = a[s] /\ b[v] = o
      <4> DEFINE b == [n \in {s, v} |-> IF n = s THEN a[s] ELSE o]
      <4>1. b \in [{s, v} -> Known(h)] /\ b[s] = a[s] /\ b[v] = o
        BY <1>1, <3>2
      <4> HIDE DEF b
      <4> QED  BY <4>1
    <3> HIDE DEF s, Fit
    <3>4. ASSUME NEW b \in [{s, v} -> Known(h)], b[s] = a[s], Fits(h, g, b, {j})
          PROVE  Some(a[s])
      BY <2>2, <3>2, <3>4
    <3>5. ASSUME NEW o \in Known(h), Partner(h, g, v, j, a[s], o)
          PROVE  \E b \in [{s, v} -> Known(h)] : b[s] = a[s] /\ Fits(h, g, b, {j})
      <4>1. PICK b \in [{s, v} -> Known(h)] : b[s] = a[s] /\ b[v] = o
        BY <3>3
      <4> QED  BY <2>2, <2>4, <3>5, <4>1
    <3> QED  BY <3>1, <3>4, <3>5, Zenon
  <2>5. ASSUME NEW id
        PROVE  id \in Meant(h, g) <=> id \in Known(h) /\ Fit(id) /\ Mentions(h, g, id) /\ ~Some(id)
    <3>1. id \in Meant(h, g) <=>
            \E a \in [{s} -> Known(h)] :
                a[s] = id /\ Fits(h, g, a, {}) /\ Mentions(h, g, id) /\ Lacks(h, g, a, j)
      <4>1. id \in Meant(h, g) <=>
              \E a \in [{s} -> Known(h)] :
                a[s] = id /\ Fits(h, g, a, {}) /\ Mentions(h, g, id) /\ \A k \in {j} : Lacks(h, g, a, k)
        <5>1. id \in Meant(h, g) <=>
                \E a \in [Near(g) -> Known(h)] :
                  /\ a[g.subject] = id /\ Fits(h, g, a, {}) /\ Mentions(h, g, id)
                  /\ \A k \in AddedTo(g) : Lacks(h, g, a, k)
          BY MeantIs
        <5> QED  BY <2>1, <5>1, Zenon
      <4> HIDE DEF s
      <4> QED  BY <4>1, Zenon
    <3>2. id \in Known(h) => [n \in {s} |-> id] \in [{s} -> Known(h)] /\ [n \in {s} |-> id][s] = id
      OBVIOUS
    <3>3. \A a \in [{s} -> Known(h)] : a[s] \in Known(h)
      OBVIOUS
    <3> HIDE DEF s, Fit, Some
    <3>4. ASSUME id \in Meant(h, g)
          PROVE  id \in Known(h) /\ Fit(id) /\ Mentions(h, g, id) /\ ~Some(id)
      BY <2>3, <2>4, <3>1, <3>3, <3>4, Zenon
    <3>5. ASSUME id \in Known(h), Fit(id), Mentions(h, g, id), ~Some(id)
          PROVE  id \in Meant(h, g)
      BY <2>3, <2>4, <3>1, <3>2, <3>5, Zenon
    <3> QED  BY <3>4, <3>5, Zenon
  <2> HIDE DEF Fit, Some
  <2>6. ASSUME NEW id
        PROVE  id \in Selected(h, PlanOf(g, "any", TRUE)) <=> id \in Meant(h, g)
    BY <1>2, <1>4, <2>5, Zenon
  <2> QED  BY <2>6
<1> QED  BY <1>3, <1>4

\* The records a question's plan selects are the ones it means.
LEMMA PlanMeans ==
    ASSUME NEW h, IsGraph(h), NEW g, WellGrounded(g), Connected(g), g.subject \in Vars(g)
    PROVE  Selected(h, PlanOf(g, "any", TRUE)) = Meant(h, g)
<1>1. CASE Vars(g) = {g.subject}
  BY <1>1, OneTypeIs
<1>2. CASE Vars(g) # {g.subject}
  <2>1. PICK v \in Vars(g), j \in DOMAIN g.edges :
                /\ v # g.subject /\ Vars(g) = {g.subject, v} /\ Ends(g.edges[j]) = {g.subject, v}
                /\ \A k \in DOMAIN g.edges : Ends(g.edges[k]) = {g.subject, v} => k = j
    BY <1>2, FewTypes
  <2>2. Joins(g, v, j)
    BY <2>1 DEF Joins
  <2> QED  BY <2>2, TwoTypesIs
<1> QED  BY <1>1, <1>2

\* The smaller of two numbers.
LEMMA MinOfTwo ==
    ASSUME NEW a \in Nat, NEW b \in Nat
    PROVE  Min({a, b}) \in {a, b} /\ Min({a, b}) <= a /\ Min({a, b}) <= b
<1>1. PICK m \in {a, b} : \A y \in {a, b} : m <= y
  <2>1. CASE a <= b
    BY <2>1
  <2>2. CASE b <= a
    BY <2>2
  <2> QED  BY <2>1, <2>2
<1> QED  BY <1>1 DEF Min

\* There are only so many records to select.
LEMMA FewSelected ==
    ASSUME NEW h, IsGraph(h), NEW p
    PROVE  IsFiniteSet(Selected(h, p)) /\ Cardinality(Selected(h, p)) \in Nat
<1> DEFINE places == 1..Len(h.nodes)
           f == [i \in places |-> h.nodes[i].id]
           ids == {f[i] : i \in places}
<1>1. Len(h.nodes) \in Nat /\ DOMAIN h.nodes = places
  BY DEF IsGraph, IsSeq
<1>2. IsFiniteSet(places)
  <2>1. Len(h.nodes) \in Nat
    BY <1>1
  <2> QED  BY <2>1, FS_Interval
<1>3. Selected(h, p) \in SUBSET ids
  BY <1>1 DEF Selected, IdsOf, ToSet
<1>4. f \in Surjection(places, ids)
  <2>1. f \in [places -> ids] /\ \A t \in ids : \E i \in places : f[i] = t
    OBVIOUS
  <2> HIDE DEF f, ids
  <2> QED  BY <2>1 DEF Surjection
<1>5. IsFiniteSet(ids)
  BY <1>2, <1>4, FS_Surjection
<1> QED  BY <1>3, <1>5, FS_Subset, FS_CardinalityType

\* The first few rows are some of them, and all where there are no more.
LEMMA FewAre ==
    ASSUME NEW h, NEW p, NEW rows, IsFiniteSet(rows), NEW few \in Nat, few = 0 => rows = {},
           NEW r \in FirstFew(h, p, rows, few)
    PROVE  /\ r \subseteq rows /\ IsFiniteSet(r)
           /\ r = {} => rows = {}
           /\ Cardinality(rows) <= few => r = rows
<1>1. r \in SUBSET rows /\ Cardinality(r) = Min({few, Cardinality(rows)})
  BY DEF FirstFew
<1>2. Cardinality(rows) \in Nat /\ (Cardinality(rows) = 0 => rows = {})
  BY FS_CardinalityType, FS_EmptySet
<1>3. /\ Min({few, Cardinality(rows)}) \in {few, Cardinality(rows)}
      /\ Min({few, Cardinality(rows)}) <= few
  BY <1>2, MinOfTwo
<1>4. IsFiniteSet(r) /\ Cardinality(r) <= Cardinality(rows)
  BY <1>1, FS_Subset
<1>5. r = {} => rows = {}
  <2>1. r = {} => Cardinality(r) = 0
    BY FS_EmptySet
  <2> QED  BY <1>1, <1>2, <1>3, <2>1
<1>6. ASSUME Cardinality(rows) <= few PROVE r = rows
  <2>1. Min({few, Cardinality(rows)}) = Cardinality(rows)
    <3>1. Min({few, Cardinality(rows)}) <= Cardinality(rows)
      BY <1>2, MinOfTwo
    <3>2. Min({few, Cardinality(rows)}) = few => few = Cardinality(rows)
      BY <1>2, <1>6, <3>1
    <3> QED  BY <1>3, <3>2
  <2> QED  BY <1>1, <2>1, FS_Subset
<1> QED  BY <1>1, <1>4, <1>5, <1>6

\* A reply's rows are of the selected records: some of them, unless there are none.  Where
\* neither the latest few nor a page are asked for, all are counted, and shown if they fit.
LEMMA RepliesAre ==
    ASSUME NEW h, IsGraph(h), NEW p, NEW limited, NEW most \in Nat \ {0},
           NEW a \in Replies(h, p, limited, most)
    PROVE  LET rows == Selected(h, p)
           IN /\ a.rows \subseteq rows
              /\ a.rows = {} => rows = {}
              /\ ~p.recent /\ ~(limited /\ ~p.count) =>
                    /\ a.total = Cardinality(rows)
                    /\ Cardinality(rows) <= most => a.rows = rows
<1> DEFINE rows == Selected(h, p)
           few == IF p.recent THEN RecentLimit
                  ELSE IF limited /\ ~p.count THEN RowLimit ELSE Cardinality(rows)
<1>1. IsFiniteSet(rows) /\ Cardinality(rows) \in Nat /\ (Cardinality(rows) = 0 => rows = {})
  BY FewSelected, FS_EmptySet
<1>2. PICK found \in FirstFew(h, p, rows, few) :
        \E shown \in FirstFew(h, p, found, most) :
            a = [said |-> "rows", rows |-> shown, total |-> Cardinality(found)]
  BY DEF Replies, RowsOf
<1> DEFINE shown == a.rows
<1>3. shown \in FirstFew(h, p, found, most) /\ a.total = Cardinality(found)
  BY <1>2
<1>4. RecentLimit \in Nat \ {0} /\ RowLimit \in Nat \ {0}
  BY QuestionAssumption
<1> HIDE DEF rows
<1>5. few \in Nat /\ (few = 0 => rows = {})
  BY <1>1, <1>4
<1>6. ~p.recent /\ ~(limited /\ ~p.count) => few = Cardinality(rows)
  OBVIOUS
<1> HIDE DEF few
<1>7. /\ found \subseteq rows /\ IsFiniteSet(found) /\ (found = {} => rows = {})
      /\ Cardinality(rows) <= few => found = rows
  BY <1>1, <1>2, <1>5, FewAre
<1>8. /\ shown \subseteq found /\ (shown = {} => found = {})
      /\ Cardinality(found) <= most => shown = found
  <2>1. most \in Nat /\ most # 0
    OBVIOUS
  <2> HIDE DEF shown
  <2> QED  BY <1>3, <1>7, <2>1, FewAre
<1>9. few = Cardinality(rows) => found = rows
  BY <1>1, <1>7
<1> QED  BY <1>3, <1>6, <1>7, <1>8, <1>9 DEF rows

\* A question that is planned has a subject and was not refused.
LEMMA PlannedIs ==
    ASSUME NEW g, NEW q, NEW tenths, Outcome(g, q, tenths) = "plan"
    PROVE  ~g.refuse /\ g.subject # 0
<1>1. CASE ~IsQuestion(q)
  BY <1>1 DEF Outcome
<1>2. CASE IsQuestion(q) /\ g.refuse
  BY <1>2 DEF Outcome
<1>3. CASE IsQuestion(q) /\ g.subject = 0
  BY <1>3 DEF Outcome
<1> QED  BY <1>1, <1>2, <1>3

\* A question that may be asked of the graph.
Askable(h, q) ==
    IsGraph(h) /\ LET g == Ground(QuestionDocs(h), q) IN g.refuse \/ WellGrounded(g)

LEMMA PlanIsMeant ==
    ASSUME NEW h, NEW q, Askable(h, q), NEW tenths,
           Outcome(Ground(QuestionDocs(h), q), q, tenths) = "plan",
           Connected(Ground(QuestionDocs(h), q))
    PROVE  Selected(h, PlanOf(Ground(QuestionDocs(h), q), "any", TRUE))
                = Meant(h, Ground(QuestionDocs(h), q))
<1> DEFINE g == Ground(QuestionDocs(h), q)
<1>1. IsGraph(h) /\ (g.refuse \/ WellGrounded(g))
  BY DEF Askable
<1>2. ~g.refuse /\ g.subject # 0
  BY PlannedIs
<1>3. Connected(g)
  OBVIOUS
<1> HIDE DEF g
<1>4. WellGrounded(g) /\ g.subject \in Vars(g)
  BY <1>1, <1>2 DEF WellGrounded
<1>5. Selected(h, PlanOf(g, "any", TRUE)) = Meant(h, g)
  BY <1>1, <1>3, <1>4, PlanMeans
<1> QED  BY <1>5 DEF g

\* Rows as an answer: some of what is meant; all of it counted, and shown if it fits.
Some(rows, meant) == rows \subseteq meant /\ (rows = {} => meant = {})
Counted(a, meant) == a.total = Cardinality(meant)
Every(a, meant) == Counted(a, meant) /\ (Cardinality(meant) <= MaxRows => a.rows = meant)

\* Where nothing is meant, no rows say so.
LEMMA NoRowsSay ==
    ASSUME NEW what
    PROVE  Some(NoRows(what).rows, {}) /\ Every(NoRows(what), {})
  BY FS_EmptySet DEF NoRows, Some, Every, Counted

\* The gate's own answer.
LEMMA AnswerMeans ==
    ASSUME NEW h, NEW q, Askable(h, q), NEW a \in Answer(h, q),
           UnderstoodWhole(Ground(QuestionDocs(h), q), q), Connected(Ground(QuestionDocs(h), q))
    PROVE  LET g == Ground(QuestionDocs(h), q)
           IN Some(a.rows, Meant(h, g)) /\ (~g.recent => Every(a, Meant(h, g)))
<1> DEFINE g == Ground(QuestionDocs(h), q)
           p == PlanOf(g, "any", TRUE)
<1>1. Outcome(g, q, 8) = "plan"
  BY DEF UnderstoodWhole
<1>2. Selected(h, p) = Meant(h, g)
  BY <1>1, PlanIsMeant
<1>3. a \in RowsIfAny(h, p)
  BY DEF Answer, AnswerOf
<1>4. p.recent = g.recent
  <2>1. PlanOf(g, "any", TRUE).recent = g.recent
    BY DEF PlanOf, WholePlan, PlanAt
  <2> QED  BY <2>1
<1>5. IsGraph(h)
  BY DEF Askable
<1> HIDE DEF p, g
<1>6. CASE Selected(h, p) = {}
  <2>1. a = NoRows("nothing")
    BY <1>3, <1>6 DEF RowsIfAny, Silent
  <2> QED  BY <1>2, <1>6, <2>1, NoRowsSay DEF g
<1>7. CASE Selected(h, p) # {}
  <2>1. a \in Replies(h, p, FALSE, MaxRows)
    BY <1>3, <1>7, Zenon DEF RowsIfAny
  <2>2. MaxRows \in Nat \ {0}
    BY QuestionAssumption
  <2>3. /\ a.rows \subseteq Selected(h, p) /\ (a.rows = {} => Selected(h, p) = {})
        /\ ~p.recent =>
                /\ a.total = Cardinality(Selected(h, p))
                /\ Cardinality(Selected(h, p)) <= MaxRows => a.rows = Selected(h, p)
    BY <1>5, <2>1, <2>2, RepliesAre
  <2>4. Some(a.rows, Meant(h, g)) /\ (~g.recent => Every(a, Meant(h, g)))
    BY <1>2, <1>4, <2>3 DEF Some, Every, Counted
  <2> QED  BY <2>4 DEF g
<1> QED  BY <1>6, <1>7

\* memory_ask, where there is nothing to relax.
LEMMA MemoryAskMeans ==
    ASSUME NEW h, NEW q, Askable(h, q), NEW a \in MemoryAsk(h, q),
           Outcome(Ground(QuestionDocs(h), q), q, 6) = "plan",
           Connected(Ground(QuestionDocs(h), q)), Relaxations(Ground(QuestionDocs(h), q)) = <<>>
    PROVE  LET g == Ground(QuestionDocs(h), q)
           IN Some(a.rows, Meant(h, g)) /\ (g.count /\ ~g.recent => Counted(a, Meant(h, g)))
<1> DEFINE g == Ground(QuestionDocs(h), q)
           p == PlanOf(g, "any", TRUE)
           some == {i \in DOMAIN <<p>> : Selected(h, <<p>>[i]) # {}}
<1>1. Selected(h, p) = Meant(h, g)
  BY PlanIsMeant
<1>2. IsGraph(h)
  BY DEF Askable
<1>3. a \in FirstRows(h, g, <<p>> \o <<>>)
  BY DEF MemoryAsk, AskAs, AskOf
<1>4. p.recent = g.recent /\ p.count = g.count
  <2>1. PlanOf(g, "any", TRUE).recent = g.recent /\ PlanOf(g, "any", TRUE).count = g.count
    BY DEF PlanOf, WholePlan, PlanAt
  <2> QED  BY <2>1
<1> HIDE DEF g, p
<1>5. <<p>> \o <<>> = <<p>> /\ DOMAIN <<p>> = {1} /\ <<p>>[1] = p
  OBVIOUS
<1>6. CASE Selected(h, p) = {}
  <2>1. some = {}
    BY <1>5, <1>6
  <2>2. a \in Fallback(g)
    BY <1>3, <1>5, <2>1 DEF FirstRows
  <2>3. \E what \in {"recall", "search"} : a = NoRows(what)
    BY <2>2 DEF Fallback
  <2> QED  BY <1>1, <1>6, <2>3, NoRowsSay DEF g, Every
<1>7. CASE Selected(h, p) # {}
  <2>1. some = {1}
    BY <1>5, <1>7
  <2>2. Min(some) = 1
    BY <2>1 DEF Min
  <2>3. a \in Replies(h, p, TRUE, AskRows)
    <3>1. Selected(h, <<p>>[1]) # {} /\ some # {}
      BY <1>5, <1>7, <2>1
    <3>2. a \in Replies(h, <<p>>[Min(some)], TRUE, AskRows)
      BY <1>3, <1>5, <3>1, Zenon DEF FirstRows
    <3> QED  BY <1>5, <2>2, <3>2
  <2>4. AskRows \in Nat \ {0}
    BY QuestionAssumption
  <2>5. /\ a.rows \subseteq Selected(h, p) /\ (a.rows = {} => Selected(h, p) = {})
        /\ ~p.recent /\ p.count => a.total = Cardinality(Selected(h, p))
    BY <1>2, <2>3, <2>4, RepliesAre
  <2>6. Some(a.rows, Meant(h, g)) /\ (g.count /\ ~g.recent => Counted(a, Meant(h, g)))
    BY <1>1, <1>4, <2>5 DEF Some, Counted
  <2> QED  BY <2>6 DEF g
<1> QED  BY <1>6, <1>7

\* What was asked is one of the reads, and a question was answered.
Questioned ==
    /\ Asked
    /\ answer # NoAnswer /\ asked.kind \in QuestionKinds => answer \in Get

LEMMA AlwaysQuestioned == ReadingSpec => []Questioned
<1>1. ReadingInit => Questioned
  BY DEF ReadingInit, ReadInit, Questioned, Asked
<1>2. Questioned /\ [ReadingNext]_readingVars => Questioned'
  <2> SUFFICES ASSUME Questioned, [ReadingNext]_readingVars PROVE Questioned'
    OBVIOUS
  <2>1. CASE UNCHANGED reading
    <3>1. graph' = graph /\ asked' = asked /\ answer' = answer
      BY <2>1 DEF reading
    <3>2. Get' = Get
      BY <3>1 DEF Get
    <3> QED  BY <3>1, <3>2 DEF Questioned, Asked
  <2>2. CASE Read
    <3>1. graph' = graph /\ asked' = asked /\ asked.kind \in Reports
      BY <2>2 DEF Read
    <3>2. asked.kind \notin QuestionKinds
      BY <3>1 DEF Reports, QuestionKinds
    <3> QED  BY <3>1, <3>2 DEF Questioned, Asked
  <2>3. CASE Reply
    <3>1. graph' = graph /\ asked' = asked /\ answer' \in Get
      BY <2>3 DEF Reply
    <3>2. Get' = Get
      BY <3>1 DEF Get
    <3> QED  BY <3>1, <3>2 DEF Questioned, Asked
  <2>4. UNCHANGED reading \/ Read \/ Reply
    BY DEF ReadingNext, readingVars, Amend
  <2> QED  BY <2>1, <2>2, <2>3, <2>4
<1> QED  BY <1>1, <1>2, PTL DEF ReadingSpec

LEMMA QuestionedIsMeant ==
    ASSUME Questioned
    PROVE  AnswersAreMeant
<1> DEFINE q == IF asked.kind = "prompt" THEN answer.q ELSE asked.q
           g == Ground(QuestionDocs(graph), q)
<1> SUFFICES ASSUME Given("question") \/ Given("prompt") \/ Given("ask")
             PROVE  MeansWhatItSays(q, g)
  BY DEF AnswersAreMeant
<1>1. answer # NoAnswer /\ asked.kind \in QuestionKinds /\ answer \in Get
  BY DEF Given, QuestionKinds, Questioned
<1>2. q \in QuestionsIn(asked)
  <2>1. CASE asked.kind = "prompt"
    BY <1>1, <2>1 DEF Get
  <2>2. CASE asked.kind # "prompt"
    BY <2>2 DEF QuestionsIn
  <2> QED  BY <2>1, <2>2
<1>3. Askable(graph, q)
  <2>1. /\ IsGraph(graph)
        /\ \A x \in QuestionsIn(asked) :
             LET y == Ground(QuestionDocs(graph), x) IN y.refuse \/ WellGrounded(y)
    BY <1>1, QuestionAssumption DEF Questioned, Asked
  <2> HIDE DEF q
  <2> QED  BY <1>2, <2>1 DEF Askable
<1>4. ASSUME Given("question") \/ Given("prompt")
      PROVE  \E a \in Answer(graph, q) : a.rows = answer.rows /\ a.total = answer.total
  <2>1. CASE asked.kind = "question"
    BY <1>1, <2>1 DEF Get
  <2>2. CASE asked.kind = "prompt"
    BY <1>1, <2>2 DEF Get
  <2> QED  BY <1>4, <2>1, <2>2 DEF Given
<1>5. ASSUME Given("ask") PROVE answer \in MemoryAsk(graph, q)
  BY <1>1, <1>5 DEF Get, Given
<1> HIDE DEF q
<1>6. ASSUME Given("question") \/ Given("prompt"), UnderstoodWhole(g, q), Connected(g)
      PROVE  Some(answer.rows, Meant(graph, g)) /\ (~g.recent => Every(answer, Meant(graph, g)))
  <2>1. PICK a \in Answer(graph, q) : a.rows = answer.rows /\ a.total = answer.total
    BY <1>4, <1>6
  <2>2. Some(a.rows, Meant(graph, g)) /\ (~g.recent => Every(a, Meant(graph, g)))
    BY <1>3, <1>6, AnswerMeans
  <2> QED  BY <2>1, <2>2 DEF Every, Counted
<1>7. ASSUME Given("ask"), Outcome(g, q, 6) = "plan", Connected(g), Relaxations(g) = <<>>
      PROVE  /\ Some(answer.rows, Meant(graph, g))
             /\ g.count /\ ~g.recent => Counted(answer, Meant(graph, g))
  BY <1>3, <1>5, <1>7, MemoryAskMeans
<1> HIDE DEF g
<1> QED
  BY <1>6, <1>7 DEF MeansWhatItSays, SomeOf, AllOf, Some, Every, Counted

\* "None unless the planner understood ALL of it" (planner.py:416-420), the half of it that
\* plans: of any graph and any vocabulary, for questions that ground.py leaves WellGrounded
\* (QuestionAssumption) and whose parts hang together, the rows that the gate shows are of
\* the records that the question asks for, given what each word was grounded as.  It says
\* how many these are, and shows them all where they fit; or of the recent ones some.  So
\* do those of memory_ask for a strict plan, which counts them all when asked how many.
THEOREM AnswersAreMeantHolds == ReadingSpec => []AnswersAreMeant
<1>1. Questioned => AnswersAreMeant
  BY QuestionedIsMeant DEF AnswersAreMeant
<1> QED  BY <1>1, AlwaysQuestioned, PTL

=============================================================================

--------------------------- MODULE MCMemoryGraph ---------------------------
(* The values of the constants of MemoryGraph for TLC. *)
EXTENDS MemoryGraph, TLC

CONSTANTS rust, Rust, go, n1, n2, n3

\* Two spellings of one label fold to the same.
MCFold == [l \in Label |-> IF l = Rust THEN rust ELSE l]

\* n1 and n2 are close enough for the duplicate guard.
MCSimilar == {<<n1, n2>>, <<n2, n1>>}
NoneSimilar == {}

\* Default stamps; an edge recorded as already over, which half way is a backdated
\* open one; one the caller wrote as revised.
DefaultStamps == {NoMetadata}
AnyStamps ==
    {NoMetadata,
     [NoMetadata EXCEPT !.from = 0, !.until = 1],
     [NoMetadata EXCEPT !.invalidated = 0]}

NodeSymmetry == Permutations(Iri)
LinkSymmetry == Permutations(Iri) \cup Permutations(LinkIri)
=============================================================================

SPECIFICATION Spec
CONSTANTS
    Iri = {i1, i2}
    LinkIri = {e1, e2}
    ResourceName = {n1}
    Label = {go}
    Fold <- MCFold
    Similar <- NoneSimilar
    Relation = {employedBy, mentors}
    BaseRelation = {employedBy}
    SingleValued = {employedBy}
    NoName = NoName
    Never = Never
    NoKind = NoKind
    MaxTime = 1
    Calls <- AnyStamps
    rust = rust
    Rust = Rust
    go = go
    n1 = n1
    n2 = n2
    n3 = n3
SYMMETRY LinkSymmetry
INVARIANTS TypeOK OneCurrentTarget NoTwinEdges ClocksAgree OneAnswerAtEveryInstant
PROPERTIES OnlyBounded FactsImplemented
CHECK_DEADLOCK FALSE

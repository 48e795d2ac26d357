SPECIFICATION Spec
CONSTANTS
    Iri = {i1, i2, i3}
    LinkIri = {e1}
    ResourceName = {n1, n2}
    Label = {rust, Rust, go}
    Fold <- MCFold
    Similar <- MCSimilar
    Relation = {employedBy, mentors}
    BaseRelation = {employedBy}
    SingleValued = {employedBy}
    NoName = NoName
    Never = Never
    NoKind = NoKind
    MaxTime = 0
    Calls <- DefaultStamps
    rust = rust
    Rust = Rust
    go = go
    n1 = n1
    n2 = n2
    n3 = n3
SYMMETRY NodeSymmetry
INVARIANTS NamesIdentify EdgesResolve
CHECK_DEADLOCK FALSE

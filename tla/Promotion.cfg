SPECIFICATION Spec
CONSTANTS
    Files = 2
    Fact = {a}
    Note = {n}
    MaxSaid = 3
    MaxDisturbedSaid = 2
    Remote = {TRUE, FALSE}
    TroubleSets = {{"lost exchange"}, {"crash", "failing file", "restated", "call"}}
INVARIANTS NothingVanishes RetiredIsStored NotesStay
PROPERTIES LiveLogsOnlyGrow
CHECK_DEADLOCK FALSE

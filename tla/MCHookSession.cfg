SPECIFICATION Spec
CONSTANTS
    Session = {s1, s2}
    TroubleSets = {{}, {"failure"}}
    N_TURNS = 1
    DIG_THRESHOLD = 1
    REVIEW_EVERY = 1
    Stale = TRUE
    MaxPrompts = 2
    MaxDigs = 1
    MaxWrites = 1
    MaxDays = 1
SYMMETRY SessionSymmetry
INVARIANTS DigsAgree ReviewsApartInTurn
PROPERTIES HeldUntilWritten
CHECK_DEADLOCK FALSE

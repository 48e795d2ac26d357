SPECIFICATION Spec
CONSTANTS
    Session = {s1, s2}
    FaultSets = {{}, {"slow start"}, {"slow answer"}, {"slow stop", "leftover"}, {"hook killed"}, {"stopped by hand"}}
    InPlace = FALSE
    Nobody = Nobody
    MaxVersion = 2
    MaxStarts = 3
    MaxFaultyStarts = 2
    MaxWrites = 1
INVARIANTS OneServer
PROPERTIES ExitsLoseNothing EnsureEnds UpdateTakesEffect
CHECK_DEADLOCK FALSE

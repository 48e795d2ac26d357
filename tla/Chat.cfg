SPECIFICATION Spec
CONSTANTS
    Name = {n1, n2}
    LossySets = {TRUE, FALSE}
    MaxTurns = 2
    MaxToolRounds = 2
    MaxChats = 1
    DailyLimit = 2
    MaxAsks = 3
    MaxLives = 2
INVARIANTS KeptWhole CapsHold
PROPERTIES TurnsEnd
CHECK_DEADLOCK FALSE

SPECIFICATION Spec
CONSTANTS
    Server = {s1, s2}
    Writer = {s1, s2}
    Write = {w1, w2, w3}
    Logged = {w3}
    Overlap = FALSE
    Uploads = FALSE
    Closed = {}
    Hole = Hole
    NoFile = NoFile
    NoWrite = NoWrite
INVARIANTS CallsSeeEverySave
PROPERTIES NeverForgets
CHECK_DEADLOCK FALSE

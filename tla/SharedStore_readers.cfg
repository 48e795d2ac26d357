SPECIFICATION Spec
CONSTANTS
    Server = {s1, s2}
    Writer = {s1}
    Write = {w1, w2, w3}
    Logged = {}
    Overlap = TRUE
    Uploads = TRUE
    Closed = {s1}
    Hole = Hole
    NoFile = NoFile
    NoWrite = NoWrite
INVARIANTS AlwaysLoads Durable
CHECK_DEADLOCK FALSE

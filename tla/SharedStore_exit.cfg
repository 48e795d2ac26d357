SPECIFICATION Spec
CONSTANTS
    Server = {s1, s2}
    Writer = {s1, s2}
    Write = {w1, w2}
    Logged = {}
    Overlap = FALSE
    Uploads = FALSE
    Closed = {s1, s2}
    Hole = Hole
    NoFile = NoFile
    NoWrite = NoWrite
INVARIANTS Durable
CHECK_DEADLOCK FALSE

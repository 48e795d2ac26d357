SPECIFICATION Spec
CONSTANTS
    Client = {c1}
    w1 = w1
    w2 = w2
    w3 = w3
    Word = {w1, w2, w3}
    NoWord = NoWord
    StaticToken = w1
    StaticPassword = NoWord
    CodeTTL = 1
    AccessTTL = 1
    RefreshTTL = 2
    LoginTTL = 1
    SessionTTL = 1
    MaxFailures = 1
    Lockout = 2
    Outcomes = {"answered", "unsaved", "lost"}
    MaxTime = 2
    MaxMint = 4
    MaxEra = 1
SYMMETRY Others
INVARIANTS ChangesHold OneHeir KeepsSignedIn FewGuesses
CHECK_DEADLOCK FALSE

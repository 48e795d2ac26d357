SPECIFICATION Spec
CONSTANTS
    Worlds = {"still", "disk", "server", "copy", "shared"}
    MaxVersion = 3
    MaxSaves = 3
    Stop = {"the"}
    Log <- MCLog
    Close <- MCClose
    PhraseGap = 2
    SegmentMinTerms = 3
    AbsMin = 300
    TopN = 1
    ClusterFactor = 3
    SemMin = 40
    SemGap = 8
    SearchSemMin = 32
    Seeds = 2
    Graphs <- MCGraphs
    Project <- MCProject
    Prompt = {"words", "long", "meant"}
    Text <- MCText
    Questions <- MCQuestions
    Understood = {"q1"}
    Entries <- MCEntries
    LogAbsMin = 300
    MaxQuestions = 2
INVARIANTS NoEcho ForgottenIsNotShown IndexesKeepUp
PROPERTIES NeverTwice
CHECK_DEADLOCK FALSE

SPECIFICATION ReadingSpec
CONSTANTS
    Stop = {"what", "how", "do", "we", "about", "the", "of", "by", "and", "are", "know"}
    Log <- MCLog
    Rare <- MCRare
    Close <- MCClose
    PhraseGap = 2
    SegmentMinTerms = 20
    AbsMin = 200
    TopN = 3
    ClusterFactor = 2
    SemMin = 60
    SemGap = 10
    SearchSemMin = 32
    Seeds = 2
    FromWords = {"from"}
    ToWords = {"to", "into"}
    Short = {}
    LowMin = 60
    CloseGap = 8
    ClashPenalty = 50
    ClarifyTop = 3
    ClarifyMin = 40
    Wh = {"which", "what", "who", "why", "how"}
    Aux = {"do", "are"}
    Imperative = {"list", "show"}
    Filler = {"we", "about", "made"}
    Neg = {"not"}
    Recent = {"recent"}
    DateShape = {"dated"}
    Preps = {"by", "about", "of"}
    LeadWords = {"which", "what", "the"}
    SubjectWords = {"which", "what", "many", "list"}
    AboutPhrases <- MCAboutPhrases
    TypeWords <- MCTypeWords
    Types <- MCTypes
    Relations <- MCRelations
    Values <- MCValues
    DateWords = {"2023", "2024"}
    DateFields <- MCDateFields
    DateForms <- MCDateForms
    Implied <- MCImplied
    Hints <- MCHints
    Recallable = {"Decision", "Task", "Project", "Person"}
    DaysOf <- MCDaysOf
    Salient <- MCSalient
    RecentLimit = 1
    RowLimit = 1
    MaxRows = 1
    AskRows = 1
    AskedQuestions = 2
    HubDegree = 2
    Beam = 2
    HubPicks = 1
    Private = {"Preference"}
    Provenance = {"sourceContext"}
    PersonKeep = {"role"}
    GapMin = 300
    OwnRelations = {"mentors"}
    Form = {"f1", "f2"}
    BaseForms <- MCBaseForms
    MaxAmends = 3
    Reads <- MCReads
    NoAnswer = NoAnswer
    ChainLimit = 4
INVARIANTS AnswersAreMeant DatesReadBack RecallReaches ShareIsTheProject
PROPERTY RemovedStaysRemoved
CHECK_DEADLOCK FALSE

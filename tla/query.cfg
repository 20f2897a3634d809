\* Queries beside runs of ingest and enrichments, with one lost manifest.
CONSTANTS
    f1 = f1
    v1 = v1
    v2 = v2
    t1 = t1
    wA = wA
    wB = wB
    FileOrder <- OneFile
    Contents = {v1, v2}
    Blank = {}
    Unreadable = {}
    Gone = Gone
    None = None
    Unset = None
    NoValue = None
    Lost = Lost
    Torn = Torn
    StemOf <- OwnSlug
    TitleOf <- OwnSlug
    EditDuringRun = TRUE
    FaultPoints = {"graph"}
    TornWrites = FALSE
    MaxEdits = 2
    MaxFaults = 0
    MaxCuts = 0
    MaxLosses = 1
    ChunkSize = 4
    ChunkOverlap = 1
    Nowhere <- NotFound
    ModelSpans <- Spans
    RerankCap = 3
    Today = 3
    Hashed = {}
    Questions <- SomeQuestions
    Rules <- SomeRules
    Relations <- SomeRelations
    DailyFiles = {}
    Rankings <- SomeRankings
    TopHits = 2
    TopEdges = 2
    NoNote = None
    PieceSize = 2
    MaxBlocks = 4
SPECIFICATION MCSpec
CONSTRAINT Bounds
INVARIANTS
    SectionFits
    FreshWhenQuiet
    AnswersFit
    SectionsAgree

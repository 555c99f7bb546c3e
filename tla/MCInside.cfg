\* A few slots, a small buffer, a screen of four rows.
SPECIFICATION InsideSpec
CONSTANTS
    MaxCalls = 2
    Attempts = 2
    MaxEvents = 3
    Ids = {"", "x", "y"}
    Cap = 14
    MaxRanges = 2
    Bodies <- TheBodies
    Queries <- TheQueries
    MaxOps = 4
    Chars = {"a", "/", "nl"}
    Commands <- TheCommands
    LineCap = 3
    HistCap = 2
    MaxKeys = 6
    Uses <- TheUses
    ElideTurns = 1
    ElideRounds = 1
    Images = 1
    UserImages = {FALSE}
    RoundCalls = 2
    MaxSlots = 10
    MaxSets = 1
    Req = {"r2", "r3"}
    Bytes <- TheBytes
    ReqBytes = 3
    TodoList <- TheLists
    LedgerCmd = {"x", "y", "z"}
    FailSlots = 2
    RepeatFails = 2
    ProgressCalls = 3
    StaleCalls = 2
    ColdCalls = 2
    Saved <- TheSaved
    LedgerOps = 4
    ScreenCap = 20
    Opening <- TheOpening
    Pieces <- ThePieces
    Sizes <- TheSizes
    CkptStep = 1
    CkptCap = 3
    NestCells = 1
    PickMin = 1
    PickRows = 2
    PagerText <- ThePager
    ScreenOps = 3
    Picture = {"a", "b"}
    ImageBytes <- ThePictureBytes
    MediaCap = 4
    PerMessage = 2
    ImageBudget = 4
    RequestImages = 3
    MediaOps = 7
    Inst = {i1, i2}
    Prompts <- ThePrompts
    Olds <- TheOlds
    RingCap = 2
    ArenaRoom = 3
    FileMax = 5
    PromptMax = 2
    MaxPrompts = 3
    MaxLoads = 3
    MaxInodes = 2
    MaxCuts = 1
VIEW PartView
INVARIANTS
    InsideTypeOK RoundTrue RequestsTrue LedgerTrue ImagesTrue
    OverlaysTrue PromptsTrue ScreenTrue
PROPERTIES
    ReaderStays
CHECK_DEADLOCK FALSE

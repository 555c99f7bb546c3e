\* One of each: a command, a server, a peer; two files, two instances, two engines.
SPECIFICATION OutsideSpec
CONSTANTS
    Cmd = {c1}
    NJobs = 1
    Page = 1
    LogCap = 2
    MaxRuns = 2
    MaxOut = 1
    MaxBreaks = 1
    Server = {s1}
    MaxProcs = 2
    MaxIds = 4
    MaxDeeds = 3
    MaxBad = 1
    MaxPages = 1
    PName = {"f1", "f2"}
    wx = wx
    Word = {wx}
    Disks <- TheDisks
    HunkLine <- TheLines
    MaxLines = 2
    MaxHunks = 2
    MaxFiles = 2
    Inst = {i1, i2}
    Texts <- TheTexts
    Secret = {"a", "b"}
    MaxWrites = 2
    Text = {"t1", "t2"}
    Tries = 2
    HelperStrikes = 3
    LangStrikes = 2
    MaxRequests = 3
    MaxSlow = 2
    Url = {"a", "b", "c"}
    Entries = 2
    Ttl = 1
    Chain <- TheChain
    Interval = 1
    Pauses <- ThePauses
    MaxClock = 7
    PagesClock = 2
    MaxFetches = 3
    StreamBody <- TheSent
    ErrBytes = 3
    LineRoom = 4
    RpcBytes = 10
    QuietLimit = 1
    Get = {"g", "h"}
    GetBytes = 1
    pa = pa
    pb = pb
    Unset = Unset
    Name = {pa, pb}
    Base = {"u", "v"}
    Key = {"k", "l"}
    Model = {"m"}
    Project <- ProjectFile
    Kepts <- TheKepts
    Room = 2
    MaxDialogs = 2
    Scripts <- TheScripts
    LineBytes = 5
    LogBytes = 5
    Trees <- TheTrees
    MaxRecords = 9
    PoolRoom = 15
    PageBytes = 3
    Limit = {1, 3}
VIEW PartView
INVARIANTS
    OutsideTypeOK JobsOwned CallRunsOnce PatchedAsMarked ColoursOfText
    AnswersTrue TransfersTrue InUseTrue EventsHeard
PROPERTIES
    EndToldOnce OwnAnswer OwnKeysOnly
CHECK_DEADLOCK FALSE

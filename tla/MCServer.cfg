SPECIFICATION Spec
CONSTANTS
    a = a
    b = b
    c = c
    d = d
    e = e
    NoFreq = NoFreq
    None = None
    Bad = Bad
    NaN = NaN
    Text = Text
    Out = Out
    Cells = {a, b, c, d, e}
    Pcis = {0, 1, 3, 6, 30}
    Nbrs <- MCNbrs
    RealNbrs <- MCRealNbrs
    Freq <- MCFreq
    Weight <- MCWeight
    MaxWeight = 1
    Order <- MCOrder
    Moduli = {3, 6, 30}
    PageSize = 3
    ModPriority <- MCPriority
    Allowed <- MCPool
    PoolRange <- MCPool
    Attempts <- MCAttempts
    Failures <- MCFailures
    MinPairAttempts = 2
    MinPoolPairs = 1
    RatioNum = 3
    RatioDen = 2
    Assignments <- MCAssignments
    Types = {"macro", "das"}
    Plans <- MCPlans
    PmFeeds <- MCPmFeeds
    Cfgs = {"k1", "k2", "dir"}
    Kafka = {"k1", "k2"}
    Runs = {"r", "s", "t"}
    MaxChanges = 2
    SiteCells = {"x"}
    Fields = {"f"}
    Required = {"f"}
    Vals = {"v", "w"}
    Reports <- MCReports
    Sheets <- MCSheets
    Ids = {1, 2}
    Threads = {"t", "u"}
    Asked <- MCAsked
    SnapSlots = {1, 2}
    Burst = 2
    MaxFails = 2
    Window = 2
    Session = 2
    SignInTime = 4
    Step = 2
    MaxAge = 7
    Spans = {4, 12}
    Target = 3
    ClockTime = 8
    MaxMoves = 2
    Comps = {"link"}
    Cleanups <- MCCleanups
    Ttl = 2
    Limit = 1
    Grace = 1
    ProcessTime = 5
INVARIANTS
    ViewsAgree
    ProposalIsClear
    GateReadsConflicts
    ImportsAgree
    ConfigCoherent
    RunsTell
    Throttled
    SeriesSpaced
    ProbesTrue
PROPERTIES
    SitesSettle
CHECK_DEADLOCK FALSE

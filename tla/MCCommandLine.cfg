CONSTANTS
    MaxLoads = 3
    MaxEvaluations = 3
    LoadDeadline = 5
    SettleTicks = 2
    Timeout = 2
    DocumentDeadline = 1
    IdleTime = 2
    GraceTime = 1
    MaxWait = 7
    MaxTime = 14
    RequestLimit = 2
    ConsoleLimit = 4
    ConsoleBytes = 5
    MessageSizes = {1, 3}
    MaxObserved = 6
    Address <- MCAddress
    MaxLinks = 3
    Flags <- MCFlags
    MaxClicks = 2
    MaxProbes = 2
    MaxSnapshots = 3
    LinkSizes = {1, 2, 5}
    LinkLimits = {0, 2}
    LinkBytes = {3}
    Corpora <- MCCorpora
    Runs = {r1, r2}
    Errors = {e1, e2}
    Workers = 2
    MaxAttempts = 2
    Unset = Unset
    Torn = Torn
    Urls = {u1, u2}
    Blank = Blank
    Identities = {f1}
    None = None
    MaxClock = 3
    MaxId = 2
    MaxNavigations = 2
    MaxInputs = 1
SPECIFICATION Spec
SYMMETRY MCSymmetry
INVARIANTS
    WaitsEndForTheirReason
    LossIsAnnounced
    
    RunsAreSettled
    ComparisonMissesNothing
PROPERTY PagesMoveForward
CHECK_DEADLOCK FALSE

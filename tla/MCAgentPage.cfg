CONSTANTS
    Capacities = {0, 2}
    MaxPublished = 5
    NodeIds = {1, 2, 3}
    Texts = {1, 5}
    Keys = {k}
    Brought <- MCBrought
    Boxes <- MCBoxes
    FrameIds = {f1, f2, f3, f4}
    Origins = {o1, o2}
    Limits = {0, 2}
    Budgets = {1}
    MaxGeneration = 4
    MaxCompilations = 2
    Targets = {1, 2}
    Policies <- MCPolicies
    Ids = {i1, i2}
    Actors = {alice, bob}
    Timeouts = {0, 2}
    MaxTime = 3
    Nobody = Nobody
    None = None
SPECIFICATION Spec
INVARIANTS
    RecordsAreKept
    DocumentIsSound
    ConsumersSeeTheTree
    GesturesAreClean
    DecisionsAreTruthful
PROPERTIES
    DrainIsHonest
CHECK_DEADLOCK FALSE

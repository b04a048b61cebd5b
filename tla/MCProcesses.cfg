CONSTANTS
    Kinds <- MCKinds
    Routes <- MCRoutes
    RestartPolicy <- MCRestart
    Ids <- MCIds
    Envelopes <- MCEnvelopes
    ChannelBound = 2
    MaxMessages <- MCMaxMessages
    RequestIds = {i1, i2}
    Capacity = 3
    MaxSequence = 5
SPECIFICATION ProcessesSpec
INVARIANTS
    OneProcessPerKind
    HandlesMatchTopology
    ExactlyOnceInOrder
    ChannelConserves
PROPERTY ImplementsFleet

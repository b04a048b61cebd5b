CONSTANTS
    Processes = {p1, p2}
    Checkpoints = {c1, c2, c3}
    Absent = Absent
    Torn = Torn
    Retention = 3
SPECIFICATION Spec
INVARIANTS
    OneSaver
    CrashKeepsPrevious
PROPERTIES
    MainReplacedWhole
    LockReleased
CHECK_DEADLOCK FALSE

CONSTANTS
    Urls = {h1, h2}
    Blank = Blank
    Identities = {f1}
    None = None
    MaxClock = 1
    IdleSeconds = 2
    Configs <- IdleConfigs
    MaxIdle = 1
    MaxTime = 2
    MaxRequests = 2
    MaxEvents = 1
SPECIFICATION Spec
INVARIANT ExitOnlyWhenIdle
CHECK_DEADLOCK FALSE

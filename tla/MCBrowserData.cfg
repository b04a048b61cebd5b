CONSTANTS
    LocalSpaces = {l}
    SessionSpaces = {s1, s2}
    StorageKeys = {a, b}
    Lengths = {2}
    Quota = 3
    Names = {n1, n2}
    Pages = {p, q}
    MaxGeneration = 2
    MaxVersion = 2
    MaxEntries = 1
    work = work
    home = home
    Parties = {work, home}
    Urls <- MCUrls
    SiteOf <- MCSiteOf
    RouteTables <- MCRouteTables
    Changes <- MCChanges
    Requests <- MCRequests
    Configs <- MCConfigs
    Scopes <- MCScopes
    MaxRequests = 3
    MaxTime = 1
    ProfileIds = {1, 2}
    Visits = {1}
    DefaultLimits <- MCDefaultLimits
    LimitChoices <- MCLimitChoices
    Bounds = {0, 1, 2}
    Variants <- MCVariants
    Applied = {"host", "absent"}
    Offered <- MCOffered
    Given <- MCGiven
    OldFile <- MCOldFile
    MaxConfigs = 2
    MaxSaved = 0
    TabUrls <- MCTabUrls
    StartUrls <- MCStartUrls
    TabIds = {1, 2}
    Owners = {mine, other}
    NoTab = NoTab
    Stale <- MCStale
    MaxTabGeneration <- MCMaxTabGeneration
    MaxSavedGeneration = 0
    MaxShownGeneration = 0
    WindowIds = {1, 2}
    LockNames = {lock}
SPECIFICATION Spec
SYMMETRY MCSymmetry
INVARIANTS
    StoresWithinLimits
    RequestsHold
    ProfilesHold
    WorkspaceHolds
    BackAndForwardUndo
PROPERTIES
    PageChangesAreNumbered
    StoresChangeWhole
CHECK_DEADLOCK FALSE

CONSTANTS
    Sessions = {s1, s2}
    Policies <- MCPolicies
    Grants <- MCGrants
    Limits <- MCLimits
    None = None
    Solvers = {s1}
    SolverGrants <- MCSolverGrants
    SolverLimits <- MCNothing
    MaxTime = 2
    MaxScripts = 2
    Takeovers = {t1, t2}
    MaxAudit = 4
    MaxSolves = 1
SYMMETRY TakeoverSymmetry
SPECIFICATION Spec
INVARIANTS
    WorkIsPaidFor
    SolveWasAuthorised
    TakeoverAuditTrail
PROPERTY NoWorkAfterDeadline
CHECK_DEADLOCK FALSE

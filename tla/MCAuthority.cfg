CONSTANTS
    Handles = {h1, h2}
    Refs = {r1, r2}
    Profiles = {work, home}
    Origins = {shop}
    Purposes = {login}
    Lifetimes <- MCLifetimes
    SecretPolicies <- MCPolicies
    Keys = {k1, k2}
    None = None
    MaxTime = 1
    MaxUses = 2
    Items = {i1, i2}
    Fields = {name, street}
    Challenges = {c1, c2}
    Subjects = {here}
    Places = {here, there}
    GrantLifetimes <- MCGrantLifetimes
    MaxTicks = 2
    Ids = {d1, d2}
    Sizes = {0, 2, 3}
    Chunks = {0, 1, 3}
    MaxBytes = 2
SYMMETRY FreshIds
SPECIFICATION Spec
INVARIANTS
    SecretsHold
    PermissionsHold
PROPERTIES
    CurrentSecretOnly
    TransferLifecycle
CHECK_DEADLOCK FALSE

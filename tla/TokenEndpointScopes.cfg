\* Scopes and audiences through hooks, rotation, scope parameters and registration changes.
SPECIFICATION Spec
CONSTANTS
    h1 = h1
    Procs = {h1}
    MaxValues = 5
    MaxGrants = 1
    Issuers = {"as"}
    ClientIDs = {"app"}
    Scopes = {"openid", "offline_access"}
    Audiences = {"api"}
    Endpoints = {"approve", "authorization_code", "refresh_token", "client_credentials", "custom"}
    Registrations <- MCRegistrations
    CodeShapes <- MCPkce
    Proofs <- MCProven
    AccessLifetimes = {1}
    RefreshLifetimes = {1}
    CodeLifetime = 1
    CollectInterval = 1
    MaxTime = 0
    Faults = {}
    NotFound = NotFound
    NoScopeParam = NoScopeParam
    None = None
SYMMETRY MCProcSymmetry
INVARIANTS
    WithinGrant
    RefreshNeedsOfflineAccess
    IssuedWithinRegistration

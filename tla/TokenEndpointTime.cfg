\* Tokens expire and are collected while requests are under way.
SPECIFICATION Spec
CONSTANTS
    h1 = h1
    h2 = h2
    Procs = {h1, h2}
    MaxValues = 3
    MaxGrants = 1
    Issuers = {"as"}
    ClientIDs = {"app"}
    Scopes = {"openid"}
    Audiences = {}
    Endpoints = {"approve", "authorization_code", "refresh_token", "revoke", "introspect", "userinfo", "validate"}
    Registrations <- MCCodeClient
    CodeShapes <- MCPkce
    Proofs <- MCProven
    AccessLifetimes = {1}
    RefreshLifetimes = {2}
    CodeLifetime = 1
    CollectInterval = 2
    MaxTime = 3
    Faults = {}
    NotFound = NotFound
    NoScopeParam = NoScopeParam
    None = None
SYMMETRY MCProcSymmetry
INVARIANTS
    SpentTokensAreUseless
    ReplayDetectableUntilExpiry
    Inductive
PROPERTIES
    NoResurrection
    ImplementsGrantLife

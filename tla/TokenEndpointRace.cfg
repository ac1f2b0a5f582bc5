\* Requests use, refresh and revoke one grant at the same time; storage calls may fail, no time passes.
SPECIFICATION FairSpec
CONSTANTS
    h1 = h1
    h2 = h2
    Procs = {h1, h2}
    MaxValues = 4
    MaxGrants = 1
    Issuers = {"as"}
    ClientIDs = {"app"}
    Scopes = {}
    Audiences = {}
    Endpoints = {"approve", "authorization_code", "refresh_token", "revoke"}
    Registrations <- MCCodeClient
    CodeShapes <- MCPkce
    Proofs <- MCProven
    AccessLifetimes = {1}
    RefreshLifetimes = {1}
    CodeLifetime = 1
    CollectInterval = 1
    MaxTime = 0
    Faults = {"error"}
    NotFound = NotFound
    NoScopeParam = NoScopeParam
    None = None
INVARIANTS
    TypeOK
PROPERTIES
    DoubleUseEndsGrant
    EveryRequestEnds

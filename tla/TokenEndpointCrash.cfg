\* Calls fail before or after their effect and handlers crash, with two grants.
SPECIFICATION Spec
CONSTANTS
    h1 = h1
    h2 = h2
    Procs = {h1, h2}
    MaxValues = 4
    MaxGrants = 2
    Issuers = {"as"}
    ClientIDs = {"app"}
    Scopes = {}
    Audiences = {}
    Endpoints = {"approve", "authorization_code", "refresh_token", "revoke"}
    Registrations <- MCFullClient
    CodeShapes <- MCPkce
    Proofs <- MCProven
    AccessLifetimes = {1}
    RefreshLifetimes = {1}
    CodeLifetime = 1
    CollectInterval = 1
    MaxTime = 0
    Faults = {"error", "late", "partial", "crash"}
    NotFound = NotFound
    NoScopeParam = NoScopeParam
    None = None
SYMMETRY MCProcSymmetry
INVARIANTS
    ConsumedMeansExchanged
    LostExchangesFailClosed
    RevokedGrantStaysDead
    AtMostOneExchange
    NoOrphans

\* Two issuers with the same client IDs, codes with and without PKCE, right and wrong proofs.
SPECIFICATION Spec
CONSTANTS
    h1 = h1
    h2 = h2
    Procs = {h1, h2}
    MaxValues = 3
    MaxGrants = 1
    Issuers = {"as", "other"}
    ClientIDs = {"app", "thief"}
    Scopes = {}
    Audiences = {}
    Endpoints = {"approve", "authorization_code", "refresh_token", "revoke"}
    Registrations <- MCCodeClient
    CodeShapes <- MCShapes
    Proofs <- MCAllProofs
    AccessLifetimes = {1}
    RefreshLifetimes = {1}
    CodeLifetime = 1
    CollectInterval = 1
    MaxTime = 0
    Faults = {}
    NotFound = NotFound
    NoScopeParam = NoScopeParam
    None = None
SYMMETRY MCProcSymmetry
PROPERTIES
    OnlyTheOwnerSpends

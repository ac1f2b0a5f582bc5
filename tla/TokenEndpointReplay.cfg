\* Expired codes are collected although they were used.
SPECIFICATION Spec
CONSTANTS
    h1 = h1
    Procs = {h1}
    MaxValues = 3
    MaxGrants = 1
    Issuers = {"as"}
    ClientIDs = {"app"}
    Scopes = {}
    Audiences = {}
    Endpoints = {"approve", "authorization_code"}
    Registrations <- MCCodeClient
    CodeShapes <- MCPkce
    Proofs <- MCProven
    AccessLifetimes = {5}
    RefreshLifetimes = {5}
    CodeLifetime = 1
    CollectInterval = 1
    MaxTime = 2
    Faults = {}
    NotFound = NotFound
    NoScopeParam = NoScopeParam
    None = None
SYMMETRY MCProcSymmetry
INVARIANTS
    ReplayStaysDetectable

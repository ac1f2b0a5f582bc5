\* User agents complete and redeem the same requests while calls fail and handlers crash.
SPECIFICATION Spec
CONSTANTS
    h1 = h1
    h2 = h2
    a1 = a1
    a2 = a2
    Procs = {h1, h2}
    Agents = {a1, a2}
    Issuers = {"as"}
    ClientIDs = {"app"}
    Scopes = {}
    Audiences = {}
    Redirects = {"https://a"}
    Registrations <- MCOpenClient
    Params <- MCPlain
    Adjustments <- MCNoParams
    PAR = "allowed"
    Binding = TRUE
    RequestLifetime = 2
    PushedLifetime = 1
    CollectInterval = 1
    MaxRequests = 3
    MaxTime = 0
    Faults = {"late", "crash"}
    NoRedirect = NoRedirect
    NotFound = NotFound
    None = None
SYMMETRY MCSymmetry
INVARIANTS
    TypeOK
    AtMostOneAnswer
    CompletedByStarter
    SavedRequestsAreAnswered
PROPERTIES
    ImplementsRequestLife

\* Accepted and rejected configurations; a client whose registration changes; one grant.
SPECIFICATION Spec
CONSTANTS
    Segments <- MCSegments
    Tails <- MCTails
    Configs <- MCConfigs
    Registrations <- MCRegistrations
    AuthParams <- MCAuthParams
    Approvals <- MCApprovals
    ScopeSets <- MCScopeSets
    ExtraClaims = {{}, {"name"}, {"acr"}}
    Credentials <- MCCredentials
    Paths <- MCPaths
    Held = {"name", "email", "role", "acr", "sub"}
    None = None
INVARIANTS
    TypeOK
    RequestsReachTheirEndpoint
    CredentialsProveTheClient
    AnswersStayRegistered
    PublicCodesAreProven
    ReleaseIsApproved
    LoginIsAsAsked

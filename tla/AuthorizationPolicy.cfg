\* Registrations change, the application rewrites requests, calls fail and logins grow old.
SPECIFICATION Spec
CONSTANTS
    h1 = h1
    a1 = a1
    Procs = {h1}
    Agents = {a1}
    Issuers = {"as"}
    ClientIDs = {"app"}
    Scopes = {"openid", "mail"}
    Audiences = {"api"}
    Redirects = {"https://a", "https://b"}
    Registrations <- MCRegistrations
    Params <- MCParams
    Adjustments <- MCAdjustments
    PAR = "allowed"
    Binding = TRUE
    RequestLifetime = 1
    PushedLifetime = 2
    CollectInterval = 1
    MaxRequests = 2
    MaxTime = 2
    Faults = {"error"}
    NoRedirect = NoRedirect
    NotFound = NotFound
    None = None
INVARIANTS
    CodeIsPermitted
    LoginIsFresh

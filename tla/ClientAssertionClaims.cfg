\* Good and bad assertions at two issuers, registrations that change, failing storage.
SPECIFICATION Spec
CONSTANTS
    h1 = h1
    Procs = {h1}
    Issuers = {"as", "bs"}
    ClientIDs = {"app", "web"}
    Keys = {"k1", "k2"}
    JTIs = {"j"}
    Assertions <- MCAssertions
    Registrations <- MCRegistrations
    Leeway = 1
    MaxLifetime = 2
    CollectInterval = 2
    MaxTime = 3
    Faults = {"error", "late", "crash"}
    None = None
INVARIANTS
    TypeOK
    ClaimsAreBounded
    AcceptedAtOneIssuer
PROPERTIES
    NoReplayWhileValid
    NoFalseReplay

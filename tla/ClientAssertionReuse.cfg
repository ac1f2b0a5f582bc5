\* One assertion is presented, twice at a time, until the clock passes its expiry.
SPECIFICATION Spec
CONSTANTS
    h1 = h1
    h2 = h2
    Procs = {h1, h2}
    Issuers = {"as"}
    ClientIDs = {"app"}
    Keys = {"k1", "k2"}
    JTIs = {"j"}
    Assertions <- MCOne
    Registrations <- MCRegistered
    Leeway = 1
    MaxLifetime = 2
    CollectInterval = 2
    MaxTime = 4
    Faults = {}
    None = None
SYMMETRY MCSymmetry
PROPERTIES
    SingleUse

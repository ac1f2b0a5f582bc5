\* Keys of two algorithms are rotated while requests sign and verifiers cache the JWKS.
SPECIFICATION Spec
CONSTANTS
    h1 = h1
    h2 = h2
    Procs = {h1, h2}
    Verifiers = {"rp"}
    Keys = {"r1", "r2", "e1"}
    Alg <- MCAlg
    FirstKey = "r1"
    Lifetimes = {1}
    Flight = 1
    MaxAge = 1
    Grace = 2
    MaxTime = 5
    NoKey = NoKey
SYMMETRY MCSymmetry
INVARIANTS
    TypeOK
    LiveTokensVerify
    CachedKeysVerify
    SigningNeverStops

SPECIFICATION VerificationSpec
CONSTANTS
    Handler = {h1, h2}
    Replica = {h1, h2}
    Home <- HomeOf
    Message = {m}
    Stamp = {2}
    MaximumAge = 2
    FutureSkew = 1
    ReplayTTL = 6
    CacheTTL = 2
    MaxResolve = 1
    MaxDrift = 1
    MaxKeys = 1
    MaxClock = 7
    MaxReceived = 3
SYMMETRY Symmetry
CHECK_DEADLOCK FALSE
INVARIANTS
    AcceptedOnce
    KeysCatchUp

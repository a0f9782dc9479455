SPECIFICATION FairSpec
CONSTANTS
    r1 = r1
    r2 = r2
    r3 = r3
    h1 = h1
    h2 = h2
    Relay = {r1, r2, r3}
    Receivers <- Triangle
    Followers <- Cycle
    Handler = {h1, h2}
    MaxSeeds = 1
    MaxDuplicates = 1
    MaxExpiries = 1
    MaxFaults = 1
    MaxReservations = 3
CHECK_DEADLOCK FALSE
INVARIANTS
    FanoutKeepsMarker
    MarkerStandsForWork
PROPERTIES
    ReflectionSettles

SPECIFICATION Spec
CONSTANTS
    t1 = t1
    t2 = t2
    w1 = w1
    w2 = w2
    j1 = j1
    Job = {j1}
    Target = {t1, t2}
    Worker = {w1, w2}
    RetryCount = 1
    MaxCrashes = 1
    MaxFaults = 0
    NoTask = NoTask
SYMMETRY Symmetry
CHECK_DEADLOCK FALSE
INVARIANTS
    BodyKeptAcrossRedelivery

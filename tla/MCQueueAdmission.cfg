SPECIFICATION Spec
CONSTANTS
    p1 = p1
    p2 = p2
    p3 = p3
    o1 = o1
    o2 = o2
    Producer = {p1, p2, p3}
    Operator = {o1, o2}
    MaxQueueJobs = 3
    MaxBatch = 2
    MaxOut = 2
    MaxLeaks = 1
SYMMETRY Symmetry
INVARIANTS
    ReservationAccounted
    ApiWithinLimit

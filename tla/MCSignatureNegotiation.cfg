SPECIFICATION MCSpec
CONSTANTS
    Fetcher = {f1, f2}
    Task = {t1}
    Origin = {a, b}
    Receiver = {a}
    Entry = {a}
    InitialMode = {"both"}
    PositiveTTL = 3
    NegativeTTL = 1
    MaxAttempts = 2
    MaxHops = 1
    MaxClock = 2
    MaxRequests = 4
    MaxChanges = 1
    MaxFaults = 1
CHECK_DEADLOCK FALSE
SYMMETRY Symmetry
INVARIANTS
    NewestEvidenceKept
    RejectionsEnd
    EvidenceIsOwn
    ModernDeliveryEarned

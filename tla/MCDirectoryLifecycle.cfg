SPECIFICATION FairSpec
CONSTANTS
    s1 = s1
    c1 = c1
    u1 = u1
    NoOne = NoOne
    Dead = Dead
    Scheduler = {s1}
    Command = {c1}
    Unregister = {u1}
    MaxAttempts = 2
    MaxEnables = 1
    MaxFaults = 1
INVARIANTS
    OwnerSeesCurrentState
    SchedulerQuietWhenDisabled
    UnregisterIsFinal
    PendingIsVisible
PROPERTIES
    LeaseReturns

SPECIFICATION Spec
CONSTANTS
    Scheduler = {s1}
    Command = {c1}
    Unregister = {u1}
    NoOne = NoOne
    Instant = {100, 2000, 100000}
    Delays = {0, 1500, 100000}
    Profile = {1, 2}
    Interval = 86400
    StableJitter = 3600
    InitialRetry = 30
    MaximumLocalRetry = 900
    MaximumRetryAfter = 86400
    MaximumAttempt = 2
    RetryHash <- Hash
    MaxStarts = 2
    MaxSetBacks = 1
    MaxEdits = 2
    MaxCommands = 2
INVARIANTS
    DeadlineAhead
    
PROPERTIES
    ScheduleNotSetBack
    RetryAfterKept
CHECK_DEADLOCK FALSE

CONSTANTS
    Key <- Registered
    Rank <- Sorted
    Domain <- Normalized
    Server <- Senders
    Limit <- Limits
    MaxReloads = 1
SPECIFICATION MCSpec
INVARIANTS OncePerDomain NoReflection AudienceRespected ReceiversServed
CHECK_DEADLOCK FALSE

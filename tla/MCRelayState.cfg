SPECIFICATION StateFairSpec
CONSTANTS
    api = api
    Elsewhere = Elsewhere
    request = request
    other = other
    command = command
    Domain = {"d1"}
    Inbox = {"i1"}
    Process = {api}
    Writer = {request, other, command}
    Host <- HostOfWriters
    Buffer = 1
    MaxWrites = 2
    MaxStateFaults = 2
INVARIANTS
    StaleIsReloaded
PROPERTIES
    NewestPublisherKept
    SnapshotsConverge
CHECK_DEADLOCK FALSE

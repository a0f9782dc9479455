CONSTANTS
    Name <- OneName
    Actor <- OneName
    StateDomain <- Same
    ActorDomain <- Same
    Request = {r1, r2}
    Operator = {op}
    MaxRequests = 3
    MaxCommands = 2
    MaxFaults = 1
SPECIFICATION Spec
SYMMETRY Requests
INVARIANTS ReceiversApproved UndoIsFinal AcceptNotForgotten
CHECK_DEADLOCK FALSE

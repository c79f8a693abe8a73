SPECIFICATION Spec
CONSTANTS
    c1 = c1
    c2 = c2
    NoClient = NoClient
    Clients = {c1}
    RequestLines <- MCLines
    Buffer = 3
    Limit <- MCLimit
    MaxLeaving = 2
PROPERTIES
    IdleIsAbandoned
CHECK_DEADLOCK FALSE

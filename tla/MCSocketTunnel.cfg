SPECIFICATION Spec
CONSTANTS
    c1 = c1
    c2 = c2
    NoClient = NoClient
    Clients <- MCClients
    RequestLines <- MCLines
    Buffer = 3
    Limit <- MCLimit
    MaxLeaving = 1
INVARIANTS
    TypeOK
    StatusFirst
    CancelComesLate
PROPERTIES
    Piped
    Served
    Delivered
CHECK_DEADLOCK FALSE

SPECIFICATION Spec
CONSTANTS
    c1 = c1
    c2 = c2
    a = a
    b = b
    None = None
    Clients <- TwoClients
    Ids <- TwoRows
    Menu <- Requested
    PoolSize = 3
    Ceiling = 2
    MaxRequests = 3
INVARIANTS
    RowsAddUp
    AllOrNothing
PROPERTY
    RequestsEnd
CHECK_DEADLOCK FALSE

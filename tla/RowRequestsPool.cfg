\* Two connections for two requests: each holds one and waits for another
\* (RequestsEnd is violated).
SPECIFICATION Spec
CONSTANTS
    c1 = c1
    c2 = c2
    a = a
    b = b
    None = None
    Clients <- TwoClients
    Ids <- TwoRows
    Menu <- Requested
    PoolSize = 2
    Ceiling = 2
    MaxRequests = 3
INVARIANTS
    RowsAddUp
    AllOrNothing
PROPERTY
    RequestsEnd
CHECK_DEADLOCK FALSE

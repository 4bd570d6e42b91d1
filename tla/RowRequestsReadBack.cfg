\* A row is deleted and created again while an update waits for it: the update
\* is committed and answered without having changed a row (UpdatesTakeEffect is
\* violated).
SPECIFICATION Spec
CONSTANTS
    c1 = c1
    c2 = c2
    a = a
    b = b
    None = None
    Clients <- TwoClients
    Ids <- TwoRows
    Menu <- Requested
    PoolSize = 3
    Ceiling = 2
    MaxRequests = 3
INVARIANT UpdatesTakeEffect
CHECK_DEADLOCK FALSE

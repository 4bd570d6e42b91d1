SPECIFICATION Spec
CONSTANTS
    r1 = r1
    r2 = r2
    d1 = d1
    d2 = d2
    ann = ann
    bob = bob
    None = None
    Requests <- TwoRequests
    Devices <- TwoDevices
    Users <- TwoUsers
    Owner <- OneEach
    KeyIds = {1, 2}
    Convs = {1}
    ClientIds = {1}
    Sends <- ThreeSends
    PageSize = 1
    MaxIdentity = 1
    MaxAsked = 4
    MaxFaults = 1
SYMMETRY Symmetry
INVARIANT BundleMatches
CHECK_DEADLOCK FALSE

SPECIFICATION FairSpec
CONSTANTS
    a = a
    b = b
    Worker <- TwoWorkers
    Framed <- OneFramed
    MaxPosts <- TwoAndNone
    MaxSends <- OneAndNone
    MaxBroadcasts = 1
    MaxTraffic = 2
CHECK_DEADLOCK FALSE
INVARIANTS
    TypeOK
    WorkCounted
    InFlightOwed
    AcksOnlyLostToStops
PROPERTIES
    PageHearsAll
    WorkerHearsInOrder

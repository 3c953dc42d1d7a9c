SPECIFICATION Spec

CONSTANTS
    r1 = r1
    r2 = r2
    r3 = r3
    r4 = r4
    e1 = e1
    e2 = e2
    m = m
    BatchSize = 2
    Capacity = 4
    WordSize = 32
    ProcessingCores = 3
    RowWidth = 1
    InputSupported = TRUE
    Manager = m
    Requests <- ThreeRequests
    Executors <- TwoExecutors
    ReqSizes <- OneRow
    Warmups <- SixWarmups
    Outcomes <- OkOrError

SYMMETRY Symmetry

CHECK_DEADLOCK FALSE

INVARIANTS
    TypeOK
    ClaimsInRing
    NoOrphanReservation
    SuperTensorInvariant
    
    WordDecisionsAgree

PROPERTIES
    ImplementsBatchService

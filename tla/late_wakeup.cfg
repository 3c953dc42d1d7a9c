SPECIFICATION Spec

CONSTANTS
    r1 = r1
    r2 = r2
    r3 = r3
    r4 = r4
    e1 = e1
    e2 = e2
    m = m
    BatchSize = 2
    Capacity = 2
    WordSize = 32
    ProcessingCores = 2
    RowWidth = 1
    InputSupported = TRUE
    Manager = m
    Requests <- ThreeRequests
    Executors <- TwoExecutors
    ReqSizes <- OneRow
    Warmups <- SixWarmups
    Outcomes <- AlwaysOk

SYMMETRY Symmetry

CHECK_DEADLOCK FALSE

INVARIANTS
    NeverSealedUnwritten

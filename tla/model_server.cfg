SPECIFICATION Spec

CONSTANTS
    m1 = m1
    m2 = m2
    nobody = nobody
    c1 = c1
    c2 = c2
    q1 = q1
    q2 = q2
    QueueSize = 1
    NumExecutors = 2
    PinPool = 3
    Unknown = nobody
    Models <- TwoModels
    Cores <- TwoCores
    Requests <- TwoRequests
    Workloads <- MixedWorkloads
    Placements <- BothPlacements

CHECK_DEADLOCK FALSE

INVARIANTS
    TypeOK
    EveryAnswerCountedOnce
    LoadedModelsAreStaffed
    
    AllModelsOrNone

PROPERTIES
    DescribedModelsAreFound
    LoadingEnds
    FoundCallsAreAnswered

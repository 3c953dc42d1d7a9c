SPECIFICATION Spec

CONSTANTS
    c1 = c1
    c2 = c2
    BatchSize = 2
    MaxBatches = 2
    RunMayFail = FALSE
    Calls <- TwoCalls
    Models <- HostModels
    Requests <- AllRequests

CHECK_DEADLOCK FALSE

INVARIANTS
    ResponseIsOwnTensor

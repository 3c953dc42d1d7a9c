SPECIFICATION Spec

CONSTANTS
    c1 = c1
    c2 = c2
    BatchSize = 2
    MaxBatches = 2
    RunMayFail = TRUE
    Calls <- TwoCalls
    Models <- AllModels
    Requests <- AllRequests

CHECK_DEADLOCK FALSE

INVARIANTS
    TypeOK
    
    
    PublishedOutputsAreFinal
    MetadataIsAccepted
    DocumentedOverridesLoad

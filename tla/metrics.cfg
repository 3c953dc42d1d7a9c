SPECIFICATION Spec

CONSTANTS
    c1 = c1
    c2 = c2
    core1 = core1
    core2 = core2
    s1 = s1
    s2 = s2
    manager = manager
    BatchSize = 2
    MaxBatches = 2
    OnGpu = TRUE
    WarmupRuns = 1
    Manager = manager
    Calls <- TwoCalls
    Cores <- TwoCores
    Sessions <- OneSession
    Placements <- Both
    CallRows <- Rows

CHECK_DEADLOCK FALSE

INVARIANTS
    TypeOK
    AnswersFindTheirTrace
    StepsNeverRunBackwards
    AccountsBalance
    RowsAccounted

PROPERTIES
    ScrapesGrow
    EventuallyReported

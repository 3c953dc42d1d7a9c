SPECIFICATION EitherCase

CONSTANTS
    CliArgs <- AllArgs
    Machines <- AllMachines
    Repositories <- AllRepositories

CHECK_DEADLOCK FALSE

INVARIANTS
    TypeOK
    PairsKeepApart
    SqpollCpusAreDedicated
    
    PlanFailsOnlyWhenShort
    NewestOfTheWanted

SPECIFICATION RepositoryOnly

CONSTANTS
    CliArgs <- AllArgs
    Machines <- AllMachines
    Repositories <- AllRepositories

CHECK_DEADLOCK FALSE

INVARIANTS
    DocumentedLayoutLoads

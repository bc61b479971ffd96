CONSTANTS
    Keys = {1, 2}
    IntMax = 3
    Clients = {c1, c2}
    Sweeper = sweeper
    Programs <- RacePrograms
    Workloads <- RaceLoads
    MaxBegin = 4
    MaxNow = 3
    MaxRetries = 1
SYMMETRY Symmetry
SPECIFICATION LoadSpec
INVARIANTS NoDeadlock OneVisibleType JobsNotDuplicated
PROPERTIES FlushEmpties

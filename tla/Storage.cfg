CONSTANTS
    Keys = {1, 2}
    IntMax = 3
    Clients = {c1, c2}
    Sweeper = sweeper
    Programs <- AtomicPrograms
    Workloads <- AtomicLoads
    MaxBegin = 3
    MaxNow = 3
    MaxRetries = 1
SYMMETRY Symmetry
SPECIFICATION LoadSpec
INVARIANTS TypeOK LocksExclusive LocksCoverWrites MetaMatchesData
PROPERTIES LeaseExclusive SweeperSparesAgreeing ProgramsAreAtomic LockedKeysStable

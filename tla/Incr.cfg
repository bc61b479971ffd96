CONSTANTS
    Keys = {1}
    IntMax = 3
    Clients = {c1, c2}
    Sweeper = sweeper
    Programs <- IncrPrograms
    MaxBegin = 2
    MaxNow = 1
    MaxRetries = 1
SYMMETRY Symmetry
SPECIFICATION Spec
PROPERTIES ProgramsAreAtomic

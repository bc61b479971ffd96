CONSTANTS
    Keys = {1, 2}
    IntMax = 3
    Clients = {c1, c2}
    Sweeper = sweeper
    Programs <- UndeclaredPrograms
    MaxBegin = 3
    MaxNow = 2
    MaxRetries = 1
SPECIFICATION FairSpec
PROPERTIES CommandsFinish ExpiredKeysGo

\* The selecting reads, patterns, bit fields and the SCAN family.
SPECIFICATION Spec
CONSTANTS
    ByteBits = 2
    WordBits = 4
    Lists <- MCLists
    ListRows <- MCListRows
    ZSets <- MCZSets
    Positions <- MCPositions
    ScoreBounds <- MCScoreBounds
    LexBounds <- MCLexBounds
    Words <- MCWords
    PatternsUsed <- MCPatterns
    ByteStrings <- MCByteStrings
    Subcommands <- MCSubcommands
    Batches <- MCBatches
    Items = {i1, i2, i3}
    Types = {hash, zset}
    Counts = {1, 2}
    MaxChanges = 2
INVARIANTS IndexReadsAgree LInsertOutcome BoundReadsAgree StoreMatchesRange GlobsAgree BitReadsAgree BitFieldExact ScanExact
CHECK_DEADLOCK FALSE

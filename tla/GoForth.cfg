SPECIFICATION MCSpec
CONSTANTS
    ByteBits = 2
    ByteBase = 4
    MemSize = 2
    FirstByte <- MCFirstByte
    Literals = {}
    Names = {}
    Numbers <- MCNumbers
    Programs <- MCPrograms
    LaterPrograms <- OneWord
    MaxRuns = 2
    TailLength = 4
    MaxDepth = 4
INVARIANTS TypeOK LoopStackMatchesCalls PositionsAreInInput
PROPERTIES ReadingADefinitionIsSilent OnlyListedDivergences
CHECK_DEADLOCK FALSE

SPECIFICATION HSpec
CONSTANTS
    ByteBits = 5
    ByteBase = 32
    MemSize = 16
    FirstByte <- MCFirstByte
    Literals = {}
    Names = {}
    Numbers <- MCNumbers
    Programs <- MCPrograms
    LaterPrograms = {}
    MaxRuns = 1
INVARIANTS EveryNotedThenIsClaimed OutputIsAsListed
PROPERTIES Refines NeverDiverges Terminates

SPECIFICATION HSpec
CONSTANTS
    ByteBits = 5
    ByteBase = 32
    MemSize = 16
    FirstByte <- MCFirstByte
    Literals = {}
    Names = {}
    Numbers <- MCNumbers
    Programs <- NestedElse
    LaterPrograms = {}
    MaxRuns = 1
PROPERTY FalseIfTakesItsOwnBranch

SPECIFICATION MCSpec
CONSTANTS
    ByteBits = 2
    ByteBase = 4
    MemSize = 5
    FirstByte <- MCFirstByte
    Literals = {0, 2, 7}
    Names = {"X"}
    MaxWords = 6
INVARIANTS WordsTypeOK CrashOnlyAtTheEdge
PROPERTIES SpillBounded AllottedBytesAreKept
CHECK_DEADLOCK FALSE

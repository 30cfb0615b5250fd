SPECIFICATION MCSpec
CONSTANTS
    ByteBits = 4
    ByteBase = 16
    MemSize = 34
    StackSize = 1
    Code <- MCCode
    Names <- MCNames
    Literals <- MCLiterals
    MaxWords = 6
INVARIANTS WordsTypeOK FindsTheNewest
PROPERTIES KeepsDefinitions WritesOnlyAtHere
CHECK_DEADLOCK FALSE

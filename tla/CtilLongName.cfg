SPECIFICATION MCSpec
CONSTANTS
    ByteBits = 4
    ByteBase = 16
    MemSize = 34
    StackSize = 1
    Code <- MCCode
    Names <- LongNames
    Literals <- MCLiterals
    MaxWords = 6
INVARIANTS CodeFollowsName
CHECK_DEADLOCK FALSE

SPECIFICATION MCSpec
CONSTANTS
    ByteBits = 3
    ByteBase = 8
    MemSize = 5
    StackSize = 2
    Literals <- MCLiterals
    MaxWords = 6
INVARIANTS WordsTypeOK UndefinedOnlyAtABound
PROPERTIES SharedWordsAgree
CHECK_DEADLOCK FALSE

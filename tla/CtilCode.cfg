SPECIFICATION Spec
CONSTANTS
    ByteBits = 8
    ByteBase = 256
    MemSize = 1500
    StackSize = 32
    BufSize = 256
    MaxLoops = 16
    MaxPatches = 16
    Code <- MCCode
    Numbers <- MCNumbers
    Prelude <- MCPrelude
    Programs <- MCPrograms
INVARIANTS MachineTypeOK CodeIsWellFormed OutputIsAsListed OnlyPatchesOverrun DumpKeepsInStep
PROPERTIES Terminates

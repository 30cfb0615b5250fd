SPECIFICATION Spec
CONSTANTS
    BufSize = 3
    Texts <- MCTexts
    Upper <- MCUpper
INVARIANTS LeavesWhatInputSays
PROPERTIES EveryCallReturns

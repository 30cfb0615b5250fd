SPECIFICATION Spec
CONSTANTS
    Texts <- MCTexts
    Upper <- MCUpper
PROPERTIES ReadsWords SearchesWords EveryCallReturns
CHECK_DEADLOCK FALSE

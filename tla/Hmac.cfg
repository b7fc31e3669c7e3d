SPECIFICATION HmacSpec
CONSTANTS
    Texts <- MCTexts
    KeyFiles <- MCKeyFiles
    KSize = 3
    HmacTextSize = 2
INVARIANT PrintsHMAC
CHECK_DEADLOCK FALSE

SPECIFICATION UploadsSpec
CONSTANTS
    Files = {f1}
    NoFile = NoFile
    Size = 3
    TokenValid = {TRUE, FALSE}
INVARIANTS
    OnlyCompleteHandedOff
CHECK_DEADLOCK FALSE

SPECIFICATION UploadsFairSpec
CONSTANTS
    Files = {f1, f2}
    NoFile = NoFile
    Size = 1
    TokenValid = {TRUE}
PROPERTIES
    CompleteIsHandedOff
CHECK_DEADLOCK FALSE

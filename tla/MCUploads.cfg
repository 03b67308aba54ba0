SPECIFICATION UploadsSpec
CONSTANTS
    Files = {f1}
    NoFile = NoFile
    Size = 3
    TokenValid = {TRUE, FALSE}
INVARIANTS
    UploadsSafe
PROPERTIES
    CompletedStays
CHECK_DEADLOCK FALSE

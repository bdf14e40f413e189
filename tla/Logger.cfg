SPECIFICATION FairLogSpec
CONSTANTS
    LogFileMaxBytes = 2
    LogFileRotateCount = 2
    Reporter = {r1, r2}
    NoFile = NoFile
    MaxLines = 9
    MaxLogFaults = 2
INVARIANTS
    LogTypeOK
    
PROPERTIES
    LogAdvances
    UploadsEnd

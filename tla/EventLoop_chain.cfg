CONSTANTS
    ChildNr = 3
    FileLen = 3
    PipeSize = 1
    BufSize = 2
    ChildBufSize = 2
    MaxKills = 1
SPECIFICATION FairSpec
CHECK_DEADLOCK FALSE
INVARIANTS
    FileIsConserved
    ClosedDownstream
    SuccessIsComplete
PROPERTIES
    Ends

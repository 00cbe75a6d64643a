CONSTANTS
    ChildNr = 3
    FileLen = 2
    PipeSize = 1
    BufSize = 2
    ChildBufSize = 2
    MaxKills = 1
SPECIFICATION Spec
CHECK_DEADLOCK FALSE
INVARIANTS
    FailedChildNoticed

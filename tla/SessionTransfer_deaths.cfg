SPECIFICATION Spec
CONSTANTS
    Senders = {s1, s2, s3}
    FileLen = 1
    SEMVMX = 2
    MaxFaults = 1
INVARIANT
    SendersExclude
CHECK_DEADLOCK FALSE

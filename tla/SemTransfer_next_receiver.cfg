CONSTANTS
    Senders = {s1}
    Receivers = {r1, r2}
    Killable = {r1, r2}
    FileLen = 2
    MaxKills = 1
    MaxIoErrors = 0
SPECIFICATION Spec
CHECK_DEADLOCK FALSE
INVARIANTS
    OutputIsPrefix

CONSTANTS
    Senders = {s1, s2}
    Receivers = {r1, r2}
    Killable = {s1, s2, r1, r2}
    FileLen = 2
    MaxKills = 2
    MaxIoErrors = 0
SPECIFICATION Spec
CHECK_DEADLOCK FALSE
INVARIANTS
    SessionsApart

CONSTANTS
    Senders = {s1}
    Receivers = {r1}
    Killable = {s1}
    FileLen = 1
    MaxKills = 1
    MaxIoErrors = 0
SPECIFICATION FairSpec
CHECK_DEADLOCK FALSE
PROPERTIES
    SenderDeathNoticed

CONSTANTS
    Senders = {s1, s2}
    Receivers = {r1}
    Killable = {s1, s2, r1}
    FileLen = 2
    MaxKills = 2
    MaxIoErrors = 1
SPECIFICATION FairSpec
CHECK_DEADLOCK FALSE
INVARIANTS
    OneHand
    SendersExclude
    OutputIsPrefix
    SuccessIsComplete
PROPERTIES
    ReceiverDeathNoticed
    TransferSucceeds

CONSTANTS
    TopBit = 4
    Files <- SmallBytes
    MaxKills = 1
    MaxIoErrors = 1
SPECIFICATION MCSpec
INVARIANTS
    OneSignalUnderWay
    AssertsHold
    OutputIsPrefix
    SuccessIsComplete
PROPERTIES
    EitherEnds

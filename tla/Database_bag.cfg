CONSTANTS
    Values <- SmallRecords
    Buckets = 2
    MaxItems = 4
    MaxCopies = 2
SPECIFICATION Spec
INVARIANTS
    SlotsSound
    Indexed
    LiveOnce
PROPERTIES
    DeadStayDead
    BagSpec
CHECK_DEADLOCK FALSE

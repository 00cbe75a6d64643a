CONSTANTS
    Producers = {p1, p2}
    Consumers = {c1, c2}
    Main = main
    Amount = 2
    QueueSize = 2
    NoThread = NoThread
    NoDoc = NoDoc
    MaxInterrupts = 1
    MaxSpurious = 1
SPECIFICATION FairSpec
INVARIANTS
    CriticalSection
    RingConsistent
    EveryDocumentOnce
    NothingLeftBehind
    NoLostWakeup
PROPERTIES
    FifoSpec
    Termination

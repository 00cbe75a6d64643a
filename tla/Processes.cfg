SPECIFICATION Spec
CONSTANTS
    Senders = {s1, s2}
    FileLen = 2
    SEMVMX = 2
    NrChildren = 3
    MayFail = TRUE
    NrLines = 4
    Tasks = 2
    f1 = f1
    f2 = f2
    o1 = o1
    d1 = d1
    d2 = d2
    Files = {f1, f2}
    Others = {o1}
    Dirs = {root, d1, d2}
    Root = root
    MaxRuns = 2
    MaxWrites = 1
    MaxFaults = 1
    Contents <- SmallTree
    ArgLists <- SmallArgs
    Deaths = 2
    Writers = {w1, w2}
    Readers = {r1, r2}
    FileLens = {0, 2}
    Retries = 1
    MaxKills = 1
    Clients = {c1, c2, c3}
    Missing = {c3}
    Signals = {"KILL", "TERM"}
    MaxSignals = 1
    MaxServers = 2
INVARIANTS
    OutputFollows
    PrintedInOrder
    LimitHeld
    SuccessIsTrue
    
    
PROPERTIES
    NobodyWaitsForTheDead
    EverybodyEnds
CHECK_DEADLOCK FALSE

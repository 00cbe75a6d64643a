SPECIFICATION Spec
CONSTANTS
    MaxNodes = 7
    MaxCalls = 5
    Cards = {0, 5, 9}
    HandSize = 3
    MaxTurns = 12
    Numbers = {0, 1, 2, 3, 4}
    MaxInput = 4
    BUCKETS = 2
    Values = {1, 2, 3}
    MaxLen = 5
    MaxSize = 6
    Vertices = {0, 1, 2, 3}
    MaxRoads = 3
    UINT_MAX = 15
    MaxName = 4
    MaxPeople = 6
    MaxWords = 7
INVARIANTS
    StructuresSound
    AnswersRight
    GraphsRight
PROPERTIES
    Ends
CHECK_DEADLOCK FALSE

CONSTANTS
    NumThreads = 2
    Chars = {"a", "b", "x", ":"}
    KeyOrder <- MCKeyOrder
    Values <- MCValues
    NoValue = NoValue
    MaxWrites = 3
    MaxStarts = 2
SPECIFICATION FairSpec
INVARIANTS TypeOK FileFromSnapshot RestartRestores CutRestore
PROPERTIES StopCompletes
CHECK_DEADLOCK FALSE

CONSTANTS
    OffLoop = {}
    OffLoopCalls = {}
    MaxMsgs = 4
    SndCap = 2
    ReadMax = 2
    MaxIn = 4
    MaxCalls = 2
SPECIFICATION FairSpec
INVARIANTS TypeOK StreamInOrder WritingIffPending RegisteredAlive
PROPERTIES LivesInOrder OutputDrains ShutdownCompletes CloseCompletes
CHECK_DEADLOCK FALSE

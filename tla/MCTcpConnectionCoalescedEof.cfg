CONSTANTS
    OffLoop = {}
    OffLoopCalls = {}
    MaxMsgs = 1
    SndCap = 1
    ReadMax = 2
    MaxIn = 2
    MaxCalls = 2
SPECIFICATION FairSpec
PROPERTIES EofNoticed
CHECK_DEADLOCK FALSE

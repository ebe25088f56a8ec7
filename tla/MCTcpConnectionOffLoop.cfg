CONSTANTS
    OffLoop = {"t1"}
    OffLoopCalls = {"send", "shutdown", "forceClose"}
    MaxMsgs = 2
    SndCap = 1
    ReadMax = 2
    MaxIn = 1
    MaxCalls = 2
SPECIFICATION Spec
INVARIANTS FinAfterData EpollAgrees
CHECK_DEADLOCK FALSE

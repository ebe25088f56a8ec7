CONSTANTS
    Callers = {c1, c2}
    LoopThread = L
    MaxCalls = 1
    MaxHere = 2
SPECIFICATION FairSpec
INVARIANTS TypeOK NoLostWakeup
PROPERTIES RunInOrder Runs LateQuitStops
\* The loop stops after quit().
CHECK_DEADLOCK FALSE

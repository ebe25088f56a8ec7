CONSTANTS
    NumThreads = 1
    Clients = {c1, c2}
    MaxFails = 0
SPECIFICATION FairSpec
PROPERTIES Accepted
CHECK_DEADLOCK FALSE

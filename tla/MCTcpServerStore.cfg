CONSTANTS
    NumThreads = 1
    Clients = {c1}
    MaxFails = 0
SPECIFICATION Spec
INVARIANTS StoreUnheld
CHECK_DEADLOCK FALSE

CONSTANTS
    NumThreads = 2
    Clients = {c1, c2}
    MaxFails = 1
SPECIFICATION FairSpec
INVARIANTS TypeOK LoopsAlive NoneForgotten
PROPERTIES LivesInOrder Starts Stops
\* The server stops, or waits for a loop that has missed its quit().
CHECK_DEADLOCK FALSE

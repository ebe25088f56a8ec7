CONSTANTS
    Workers = {w1, w2}
    Submitters = {s1}
    MaxQueueSize = 2
    MaxTasks = 6
SPECIFICATION FairSpec
INVARIANTS TypeOK NoIdleWaiter
PROPERTIES TasksInOrder AcceptedRun StopReturns
\* The pool stops, and tasks that wait for each other stop it.
CHECK_DEADLOCK FALSE

CONSTANTS
    Threads = {t1, t2}
    Keys = {1, 2}
    Values = {v1, v2}
    NoValue = NoValue
    NoThread = NoThread
    MaxLevel = 3
SPECIFICATION Spec
SYMMETRY Symmetry
INVARIANTS TypeOK Inv
PROPERTY Linearizable
CHECK_DEADLOCK TRUE

CONSTANTS
    CheapPrepend = 1
    InitialSize = 8
    ExtraSize = 3
    Bytes <- ClientBytes
    Zero = Zero
    Lines = {}
    MaxLines = 2
    Keys = {"k"}
    Values = {"v"}
SPECIFICATION ClientSpec
INVARIANTS OwnResponse
\* The client stops sending.
CHECK_DEADLOCK FALSE

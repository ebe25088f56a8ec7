CONSTANTS
    CheapPrepend = 1
    InitialSize = 4
    ExtraSize = 3
    Bytes <- SmallBytes
    Zero = Zero
    Lines <- SmallLines
    MaxLines = 3
SPECIFICATION Spec
INVARIANTS TypeOK BytesKept Framing NothingLeft Replies ValueIsRest
\* The client stops sending.
CHECK_DEADLOCK FALSE

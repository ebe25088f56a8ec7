----------------------------- MODULE MCKVClient -----------------------------
(* Instances of KVClient for TLC. *)
EXTENDS KVClient

\* The bytes of the requests the client writes.
ClientBytes == Keys \cup Values
                 \cup {"P", "G", "D", "E", "S", "C", "I", "Q", SP, CR, LF, Zero}
=============================================================================

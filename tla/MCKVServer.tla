--------------------------- MODULE MCKVServer ---------------------------
(* An instance of KVServer for TLC: a key with a delimiter, and values with one. *)
EXTENDS KVServer

MCKeyOrder == << <<"a">>, <<"a", ":">>, <<"b">> >>
MCValues   == {<<"x">>, <<":", "x">>}
=============================================================================

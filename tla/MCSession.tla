----------------------------- MODULE MCSession -----------------------------
(* Instances of Session for TLC. *)
EXTENDS Session

SmallBytes == {"P", "G", "D", "E", "S", "C", "I", "Q", "k", "v", SP, CR, LF, Zero}

\* A PUT whose value has spaces in and before it, one whose key is also the
\* command word, a GET, DEL, EXISTS, one without its key, an empty line, a CR
\* within a line, CLEAR and SIZE or PING in one piece, and QUIT with part of the
\* next line.  Both line ends occur.
SmallLines == {
    <<"P", SP, "k", SP, SP, "v", SP, "v", CR, LF>>,
    <<"P", SP, "P", SP, "v", LF>>,
    <<"G", SP, "k", CR, LF>>,
    <<"D", SP, "k", LF>>,
    <<"E", SP, "P", LF>>,
    <<"G", LF>>,
    <<CR, LF>>,
    <<"G", CR, "k", CR, CR, LF>>,
    <<"S", LF, "C", CR, LF>>,
    <<"I", LF, "S", LF>>,
    <<"Q", LF, "G", SP>> }
=============================================================================

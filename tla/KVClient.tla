------------------------------ MODULE KVClient ------------------------------
(***************************************************************************)
(* client/kvclient.cpp and the programs that use it against the server of  *)
(* Session: the interactive client/main.cpp, which pings the server first, *)
(* and programs that call the library at once.  Every call sends one       *)
(* command and reads its response with one recv(), which ends between two  *)
(* responses: responses are short and sent in one piece.                   *)
(***************************************************************************)
EXTENDS Session

CONSTANTS Keys, Values  \* one-byte words, distinct from the command words

VARIABLES at,      \* where the program is: see Places
          open,    \* isConnected()
          call,    \* the call it is in, or NoCall
          read,    \* how many responses recv() has returned
          calls,   \* history: the calls that have returned ...
          results  \* ... and what they returned

Places == {"start", "ping", "prompt", "leave", "end"}

clientVars == <<at, open, call, read, calls, results>>

NoCall == [op |-> "none", line |-> <<>>]

ClientInit ==
    /\ Init
    /\ at = "start" /\ open = FALSE
    /\ call = NoCall /\ read = 0
    /\ calls = <<>> /\ results = <<>>

-----------------------------------------------------------------------------
\* The lines the calls send.

Call(op, words) == [op |-> op, line |-> words \o <<CR, LF>>]

put(key, value) == Call("put", <<"P", SP, key, SP, value>>)
get(key)        == Call("get", <<"G", SP, key>>)
del(key)        == Call("del", <<"D", SP, key>>)
exists(key)     == Call("exists", <<"E", SP, key>>)
size            == Call("size", <<"S">>)
clear           == Call("clear", <<"C">>)
ping            == Call("ping", <<"I">>)
quit            == Call("quit", <<"Q">>)

\* What Codec::encodeResponse and the greeting put on the wire, word by word.
StatusWord == [OK |-> "+OK", NOT_FOUND |-> "-NOT_FOUND", ERROR |-> "-ERROR",
               PONG |-> "+PONG", BYE |-> "+BYE", WELCOME |-> "+WELCOME"]
encodeResponse(response) ==
    <<StatusWord[response.status]>> \o response.message \o <<CR, LF>>

Text(responses) == FlattenSeq([n \in DOMAIN responses |-> encodeResponse(responses[n])])

\* Success, and the text from behind "+OK" up to the last CRLF.
parseResponse(text) ==
    LET first == IF Head(text) = "+OK" THEN 2 ELSE 1
    IN  [ok    |-> Head(text) \notin {"-NOT_FOUND", "-ERROR"},
         value |-> SubSeq(text, first, Len(text) - 2)]

\* The number in front, if there is one; else std::stoi throws.
stoi(value) ==
    LET numbers == {n \in 0..MaxLines : value # <<>> /\ Head(value) = ToString(n)}
    IN  [ok |-> numbers # {}, n |-> IF numbers = {} THEN 0 ELSE Min(numbers)]

\* What a call returns for what its recv() has returned.
Result(op, text) ==
    LET parsed == parseResponse(text) IN
    CASE op \in {"put", "del", "clear"} -> [ok |-> parsed.ok]
      [] op = "get"    -> IF parsed.ok THEN parsed ELSE [ok |-> FALSE, value |-> <<>>]
      [] op = "exists" -> [ok |-> parsed.ok /\ parsed.value = Number(1)]
      [] op = "size"   -> IF parsed.ok THEN stoi(parsed.value) ELSE [ok |-> FALSE, n |-> 0]
      [] op = "ping"   -> [ok |-> "+PONG" \in ToSet(text)]
      [] op = "quit"   -> [ok |-> TRUE]

-----------------------------------------------------------------------------
\* connect() does not wait for anything the server says.
Connect ==
    /\ at = "start"
    /\ \/ open' = TRUE /\ at' \in {"ping", "prompt"}
       \/ open' = FALSE /\ at' = "end"
    /\ UNCHANGED <<call, read, calls, results>>

\* The sending half of sendCommand().
SendCommand(c) ==
    /\ open /\ call = NoCall
    /\ Send(c.line)
    /\ call' = c
    /\ UNCHANGED <<open, read, calls, results>>

\* Its receiving half: recv() blocks until something is there and returns what
\* is there.
Receive(n) ==
    /\ call # NoCall
    /\ n \in (read + 1)..Len(out)
    /\ read' = n
    /\ calls' = Append(calls, call)
    /\ results' = Append(results, Result(call.op, Text(SubSeq(out, read + 1, n))))
    /\ call' = NoCall
    /\ UNCHANGED vars

\* main() pings once it is connected, and gives up if that fails.
Pings == at = "ping" /\ SendCommand(ping) /\ UNCHANGED at

Pinged(n) == /\ at = "ping" /\ Receive(n)
             /\ at' = IF Last(results').ok THEN "prompt" ELSE "leave"
             /\ UNCHANGED open

\* The commands of the prompt.
Prompt ==
    /\ at = "prompt"
    /\ \/ \E k \in Keys : \/ \E v \in Values : SendCommand(put(k, v))
                          \/ SendCommand(get(k))
                          \/ SendCommand(del(k))
                          \/ SendCommand(exists(k))
       \/ SendCommand(size) \/ SendCommand(clear) \/ SendCommand(ping)
    /\ UNCHANGED at

Answered(n) == at = "prompt" /\ Receive(n) /\ UNCHANGED <<at, open>>

\* "QUIT", "EXIT" or the end of the input.
Leave == /\ at = "prompt" /\ call = NoCall
         /\ at' = "leave"
         /\ UNCHANGED <<open, call, read, calls, results>>

\* disconnect(), called at the end or by the destructor: QUIT, then close().
Disconnect == at = "leave" /\ SendCommand(quit) /\ UNCHANGED at

Closed(n) == at = "leave" /\ Receive(n) /\ at' = "end" /\ open' = FALSE

Program == \/ (Connect \/ Leave) /\ UNCHANGED vars
           \/ Pings \/ Prompt \/ Disconnect
           \/ \E n \in 1..Len(out) : Pinged(n) \/ Answered(n) \/ Closed(n)

Server == (\E n \in 1..Len(wire) : Read(n)) \/ HandleRequest \/ MessageDone

ClientNext == Program \/ (Server /\ UNCHANGED clientVars)

ClientSpec == ClientInit /\ [][ClientNext]_<<vars, clientVars>>

-----------------------------------------------------------------------------
\* Each call returns what the server's response to its own command means
\* (kvclient.h:118: sendCommand() "sends the command and receives the response";
\* 73, 87, 107: get() returns the key's value, exists() whether it exists, ping()
\* whether the server is there).
OwnResponse ==
    \A n \in 1..Len(results) :
        n < Len(out) => results[n] = Result(calls[n].op, Text(<<out[n + 1]>>))
=============================================================================

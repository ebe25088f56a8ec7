------------------------------ MODULE Session ------------------------------
(***************************************************************************)
(* What the server does with the bytes of one connection: TcpConnection's  *)
(* readFd() into inputBuffer_, KVServer::onMessage(), Codec::parseRequest  *)
(* and handleRequest() (server/kv_server.cpp, protocol/codec.h).           *)
(*                                                                         *)
(* The client may send any number of requests without waiting, and TCP     *)
(* delivers the bytes in pieces of any length.  One byte stands for a word *)
(* of letters: "P" is the command PUT, in any spelling that toUpper() and  *)
(* the aliases accept, and KeyCommands and PlainCommands name the others.  *)
(***************************************************************************)
EXTENDS Buffer, SequencesExt

CONSTANTS Lines,    \* what a client may send at a time: sequences of bytes
          MaxLines  \* bound: how often it sends

ASSUME SessionAssumption == Lines \subseteq Seq(Bytes) /\ MaxLines \in Nat

SP == " "
CR == "\r"
LF == "\n"

VARIABLES sent,      \* history: the bytes the client sent
          sends,     \* how often
          wire,      \* the part of sent that was not read yet
          input,     \* inputBuffer_
          pc,        \* "idle", or "message" inside the loop of onMessage()
          connected, \* state_ = kConnected: send() sends
          store,     \* store_: from keys (words) to values (sequences of bytes)
          executed,  \* history: the requests handled, in order
          out        \* the responses sent

vars == <<sent, sends, wire, input, pc, connected, store, executed, out>>

Response(status, message) == [status |-> status, message |-> message]
Welcome == Response("WELCOME", <<>>)

\* The connection is established: onConnection() has sent the greeting.
Init ==
    /\ sent = <<>> /\ sends = 0 /\ wire = <<>>
    /\ input = NewBuffer
    /\ pc = "idle"
    /\ connected = TRUE
    /\ store = <<>>
    /\ executed = <<>>
    /\ out = <<Welcome>>

-----------------------------------------------------------------------------
\* Codec::parseRequest: the first line and the bytes it takes.

Space(c) == c \in {SP, CR}   \* isspace(), within a line

\* Where a line may end in s: a CRLF (at its CR), or a LF.
LineEnds(s) == {i \in 1..Len(s) : s[i] = LF \/ (s[i] = CR /\ i < Len(s) /\ s[i + 1] = LF)}
LineEnd(s) == Min(LineEnds(s))

\* line.pop_back() of a CR that is left before the line's end
Chopped(line) == IF line # <<>> /\ Last(line) = CR THEN Front(line) ELSE line
FirstLine(s) == Chopped(SubSeq(s, 1, LineEnd(s) - 1))

SkipsOne(s) == LineEnd(s)  \* mutant
bytesToSkip(s) == IF s[LineEnd(s)] = CR THEN LineEnd(s) + 1 ELSE LineEnd(s)

-----------------------------------------------------------------------------
\* Codec::parseLine.

\* split(): the maximal runs of bytes that are not spaces, in order.
Starts(line) == {i \in 1..Len(line) : ~Space(line[i]) /\ (i = 1 \/ Space(line[i - 1]))}
Ends(line, i) == {j \in i..Len(line) : j = Len(line) \/ Space(line[j + 1])}
Nth(S, n) == CHOOSE x \in S : Cardinality({y \in S : y <= x}) = n
Word(line, n) == LET i == Nth(Starts(line), n) IN SubSeq(line, i, Min(Ends(line, i)))
split(line) == [n \in 1..Cardinality(Starts(line)) |-> Word(line, n)]

\* line.find(word): where word first occurs, in any part of the line.
find(line, word) ==
    Min({i \in 1..Len(line) : SubSeq(line, i, i + Len(word) - 1) = word})

\* The value of PUT: what follows the key and the spaces after it.
valueStartUnskipped(line, key) == find(line, key) + Len(key)  \* mutant
valueStart(line, key) ==
    Min({i \in (find(line, key) + Len(key))..Len(line) : ~Space(line[i])})

Request(command, key, value) == [command |-> command, key |-> key, value |-> value]
Unknown == Request("UNKNOWN", <<>>, <<>>)

KeyCommands   == [G |-> "GET", D |-> "DEL", E |-> "EXISTS"]
PlainCommands == [S |-> "SIZE", C |-> "CLEAR", I |-> "PING", Q |-> "QUIT"]

parseLine(line) ==
    LET parts == split(line)
        command == IF parts # <<>> /\ Len(parts[1]) = 1 THEN parts[1][1] ELSE SP
    IN  CASE command = "P" /\ Len(parts) >= 3 ->
               Request("PUT", parts[2], SubSeq(line, valueStart(line, parts[2]), Len(line)))
          [] command \in DOMAIN KeyCommands /\ Len(parts) >= 2 ->
               Request(KeyCommands[command], parts[2], <<>>)
          [] command \in DOMAIN PlainCommands -> Request(PlainCommands[command], <<>>, <<>>)
          [] OTHER -> Unknown

-----------------------------------------------------------------------------
\* KVServer::handleRequest and onMessage.

\* KVStore's reads.
Holds(key) == key \in DOMAIN store
ValueAt(key) == store[key]
StoreSize == Cardinality(DOMAIN store)

\* The store after the request: put(), del() and clear().
Stored(q) ==
    CASE q.command = "PUT" ->
           [k \in DOMAIN store \cup {q.key} |-> IF k = q.key THEN q.value ELSE store[k]]
      [] q.command = "DEL" -> [k \in DOMAIN store \ {q.key} |-> store[k]]
      [] q.command = "CLEAR" -> <<>>
      [] OTHER -> store

OK(message) == Response("OK", message)
Number(n) == <<ToString(n)>>  \* std::to_string
ASSUME NumberAssumption == Number(0) # Number(1)
NotFound == Response("NOT_FOUND", <<>>)

Handled(q) == LET has == Holds(q.key) IN
    CASE q.command = "PUT"    -> OK(IF has THEN <<"UPDATED">> ELSE <<"CREATED">>)
      [] q.command = "GET"    -> IF has THEN OK(ValueAt(q.key)) ELSE NotFound
      [] q.command = "DEL"    -> IF has THEN OK(<<"DELETED">>) ELSE NotFound
      [] q.command = "EXISTS" -> OK(Number(IF has THEN 1 ELSE 0))
      [] q.command = "SIZE"   -> OK(Number(StoreSize))
      [] q.command = "CLEAR"  -> OK(<<"CLEARED">>)
      [] q.command = "PING"   -> Response("PONG", <<>>)
      [] q.command = "QUIT"   -> Response("BYE", <<>>)
      [] OTHER                -> Response("ERROR", <<"Unknown command">>)

\* TcpConnection::send() after shutdown() does nothing.
SendsAlways(response) == Append(out, response)  \* mutant
Sent(response) == IF connected THEN Append(out, response) ELSE out

\* handleRead(): one readFd() of what has arrived, then the message callback.
Read(n) ==
    /\ pc = "idle"
    /\ n \in 1..Len(wire) /\ n <= ReadCapacity(input)
    /\ input' = readFd(input, SubSeq(wire, 1, n))
    /\ wire' = SubSeq(wire, n + 1, Len(wire))
    /\ pc' = "message"
    /\ UNCHANGED <<sent, sends, connected, store, executed, out>>

\* Where onMessage() goes on after a request: its loop, or back after QUIT.
OncePerMessage(q) == "idle"  \* mutant: if instead of while
After(q) == IF q.command = "QUIT" THEN "idle" ELSE "message"

HandleRequest ==
    LET s == Content(input)
        q == parseLine(FirstLine(s))
    IN  /\ pc = "message"
        /\ LineEnds(s) # {}
        /\ input' = retrieve(input, bytesToSkip(s))
        /\ store' = Stored(q)
        /\ executed' = Append(executed, q)
        /\ out' = Sent(Handled(q))
        /\ connected' = (connected /\ q.command # "QUIT")
        /\ pc' = After(q)
        /\ UNCHANGED <<sent, sends, wire>>

\* Nothing left, or no complete line.
MessageDone ==
    /\ pc = "message"
    /\ LineEnds(Content(input)) = {}
    /\ pc' = "idle"
    /\ UNCHANGED <<sent, sends, wire, input, connected, store, executed, out>>

\* The client sends, whether or not it has read the responses so far.
Send(line) ==
    /\ sends < MaxLines
    /\ sends' = sends + 1
    /\ sent' = sent \o line
    /\ wire' = wire \o line
    /\ UNCHANGED <<input, pc, connected, store, executed, out>>

Next == \/ \E line \in Lines : Send(line)
        \/ \E n \in 1..Len(wire) : Read(n)
        \/ HandleRequest \/ MessageDone

Spec == Init /\ [][Next]_vars

-----------------------------------------------------------------------------
\* Types of the state; the buffer's indices stay in order and within the vector
\* whether makeSpace() moves or grows (buffer.h:163-175).
TypeOK ==
    /\ IsBuffer(input)
    /\ sent \in Seq(Bytes) /\ wire \in Seq(Bytes)
    /\ pc \in {"idle", "message"}
    /\ connected \in BOOLEAN
    /\ sends \in 0..MaxLines

\* The first i bytes of the stream u are n whole lines.
WholeLines(u, i, n) ==
    /\ i = 0 \/ u[i] = LF
    /\ Cardinality({j \in 1..i : u[j] = LF}) = n

\* The stream cut at every LF, without the CRs before it that count as part of
\* the line's end: the requests the client meant, however the bytes arrive.
LinesEnd(u, n) == CHOOSE i \in 0..Len(u) : WholeLines(u, i, n)
TrueLine(u, n) ==
    Chopped(Chopped(SubSeq(u, LinesEnd(u, n - 1) + 1, LinesEnd(u, n) - 1)))

\* The buffer is a queue of bytes: across short reads, the overflow into
\* extrabuf, moves and reallocations no byte is lost, repeated or reordered, and
\* each request takes exactly one line out of it (buffer.cpp:25-57,
\* buffer.h:58-102, codec.h:67-112).
BytesKept == \E n \in 0..Len(sent) :
                /\ WholeLines(sent, n, Len(executed))
                /\ Content(input) \o wire = SubSeq(sent, n + 1, Len(sent))

\* Framing: the requests handled are the lines the client sent, one by one and
\* in order, wherever the pieces were cut, be it between CR and LF
\* (codec.h:67-112).
Framing ==
    \A n \in 1..Len(executed) :
        /\ \E i \in 0..Len(sent) : WholeLines(sent, i, n)
        /\ executed[n] = parseLine(TrueLine(sent, n))

\* onMessage() does not return with a complete request in the buffer, unless
\* that request is behind a QUIT (kv_server.cpp:51-72): nobody would call it
\* again until the client sends more.
NothingLeft ==
    pc = "idle" /\ LineEnds(Content(input)) # {}
        => executed # <<>> /\ Last(executed).command = "QUIT"

\* The requests of the history h that are answered: up to the first QUIT.
Quits(h) == {n \in 1..Len(h) : h[n].command = "QUIT"}
Answerable(h) == IF Quits(h) = {} THEN Len(h) ELSE Min(Quits(h))

\* What the first n requests have left under a key: the number of the PUT that
\* wrote it, or 0.
Changes(q, key) == q.command = "CLEAR" \/ (q.command \in {"PUT", "DEL"} /\ q.key = key)
LastWrite(h, n, key) ==
    LET changes == {m \in 1..n : Changes(h[m], key)}
    IN  IF changes # {} /\ h[Max(changes)].command = "PUT" THEN Max(changes) ELSE 0

Written(h, n) == {key \in {h[m].key : m \in 1..n} : LastWrite(h, n, key) # 0}

\* The n-th of the answers o, which follow the greeting, is the one that the
\* requests before it determine.
Answers(h, o, n) ==
    LET q == h[n]
        w == LastWrite(h, n - 1, q.key)
        r == o[n + 1]
    IN  /\ q.command = "QUIT" <=> r.status = "BYE"
        /\ q.command = "UNKNOWN" <=> r.status = "ERROR"
        /\ q.command = "PUT" => (r.message = <<"CREATED">> <=> w = 0)
        /\ q.command \in {"GET", "DEL"} => (r.status = "NOT_FOUND" <=> w = 0)
        /\ q.command = "GET" /\ w # 0 => r.message = h[w].value
        /\ q.command = "EXISTS" => (r.message = Number(0) <=> w = 0)
        /\ q.command = "SIZE" => r.message = Number(Cardinality(Written(h, n - 1)))

\* Every request up to the first QUIT is answered exactly once and in order,
\* none after it, with the answer that the requests before it determine
\* (kv_server.cpp:51-133, tcp_connection.cpp:38-49).
Replies ==
    /\ Len(out) = 1 + Answerable(executed)
    /\ \A n \in 1..Answerable(executed) : Answers(executed, out, n)

\* The value of a PUT is the rest of its line behind the key, inner spaces
\* included (codec.h:132: "take all the remaining part"), unless the key occurs
\* in the command word: find() then takes that for the key.
ValueIsRest ==
    \A n \in 1..Len(executed) :
        LET q == executed[n]
            line == TrueLine(sent, n)
        IN  q.command = "PUT" /\ q.key # <<"P">> =>
              /\ IsSuffix(q.value, line) /\ ~Space(Head(q.value))
              /\ split(SubSeq(line, 1, Len(line) - Len(q.value))) = <<<<"P">>, q.key>>
=============================================================================

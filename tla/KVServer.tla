------------------------------ MODULE KVServer ------------------------------
(***************************************************************************)
(* The server process around its store: main() and KVServer (server/       *)
(* main.cpp, server/kv_server.cpp), KVStore (storage/kvstore.cpp) and the  *)
(* data file (storage/skiplist.h:358-431), through starts, signals, clean  *)
(* stops and crashes.  The main thread loads, serves, and saves twice (in  *)
(* main() and in ~KVServer) while the IO threads still execute requests,   *)
(* and then ends these one after another (server/kv_server.h:66-69,        *)
(* net/eventloop_thread.cpp).                                              *)
(*                                                                         *)
(* The store is the ordered map that SkipList is shown to implement: each  *)
(* operation is atomic under its mutex, which dumpFile() holds throughout. *)
(* A key, a value or a line of the file is a sequence of characters, of    *)
(* which only the delimiter ":" matters.                                   *)
(***************************************************************************)
EXTENDS Integers, Sequences, FiniteSets

CONSTANTS NumThreads, \* the IO threads
          Chars,      \* the characters of keys and values
          KeyOrder,   \* every key, in the order of the map
          Values, NoValue,
          MaxWrites,  \* bound: writes executed
          MaxStarts   \* bound: starts of the process

Keys == {KeyOrder[i] : i \in DOMAIN KeyOrder}
Delimiter == ":"

ASSUME KVServerAssumption ==
    /\ NumThreads \in Nat \ {0}
    /\ Delimiter \in Chars
    /\ KeyOrder \in Seq(Seq(Chars) \ {<<>>}) /\ Values \subseteq Seq(Chars)
    /\ NoValue \notin Seq(Chars)
    /\ \A i, j \in DOMAIN KeyOrder : KeyOrder[i] = KeyOrder[j] => i = j
    /\ MaxWrites \in Nat /\ MaxStarts \in Nat

Threads == 1..NumThreads

VARIABLES phase,     \* where the main thread is: see Phases
          quit,      \* EventLoop::quit_ of the base loop
          io,        \* where each IO thread is: see Places
          store,     \* store[k]: the value of k, or NoValue
          todo,      \* the nodes dumpFile() has still to write: positions in KeyOrder
          file,      \* the lines of the data file
          failed,    \* the stream of the dump under way has failed
          writes, starts,
          snapshot,  \* history: the store when the last dump took the mutex
          intact     \* history: that dump wrote everything and was closed

vars == <<phase, quit, io, store, todo, file, failed, writes, starts, snapshot, intact>>

Phases == {"down", "booting", "loaded", "unread", "serving", "returned", "dumping1",
           "saved1", "dumping2", "saved2", "ending", "joining"}

\* An IO thread that startLoop() returned from has published its EventLoop; loop()
\* comes after that.
Places == {"none", "ready", "looping", "told", "ended"}

Empty == [k \in Keys |-> NoValue]

NoThreads == [t \in Threads |-> "none"]

Init == /\ phase = "down" /\ quit = FALSE /\ io = NoThreads
        /\ store = Empty /\ todo = {} /\ file = <<>> /\ failed = FALSE
        /\ writes = 0 /\ starts = 0
        /\ snapshot = Empty /\ intact = TRUE

-----------------------------------------------------------------------------
\* The format of the file.

Line(k, v) == k \o <<Delimiter>> \o v

\* std::string::find
DelimiterAt(line) == {i \in DOMAIN line : line[i] = Delimiter}
LastDelimiter(line) == CHOOSE i \in DelimiterAt(line) : \A j \in DelimiterAt(line) : j <= i  \* mutant
FirstDelimiter(line) == CHOOSE i \in DelimiterAt(line) : \A j \in DelimiterAt(line) : i <= j

\* parseString(): a line without a delimiter or with an empty key is skipped.
Parses(line) == DelimiterAt(line) # {} /\ FirstDelimiter(line) > 1
KeyOf(line) == SubSeq(line, 1, FirstDelimiter(line) - 1)
ValueOf(line) == SubSeq(line, FirstDelimiter(line) + 1, Len(line))

\* loadFile() into a cleared list: a later line of the same key wins.
LastLineOf(lines, k) == {i \in DOMAIN lines : /\ Parses(lines[i]) /\ KeyOf(lines[i]) = k
                                              /\ \A j \in DOMAIN lines :
                                                   Parses(lines[j]) /\ KeyOf(lines[j]) = k => j <= i}
Loaded(lines) == [k \in Keys |-> IF LastLineOf(lines, k) = {} THEN NoValue
                                 ELSE ValueOf(lines[CHOOSE i \in LastLineOf(lines, k) : TRUE])]

-----------------------------------------------------------------------------
\* The main thread.

Boot == /\ phase = "down" /\ starts < MaxStarts
        /\ phase' = "booting"
        /\ starts' = starts + 1
        /\ quit' = FALSE
        /\ store' = Empty
        /\ UNCHANGED <<io, todo, file, failed, writes, snapshot, intact>>

\* KVStore::load: clear, then one insert per line.
Load == /\ phase = "booting"
        /\ phase' = "loaded"
        /\ store' = Loaded(file)
        /\ UNCHANGED <<quit, io, todo, file, failed, writes, starts, snapshot, intact>>

\* The file cannot be opened, so nothing is read, and main() goes on; or a read
\* fails, which the loop over the lines takes for the end of the file.
ReadFails == /\ phase = "booting"
             /\ phase' = "unread"
             /\ \E n \in 0..Len(file) : store' = Loaded(SubSeq(file, 1, n))
             /\ UNCHANGED <<quit, io, todo, file, failed, writes, starts, snapshot, intact>>

\* server.start(), which returns when every IO thread has published its loop;
\* loop.loop(), which begins with quit_ = false.
Serve == /\ phase \in {"loaded", "unread"}
         /\ phase' = "serving"
         /\ quit' = FALSE
         /\ io' = [t \in Threads |-> "ready"]
         /\ UNCHANGED <<store, todo, file, failed, writes, starts, snapshot, intact>>

StopIgnored == FALSE  \* mutant
StopRequested == quit
LoopReturns == /\ phase = "serving" /\ StopRequested
               /\ phase' = "returned"
               /\ UNCHANGED <<quit, io, store, todo, file, failed, writes, starts, snapshot, intact>>

\* The positions, up to p, of the keys that s holds.
Held(s, p) == {i \in 1..p : s[KeyOrder[i]] # NoValue}

\* dumpFile(): the mutex, then the file, which opening truncates, then a line
\* per node, along the list.  A stream that has failed drops every later line and dumpFile()
\* still returns true.
Dumping == phase \in {"dumping1", "dumping2"}
AllKeys == DOMAIN KeyOrder  \* mutant
ToDump == Held(store, Len(KeyOrder))

AppendMode == file  \* mutant
Opened == <<>>

OpenFile == /\ phase \in {"returned", "saved1"}
            /\ phase' = IF phase = "returned" THEN "dumping1" ELSE "dumping2"
            /\ todo' = ToDump
            /\ file' = Opened
            /\ failed' = FALSE
            /\ snapshot' = store
            /\ intact' = FALSE
            /\ UNCHANGED <<quit, io, store, writes, starts>>

\* save() returns false; main() and ~KVServer go on.
CannotOpen == /\ phase \in {"returned", "saved1"}
              /\ phase' = IF phase = "returned" THEN "saved1" ELSE "saved2"
              /\ UNCHANGED <<quit, io, store, todo, file, failed, writes, starts, snapshot, intact>>

LineOf(s, i) == Line(KeyOrder[i], s[KeyOrder[i]])

WriteLine == /\ Dumping
             /\ \E i \in todo :
                  /\ \A j \in todo : i <= j
                  /\ todo' = todo \ {i}
                  /\ file' = IF failed THEN file ELSE Append(file, LineOf(store, i))
             /\ UNCHANGED <<phase, quit, io, store, failed, writes, starts, snapshot, intact>>

\* What may reach the disk of lines that were written and not flushed.
Prefixes(lines) ==
    {SubSeq(lines, 1, n) : n \in 0..Len(lines)}
      \cup UNION {{Append(SubSeq(lines, 1, n - 1), SubSeq(lines[n], 1, cut)) :
                       cut \in 1..Len(lines[n])} : n \in DOMAIN lines}

\* The disk is full.
StreamFails == /\ Dumping /\ ~failed
               /\ failed' = TRUE
               /\ file' \in Prefixes(file)
               /\ UNCHANGED <<phase, quit, io, store, todo, writes, starts, snapshot, intact>>

CloseFile == /\ Dumping /\ todo = {}
             /\ phase' = IF phase = "dumping1" THEN "saved1" ELSE "saved2"
             /\ intact' = ~failed
             /\ UNCHANGED <<quit, io, store, todo, file, failed, writes, starts, snapshot>>

\* The members of KVServer are destroyed: store_ first ...
DestroyStore == /\ phase = "saved2"
                /\ phase' = "ending"
                /\ store' = Empty
                /\ UNCHANGED <<quit, io, todo, file, failed, writes, starts, snapshot, intact>>

\* ... then server_ with its IO threads, one after another.  quit() ends a loop,
\* also one that polls; of a thread that has not come to loop() yet, loop() undoes it.
StopThread == /\ phase = "ending"
              /\ \E t \in Threads :
                   /\ io[t] # "none" /\ \A u \in 1..(t - 1) : io[u] = "none"
                   /\ io' = IF io[t] = "looping" THEN [io EXCEPT ![t] = "told"] ELSE io
              /\ phase' = "joining"
              /\ UNCHANGED <<quit, store, todo, file, failed, writes, starts, snapshot, intact>>

Join == /\ phase = "joining"
        /\ \E t \in Threads : io[t] = "ended" /\ io' = [io EXCEPT ![t] = "none"]
        /\ phase' = "ending"
        /\ UNCHANGED <<quit, store, todo, file, failed, writes, starts, snapshot, intact>>

Exit == /\ phase = "ending" /\ io = NoThreads
        /\ phase' = "down"
        /\ UNCHANGED <<quit, io, store, todo, file, failed, writes, starts, snapshot, intact>>

Main == \/ Load \/ ReadFails \/ Serve \/ LoopReturns \/ OpenFile \/ CannotOpen
        \/ WriteLine \/ CloseFile \/ DestroyStore \/ StopThread \/ Join \/ Exit

-----------------------------------------------------------------------------
\* The IO threads.

\* loop(), which begins with quit_ = false.
EnterLoop(t) == /\ io[t] = "ready"
                /\ io' = [io EXCEPT ![t] = "looping"]
                /\ UNCHANGED <<phase, quit, store, todo, file, failed, writes, starts, snapshot, intact>>

EndThread(t) == /\ io[t] = "told"
                /\ io' = [io EXCEPT ![t] = "ended"]
                /\ UNCHANGED <<phase, quit, store, todo, file, failed, writes, starts, snapshot, intact>>

Runs(t) == EnterLoop(t) \/ EndThread(t)

\* A request takes effect when it gets the list's mutex, also after the base
\* loop has returned.
Accepting == /\ phase \in {"serving", "returned", "saved1", "saved2"}
             /\ \E t \in Threads : io[t] = "looping"

Executes(result) == /\ Accepting
                    /\ writes < MaxWrites
                    /\ writes' = writes + 1
                    /\ store' = result
                    /\ UNCHANGED <<phase, quit, io, todo, file, failed, starts, snapshot, intact>>

Put   == \E k \in Keys, v \in Values : Executes([store EXCEPT ![k] = v])
Del   == \E k \in Keys : store[k] # NoValue /\ Executes([store EXCEPT ![k] = NoValue])
Clear == Executes(Empty)

\* SIGINT or SIGTERM.
Signal == /\ phase # "down" /\ ~quit
          /\ quit' = TRUE
          /\ UNCHANGED <<phase, io, store, todo, file, failed, writes, starts, snapshot, intact>>

\* The process dies; what its streams had not flushed is lost.
Crash == /\ phase # "down"
         /\ phase' = "down"
         /\ io' = NoThreads
         /\ store' = Empty
         /\ todo' = {}
         /\ IF Dumping THEN file' \in Prefixes(file) ELSE UNCHANGED file
         /\ UNCHANGED <<quit, failed, writes, starts, snapshot, intact>>

Next == \/ Boot \/ Main \/ StreamFails \/ Put \/ Del \/ Clear \/ Signal \/ Crash
        \/ \E t \in Threads : Runs(t)

Spec == Init /\ [][Next]_vars

\* The main thread and the IO threads keep running.
FairSpec == Spec /\ WF_vars(Main) /\ \A t \in Threads : WF_vars(Runs(t))

-----------------------------------------------------------------------------
\* Types of the state.
TypeOK ==
    /\ phase \in Phases
    /\ {quit, failed, intact} \subseteq BOOLEAN
    /\ io \in [Threads -> Places]
    /\ store \in [Keys -> Seq(Chars) \cup {NoValue}]
    /\ todo \subseteq Held(store, Len(KeyOrder))
    /\ file \in Seq(Seq(Chars))
    /\ writes \in 0..MaxWrites /\ starts \in 0..MaxStarts

\* The ways to go through the keys of s up to position p in their order: one.
Walks(s, p) == {q \in UNION {[1..n -> Held(s, p)] : n \in 0..p} :
                    /\ \A i, j \in DOMAIN q : i < j => q[i] < q[j]
                    /\ \A x \in Held(s, p) : \E i \in DOMAIN q : q[i] = x}

LinesOf(s, q) == [i \in DOMAIN q |-> LineOf(s, q[i])]

\* A dump is a snapshot: whatever the IO threads execute meanwhile, and wherever
\* a crash or a full disk cuts it, the file holds the first bytes of the map as
\* it was when the dump took the mutex, and all of it after a close without
\* failure (skiplist.h:358-378).
FileFromSnapshot ==
    \E p \in 0..Len(KeyOrder) : \E q \in Walks(snapshot, p) :
        /\ file \in Prefixes(LinesOf(snapshot, q))
        /\ intact => p = Len(KeyOrder) /\ file = LinesOf(snapshot, q)

PlainKeys == \A k \in Keys : snapshot[k] # NoValue => DelimiterAt(k) = {}

\* What the last complete dump saved is what the next start loads, whatever
\* delimiters the values contain, if no key contains one and the file can be opened
\* and read (skiplist.h:380-431).
RestartRestores == phase = "loaded" /\ intact /\ PlainKeys => store = snapshot

\* What a dump that was cut leaves, and a start that could not read all of the
\* file: every key before the cut with its value, no key after it, and at most one
\* key in between whose value is cut short (skiplist.h:358-431).
CutRestore ==
    phase \in {"loaded", "unread"} /\ PlainKeys =>
        \E n \in 0..Len(KeyOrder) : \A i \in DOMAIN KeyOrder :
            LET k == KeyOrder[i] IN
            CASE i <= n    -> store[k] = snapshot[k]
              [] i = n + 1 -> \/ store[k] = NoValue
                              \/ \E cut \in 0..Len(snapshot[k]) : store[k] = SubSeq(snapshot[k], 1, cut)
              [] OTHER     -> store[k] = NoValue

\* A signal while the server serves brings the main thread through both saves to
\* its destructors, and these end the process if by then every IO thread has come
\* to its loop() (main.cpp:20-27,104-119, eventloop_thread.cpp:15-21).  A signal that
\* comes before is undone by loop() (eventloop.cpp:62): nothing is said of it.
StopCompletes ==
    /\ (phase = "serving" /\ quit) ~> (phase \in {"ending", "down"})
    /\ (phase = "ending" /\ \A t \in Threads : io[t] # "ready") ~> (phase = "down")
=============================================================================

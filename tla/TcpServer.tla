------------------------------ MODULE TcpServer ------------------------------
(***************************************************************************)
(* The server as a whole: net/acceptor.cpp and net/tcp_server.cpp on the   *)
(* main thread, its IO threads (IoThreads), and the teardown that main()   *)
(* and ~KVServer start when the main loop has returned                     *)
(* (server/kv_server.h:66-69, net/tcp_server.h:93-106: members are         *)
(* destroyed last to first).                                               *)
(*                                                                         *)
(* A connection is named by its client.  TcpConnection models one of them  *)
(* in detail; here it is only up, down or in between.                      *)
(***************************************************************************)
EXTENDS IoThreads, FiniteSets, SequencesExt

CONSTANTS Clients,
          MaxFails  \* bound: how often accept(2) fails

ASSUME TcpServerAssumption == MaxFails \in Nat

VARIABLES
    client,   \* per client: "idle", in the backlog "asked" or, if it has closed
              \* its end, "left"; accepted "open" or "closed"
    backlog,  \* connections the kernel has completed, not accepted yet
    edge,     \* the listening socket is on epoll's ready list
    fails,    \* how often accept(2) has failed
    conn,     \* per client: its TcpConnection, see NoConnection
    map,      \* connections_
    removals, \* removeConnectionInLoop functors queued on the main loop
    store     \* "open", or "gone" once ~KVStore has run

serverVars == <<client, backlog, edge, fails, conn, map, removals, store>>
vars == <<ioVars, serverVars>>

\* state_, the IO thread it belongs to, whether its channel is in the poller,
\* and how often the connection callback has said that it is up and down.
NoConnection == [state |-> "none", loop |-> 0, polled |-> FALSE, ups |-> 0, downs |-> 0]

Functor(op, c) == [op |-> op, of |-> c]

Init ==
    /\ IoInit
    /\ client = [c \in Clients |-> "idle"]
    /\ backlog = <<>> /\ edge = FALSE /\ fails = 0
    /\ conn = [c \in Clients |-> NoConnection]
    /\ map = {} /\ removals = <<>>
    /\ store = "open"

-----------------------------------------------------------------------------
\* Clients.

Connect(c) ==
    /\ client[c] = "idle" /\ main = "serve"
    /\ client' = [client EXCEPT ![c] = "asked"]
    /\ backlog' = Append(backlog, c)
    /\ edge' = TRUE
    /\ UNCHANGED <<ioVars, fails, conn, map, removals, store>>

\* The client closes its end, accepted or not.
Disconnect(c) ==
    /\ client[c] \in {"asked", "open"}
    /\ client' = [client EXCEPT ![c] = IF @ = "asked" THEN "left" ELSE "closed"]
    /\ UNCHANGED <<ioVars, backlog, edge, fails, conn, map, removals, store>>

-----------------------------------------------------------------------------
\* The main thread while it serves.

\* TcpServer::start, once the pool has started: Acceptor::listen in place.
Listen ==
    /\ main = "start" /\ who > NumThreads
    /\ main' = "serve"
    /\ UNCHANGED <<who, io, loops, next, serverVars>>

\* newConnection(): connectEstablished() runs on the chosen loop.
Established(c) ==
    /\ conn' = [conn EXCEPT ![c].state = "Connecting", ![c].loop = loops[next]]
    /\ Post(loops[next], Functor("established", c))
    /\ Advances

\* Acceptor::handleRead: one accept(2) for each edge, which also returns the
\* connection of a client that has left.
Accept ==
    /\ main = "serve" /\ edge /\ backlog # <<>>
    /\ edge' = FALSE
    /\ LET c == Head(backlog) IN
         /\ backlog' = Tail(backlog)
         /\ client' = [client EXCEPT ![c] = IF @ = "left" THEN "closed" ELSE "open"]
         /\ map' = map \cup {c}
         /\ Established(c)
    /\ UNCHANGED <<main, who, loops, fails, removals, store>>

\* EMFILE and the like are logged.
AcceptFails ==
    /\ main = "serve" /\ edge
    /\ fails < MaxFails
    /\ fails' = fails + 1
    /\ edge' = FALSE
    /\ UNCHANGED <<ioVars, client, backlog, conn, map, removals, store>>

\* removeConnectionInLoop()
ForgetsDestroyed(c) == UNCHANGED io  \* mutant
PostsDestroyed(c) == Post(conn[c].loop, Functor("destroyed", c))

RemoveConnection ==
    /\ main = "serve" /\ removals # <<>>
    /\ removals' = Tail(removals)
    /\ map' = map \ {Head(removals)}
    /\ PostsDestroyed(Head(removals))
    /\ UNCHANGED <<main, who, loops, next, client, backlog, edge, fails, conn, store>>

-----------------------------------------------------------------------------
\* The main thread when its loop has returned: functors that came after its
\* last swap stay behind.

LoopReturns ==
    /\ main = "serve"
    /\ main' = "closing"
    /\ UNCHANGED <<who, io, loops, next, serverVars>>

\* ~KVServer has saved; its members go, the store before the server.
DestroyStore ==
    /\ main = "closing"
    /\ store' = "gone"
    /\ main' = "server"
    /\ UNCHANGED <<who, io, loops, next, client, backlog, edge, fails, conn, map, removals>>

\* ~TcpServer posts connectDestroyed() for each connection ...
DropConnection ==
    /\ main = "server"
    /\ \E c \in map : map' = map \ {c} /\ PostsDestroyed(c)
    /\ UNCHANGED <<main, who, loops, next, client, backlog, edge, fails, conn, removals, store>>

\* ... then its members go: connections_, the thread pool ...
DestroyPool ==
    /\ main = "server" /\ map = {}
    /\ main' = "dtor" /\ who' = 1
    /\ UNCHANGED <<io, loops, next, serverVars>>

\* ... and the acceptor; then main() returns.
Exit ==
    /\ main = "dtor" /\ who > NumThreads
    /\ main' = "end"
    /\ UNCHANGED <<who, io, loops, next, serverVars>>

-----------------------------------------------------------------------------
\* IO threads: what connection c does on its loop i.

Polled(i, c) == io[i].at = "poll" /\ conn[c].loop = i /\ conn[c].polled

\* onMessage() with a request that needs the store ...
UseStore(i, c) ==
    /\ Polled(i, c)
    /\ Moves(i, "store")
    /\ UNCHANGED <<main, who, loops, next, serverVars>>

StoreDone(i) ==
    /\ io[i].at = "store"
    /\ Moves(i, "swap")
    /\ UNCHANGED <<main, who, loops, next, serverVars>>

\* ... or with QUIT: shutdown().
Shutdown(i, c) ==
    /\ Polled(i, c)
    /\ conn[c].state = "Connected"
    /\ conn' = [conn EXCEPT ![c].state = "Disconnecting"]
    /\ Moves(i, "swap")
    /\ UNCHANGED <<main, who, loops, next, client, backlog, edge, fails, map, removals, store>>

Down(c) == [conn[c] EXCEPT !.state = "Disconnected", !.polled = FALSE, !.downs = @ + 1]

\* handleClose() at the end of the stream; its closeCallback_ is
\* TcpServer::removeConnection.
AsksForRemoval(c) == removals' = Append(removals, c)

HandleClose(i, c) ==
    /\ Polled(i, c) /\ client[c] = "closed"
    /\ conn' = [conn EXCEPT ![c] = Down(c)]
    /\ AsksForRemoval(c)
    /\ Moves(i, "swap")
    /\ UNCHANGED <<main, who, loops, next, client, backlog, edge, fails, map, store>>

\* connectEstablished() and connectDestroyed(), as far as they change c.
DestroyedPolled(c) == IF conn[c].state = "Connected" THEN Down(c) ELSE conn[c]  \* mutant: no remove()
Destroyed(c) == IF conn[c].state = "Connected" THEN Down(c) ELSE [conn[c] EXCEPT !.polled = FALSE]

After(functor) ==
    LET c == functor.of IN
    IF functor.op = "established"
      THEN [conn[c] EXCEPT !.state = "Connected", !.polled = TRUE, !.ups = @ + 1]
      ELSE Destroyed(c)

RunFunctor(i) ==
    /\ io[i].at = "run" /\ io[i].batch # <<>>
    /\ LET f == Head(io[i].batch) IN conn' = [conn EXCEPT ![f.of] = After(f)]
    /\ io' = [io EXCEPT ![i].batch = Tail(@)]
    /\ UNCHANGED <<main, who, loops, next, client, backlog, edge, fails, map, removals, store>>

-----------------------------------------------------------------------------
Client(c) == Connect(c) \/ Disconnect(c)

Works(i) == \/ Runs(i) /\ UNCHANGED serverVars
            \/ StoreDone(i) \/ RunFunctor(i)
            \/ \E c \in Clients : HandleClose(i, c)

Serves == Accept \/ RemoveConnection

Lifecycle == \/ (StartPool \/ EndPool) /\ UNCHANGED serverVars
             \/ Listen \/ DestroyStore \/ DropConnection \/ DestroyPool \/ Exit

Next ==
    \/ Lifecycle \/ Serves \/ AcceptFails \/ LoopReturns
    \/ \E i \in Workers :
         \/ Works(i)
         \/ PollTimeout(i) /\ UNCHANGED serverVars
         \/ \E c \in Clients : UseStore(i, c) \/ Shutdown(i, c)
    \/ \E c \in Clients : Client(c)

Spec == Init /\ [][Next]_vars

\* Every thread that can run does, poll() returns for an event, and the main
\* loop handles both kinds of its own.  Nothing obliges a client to do anything,
\* poll() to time out, or anybody to stop the server.
FairSpec == /\ Spec
            /\ WF_vars(Lifecycle)
            /\ WF_vars(Accept) /\ WF_vars(RemoveConnection)
            /\ \A i \in Workers : WF_vars(Works(i))

-----------------------------------------------------------------------------
Mains == {"start", "latch", "collect", "wait", "serve", "closing", "server",
          "dtor", "quit", "wake", "join", "end"}
StartsUp == {"start", "latch", "collect", "wait"}
Serving == StartsUp \cup {"serve"}
States == {"none", "Connecting", "Connected", "Disconnecting", "Disconnected"}
Functors == [op : {"established", "destroyed"}, of : Clients]

IoType == [at : Starting \cup Looping \cup Ended, shown : BOOLEAN, quit : BOOLEAN,
           wake : BOOLEAN, pending : Seq(Functors), batch : Seq(Functors)]
ConnectionType == [state : States, loop : 0..NumThreads, polled : BOOLEAN, ups : Nat, downs : Nat]

\* Types of the state; next_ stays within the vector of loops.
TypeOK ==
    /\ main \in Mains /\ who \in 1..(NumThreads + 1)
    /\ io \in [Workers -> IoType]
    /\ loops \in Seq(Workers) /\ next \in Workers
    /\ client \in [Clients -> {"idle", "asked", "left", "open", "closed"}]
    /\ backlog \in Seq(Clients)
    /\ edge \in BOOLEAN /\ fails \in 0..MaxFails
    /\ conn \in [Clients -> ConnectionType]
    /\ map \subseteq Clients /\ removals \in Seq(Clients)
    /\ store \in {"open", "gone"}

\* Everything that is posted to a loop is posted to a living one, and an
\* EventLoopThread outlives its thread, which locks mutex_ at its end: no loop ends
\* before the main thread has told it to, the main thread tells it after its last
\* post and frees it after its end (eventloop_thread.cpp:15-21,38-55,
\* tcp_server.cpp:28-37,52-98).  Only the wakeup() of quit() may come when the
\* loop is gone.
Told(i) == main \in {"dtor", "quit", "wake", "join", "end"} /\ i < who
LoopsAlive ==
    /\ main = "serve" => loops = [i \in Workers |-> i]
    /\ \A i \in Workers :
         /\ io[i].at \in Ended => Told(i) \/ (main \in {"wake", "join"} /\ i = who)
         /\ Told(i) => io[i].at = "gone"

\* What loop i still has to run, in order.
Queue(i) == io[i].batch \o io[i].pending

\* A functor is queued on, or swapped out by, the loop of its connection.
Queued(op, c) ==
    \E i \in Workers : conn[c].loop = i /\ Functor(op, c) \in ToSet(Queue(i))

\* No connection is forgotten, whatever the order of accepting, closing, removing
\* and tearing down on three threads (tcp_server.cpp:28-37,52-98,
\* tcp_connection.cpp:143-164,211-224).  Up to its end or its shutdown() a connection
\* is in the server's map or its connectDestroyed() is queued on its loop.  One that
\* is shutting down stays in the map as long as the server runs; when the server is
\* destroyed its connectDestroyed(), queued for it too, takes it out of the poller
\* and leaves it Disconnecting, never reported down.  A closed one that is still in
\* the map has its removal queued, and each is reported up and down at most once.
NoneForgotten ==
    \A c \in Clients : LET k == conn[c] IN
        /\ k.state = "Connecting" => Queued("established", c)
        /\ k.state \in {"Connecting", "Connected"} => c \in map \/ Queued("destroyed", c)
        /\ k.state = "Disconnecting" =>
             \/ c \in map
             \/ main \notin Serving /\ (Queued("destroyed", c) \/ ~k.polled)
        /\ k.state = "Disconnected" /\ c \in map => c \in ToSet(removals)
        /\ k.downs <= k.ups /\ k.ups <= 1
        /\ k.state = "Disconnected" <=> k.downs = 1

\* Each connection's life is the one that TcpConnection shows in detail: established,
\* closed, removed from the map and destroyed, once each and in this order, by the
\* main thread and by its loop, also when the server stops in between
\* (tcp_connection.h:33-35, tcp_server.cpp:28-37,52-98).
Life(c) == INSTANCE ConnectionLife WITH
               state <- conn[c].state, polled <- conn[c].polled,
               ups <- conn[c].ups, downs <- conn[c].downs,
               inMap <- c \in map, removing <- c \in ToSet(removals),
               establishing <- Queued("established", c), destroying <- Queued("destroyed", c),
               stopped <- main \notin Serving
LivesInOrder == /\ \A c \in Clients : Life(c)!Init
                /\ [][\A c \in Clients : [Life(c)!Next]_(Life(c)!vars)]_vars

\* The rest of the inductive invariant.  Where the main thread is tells which
\* threads there are and which loops it has seen: those before `who' run while the
\* pool starts, and are gone while it ends.
Lives(i) ==
    /\ io[i].shown <=> io[i].at \in Looping \cup {"left"}
    /\ io[i].at # "run" => io[i].batch = <<>>
    /\ io[i].quit \/ io[i].at \in Ended => Told(i) \/ (main \in {"wake", "join"} /\ i = who)
    /\ Told(i) => io[i].at = "gone"
    /\ main \in StartsUp /\ i < who => io[i].at \in Looping
    /\ main \in StartsUp /\ (i > who \/ (main = "start" /\ i = who)) => io[i].at = "none"
    /\ main \notin StartsUp => io[i].at \notin Starting

Threading ==
    /\ loops = [i \in 1..(IF main \in StartsUp THEN who - 1 ELSE NumThreads) |-> i]
    /\ main \in {"latch", "collect", "wait", "quit", "wake", "join"} => who <= NumThreads
    /\ \A i \in Workers : Lives(i)

\* A connection's functors are in the queue of its own loop: first the one that
\* establishes it, if that is still to come, and none that destroys it while it is
\* in the map.
InOrder(c) ==
    \A i \in Workers : \A p \in 1..Len(Queue(i)) : Queue(i)[p].of = c =>
        /\ conn[c].loop = i
        /\ Queue(i)[p].op = "established" <=>
             conn[c].state = "Connecting" /\ \A q \in 1..(p - 1) : Queue(i)[q].of # c
        /\ Queue(i)[p].op = "destroyed" => c \notin map

Waiting(c) == \E j \in 1..Len(backlog) : backlog[j] = c
Removing(c) == \E j \in 1..Len(removals) : removals[j] = c
Holds(op, c) == \E p \in 1..Len(Queue(conn[c].loop)) : Queue(conn[c].loop)[p] = Functor(op, c)

Tracked(c) ==
    LET k == conn[c] IN
    /\ client[c] \in {"asked", "left"} <=> Waiting(c)
    /\ k.state = "none" <=> client[c] \in {"idle", "asked", "left"}
    /\ k.state # "none" <=> k.loop \in Workers
    /\ InOrder(c)
    /\ c \in map => k.state # "none"
    /\ Removing(c) => k.state = "Disconnected"
    /\ k.state = "Disconnected" /\ c \in map => Removing(c)
    /\ k.state = "Connecting" => Holds("established", c)
    /\ k.state \in {"Connecting", "Connected"} => c \in map \/ Holds("destroyed", c)
    /\ k.state = "Disconnecting" /\ k.polled => c \in map \/ Holds("destroyed", c)
    /\ k.polled => k.state \in {"Connected", "Disconnecting"}
    /\ k.ups = IF k.state \in {"none", "Connecting"} THEN 0 ELSE 1
    /\ k.downs = IF k.state = "Disconnected" THEN 1 ELSE 0

Tracking ==
    /\ IsInjective(backlog)
    /\ \A c \in Clients : Tracked(c)

ServerInv == TypeOK /\ Threading /\ Tracking

\* And what keeps a connection from being removed or destroyed twice: while the
\* server runs the map holds every open connection and every one to be removed.
Once(c) ==
    /\ \A i \in Workers : \A p, q \in 1..Len(Queue(i)) :
          Queue(i)[p] = Functor("destroyed", c) /\ Queue(i)[q] = Functor("destroyed", c) => p = q
    /\ main \in Serving /\ conn[c].state # "none"
         => c \in map \/ (conn[c].state = "Disconnected" /\ ~Removing(c))

HandedOnce == IsInjective(removals) /\ \A c \in Clients : Once(c)

\* The server starts: neither the latch nor the condition variable loses its
\* wakeup (thread.cpp:91-106, eventloop_thread.cpp:23-36,45-49).
Starts == <>(main = "serve")

\* The server stops: every loop ends and is joined, if each had entered loop()
\* when the main loop returned (eventloop_thread.cpp:15-21); a quit() that comes
\* earlier is undone (eventloop.cpp:62).
Stops == (main = "closing" /\ \A i \in Workers : io[i].at # "ready") ~> main = "end"

\* Every client that connects and waits is accepted (epoll_poller.h:20: with ET everything
\* must be read at once), while the server runs and accept(2) does not fail.
Accepted ==
    \A c \in Clients : client[c] = "asked" ~> (client[c] # "asked" \/ main # "serve" \/ fails > 0)

\* No thread holds the store's mutex when it is destroyed (mutex.h:24,40: asserted by
\* ~MutexLock): no request is being executed.
StoreUnheld == store = "gone" => \A i \in Workers : io[i].at # "store"
=============================================================================

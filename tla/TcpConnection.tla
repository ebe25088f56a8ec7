---------------------------- MODULE TcpConnection ----------------------------
(***************************************************************************)
(* One connection of the server, from connectEstablished() to              *)
(* connectDestroyed(): net/tcp_connection.cpp with its Channel             *)
(* (net/channel.cpp), its edge-triggered epoll registration                *)
(* (net/epoll_poller.cpp) and the kernel's two socket buffers, its IO      *)
(* loop's queue of functors (in the order EventLoop guarantees), the base  *)
(* loop that owns it (net/tcp_server.cpp:28-37,86-98), the peer, and       *)
(* threads that call it from outside its loop.                             *)
(*                                                                         *)
(* All that the IO thread and the kernel keep about the connection is the  *)
(* record conn; each function of the code is an operator from such a       *)
(* record to the one it leaves.                                            *)
(***************************************************************************)
EXTENDS Integers, Sequences, FiniteSets

CONSTANTS OffLoop,       \* threads other than the IO thread that hold the connection
          OffLoopCalls,  \* what they call: subset of {"send", "shutdown", "forceClose"}
          MaxMsgs,       \* bound: messages sent; message m is m units long
          SndCap,        \* room of the kernel's send buffer, in units
          ReadMax,       \* units one readv() can return
          MaxIn,         \* bound: units the peer sends
          MaxCalls       \* bound: calls per off-loop thread

ASSUME TcpAssumption ==
    /\ OffLoopCalls \subseteq {"send", "shutdown", "forceClose"}
    /\ MaxMsgs \in Nat /\ MaxIn \in Nat /\ MaxCalls \in Nat
    /\ SndCap \in Nat \ {0} /\ ReadMax \in Nat \ {0}

VARIABLES conn,      \* see ConnType
          revents,   \* what epoll_wait reported and is not handled yet
          functors,  \* the IO loop's pending functors for this connection
          inMap,     \* TcpServer::connections_ holds the connection
          removing,  \* removeConnectionInLoop functors queued on the base loop
          stopped,   \* ~TcpServer has run: the base loop runs no more functors
          callers,   \* per off-loop thread: [at |-> "idle" or a call past its state check,
             \* left |-> calls it may still make]
          nextMsg,   \* number of the next message
          sentIn,    \* units the peer has sent
          rcvd,      \* history: units the peer has received
          sent       \* history: units sendInLoop() has accepted, in order

vars == <<conn, revents, functors, inMap, removing, stopped, callers, nextMsg,
          sentIn, rcvd, sent>>

-----------------------------------------------------------------------------
MinOf(a, b) == IF a < b THEN a ELSE b
Units(m) == [i \in 1..m |-> <<m, i>>]

\* The kernel's view of the socket.  After a reset both directions are at
\* their end: readable (EOF) and writable (an error).  EPOLLHUP, which needs no
\* asking for, is the end of both directions.
Readable(c) == c.inq > 0 \/ c.fin
Writable(c) == Len(c.snd) < SndCap \/ c.wrShut \/ c.rst
HungUp(c)   == c.rst \/ (c.fin /\ c.wrShut)
Reported(c) == {e \in c.interest \cup {"hup"} : CASE e = "in"  -> Readable(c)
                                               [] e = "out" -> Writable(c)
                                               [] e = "hup" -> HungUp(c)}

\* An edge puts a registered socket on epoll's ready list.
Edge(c) == [c EXCEPT !.ready = @ \/ (c.reg /\ Reported(c) # {})]

\* epoll_ctl: ADD and MOD look at the socket at once; an impossible ADD or MOD
\* is LOG_FATAL.
Ctl(c, op) ==
    IF op = "DEL" THEN [c EXCEPT !.reg = FALSE, !.ready = FALSE]
    ELSE IF (op = "ADD") # c.reg
         THEN Edge([c EXCEPT !.reg = TRUE, !.interest = c.events])
         ELSE [c EXCEPT !.epollError = TRUE]

\* EpollPoller::updateChannel
UpdateChannel(c) ==
    IF c.index # "added" THEN Ctl([c EXCEPT !.index = "added"], "ADD")
    ELSE IF c.events = {} THEN [Ctl(c, "DEL") EXCEPT !.index = "deleted"]
    ELSE Ctl(c, "MOD")

\* EpollPoller::removeChannel
RemoveNothing(c)     == c                         \* mutant
RemoveWithoutDel(c)  == [c EXCEPT !.index = "new"]  \* mutant
RemoveChannel(c) ==
    [IF c.index = "added" THEN Ctl(c, "DEL") ELSE c EXCEPT !.index = "new"]

ReadWithoutUpdate(c)  == [c EXCEPT !.events = @ \cup {"in"}]   \* mutant
WriteWithoutUpdate(c) == [c EXCEPT !.events = @ \cup {"out"}]  \* mutant
KeepWriting(c)        == c                                     \* mutant
EnableReading(c)  == UpdateChannel([c EXCEPT !.events = @ \cup {"in"}])
EnableWriting(c)  == UpdateChannel([c EXCEPT !.events = @ \cup {"out"}])
DisableWriting(c) == UpdateChannel([c EXCEPT !.events = @ \ {"out"}])
DisableAll(c)     == UpdateChannel([c EXCEPT !.events = {}])
IsWriting(c)      == "out" \in c.events

\* write(2): what fits; after a reset or our own FIN it is EPIPE.
WriteFails(c) == c.rst \/ c.wrShut
Room(c) == SndCap - Len(c.snd)

SubSeqFrom(s, n) == SubSeq(s, n, Len(s))

\* sendInLoop() writes at once only when nothing waits before the new data.
DirectAlways(c) == TRUE  \* mutant
Direct(c)  == ~IsWriting(c) /\ c.out = <<>>
Refuses(c) == c.state = "Disconnected" \/ (Direct(c) /\ WriteFails(c))

\* TcpConnection::sendInLoop.  A write(2) that fails with neither EWOULDBLOCK nor a
\* lost peer (ENOBUFS, say) queues the data as if there were no room; here it does so
\* only when there is none.
SendInLoop(c, data) ==
    LET n      == IF Direct(c) THEN MinOf(Len(data), Room(c)) ELSE 0
        rest   == SubSeqFrom(data, n + 1)
        wrote  == [c EXCEPT !.snd = @ \o SubSeq(data, 1, n)]
        queued == [wrote EXCEPT !.out = @ \o rest]
    IN  IF Refuses(c) THEN c
        ELSE IF rest = <<>> THEN wrote
        ELSE IF IsWriting(c) THEN queued ELSE EnableWriting(queued)

Accepted(c, data) == IF Refuses(c) THEN <<>> ELSE data

\* TcpConnection::shutdownInLoop
ShutdownAnyway(c) == [c EXCEPT !.wrShut = TRUE]  \* mutant
ShutdownInLoop(c) == IF IsWriting(c) THEN c ELSE [c EXCEPT !.wrShut = TRUE]

\* shutdown() called on the IO thread itself.
Shutdown(c) == IF c.state = "Connected"
               THEN ShutdownInLoop([c EXCEPT !.state = "Disconnecting"]) ELSE c

\* handleClose up to its closeCallback_, which the action that runs it makes.
Close(c) == [DisableAll([c EXCEPT !.state = "Disconnected"]) EXCEPT !.downs = @ + 1]

\* What handleWrite() does once outputBuffer_ is empty.
OnlyDisable(c) == DisableWriting(c)  \* mutant
Drained(c) == IF c.state = "Disconnecting" THEN ShutdownInLoop(DisableWriting(c))
              ELSE DisableWriting(c)

\* TcpConnection::handleWrite
HandleWrite(c) ==
    LET n    == IF WriteFails(c) THEN 0 ELSE MinOf(Len(c.out), Room(c))
        left == [c EXCEPT !.snd = @ \o SubSeq(c.out, 1, n), !.out = SubSeqFrom(@, n + 1)]
    IN  IF ~IsWriting(c) \/ n = 0 THEN c
        ELSE IF left.out # <<>> THEN left ELSE Drained(left)

-----------------------------------------------------------------------------
Functor(op, data, shared) == [op |-> op, data |-> data, shared |-> shared]

Init ==
    /\ conn = [state |-> "Connecting", index |-> "new", events |-> {},
               reg |-> FALSE, interest |-> {}, ready |-> FALSE,
               inq |-> 0, fin |-> FALSE, rst |-> FALSE,
               out |-> <<>>, snd |-> <<>>, wrShut |-> FALSE,
               ups |-> 0, downs |-> 0, epollError |-> FALSE]
    /\ revents = {}
    /\ functors = <<Functor("established", <<>>, TRUE)>>  \* newConnection()
    /\ inMap = TRUE
    /\ removing = 0
    /\ stopped = FALSE
    /\ callers = [t \in OffLoop |-> [at |-> "idle", left |-> MaxCalls]]
    /\ nextMsg = 1
    /\ sentIn = 0
    /\ rcvd = <<>> /\ sent = <<>>

\* Somebody still has a shared_ptr to the connection: the server's map, a
\* functor of the base loop, a functor of the IO loop, or a caller.  Only then
\* can the weak pointer the channel is tied to be locked.
Alive == \/ inMap
         \/ removing > 0
         \/ \E i \in DOMAIN functors : functors[i].shared
         \/ OffLoop # {}

-----------------------------------------------------------------------------
\* The application's callbacks on the IO thread.  Each message it sends is new.

CanSend == nextMsg <= MaxMsgs

AppSends(c) ==
    /\ CanSend
    /\ nextMsg' = nextMsg + 1
    /\ sent' = sent \o (IF c.state = "Connected" THEN Accepted(c, Units(nextMsg)) ELSE <<>>)
    /\ conn' = IF c.state = "Connected" THEN SendInLoop(c, Units(nextMsg)) ELSE c

\* A callback leaves the connection alone, sends, or force-closes it.
AppReplies(c) ==
    /\ AppSends(c) \/ (conn' = c /\ UNCHANGED <<nextMsg, sent>>)
    /\ UNCHANGED functors

\* onMessage(): after QUIT a reply and a shutdown.
AppQuits(c) ==
    /\ CanSend
    /\ nextMsg' = nextMsg + 1
    /\ sent' = sent \o (IF c.state = "Connected" THEN Accepted(c, Units(nextMsg)) ELSE <<>>)
    /\ conn' = Shutdown(IF c.state = "Connected" THEN SendInLoop(c, Units(nextMsg)) ELSE c)
    /\ UNCHANGED functors

\* TcpConnection::forceClose on the IO thread itself.
AppForceCloses(c) ==
    /\ c.state \in {"Connected", "Disconnecting"}
    /\ conn' = [c EXCEPT !.state = "Disconnecting"]
    /\ functors' = Append(functors, Functor("forceClose", <<>>, TRUE))
    /\ UNCHANGED <<nextMsg, sent>>

-----------------------------------------------------------------------------
\* The IO loop: epoll_wait, then handleRead and handleWrite for the events.

Poll ==
    /\ revents = {}
    /\ conn.ready
    /\ Alive
    /\ revents' = Reported(conn) \ (IF "in" \in Reported(conn) THEN {"hup"} ELSE {})
    /\ conn' = [conn EXCEPT !.ready = FALSE]
    /\ UNCHANGED <<functors, inMap, removing, stopped, callers, nextMsg, sentIn, rcvd, sent>>

\* EPOLLHUP without EPOLLIN is a close of its own.
HandleHup ==
    /\ "hup" \in revents
    /\ revents' = revents \ {"hup"}
    /\ conn' = Close(conn)
    /\ removing' = removing + 1
    /\ UNCHANGED <<functors, inMap, stopped, callers, nextMsg, sentIn, rcvd, sent>>

\* Buffer::readFd: one readv.
TakesCapacity(c) == [c EXCEPT !.inq = @ - ReadMax]  \* mutant
ReadFd(c) == [c EXCEPT !.inq = @ - MinOf(@, ReadMax)]

\* handleRead() with data: one readv, then the message callback.
HandleReadData ==
    /\ "in" \in revents
    /\ conn.inq > 0
    /\ revents' = revents \ {"in"}
    /\ \/ AppReplies(ReadFd(conn))
       \/ AppQuits(ReadFd(conn))
       \/ AppForceCloses(ReadFd(conn))
    /\ UNCHANGED <<inMap, removing, stopped, callers, sentIn, rcvd>>

\* handleRead() at the end of the stream: handleClose, and closeCallback_ asks
\* the base loop to remove the connection.
ReadEofIgnored ==  \* mutant
    /\ "in" \in revents
    /\ conn.inq = 0 /\ conn.fin
    /\ revents' = revents \ {"in"}
    /\ UNCHANGED <<conn, functors, inMap, removing, stopped, callers, nextMsg, sentIn, rcvd, sent>>
HandleReadEof ==
    /\ "in" \in revents
    /\ conn.inq = 0 /\ conn.fin
    /\ revents' = revents \ {"in"}
    /\ conn' = Close(conn)
    /\ removing' = removing + 1
    /\ UNCHANGED <<functors, inMap, stopped, callers, nextMsg, sentIn, rcvd, sent>>

HandleWritable ==
    /\ "out" \in revents /\ revents \cap {"in", "hup"} = {}
    /\ revents' = revents \ {"out"}
    /\ conn' = HandleWrite(conn)
    /\ UNCHANGED <<functors, inMap, removing, stopped, callers, nextMsg, sentIn, rcvd, sent>>

\* The next pending functor, after the events of the iteration.
Takes(op) == /\ revents = {}
             /\ functors # <<>>
             /\ Head(functors).op = op
             /\ functors' = Tail(functors)

\* connectEstablished(), whose connection callback may send (WELCOME).
ConnectEstablished ==
    /\ Takes("established")
    /\ LET c == EnableReading([conn EXCEPT !.state = "Connected", !.ups = @ + 1])
       IN  AppSends(c) \/ (conn' = c /\ UNCHANGED <<nextMsg, sent>>)
    /\ UNCHANGED <<revents, inMap, removing, stopped, callers, sentIn, rcvd>>

QueuedSend ==
    /\ Takes("send")
    /\ conn' = SendInLoop(conn, Head(functors).data)
    /\ sent' = sent \o Accepted(conn, Head(functors).data)
    /\ UNCHANGED <<revents, inMap, removing, stopped, callers, nextMsg, sentIn, rcvd>>

QueuedShutdown ==
    /\ Takes("shutdown")
    /\ conn' = ShutdownInLoop(conn)
    /\ UNCHANGED <<revents, inMap, removing, stopped, callers, nextMsg, sentIn, rcvd, sent>>

\* forceCloseInLoop(), unless the connection was closed meanwhile.
StillOpenAlways == TRUE  \* mutant
StillOpen == conn.state \in {"Connected", "Disconnecting"}
QueuedForceClose ==
    /\ Takes("forceClose")
    /\ IF StillOpen
         THEN conn' = Close(conn) /\ removing' = removing + 1
         ELSE UNCHANGED <<conn, removing>>
    /\ UNCHANGED <<revents, inMap, stopped, callers, nextMsg, sentIn, rcvd, sent>>

ConnectDestroyed ==
    /\ Takes("destroyed")
    /\ conn' = RemoveChannel(IF conn.state = "Connected" THEN Close(conn) ELSE conn)
    /\ UNCHANGED <<revents, inMap, removing, stopped, callers, nextMsg, sentIn, rcvd, sent>>

IoThread == \/ Poll \/ HandleHup \/ HandleReadData \/ HandleReadEof \/ HandleWritable
            \/ ConnectEstablished \/ QueuedSend \/ QueuedShutdown
            \/ QueuedForceClose \/ ConnectDestroyed

-----------------------------------------------------------------------------
\* The base loop.

\* removeConnectionInLoop()
RemoveConnection ==
    /\ removing > 0 /\ ~stopped
    /\ removing' = removing - 1
    /\ inMap' = FALSE
    /\ functors' = Append(functors, Functor("destroyed", <<>>, TRUE))
    /\ UNCHANGED <<conn, revents, stopped, callers, nextMsg, sentIn, rcvd, sent>>

\* ~TcpServer, after its loop has returned.
ServerDestructs ==
    /\ ~stopped
    /\ stopped' = TRUE
    /\ inMap' = FALSE
    /\ functors' = IF inMap THEN Append(functors, Functor("destroyed", <<>>, TRUE)) ELSE functors
    /\ UNCHANGED <<conn, revents, removing, callers, nextMsg, sentIn, rcvd, sent>>

-----------------------------------------------------------------------------
\* The peer.

PeerSends ==
    /\ sentIn < MaxIn /\ ~conn.fin
    /\ sentIn' = sentIn + 1
    /\ conn' = Edge([conn EXCEPT !.inq = @ + 1])
    /\ UNCHANGED <<revents, functors, inMap, removing, stopped, callers, nextMsg, rcvd, sent>>

PeerReceives ==
    /\ conn.snd # <<>>
    /\ rcvd' = Append(rcvd, Head(conn.snd))
    /\ conn' = Edge([conn EXCEPT !.snd = Tail(@)])
    /\ UNCHANGED <<revents, functors, inMap, removing, stopped, callers, nextMsg, sentIn, sent>>

PeerFins ==
    /\ ~conn.fin
    /\ conn' = Edge([conn EXCEPT !.fin = TRUE])
    /\ UNCHANGED <<revents, functors, inMap, removing, stopped, callers, nextMsg, sentIn, rcvd, sent>>

\* A reset discards what we sent; it wakes every interest.
PeerResets ==
    /\ ~conn.rst
    /\ conn' = Edge([conn EXCEPT !.rst = TRUE, !.fin = TRUE, !.snd = <<>>])
    /\ UNCHANGED <<revents, functors, inMap, removing, stopped, callers, nextMsg, sentIn, rcvd, sent>>

Peer == PeerSends \/ PeerReceives \/ PeerFins \/ PeerResets

-----------------------------------------------------------------------------
\* Threads outside the loop: the test of state_, and what follows it, are two
\* steps.

Checks(t, call) ==
    /\ callers[t].at = "idle"
    /\ call \in OffLoopCalls
    /\ conn.state = "Connected" \/ (call = "forceClose" /\ conn.state = "Disconnecting")
    /\ callers[t].left > 0
    /\ callers' = [callers EXCEPT ![t] = [at |-> call, left |-> @.left - 1]]
    /\ UNCHANGED <<conn, revents, functors, inMap, removing, stopped, nextMsg, sentIn, rcvd, sent>>

OffLoopSend(t) ==
    /\ callers[t].at = "send" /\ CanSend
    /\ functors' = Append(functors, Functor("send", Units(nextMsg), FALSE))
    /\ nextMsg' = nextMsg + 1
    /\ callers' = [callers EXCEPT ![t].at = "idle"]
    /\ UNCHANGED <<conn, revents, inMap, removing, stopped, sentIn, rcvd, sent>>

OffLoopShutdown(t) ==
    /\ callers[t].at = "shutdown"
    /\ conn' = [conn EXCEPT !.state = "Disconnecting"]
    /\ functors' = Append(functors, Functor("shutdown", <<>>, FALSE))
    /\ callers' = [callers EXCEPT ![t].at = "idle"]
    /\ UNCHANGED <<revents, inMap, removing, stopped, nextMsg, sentIn, rcvd, sent>>

OffLoopForceClose(t) ==
    /\ callers[t].at = "forceClose"
    /\ conn' = [conn EXCEPT !.state = "Disconnecting"]
    /\ functors' = Append(functors, Functor("forceClose", <<>>, TRUE))
    /\ callers' = [callers EXCEPT ![t].at = "idle"]
    /\ UNCHANGED <<revents, inMap, removing, stopped, nextMsg, sentIn, rcvd, sent>>

Caller(t) == \/ \E call \in OffLoopCalls : Checks(t, call)
             \/ OffLoopSend(t) \/ OffLoopShutdown(t) \/ OffLoopForceClose(t)

Next == IoThread \/ RemoveConnection \/ ServerDestructs \/ Peer
          \/ \E t \in OffLoop : Caller(t)

Spec == Init /\ [][Next]_vars

\* Threads that can run do; the peer takes what it is sent.  Nothing obliges it
\* to send, to close or to reset.
FairSpec == /\ Spec
            /\ WF_vars(IoThread)
            /\ WF_vars(RemoveConnection)
            /\ WF_vars(PeerReceives)

-----------------------------------------------------------------------------
States == {"Connecting", "Connected", "Disconnecting", "Disconnected"}
Events == {"in", "out"}
Unit   == Nat \X Nat

\* state_, the Channel's index and events, the kernel's registration, the
\* socket, outputBuffer_, and how often the callback has said up and down.
ConnType == [state : States, index : {"new", "added", "deleted"}, events : SUBSET Events,
             reg : BOOLEAN, interest : SUBSET Events, ready : BOOLEAN,
             inq : Nat, fin : BOOLEAN, rst : BOOLEAN,
             out : Seq(Unit), snd : Seq(Unit), wrShut : BOOLEAN,
             ups : Nat, downs : Nat, epollError : BOOLEAN]

FunctorType == [op : {"established", "send", "shutdown", "forceClose", "destroyed"},
                data : Seq(Unit), shared : BOOLEAN]

CallerType == [at : {"idle", "send", "shutdown", "forceClose"}, left : 0..MaxCalls]

\* Types of the state; neither socket buffer ever holds more than it can.
TypeOK ==
    /\ conn \in ConnType
    /\ conn.inq <= sentIn /\ Len(conn.snd) <= SndCap
    /\ revents \subseteq Events \cup {"hup"}
    /\ functors \in Seq(FunctorType)
    /\ inMap \in BOOLEAN /\ stopped \in BOOLEAN
    /\ removing \in Nat
    /\ callers \in [OffLoop -> CallerType]
    /\ nextMsg \in 1..(MaxMsgs + 1) /\ sentIn \in 0..MaxIn
    /\ rcvd \in Seq(Unit) /\ sent \in Seq(Unit)

\* The byte stream: what the peer has, what the kernel holds and what
\* outputBuffer_ holds are together what was sent, in order: a partial write, a
\* queued rest and a later direct write never swap, lose or repeat a byte
\* (tcp_connection.cpp:65-109,185-209).
StreamInOrder == ~conn.rst => rcvd \o conn.snd \o conn.out = sent

\* The FIN follows the data: until the connection is reported down the write
\* side is shut only when outputBuffer_ is empty (tcp_connection.cpp:111-123,199-201).
FinAfterData == conn.wrShut /\ conn.downs = 0 => conn.out = <<>>

\* EPOLLOUT is asked for exactly while there is something to write: otherwise
\* the rest of a reply never leaves, or the loop spins (tcp_connection.cpp:96-107,193-195).
WritingIffPending ==
    conn.state \in {"Connected", "Disconnecting"} => (IsWriting(conn) <=> conn.out # <<>>)

\* Channel and kernel agree on the registration, and no epoll_ctl is impossible
\* (an ADD of a registered fd or a MOD of an unregistered one is LOG_FATAL).
EpollAgrees == /\ ~conn.epollError
               /\ conn.reg <=> conn.index = "added"
               /\ conn.reg => conn.interest = conn.events

\* The application hears of a connection that is up, and then at most once that
\* it is down; a closed connection has been reported (tcp_connection.cpp:143-164,211-224).
\* Not so while the server is being destroyed: connectDestroyed() leaves a
\* Disconnecting connection as it is, and a queued forceClose() then closes it
\* after its channel was removed.
UpThenDown == /\ conn.downs <= conn.ups \/ stopped
              /\ conn.ups <= 1
              /\ conn.state = "Disconnected" => conn.downs >= 1

\* The connection's life as the server and the application see it
\* (tcp_connection.h:33-35): no state is left twice, each functor that establishes,
\* removes or destroys it runs once and in this order, and it is reported down once,
\* whatever runs between its close on the IO loop and its removal by the base loop.
Pending(op) == \E i \in DOMAIN functors : functors[i].op = op
Life == INSTANCE ConnectionLife WITH
            state <- conn.state, polled <- conn.reg, ups <- conn.ups, downs <- conn.downs,
            removing <- removing > 0, establishing <- Pending("established"),
            destroying <- Pending("destroyed")
LivesInOrder == Life!Spec

\* A channel the poller knows is that of a living connection: epoll never hands
\* the loop the raw pointer of a Channel that is gone (epoll_poller.cpp:55-61,
\* channel.cpp:43-54), although the map, the base loop and the IO loop drop their
\* pointers independently.
RegisteredAlive == conn.reg => Alive

\* A reply that did not fit is written out, unless the connection ends.
OutputDrains == conn.out # <<>> ~> (conn.out = <<>> \/ conn.state = "Disconnected" \/ conn.rst \/ stopped)

\* shutdown() does send the FIN, after the data.
ShutdownCompletes == conn.state = "Disconnecting" ~> (conn.wrShut \/ conn.state = "Disconnected" \/ conn.rst \/ stopped)

\* The end of the peer's stream is noticed: the connection closes
\* (epoll_poller.h:20 "with ET everything must be read at once").
EofNoticed == (conn.fin /\ conn.ups = 1) ~> (conn.state = "Disconnected" \/ stopped)

\* A closed connection leaves the server's map and the poller.
CloseCompletes == conn.state = "Disconnected" ~> (~inMap /\ (conn.index = "new" \/ stopped))
=============================================================================

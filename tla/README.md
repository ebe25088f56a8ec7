# ReactorKV: TLA+ models, checks and proofs

ReactorKV is a key-value server in C++: one base thread accepts connections and
hands them to a pool of IO threads, each with an epoll event loop; the IO threads
parse a line protocol and execute requests on one skip list that a mutex guards;
the list is loaded from a text file at the start and dumped to it at the end.

The modules here model the parts of it that are hard to test: the loops and their
wakeups, how the IO threads start and end, one connection's life and the server's
map of all of them, the list, the file, the thread pool, and the path of a request
from the client's program through the socket to its response. TLC checks each on a
small instance; TLAPS proves the main properties of the list, the event loop, the
connection, the data file, the thread pool, the server and the request path for every
instance, and that five of the modules implement the abstract specification of what
they promise. `PROJECT.json` maps every definition to the lines it models.

    tlc -config MCSkipList.cfg MCSkipList     # a run: module and cfg of PROJECT.json
    tlapm SkipList_proofs.tla                 # a module of proofs

## 1. Inventory

Paths are relative to the repository's `src/` directory unless they start with
`client/`.

| component | state | operations | interacts with |
|---|---|---|---|
| `SkipList`, `KVStore` (`storage/`) | towers of nodes, `currentLevel_`, `elementCount_`, one mutex | insert, search, remove, size, clear, dumpFile, loadFile | called by every IO thread and by main() |
| `EventLoop` (`net/eventloop.*`) | `quit_`, `pendingFunctors_`, `callingPendingFunctors_`, eventfd | loop, quit, runInLoop, queueInLoop, wakeup, doPendingFunctors | any thread posts to it; it runs channels' callbacks |
| `Channel`, `EpollPoller` | events asked for, index (new/added/deleted), raw pointers in epoll | update, remove, poll, handleEvent | edge-triggered epoll |
| `TcpConnection` | `state_`, two buffers, shared pointers in a map and in functors | established, send, shutdown, forceClose, handleRead/Write/Close, destroyed | its IO loop, the base loop, the application's callbacks, other threads |
| `EventLoopThread`, `EventLoopThreadPool` | `loop_` pointer, the thread, its latch, next index | startLoop, threadFunc, destructor, getNextLoop | creates and ends IO loops |
| `TcpServer`, `Acceptor` | map of connections, listening channel | start, listen, accept, newConnection, removeConnection, destructor | base loop and IO loops |
| `Buffer` (`net/buffer.*`) | byte vector, read and write index | append, retrieve, makeSpace, readFd, writeFd, prepend | connection and codec |
| `Codec`, `KVServer::onMessage` | none beyond the buffer | parseRequest, parseLine, handleRequest, sendResponse | buffer, store, connection |
| `KVServer`, `main()` | data file, base loop's `quit_` | load, serve, signal, save (twice), join the IO threads, exit | store, file, all threads |
| `ThreadPool`, `Condition` (`base/`) | bounded queue, `running_`, two conditions | start, run, take, stop | workers, submitters |
| `Thread`, `CountDownLatch`, `MutexLock`, `BlockingQueue` | id, count or queue, one mutex | start/join, wait/countDown, lock, put/take | used by the above and by tests |
| `KVClient` and `client/main.cpp` | socket | connect, sendCommand, parseResponse, disconnect; ping, then a prompt | the server's byte stream |
| `Logger`, `Timestamp`, `Socket`, `InetAddress` | none that matters | formatting, one system call each | all |

Hard behaviours, and what makes each component correct:

- **Event loop.** The push of a functor and the wakeup are two steps, the eventfd
  is edge-triggered, a functor may queue a functor, and the loop's own thread may
  queue before it calls loop(). No wakeup may be lost, functors run once and in
  order, quit() ends the loop.
- **IO threads.** The main thread waits first on a latch, then on a condition, for
  an object on another thread's stack, and ends that thread through a pointer it
  reads without the mutex. Start and stop must return, and nothing may be posted to
  a loop that has ended.
- **Server.** A connection is handed from the listening socket to the map and an IO
  loop, and back when it closes, over three threads and while the process stops.
  None may be forgotten, or torn down twice.
- **Connection.** Partial writes, edges, half-closes, resets, and a teardown that
  goes from the IO loop to the base loop and back while functors hold the last
  pointers. The byte stream stays in order, the FIN follows the data, EPOLLOUT is
  asked for exactly when needed, epoll never keeps a dead channel.
- **List.** Every call is atomic; towers, level and count agree.
- **File.** A dump runs beside requests and may be cut by a crash or a full disk; a
  start may be unable to open or read the file, and goes on.
- **Process.** A signal may come at any time, also before the loop that it should end
  runs; the destructors join IO threads that may not have come to their loop.
- **Requests.** TCP cuts requests anywhere; the buffer moves, grows and overflows.
- **Client.** One recv() per command, against a server that greets first.
- **Thread pool.** Two conditions on one mutex; tasks that submit tasks; stop().

## 2. Modules

| module | models | checked by |
|---|---|---|
| `OrderedMap` | specification: calls of several threads on an atomic map | (refined by SkipList) |
| `SkipList` | `storage/skiplist.h`, one step per iteration of the search loop | `skiplist_threads` |
| `TaskQueue` | specification: callbacks start once and in order | (refined by EventLoop and ThreadPool) |
| `ConnectionLife` | specification: how a connection is established, closed, removed and destroyed | (refined by TcpConnection and by each connection of TcpServer) |
| `EventLoop` | `net/eventloop.cpp`, the eventfd and its epoll edge | `eventloop` |
| `TcpConnection` | connection, channel, poller, kernel buffers, base loop, peer, other threads | `connection_in_loop`, `connection_off_loop`, `connection_coalesced_eof` |
| `IoThreads` | `net/eventloop_thread*.cpp`, `base/thread.cpp`, the latch | in `tcpserver` |
| `TcpServer` | IoThreads composed with `net/acceptor.cpp`, `net/tcp_server.cpp`, the clients and the destructors of the process | `tcpserver`, `tcpserver_backlog`, `tcpserver_store` |
| `KVServer` | main thread, store, data file, IO threads, signals, crashes | `kvserver` |
| `ThreadPool` | `base/threadpool.cpp` with its conditions | `threadpool` |
| `Buffer` | `net/buffer.h` and `readFd` as operators | in `session` |
| `Session` | one connection's requests: buffer, codec, onMessage, responses | `session` |
| `KVClient` | `client/kvclient.cpp` and `client/main.cpp` composed with Session | `client_greeting` |
| `SkipList_proofs`, `EventLoop_proofs`, `TcpConnection_proofs`, `ThreadPool_proofs`, `TcpServer_proofs`, `KVServer_proofs`, `Session_proofs` | theorems about the module of that name (the last one about Buffer too) | tlapm |
| `ConnectionLife_proofs` | theorems about ConnectionLife, cited for whatever implements it | tlapm |

The `MC*` modules only give TLC its symmetry sets and constant values.

How states and actions correspond to the code:

- **SkipList.** A node is named by its key, which is sound because insert()
  creates a node only for a key that is not linked. `Lock`, `Advance`, `Descend`,
  the operation itself and `Unlock` are the steps of insert(), search() and
  remove(); the random level is any that getRandomLevel() can return. The loops
  that splice, unlink and lower the level run under the mutex and are one step
  each, defined by what they do to every level.
- **EventLoop.** `pc` follows loop(): check, poll, events, swap, run. `counter` and
  `edge` are the eventfd and its place on epoll's ready list. Another thread's
  queueInLoop() or quit() is a push or a store, then `CallerWakes`. A call by a
  callback belongs to that callback's step. `BeforeLoop` is what the loop's own
  thread does before loop(), as a ThreadInitCallback may; the history `early`
  counts the callbacks it queued then, which go without a wakeup.
- **IoThreads.** `main` is where the main thread is in
  EventLoopThreadPool::start or in ~EventLoopThread, `who` the thread it is at.
  `io[i]` is one IO thread: where it is, whether `loop_` shows its loop, and the
  loop as EventLoop guarantees it (functors in queue order, a wakeup for each post
  by another thread). The latch, the wait and notify under the mutex, the unlocked
  read of `loop_`, the two halves of quit() and join() are steps of their own.
- **TcpServer.** A connection is named by its client and is only up, down or in
  between; TcpConnection has the details. `map` is `connections_`, `removals` the
  functors queued on the base loop. The listening socket is a backlog and an edge.
  When the base loop has returned, the members go in the order C++ prescribes: the
  store, then ~TcpServer posts connectDestroyed() for every connection, then the
  thread pool joins its threads one by one. A client may close its end at any time,
  also while it is still in the backlog.
- **TcpConnection.** The record `conn` holds what the IO thread and the kernel
  keep; every function of the code is an operator from the record to the record
  it leaves, so a handler with all its calls is one step. What the application
  does in its callbacks (reply, QUIT, force close) is a choice. Other threads test
  `state_` in one step and act in the next, as the code does. `RemoveConnection`
  and `ServerDestructs` are the base loop's half.
- **ConnectionLife.** `state` and `polled` are `state_` and the registration, `ups` and
  `downs` count the connection callbacks, and `inMap`, `removing`, `establishing` and
  `destroying` say who holds the connection: the map, the removal on the base loop,
  its two functors on its own loop. TcpConnection maps its one connection to it,
  TcpServer every client's (`Life(c)`). `stopped` is that the base loop has returned.
  `Reregister` and a second `Close` exist only then: connectDestroyed() takes
  a Disconnecting connection out of the poller without closing it
  (tcp_connection.cpp:154-164), and its late events still act.
- **KVServer.** `phase` follows main(). A dump holds the list's mutex from
  `OpenFile` to `CloseFile`, so requests wait; a crash or a failed stream leaves any
  prefix of what was written, down to part of a line. `todo` is the dump's place in
  the list, as the nodes that are left. Lines are built and parsed
  as sequences because the delimiter inside keys and values is what matters. `Load`
  reads the whole file; `ReadFails` is a start that cannot open it, or whose read
  fails after some lines, which loadFile() cannot tell from the end of the file:
  main() goes on in both cases. `io` says of each IO thread only whether it has come
  to loop(), was told to end, and has ended; ~EventLoopThread tells and joins one
  after the other (`StopThread`, `Join`), and waits for ever for one whose loop()
  came after the quit(). IoThreads has the steps of that in detail.
- **ThreadPool.** A critical section is one step; a waiting thread that is woken
  starts its section again, as the loops around wait() do. A task may call run()
  as its last act.
- **Buffer, Session, KVClient.** A buffer is a record of cells and two indices with
  the code's arithmetic. One byte stands for a word of letters. The client sends
  lines without waiting; `Read` is one readFd() of any number of the bytes that
  are there, and `HandleRequest` one turn of onMessage()'s loop. KVClient is a
  client that does wait: it reads `out` as recv() does, and is either the interactive
  program, which pings first and gives up when that fails, or any other user of the
  library.

## 3. Runs

| run | question | result |
|---|---|---|
| `skiplist_threads` | does the list keep its structure, and is every call atomic? | holds |
| `eventloop` | do functors run in order, without the 10 s timeout, and does a quit() made after loop() started end it? | holds |
| `connection_in_loop` | the server's own use: stream order, edges, lifetime, progress; is its life that of ConnectionLife? | holds |
| `connection_off_loop` | the FIN behind the data and the epoll registration while a thread outside the loop sends, shuts down and force-closes | holds |
| `connection_coalesced_eof` | is the end of the peer's stream always noticed? | **no** |
| `tcpserver` | do start and stop return, are posts made to living loops only, is a connection ever forgotten, or removed or destroyed twice? | holds |
| `tcpserver_backlog` | is every client that connects accepted? | **no** |
| `tcpserver_store` | is the store unused when it is destroyed? | **no** |
| `kvserver` | is a dump a snapshot, and what do restarts restore after stops, full disks, read errors and crashes, and does a signal to the serving process end it? | holds |
| `threadpool` | lost wakeups, limit of the queue, tasks that submit tasks, stop(); is the pool a TaskQueue? | holds |
| `session` | framing under any cut of the stream, the buffer's arithmetic, responses | holds |
| `client_greeting` | does each call of the client library return its own response? | **no** |

What the four refuted properties show:

1. `connection_coalesced_eof`: handleRead() reads once per edge. When the FIN has
   arrived before the data was read, the one edge is used up by the data, and the
   connection stays open.
2. `tcpserver_backlog`: Acceptor::handleRead() accepts once per edge. Of two
   connections that complete before the base loop polls, the second stays in the
   backlog until another client connects.
3. `tcpserver_store`: `store_` is declared behind `server_` in KVServer and so
   destroyed before it, while the IO threads that ~TcpServer will end still execute
   requests. ~MutexLock can run while one of them holds the list's mutex.
4. `client_greeting`: KVClient::connect() does not read the greeting, so every call
   returns the response to an earlier command. The interactive program's ping gets
   the greeting and the program gives up. OwnResponse compares only responses that
   exist.

Facts the models carry in a precondition, visible in the properties:

- `EventLoop::loop()` sets `quit_ = false` on entry (eventloop.cpp:62): a quit()
  that comes before is undone. `LateQuitStops` is about those that come after, and
  `Stops` exempts a base loop that returns while an IO thread is still on its way
  into loop(); that thread is then joined for ever. `StopCompletes` is about signals
  that come while the base loop runs: they bring the main thread through both saves to
  its destructors, and these end if by then every IO thread has come to its loop(). A
  signal while main() still loads or starts its threads is undone: the server serves
  until the next one, although main.cpp:86 has already said "Press Ctrl+C to stop".
- A connection that is shutting down (Disconnecting) when the server is destroyed is
  taken out of the poller and never reported down (tcp_connection.cpp:154-164).
  `NoneForgotten` therefore speaks in two parts: up to its end or its shutdown() a
  connection is in the map or its connectDestroyed() is queued; one that is shutting
  down is in the map as long as the server runs, and after that in the map, in a queued
  connectDestroyed(), or out of the poller.
- A start that cannot open or read the file serves what it has read, and its save then
  replaces the file: `RestartRestores` is about starts that can, `CutRestore` about both.
- `LoopsAlive` exempts the wakeup() of quit() itself, which ~EventLoopThread may
  make on a loop that its thread has just destroyed (eventloop_thread.cpp:17-18).
- A callback that the loop's own thread queues before loop() is in neither of
  queueInLoop()'s two wakeup cases: `NoLostWakeup` and `Runs` count it from the moment
  when anybody else queues.
- shutdown() and forceClose() test and set `state_` in two steps on any thread, so a
  closed connection can become Disconnecting again (tcp_connection.cpp:112).
  `connection_off_loop` shows that the order of data and FIN up to the close and the
  epoll registration survive it (`FinAfterData`, `EpollAgrees`), and the proofs that
  the stream does. The life of ConnectionLife does not: `LivesInOrder` is checked and
  proved where the threads outside the loop at most send.
- A key that occurs in the command word shifts the value of PUT (`ValueIsRest` exempts
  it: `PUT PUT v` stores "PUT v", codec.h:133), and a
  key that contains the file's delimiter is not restored (`RestartRestores`).

**Bounds.** Two threads, two keys, two values and towers of up to three levels for
the list: enough for a predecessor on every level, a lowering by two levels and
an overwritten value; larger lists are covered by the proofs. Two callers with one
call each and two calls of the loop's own for the loop: a wakeup can be consumed by
the other's, and a functor can queue behind a swap. Two IO threads and two clients
for the server, with one failing accept(): round robin wraps, one loop ends while
the other still runs, and one connection is removed while another is established;
any number of them is covered by the proofs. Messages of one to
four units against a send buffer of two: every split of a write occurs. Three keys,
one with the delimiter, three writes, two starts and two IO threads for the file: a dump, a crash, and
the start after it; one thread is joined while the other still executes. Two workers, a submitter, a queue of two and six tasks for
the pool: just enough for all workers to wait for room at once. Three sends of
eleven kinds of lines and an initial buffer of four bytes: every branch of
makeSpace() and readFd() is taken. Every bound is a constant named in its module
(`MaxCalls`, `MaxHere`, `MaxFails`, `MaxMsgs`, `MaxIn`, `MaxWrites`, `MaxStarts`,
`MaxTasks`, `MaxLines`).

**Deadlock** is checked for the list. The other systems may stop: a loop that quit,
a closed connection, a process that is down, a client that sends no more.

**Fairness.** Weak fairness of the threads that can run, because the operating
system schedules them: the loop, a caller between its push and its wakeup, the IO
and the base thread, the main thread through start and stop, the IO threads on their
way into loop() and out of it, workers. In the server
accepting and removing are fair each on its own, since one poll() returns both
events and loop() handles both. None of calls, tasks, signals, clients,
peers' sends or resets, none of the end of the base loop; none of the poll
timeout, so that a wakeup is not excused by it; none of spurious wakeups. The peer
is assumed to read what it is sent, without which a reply need never leave. A task
of the pool is assumed to end.

**Symmetry** is used for the threads and values of the list, in a run without
liveness.

## 4. Proofs

Assumptions are the named ASSUMEs of the modules (sizes are natural numbers, a
client sends sequences of bytes, sets of threads are finite where they are counted);
TLC evaluates them in every run.

`SkipList_proofs`, for every set of threads, of positive integer keys, of values,
and every `maxLevel_`:

- `InvCorrect`, `TypeCorrect`, `StructureCorrect`: in every reachable state each
  level is the ascending chain of exactly the nodes that reach it,
  `currentLevel_` is the highest level in use and `elementCount_` the number of
  nodes. `Structure` alone is not inductive: what insert() and remove() write
  depends on what the search loop left in `update[]`. `Inv` adds the loop's
  invariant (`SearchInv`: update[j] is the last node below the key on every level
  done), that the thread in its critical section holds the mutex, and that a node
  has a value exactly while it is linked. There is one lemma per action;
  `AfterSearch` states what the loop establishes, `Neighbours` and
  `UnlinkedLevels` what splicing and unlinking do to a chain. Types follow from
  `Inv` and not without it (a null update[i] would be followed).
- `LinearizableCorrect`: SkipList implements OrderedMap, the map being the value
  of the linked nodes; every action is the map's operation or a stutter.

`EventLoop_proofs`, for every set of callers and any number of calls, before loop()
and in it:

- `InvCorrect`, `TypeCorrect`, `NoLostWakeupCorrect`, `NoLostQuitCorrect`. A lost
  wakeup is a fact about poll() only; `LoopInv` extends it to the states before
  poll(): from the swap on, everything in the queue has a wakeup after it, because
  only the event phase, which comes before the next swap, resets the eventfd. What
  the loop's own thread queued early is told apart by comparing the length of
  `queued` with `early`.
  `TypeOK` includes that `callingPendingFunctors_` is set exactly while functors run.
- `RunInOrderCorrect`: EventLoop implements TaskQueue, from
  `queued = ran \o batch \o pending`.

`TcpConnection_proofs`, for every number and size of messages, every room of the
kernel's send buffer, every readv() and every set of threads outside the loop:

- `TypeCorrect`, `StreamInOrderCorrect`, `EpollAgreesCorrect`, whatever those threads
  call, from `ConnInv`: types, the registration and the stream, which are inductive
  only together (what a write takes is a part of the buffer because both are
  sequences of units; an epoll_ctl is possible because index and registration agree).
  There is a lemma for every function of the code (`SendIs`, `HandleWriteIs`,
  `CloseIs`, ...), which says what it does to the stream, the registration and the
  rest of the record, and one for every group of actions.
- `FinAfterDataCorrect`, `WritingUntilDown`, whatever those threads call, from
  `UntilDown`: until the connection is first reported down, EPOLLOUT is asked for
  exactly while there is output and the write side is shut only behind it.
  `FinAfterData` alone is not inductive, since shutdownInLoop() looks at the events and
  not at the buffer. Both speak only of the time before the first close.
- `WritingIffPendingCorrect`, `UpThenDownCorrect`, under `OnlySends`: the threads
  outside the loop call at most send(); nothing in the repository does more. A
  shutdown() or forceClose() from outside can bring a closed connection back to
  Disconnecting, where they do not hold. `RegisteredAliveCorrect` needs no such
  condition: a caller outside the loop keeps the connection alive.
  They come from `LoopInv`, which adds to `ConnInv` the shape of the queue
  (`Queue`: connectEstablished() is first, and only it finds a Connecting
  connection), what holds before it (`Opening`) and in each state after it
  (`Phases`), who still points to the connection (`Held`: the map, the base loop's
  removal or the queued connectDestroyed(), while it is registered or has events),
  and, until the server is destroyed, that an open connection is registered and was
  not closed, a closed one was closed once and has no event left that closes it again, and
  removals exist only for a closed one (`Live`). The last is what makes a second
  close impossible, and the server's destruction ends it: hence `\/ stopped`.
- `LivesInOrderCorrect`, under `OnlySends`: TcpConnection implements ConnectionLife.
  `LoopInv` is not enough, since it says nothing of how often a connection is handed
  on. `Handed` adds that only a registered channel has events that end the
  connection, and never two of them at once, that the map and a queued
  connectDestroyed() exclude each other, and that there is at most one removal (while
  the base loop runs) and one connectDestroyed().
- `NeverLost`, under `OnlySends`: the theorems of ConnectionLife_proofs, carried over by
  that refinement.

`ConnectionLife_proofs`, of everything that implements ConnectionLife:

- `ReportedDownCorrect`, `HandedOnCorrect`, from `LifeInv`: a connection is reported up
  once and down at most once while the base loop runs, at most twice after it has
  returned; up to its end or shutdown() the map or a connectDestroyed() holds it. That
  there is no third report rests on the poller: the second leaves the channel out
  of it for good.

`ThreadPool_proofs`, for every finite set of workers and submitters and every limit
of the queue:

- `InvCorrect`, `TypeCorrect`, `FifoCorrect`, `NoIdleWaiterCorrect`. The two wakeup
  invariants are comparisons of numbers: while somebody waits for tasks, there are
  at least as many threads on their way to take() as tasks in the queue, and the
  same for room. Each step moves one thread and at most one task, so the proof
  follows both sides of each comparison through every action; they depend on each
  other, on a thread in run() having a task (`Offering`) and on nobody waiting after
  stop() (`NoWaitAfterStop`).
- `TasksInOrderCorrect`: ThreadPool implements TaskQueue, with what was pushed, what
  was taken and the queue. A take() is the specification's run only because the
  front of the queue is the next task not yet taken (`Fifo`).

`TcpServer_proofs`, for any number of IO threads and every set of clients:

- `TypeCorrect`, `LoopsAliveCorrect`, `NoneForgottenCorrect`, from `ServerInv`.
  `LoopsAlive` is not inductive, since it says nothing of a thread that is still
  starting or of the flag that ends one: `Threading` adds where every IO thread can
  be for each place of the main thread. `NoneForgotten` is not either, since it
  asks only that a functor is somewhere: `Tracking` adds that a connection which is
  shutting down and still polled is in the map or to be destroyed, that a connection's
  functors are in the queue of its own loop and in order (`InOrder`), that none
  which destroys it is queued while it is in the map, and who is in the backlog and
  in the removals. `Tracking` needs `Threading` where a post has to reach a queue
  that is still run. That one which is shutting down stays in the map while the server
  runs is in `HandedOnce` below.
- `LivesInOrderCorrect`: each connection of the server implements ConnectionLife, through
  the end of the base loop and ~TcpServer. `ServerInv` says of a functor or a removal
  that it exists, not that it exists once: `HandedOnce` adds that the removals name a
  connection once, that its loop destroys it once, and that while the base loop runs
  the map holds every open connection and every one to be removed. There
  is one lemma for each way in which a life goes on (`AcceptLives`, `CloseLives`,
  `RemoveLives`, `DropLives`, `RunLives`); the other connections' lives stutter,
  because a post or a run concerns only the connection it names (`PostUnseen`,
  `RunUnseen`).

`KVServer_proofs`, for every ordered set of keys, all values and any number of writes,
starts and crashes:

- `TypeCorrect`, `FileFromSnapshotCorrect`, from `FileInv`. `FileFromSnapshot` does not
  say where a dump under way stands: `DumpInv` adds that the store is still the
  snapshot (the mutex is held) and that the lines in the file are those of the keys up
  to a position p while `todo` holds the others. `WalkOn` extends the order in which
  the keys are met by one, and `PrefixAgain` says that what is cut off a cut file is a
  cut of the same dump. The lines of a dump are defined by the ways to go through the
  keys in their order (`Walks`) and not by a recursion, so no induction is needed.
- `RestartRestoresCorrect`, `CutRestoreCorrect`, from `FileInv` and what loadFile()
  makes of such lines. `CutLine` says what a line cut at any character parses to when
  its key has no delimiter, `LineSays` and `LoadedIs` that every key has at most one line,
  and `LoadedWhole` and `LoadedCut` put them together; `FirstLines` says that what a
  start reads before a read error is the first part of a cut dump again.

`Session_proofs`, for every size of the buffer, every stream of bytes and every way
of cutting it:

- `AppendAppends`, `ReadAppends`, `RetrieveDrops`: what append(), readFd() and
  retrieve() do to the content of any buffer in order, whichever branch they take;
  they leave it in order. They rest on `SpaceMade`, which says that makeSpace() keeps
  the content and makes the space, and `Filled`, that copying behind the content
  appends.
- `TypeCorrect`, `BytesKeptCorrect`, `NothingLeftCorrect`. The bytes in the buffer
  and on the wire are what the client sent behind as many whole lines as requests
  were handled: `LineTaken` says that what bytesToSkip() removes ends at the first
  LF, `OneLineMore` counts it.
- `FramingCorrect`. That a request is the n-th line of the stream is stated by the
  prefixes which are whole lines (`WholeLines`, one for each number: `OneEnd`), so a
  line stays the n-th however much follows it (`TrueLineKept`). `FirstLineIs` says
  that parseRequest() takes the line before the first LF whichever line end it finds:
  a CRLF is found at its CR, and a CR before that is popped.
- `RepliesCorrect`, from `AnswerInv`: the store holds under each key what the requests
  so far have left (`StoreIsLeft`), and the connection is up until the first QUIT.
  `LastWriteNext` says how one more request changes what is left under a key,
  `HandledIs` and `StoredIs` go through the commands. It assumes that to_string()
  tells 0 from 1 (`NumberAssumption`, which TLC evaluates).

- `ValueIsRestCorrect`: of a line with three words or more, the value is everything
  behind the second, for each key that is not a part of the command's name. The words
  of a line are defined by where they start and end (`Starts`, `Ends`, `Nth`) and not by a
  loop, so `FirstTwo` can say which the first two are and `WordIs` what they
  contain.

Model-checked only: every liveness property (fairness and ENABLED are outside the
prover), and what the runs refute. Every safety property of a passing run is
a theorem too.

## 5. Not modelled

- BlockingQueue: nothing in the server uses it, and its two waits are those of
  ThreadPool's queue. Pools with zero threads (IO threads or workers), where
  everything runs on the caller.
- Socket, InetAddress, Poller and Timestamp wrap one call each or format text;
  Logger only prints, except that LOG_FATAL aborts, which TcpConnection models.
- prepend(), unwrite() and the 32-bit integers of Buffer, and displayList(), have no
  caller in the server.
- The options of the two programs, the wording of what they print, and a send() or
  recv() of the client that fails.
- A write(2) of sendInLoop() or handleWrite() that fails for another reason than a full
  buffer or a lost peer: the data is queued and retried as after a full buffer
  (tcp_connection.cpp:87-107), which is modelled only where there is no room.
- Tests, benchmarks and examples were read for what they promise.
- `condition.cpp` defines Condition::waitForSeconds a second time and is not part of
  the build; nothing calls that function. The depth of the recursion that destroys a
  long list of shared_ptr is a matter of stack size.
- Functors that send() binds to the raw `this` (tcp_connection.cpp:44): in the model
  a caller outside the loop holds its TcpConnectionPtr as long as it makes calls.

## 6. Plan

1. The wakeup() of quit() on a loop that is gone, and the raw `this` in functors, as
   properties of their own, with the object's lifetime in the state.
2. A refinement between the two views of a loop: IoThreads' loop as the abstraction
   of EventLoop.
3. What is left of a connection's life when threads outside its loop shut it down or
   force it closed.

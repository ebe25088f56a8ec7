-------------------------- MODULE TcpServer_proofs --------------------------
(***************************************************************************)
(* Proofs about TcpServer for every number of IO threads and every set of  *)
(* clients: type correctness, the order in which threads and loops start   *)
(* and end, and that no connection is forgotten between the threads.       *)
(***************************************************************************)
EXTENDS TcpServer, SequenceTheorems, TLAPS

(* The next loop makes loops_ one longer. *)
LEMMA LoopsGrow ==
  ASSUME NEW n \in Nat, NEW s \in Seq(Workers), s = [i \in 1..n |-> i], n + 1 \in Workers
  PROVE  Append(s, n + 1) = [i \in 1..(n + 1) |-> i]
<1>1. Len(s) = n
  BY LenProperties
<1>2. Append(s, n + 1) = [i \in 1..(n + 1) |-> IF i <= n THEN s[i] ELSE n + 1]
  BY <1>1
<1> QED BY <1>2

(* The first state. *)
LEMMA InitThreading == Init => TypeOK /\ Threading
<1> SUFFICES ASSUME Init PROVE TypeOK /\ Threading
  OBVIOUS
<1>1. <<>> \in Seq(Functors) /\ <<>> \in Seq(Clients) /\ <<>> \in Seq(Workers)
  BY EmptySeq
<1>2. NewThread \in IoType
  BY <1>1 DEF NewThread, IoType, Starting
<1>3. NoConnection \in ConnectionType
  BY NumThreadsAssumption DEF NoConnection, ConnectionType, States
<1>4. TypeOK
  <2>1. 1 \in Workers /\ 1 \in 1..(NumThreads + 1) /\ 0 \in 0..MaxFails
    BY NumThreadsAssumption, TcpServerAssumption DEF Workers
  <2>2. io \in [Workers -> IoType] /\ conn \in [Clients -> ConnectionType]
    BY <1>2, <1>3 DEF Init, IoInit
  <2> QED BY <1>1, <2>1, <2>2 DEF Init, IoInit, TypeOK, Mains
<1>5. Threading
  BY NumThreadsAssumption
  DEF Init, IoInit, Threading, Lives, Told, NewThread, StartsUp, Looping, Ended, Workers
<1> QED BY <1>4, <1>5

(* What TypeOK says of an IO thread. *)
LEMMA IoTyped ==
  ASSUME TypeOK, NEW i \in Workers
  PROVE  /\ io[i].at \in Starting \cup Looping \cup Ended
         /\ io[i].shown \in BOOLEAN /\ io[i].quit \in BOOLEAN /\ io[i].wake \in BOOLEAN
         /\ io[i].pending \in Seq(Functors) /\ io[i].batch \in Seq(Functors)
BY DEF TypeOK, IoType

(* Writing one field of an IO thread keeps the type of all. *)
LEMMA FieldWritten ==
  ASSUME TypeOK, NEW i \in Workers
  PROVE  /\ \A x \in Starting \cup Looping \cup Ended :
              [io EXCEPT ![i].at = x] \in [Workers -> IoType]
         /\ [io EXCEPT ![i].quit = TRUE] \in [Workers -> IoType]
         /\ [io EXCEPT ![i].wake = TRUE] \in [Workers -> IoType]
<1>1. io \in [Workers -> IoType] /\ io[i] \in IoType
  BY DEF TypeOK
<1>2. \A r \in IoType : [io EXCEPT ![i] = r] \in [Workers -> IoType]
  BY <1>1
<1>3. ASSUME NEW x \in Starting \cup Looping \cup Ended
      PROVE  [io EXCEPT ![i].at = x] \in [Workers -> IoType]
  <2>1. [io[i] EXCEPT !.at = x] \in IoType
    BY <1>1 DEF IoType
  <2> QED BY <1>2, <2>1
<1>4. [io EXCEPT ![i].quit = TRUE] \in [Workers -> IoType]
  <2>1. [io[i] EXCEPT !.quit = TRUE] \in IoType
    BY <1>1 DEF IoType
  <2> QED BY <1>2, <2>1
<1>5. [io EXCEPT ![i].wake = TRUE] \in [Workers -> IoType]
  <2>1. [io[i] EXCEPT !.wake = TRUE] \in IoType
    BY <1>1 DEF IoType
  <2> QED BY <1>2, <2>1
<1> QED BY <1>3, <1>4, <1>5

(* The main thread starts the pool. *)
LEMMA StartThreading ==
  ASSUME TypeOK, Threading, StartPool, UNCHANGED serverVars
  PROVE  TypeOK' /\ Threading'
<1> USE DEF serverVars
<1>1. CASE StartThread
  <2>1. who \in Workers /\ main' = "latch"
    BY <1>1, NumThreadsAssumption DEF StartThread, TypeOK, Workers
  <2>2. io' \in [Workers -> IoType]
    BY <1>1, <2>1, FieldWritten DEF StartThread, Moves, Starting
  <2>3. TypeOK'
    BY <1>1, <2>1, <2>2 DEF StartThread, TypeOK, Mains
  <2>4. Threading'
    BY <1>1, <2>1, <2>2
    DEF StartThread, Moves, TypeOK, Threading, Lives, Told, StartsUp, Starting, Looping, Ended, Workers
  <2> QED BY <2>3, <2>4
<1>2. CASE LatchOpens
  BY <1>2 DEF LatchOpens, TypeOK, Mains, Threading, Lives, Told, StartsUp
<1>3. CASE Collect
  <2>1. /\ who \in Workers /\ who \in Nat /\ main = "collect"
        /\ main' = "start" /\ who' = who + 1 /\ who' \in 1..(NumThreads + 1)
    BY <1>3, NumThreadsAssumption DEF Collect, TypeOK, Workers, Threading
  <2>2. loops' = [i \in 1..who |-> i] /\ loops' \in Seq(Workers)
    <3>1. who - 1 \in Nat /\ (who - 1) + 1 = who
      BY <2>1 DEF Workers
    <3>2. loops \in Seq(Workers) /\ loops = [i \in 1..(who - 1) |-> i]
      BY <2>1 DEF TypeOK, Threading, StartsUp
    <3>3. loops' = Append(loops, who)
      BY <1>3 DEF Collect
    <3>4. Append(loops, (who - 1) + 1) = [i \in 1..((who - 1) + 1) |-> i]
      BY <3>1, <3>2, <2>1, LoopsGrow
    <3> QED BY <3>1, <3>2, <3>3, <3>4, <2>1
  <2>3. TypeOK'
    BY <1>3, <2>1, <2>2 DEF Collect, TypeOK, Mains
  <2>4. ASSUME NEW i \in Workers PROVE Lives(i)'
    <3>1. Lives(i) /\ i \in Nat /\ io' = io
      BY <1>3 DEF Collect, Threading, Workers
    <3>2. ~Told(i) /\ ~Told(i)' /\ ~(io[i].quit \/ io[i].at \in Ended)
      BY <2>1, <3>1 DEF Told, Lives
    <3>3. CASE i = who
      <4>1. io[i].at \in Looping
        BY <1>3, <3>1, <3>2, <3>3 DEF Collect, Lives, Ended
      <4> QED BY <2>1, <3>1, <3>2, <3>3, <4>1 DEF Lives, StartsUp
    <3>4. CASE i # who
      <4>1. (i < who' <=> i < who) /\ (i > who' \/ i = who' => i > who)
        BY <2>1, <3>1, <3>4
      <4> QED BY <2>1, <3>1, <3>2, <3>4, <4>1 DEF Lives, StartsUp
    <3> QED BY <3>3, <3>4
  <2>5. who' - 1 = who
    BY <2>1
  <2> QED BY <2>1, <2>2, <2>3, <2>4, <2>5 DEF Threading, StartsUp
<1>4. CASE CondWaits
  BY <1>4 DEF CondWaits, TypeOK, Mains, Threading, Lives, Told, StartsUp
<1> QED BY <1>1, <1>2, <1>3, <1>4 DEF StartPool

(* The main thread ends the pool. *)
LEMMA EndThreading ==
  ASSUME TypeOK, Threading, EndPool, UNCHANGED serverVars
  PROVE  TypeOK' /\ Threading'
<1> USE DEF serverVars
<1>1. CASE SeesLoop
  BY <1>1 DEF SeesLoop, TypeOK, Mains, Threading, Lives, Told, StartsUp
<1>2. CASE StoreQuit
  <2>1. who \in Workers
    BY <1>2, NumThreadsAssumption DEF StoreQuit, TypeOK, Workers, Threading
  <2>2. io' \in [Workers -> IoType]
    BY <1>2, <2>1, FieldWritten DEF StoreQuit
  <2>3. TypeOK'
    BY <1>2, <2>2 DEF StoreQuit, TypeOK, Mains
  <2>4. Threading'
    BY <1>2, <2>1, <2>2
    DEF StoreQuit, TypeOK, Threading, Lives, Told, StartsUp
  <2> QED BY <2>3, <2>4
<1>3. CASE WakeQuit
  <2>1. who \in Workers
    BY <1>3, NumThreadsAssumption DEF WakeQuit, TypeOK, Workers, Threading
  <2>2. io' \in [Workers -> IoType]
    BY <1>3, <2>1, FieldWritten DEF WakeQuit, WakesLoop
  <2>3. TypeOK'
    BY <1>3, <2>2 DEF WakeQuit, TypeOK, Mains
  <2>4. Threading'
    BY <1>3, <2>1, <2>2
    DEF WakeQuit, WakesLoop, TypeOK, Threading, Lives, Told, StartsUp
  <2> QED BY <2>3, <2>4
<1>4. CASE Join
  <2>1. who \in Workers /\ who' \in 1..(NumThreads + 1)
    BY <1>4, NumThreadsAssumption DEF Join, TypeOK, Workers, Threading
  <2>2. TypeOK'
    BY <1>4, <2>1 DEF Join, TypeOK, Mains
  <2>3. Threading'
    BY <1>4, <2>1
    DEF Join, Joinable, TypeOK, Threading, Lives, Told, StartsUp, Workers, Ended
  <2> QED BY <2>2, <2>3
<1> QED BY <1>1, <1>2, <1>3, <1>4 DEF EndPool

(* An IO thread goes on: it has begun, was not told to end before it does, and    *)
(* what it becomes is r.                                                        *)
LEMMA GoesOn ==
  ASSUME TypeOK, Threading, NEW i \in Workers, NEW r \in IoType,
         io' = [io EXCEPT ![i] = r],
         main' = main \/ (main = "wait" /\ main' = "collect"),
         UNCHANGED <<who, loops>>,
         io[i].at \notin {"none", "gone"},
         r.shown <=> r.at \in Looping \cup {"left"},
         r.at # "run" => r.batch = <<>>,
         r.quit \/ r.at \in Ended => io[i].quit \/ io[i].at \in Ended,
         r.at \in Starting => io[i].at \in Starting
  PROVE  io' \in [Workers -> IoType] /\ main' \in Mains /\ Threading'
<1>1. io' \in [Workers -> IoType] /\ main' \in Mains
  BY DEF TypeOK, Mains
<1>2. \A j \in Workers : Lives(j)'
  <2> SUFFICES ASSUME NEW j \in Workers PROVE Lives(j)'
    OBVIOUS
  <2>1. Lives(j) /\ Lives(i) /\ io[i] \in IoType
    BY DEF Threading, TypeOK
  <2>2. CASE j # i
    <3>1. io'[j] = io[j]
      BY <2>2 DEF TypeOK
    <3> QED BY <2>1, <3>1 DEF Lives, Told, StartsUp
  <2>3. CASE j = i
    <3>1. io'[j] = r
      BY <2>3 DEF TypeOK
    <3>2. io[i].at \in Looping => r.at \in Looping \/ r.at \in Ended
      BY DEF IoType, Starting, Looping
    <3>3. who \in Nat /\ i \in Nat
      BY DEF TypeOK, Workers
    <3> QED BY <2>1, <2>3, <3>1, <3>2, <3>3
        DEF Lives, Told, StartsUp, IoType, Starting, Looping, Ended
  <2> QED BY <2>2, <2>3
<1> QED BY <1>1, <1>2 DEF Threading, StartsUp

(* What a thread does by itself. *)
LEMMA RunsThreading ==
  ASSUME TypeOK, Threading, NEW i \in Workers, Runs(i) \/ PollTimeout(i), UNCHANGED serverVars
  PROVE  TypeOK' /\ Threading'
<1> DEFINE r == io'[i]
<1>1. /\ io' = [io EXCEPT ![i] = r] /\ UNCHANGED <<who, loops, next>>
      /\ main' = main \/ (main = "wait" /\ main' = "collect")
  BY DEF Runs, CountDown, MakeLoop, Publish, Notifies, EnterLoop, Check, PollWakes, Swap,
         EndThread, PollTimeout, Moves, TypeOK
<1>2. /\ io[i] \in IoType /\ Lives(i) /\ <<>> \in Seq(Functors)
  BY EmptySeq DEF TypeOK, Threading
<1>3. /\ r \in IoType
      /\ io[i].at \notin {"none", "gone"}
      /\ r.shown <=> r.at \in Looping \cup {"left"}
      /\ r.at # "run" => r.batch = <<>>
      /\ r.quit \/ r.at \in Ended => io[i].quit \/ io[i].at \in Ended
      /\ r.at \in Starting => io[i].at \in Starting
  <2> USE DEF TypeOK, IoType, Lives, Starting, Looping, Ended
  <2>1. CASE CountDown(i)
    BY <1>2, <2>1 DEF CountDown, Moves
  <2>2. CASE MakeLoop(i)
    BY <1>2, <2>2 DEF MakeLoop, Moves
  <2>3. CASE Publish(i)
    BY <1>2, <2>3 DEF Publish
  <2>4. CASE EnterLoop(i)
    BY <1>2, <2>4 DEF EnterLoop
  <2>5. CASE Check(i)
    BY <1>2, <2>5 DEF Check, Moves
  <2>6. CASE PollWakes(i)
    BY <1>2, <2>6 DEF PollWakes
  <2>7. CASE Swap(i)
    BY <1>2, <2>7 DEF Swap
  <2>8. CASE EndThread(i)
    BY <1>2, <2>8 DEF EndThread
  <2>9. CASE PollTimeout(i)
    BY <1>2, <2>9 DEF PollTimeout, Moves
  <2> QED BY <2>1, <2>2, <2>3, <2>4, <2>5, <2>6, <2>7, <2>8, <2>9 DEF Runs
<1>4. io' \in [Workers -> IoType] /\ main' \in Mains /\ Threading'
  <2> HIDE DEF r
  <2> QED BY <1>1, <1>3, GoesOn
<1> QED BY <1>1, <1>4 DEF TypeOK, serverVars

(* The functors newConnection() and removeConnection() post. *)
LEMMA FunctorTyped ==
  ASSUME NEW c \in Clients
  PROVE  Functor("established", c) \in Functors /\ Functor("destroyed", c) \in Functors
BY DEF Functor, Functors

(* A functor posted to a loop only lengthens its queue. *)
LEMMA PostThreading ==
  ASSUME TypeOK, Threading, NEW i \in Workers, NEW f \in Functors, Post(i, f),
         UNCHANGED <<main, who, loops>>
  PROVE  io' \in [Workers -> IoType] /\ Threading'
<1>1. Append(io[i].pending, f) \in Seq(Functors)
  BY IoTyped
<1>2. io' \in [Workers -> IoType]
  <2> DEFINE r == [io[i] EXCEPT !.pending = Append(io[i].pending, f), !.wake = TRUE]
  <2>1. io[i] \in IoType
    BY DEF TypeOK
  <2>2. r \in IoType
    BY <1>1, <2>1 DEF IoType
  <2>3. io' = [io EXCEPT ![i] = r]
    BY <2>1 DEF Post, IoType
  <2> QED BY <2>2, <2>3 DEF TypeOK
<1>3. \A j \in Workers : io'[j].at = io[j].at /\ io'[j].shown = io[j].shown
                         /\ io'[j].quit = io[j].quit /\ io'[j].batch = io[j].batch
  BY DEF Post, TypeOK, IoType
<1>4. \A j \in Workers : Lives(j)'
  BY <1>3 DEF Threading, Lives, Told, StartsUp
<1> QED BY <1>2, <1>4 DEF Threading, StartsUp

(* While the server runs, getNextLoop() returns a loop and stays within them. *)
LEMMA NextLoop ==
  ASSUME TypeOK, Threading, main = "serve", Advances
  PROVE  loops[next] = next /\ next \in Workers /\ next' \in Workers
<1>1. loops = [i \in 1..NumThreads |-> i] /\ NumThreads \in Nat \ {0}
  BY NumThreadsAssumption DEF Threading, StartsUp
<1>2. Len(loops) = NumThreads
  BY <1>1, LenProperties DEF TypeOK
<1>3. next \in 1..NumThreads /\ next' = (next % NumThreads) + 1
  BY <1>2 DEF TypeOK, Workers, Advances
<1>4. (next % NumThreads) \in 0..(NumThreads - 1)
  BY <1>1, <1>3
<1> QED BY <1>1, <1>3, <1>4 DEF Workers

(* What happens to connections on an IO thread. *)
LEMMA ConnectionThreading ==
  ASSUME TypeOK, Threading, NEW i \in Workers, NEW c,
         \/ StoreDone(i) \/ RunFunctor(i)
         \/ c \in Clients /\ (HandleClose(i, c) \/ UseStore(i, c) \/ Shutdown(i, c))
  PROVE  TypeOK' /\ Threading'
<1> DEFINE r == io'[i]
<1>1. io' = [io EXCEPT ![i] = r] /\ UNCHANGED <<who, loops, next, main>>
  BY DEF StoreDone, RunFunctor, HandleClose, UseStore, Shutdown, Moves, TypeOK
<1>2. io[i] \in IoType /\ Lives(i)
  BY DEF TypeOK, Threading
<1>3. /\ r \in IoType
      /\ io[i].at \notin {"none", "gone"}
      /\ r.shown <=> r.at \in Looping \cup {"left"}
      /\ r.at # "run" => r.batch = <<>>
      /\ r.quit \/ r.at \in Ended => io[i].quit \/ io[i].at \in Ended
      /\ r.at \in Starting => io[i].at \in Starting
  <2>1. CASE RunFunctor(i)
    <3>1. Tail(io[i].batch) \in Seq(Functors)
      BY <2>1, IoTyped, HeadTailProperties DEF RunFunctor
    <3> QED BY <1>2, <2>1, <3>1 DEF RunFunctor, TypeOK, IoType, Lives, Starting, Looping, Ended
  <2>2. CASE ~RunFunctor(i)
    <3>1. PICK to \in {"store", "swap"} : /\ io' = [io EXCEPT ![i].at = to]
                                          /\ io[i].at \in {"poll", "store"}
      BY <2>2 DEF StoreDone, HandleClose, UseStore, Shutdown, Polled, Moves
    <3>2. r = [io[i] EXCEPT !.at = to]
      BY <3>1 DEF TypeOK
    <3> QED BY <1>2, <3>1, <3>2 DEF IoType, Lives, Starting, Looping, Ended
  <2> QED BY <2>1, <2>2
<1>4. io' \in [Workers -> IoType] /\ Threading'
  <2> HIDE DEF r
  <2> QED BY <1>1, <1>3, GoesOn
<1>5. conn' \in [Clients -> ConnectionType] /\ removals' \in Seq(Clients)
  <2>1. \A d \in Clients : conn[d] \in ConnectionType
    BY DEF TypeOK
  <2>2. \A d \in Clients : /\ Down(d) \in ConnectionType /\ Destroyed(d) \in ConnectionType
                           /\ [conn[d] EXCEPT !.state = "Disconnecting"] \in ConnectionType
    <3> SUFFICES ASSUME NEW d \in Clients
                 PROVE  /\ Down(d) \in ConnectionType /\ Destroyed(d) \in ConnectionType
                        /\ [conn[d] EXCEPT !.state = "Disconnecting"] \in ConnectionType
      OBVIOUS
    <3>1. conn[d] \in ConnectionType /\ conn[d].downs + 1 \in Nat
      BY <2>1 DEF ConnectionType
    <3>2. Down(d) \in ConnectionType
      BY <3>1 DEF Down, ConnectionType, States
    <3>3. [conn[d] EXCEPT !.polled = FALSE] \in ConnectionType
      BY <3>1 DEF ConnectionType
    <3>4. [conn[d] EXCEPT !.state = "Disconnecting"] \in ConnectionType
      BY <3>1 DEF ConnectionType, States
    <3> QED BY <3>2, <3>3, <3>4 DEF Destroyed
  <2>3. CASE RunFunctor(i)
    <3>1. Head(io[i].batch) \in Functors
      BY <2>3, IoTyped, HeadTailProperties DEF RunFunctor
    <3>2. PICK f \in Functors : conn' = [conn EXCEPT ![f.of] = After(f)]
      BY <2>3, <3>1 DEF RunFunctor
    <3>3. f.of \in Clients
      BY DEF Functors
    <3>4. After(f) \in ConnectionType
      <4>1. conn[f.of] \in ConnectionType /\ conn[f.of].ups + 1 \in Nat
        BY <2>1, <3>3 DEF ConnectionType
      <4>2. [conn[f.of] EXCEPT !.state = "Connected", !.polled = TRUE, !.ups = @ + 1]
               \in ConnectionType
        BY <4>1 DEF ConnectionType, States
      <4> QED BY <2>2, <3>3, <4>2 DEF After
    <3> QED BY <2>3, <3>2, <3>3, <3>4 DEF RunFunctor, TypeOK
  <2>4. CASE c \in Clients /\ HandleClose(i, c)
    <3>1. /\ conn' = [conn EXCEPT ![c] = Down(c)]
          /\ removals' = Append(removals, c)
          /\ conn \in [Clients -> ConnectionType] /\ removals \in Seq(Clients)
      BY <2>4 DEF HandleClose, AsksForRemoval, TypeOK
    <3>2. Down(c) \in ConnectionType
      BY <2>2, <2>4
    <3> QED BY <2>4, <3>1, <3>2
  <2>5. CASE c \in Clients /\ Shutdown(i, c)
    <3>1. conn' = [conn EXCEPT ![c] = [conn[c] EXCEPT !.state = "Disconnecting"]]
      BY <2>5 DEF Shutdown, TypeOK
    <3> QED BY <2>2, <2>5, <3>1 DEF Shutdown, TypeOK
  <2>6. CASE StoreDone(i) \/ UseStore(i, c)
    BY <2>6 DEF StoreDone, UseStore, TypeOK, serverVars
  <2> QED BY <2>3, <2>4, <2>5, <2>6
<1>6. UNCHANGED <<client, backlog, edge, fails, store>> /\ map' = map
  BY DEF StoreDone, RunFunctor, HandleClose, UseStore, Shutdown, serverVars
<1> QED BY <1>1, <1>4, <1>5, <1>6 DEF TypeOK

-----------------------------------------------------------------------------
(* What an IO thread still has to run is a sequence of functors. *)
LEMMA QueueTyped ==
  ASSUME TypeOK, NEW i \in Workers
  PROVE  Queue(i) \in Seq(Functors) /\ Len(Queue(i)) \in Nat
BY IoTyped, ConcatProperties, LenProperties DEF Queue

(* queueInLoop() appends to it. *)
LEMMA PostQueue ==
  ASSUME TypeOK, NEW i \in Workers, NEW f \in Functors, Post(i, f)
  PROVE  /\ Len(Queue(i)') = Len(Queue(i)) + 1
         /\ Queue(i)'[Len(Queue(i)) + 1] = f
         /\ \A p \in 1..Len(Queue(i)) : Queue(i)'[p] = Queue(i)[p]
         /\ \A j \in Workers : j # i => Queue(j)' = Queue(j)
<1> DEFINE b == io[i].batch
           p == io[i].pending
           a == Append(p, f)
<1>1. b \in Seq(Functors) /\ p \in Seq(Functors)
  BY IoTyped
<1>2. /\ a \in Seq(Functors) /\ Len(a) = Len(p) + 1 /\ a[Len(p) + 1] = f
      /\ \A k \in 1..Len(p) : a[k] = p[k]
  BY <1>1
<1>3. Len(b) \in Nat /\ Len(p) \in Nat
  BY <1>1, LenProperties
<1>4. Queue(i) = b \o p /\ Queue(i)' = b \o a
  BY DEF Queue, Post, TypeOK, IoType
<1>5. \A j \in Workers : j # i => Queue(j)' = Queue(j)
  BY DEF Queue, Post, TypeOK
<1> HIDE DEF b, p, a
<1>6. /\ Len(b \o p) = Len(b) + Len(p)
      /\ \A k \in 1..(Len(b) + Len(p)) :
            (b \o p)[k] = IF k <= Len(b) THEN b[k] ELSE p[k - Len(b)]
  BY <1>1, ConcatProperties
<1>7. /\ Len(b \o a) = Len(b) + Len(a)
      /\ \A k \in 1..(Len(b) + Len(a)) :
            (b \o a)[k] = IF k <= Len(b) THEN b[k] ELSE a[k - Len(b)]
  BY <1>1, <1>2, ConcatProperties
<1>8. Len(b \o a) = Len(b \o p) + 1
  BY <1>2, <1>3, <1>6, <1>7
<1>9. (b \o a)[Len(b \o p) + 1] = f
  <2>1. Len(b) + Len(p) + 1 \in 1..(Len(b) + Len(a)) /\ ~(Len(b) + Len(p) + 1 <= Len(b))
    BY <1>2, <1>3
  <2>2. (b \o a)[Len(b) + Len(p) + 1] = a[Len(b) + Len(p) + 1 - Len(b)]
    BY <2>1, <1>7
  <2>3. Len(b) + Len(p) + 1 - Len(b) = Len(p) + 1
    BY <1>3
  <2> QED BY <1>2, <1>6, <2>2, <2>3
<1>10. \A k \in 1..Len(b \o p) : (b \o a)[k] = (b \o p)[k]
  BY <1>2, <1>3, <1>6, <1>7
<1> QED BY <1>4, <1>5, <1>8, <1>9, <1>10

(* A functor that runs is the first of it. *)
LEMMA RunQueue ==
  ASSUME TypeOK, NEW i \in Workers, RunFunctor(i)
  PROVE  /\ Len(Queue(i)') = Len(Queue(i)) - 1
         /\ Len(Queue(i)) >= 1 /\ Queue(i)[1] = Head(io[i].batch)
         /\ Head(io[i].batch) \in Functors
         /\ \A p \in 1..(Len(Queue(i)) - 1) : Queue(i)'[p] = Queue(i)[p + 1]
         /\ \A j \in Workers : j # i => Queue(j)' = Queue(j)
<1> DEFINE b == io[i].batch
           p == io[i].pending
           t == Tail(b)
<1>1. b \in Seq(Functors) /\ p \in Seq(Functors) /\ b # <<>>
  BY IoTyped DEF RunFunctor
<1>2. /\ t \in Seq(Functors) /\ Len(t) = Len(b) - 1 /\ Head(b) \in Functors
      /\ \A k \in 1..Len(t) : t[k] = b[k + 1]
  BY <1>1, HeadTailProperties
<1>3. Len(b) \in Nat \ {0} /\ Len(p) \in Nat /\ Head(b) = b[1]
  BY <1>1, EmptySeq, LenProperties
<1>4. Queue(i) = b \o p /\ Queue(i)' = t \o p
  BY DEF Queue, RunFunctor, TypeOK, IoType
<1>5. \A j \in Workers : j # i => Queue(j)' = Queue(j)
  BY DEF Queue, RunFunctor, TypeOK
<1> HIDE DEF b, p, t
<1>6. /\ Len(b \o p) = Len(b) + Len(p)
      /\ \A k \in 1..(Len(b) + Len(p)) :
            (b \o p)[k] = IF k <= Len(b) THEN b[k] ELSE p[k - Len(b)]
  BY <1>1, ConcatProperties
<1>7. /\ Len(t \o p) = Len(t) + Len(p)
      /\ \A k \in 1..(Len(t) + Len(p)) :
            (t \o p)[k] = IF k <= Len(t) THEN t[k] ELSE p[k - Len(t)]
  BY <1>1, <1>2, ConcatProperties
<1>8. Head(io[i].batch) = Head(b)
  BY DEF b
<1> QED BY <1>2, <1>3, <1>4, <1>5, <1>6, <1>7, <1>8

(* Whatever else a thread does leaves it as it is: the swap only moves it. *)
LEMMA RunsQueue ==
  ASSUME TypeOK, Threading, NEW i \in Workers, Runs(i) \/ PollTimeout(i), NEW j \in Workers
  PROVE  Queue(j)' = Queue(j)
<1>1. CASE Swap(i) /\ j = i
  <2>1. io[i].batch = <<>> /\ io[i].pending \in Seq(Functors) /\ <<>> \in Seq(Functors)
    BY <1>1, IoTyped, EmptySeq DEF Swap, Threading, Lives
  <2>2. Queue(i) = <<>> \o io[i].pending /\ Queue(i)' = io[i].pending \o <<>>
    BY <1>1, <2>1 DEF Queue, Swap, TypeOK, IoType
  <2> QED BY <1>1, <2>1, <2>2, ConcatEmptySeq
<1>2. CASE ~(Swap(i) /\ j = i)
  <2>1. io'[j].batch = io[j].batch /\ io'[j].pending = io[j].pending
    <3> USE DEF TypeOK, IoType
    <3>1. CASE \E to : Moves(i, to)
      BY <3>1 DEF Moves
    <3>2. CASE Publish(i)
      BY <3>2 DEF Publish
    <3>3. CASE EnterLoop(i)
      BY <3>3 DEF EnterLoop
    <3>4. CASE PollWakes(i)
      BY <3>4 DEF PollWakes
    <3>5. CASE Swap(i)
      BY <1>2, <3>5 DEF Swap
    <3>6. CASE EndThread(i)
      BY <3>6 DEF EndThread
    <3> QED BY <3>1, <3>2, <3>3, <3>4, <3>5, <3>6 DEF Runs, CountDown, MakeLoop, Check, PollTimeout
  <2> QED BY <2>1 DEF Queue
<1> QED BY <1>1, <1>2

(* Seen from a connection c of which only the queues change, and keep its         *)
(* functors and their order.                                                    *)
LEMMA Kept ==
  ASSUME NEW c \in Clients, Tracked(c),
         client'[c] = client[c], conn'[c] = conn[c], c \in map' <=> c \in map,
         Waiting(c)' <=> Waiting(c), Removing(c)' <=> Removing(c),
         InOrder(c)',
         conn[c].loop \in Workers =>
            /\ Holds("established", c) => Holds("established", c)'
            /\ Holds("destroyed", c) => Holds("destroyed", c)'
  PROVE  Tracked(c)'
BY DEF Tracked

(* No queue changes. *)
LEMMA QuietKept ==
  ASSUME NEW c \in Clients, Tracked(c),
         client'[c] = client[c], conn'[c] = conn[c], c \in map' <=> c \in map,
         Waiting(c)' <=> Waiting(c), Removing(c)' <=> Removing(c),
         \A j \in Workers : Queue(j)' = Queue(j)
  PROVE  Tracked(c)'
<1>1. InOrder(c)'
  BY DEF Tracked, InOrder
<1>2. conn[c].loop \in Workers =>
            /\ Holds("established", c) => Holds("established", c)'
            /\ Holds("destroyed", c) => Holds("destroyed", c)'
  BY DEF Holds, Functor
<1> QED BY <1>1, <1>2, Kept

(* A functor of another connection is posted. *)
LEMMA PostKept ==
  ASSUME TypeOK, NEW c \in Clients, Tracked(c),
         client'[c] = client[c], conn'[c] = conn[c], c \in map' <=> c \in map,
         Waiting(c)' <=> Waiting(c), Removing(c)' <=> Removing(c),
         NEW i \in Workers, NEW f \in Functors, Post(i, f), f.of # c
  PROVE  Tracked(c)'
<1>1. /\ Len(Queue(i)') = Len(Queue(i)) + 1 /\ Len(Queue(i)) \in Nat
      /\ Queue(i)'[Len(Queue(i)) + 1] = f
      /\ \A p \in 1..Len(Queue(i)) : Queue(i)'[p] = Queue(i)[p]
      /\ \A j \in Workers : j # i => Queue(j)' = Queue(j)
  BY PostQueue, QueueTyped
<1>2. InOrder(c)'
  <2> SUFFICES ASSUME NEW j \in Workers, NEW p \in 1..Len(Queue(j)'), Queue(j)'[p].of = c
               PROVE  /\ conn'[c].loop = j
                      /\ Queue(j)'[p].op = "established" <=>
                           /\ conn'[c].state = "Connecting"
                           /\ \A q \in 1..(p - 1) : Queue(j)'[q].of # c
                      /\ Queue(j)'[p].op = "destroyed" => c \notin map'
    BY DEF InOrder
  <2>1. /\ p \in 1..Len(Queue(j)) /\ Queue(j)'[p] = Queue(j)[p]
        /\ \A q \in 1..(p - 1) : Queue(j)'[q] = Queue(j)[q]
    BY <1>1, QueueTyped
  <2>2. /\ conn[c].loop = j
        /\ Queue(j)[p].op = "established" <=>
             conn[c].state = "Connecting" /\ \A q \in 1..(p - 1) : Queue(j)[q].of # c
        /\ Queue(j)[p].op = "destroyed" => c \notin map
    BY <2>1 DEF Tracked, InOrder
  <2> QED BY <2>1, <2>2
<1>3. conn[c].loop \in Workers =>
            /\ Holds("established", c) => Holds("established", c)'
            /\ Holds("destroyed", c) => Holds("destroyed", c)'
  BY <1>1 DEF Holds, Functor
<1> QED BY <1>2, <1>3, Kept

(* A functor of another connection is run. *)
LEMMA RunKept ==
  ASSUME TypeOK, NEW c \in Clients, Tracked(c),
         client'[c] = client[c], conn'[c] = conn[c], c \in map' <=> c \in map,
         Waiting(c)' <=> Waiting(c), Removing(c)' <=> Removing(c),
         NEW i \in Workers, RunFunctor(i), Head(io[i].batch).of # c
  PROVE  Tracked(c)'
<1>1. /\ Len(Queue(i)') = Len(Queue(i)) - 1 /\ Len(Queue(i)) \in Nat
      /\ Len(Queue(i)) >= 1 /\ Queue(i)[1].of # c
      /\ \A p \in 1..(Len(Queue(i)) - 1) : Queue(i)'[p] = Queue(i)[p + 1]
      /\ \A j \in Workers : j # i => Queue(j)' = Queue(j)
  BY RunQueue, QueueTyped
<1>2. InOrder(c)'
  <2> SUFFICES ASSUME NEW j \in Workers, NEW p \in 1..Len(Queue(j)'), Queue(j)'[p].of = c
               PROVE  /\ conn'[c].loop = j
                      /\ Queue(j)'[p].op = "established" <=>
                           /\ conn'[c].state = "Connecting"
                           /\ \A q \in 1..(p - 1) : Queue(j)'[q].of # c
                      /\ Queue(j)'[p].op = "destroyed" => c \notin map'
    BY DEF InOrder
  <2>1. CASE j # i
    BY <1>1, <2>1 DEF Tracked, InOrder
  <2>2. CASE j = i
    <3>1. /\ p + 1 \in 1..Len(Queue(i)) /\ Queue(i)'[p] = Queue(i)[p + 1] /\ p \in Nat
          /\ \A q \in 1..(p - 1) : Queue(i)'[q] = Queue(i)[q + 1]
      BY <1>1, <2>2
    <3>2. (\A q \in 1..(p - 1) : Queue(i)'[q].of # c) <=> \A q \in 1..p : Queue(i)[q].of # c
      <4>1. ASSUME \A q \in 1..(p - 1) : Queue(i)'[q].of # c, NEW q \in 1..p
            PROVE  Queue(i)[q].of # c
        <5>1. CASE q = 1
          BY <1>1, <5>1
        <5>2. CASE q # 1
          <6>1. q - 1 \in 1..(p - 1) /\ (q - 1) + 1 = q
            BY <5>2, <3>1
          <6> QED BY <3>1, <4>1, <6>1
        <5> QED BY <5>1, <5>2
      <4>2. ASSUME \A q \in 1..p : Queue(i)[q].of # c, NEW q \in 1..(p - 1)
            PROVE  Queue(i)'[q].of # c
        <5>1. q + 1 \in 1..p
          BY <3>1
        <5> QED BY <3>1, <4>2, <5>1
      <4> QED BY <4>1, <4>2
    <3>3. (p + 1) - 1 = p
      BY <3>1
    <3>4. /\ conn[c].loop = i
          /\ Queue(i)[p + 1].op = "established" <=>
                conn[c].state = "Connecting" /\ \A q \in 1..((p + 1) - 1) : Queue(i)[q].of # c
          /\ Queue(i)[p + 1].op = "destroyed" => c \notin map
      BY <2>2, <3>1 DEF Tracked, InOrder
    <3> QED BY <2>2, <3>1, <3>2, <3>3, <3>4
  <2> QED BY <2>1, <2>2
<1>3. ASSUME conn[c].loop \in Workers, NEW op \in {"established", "destroyed"}, Holds(op, c)
      PROVE  Holds(op, c)'
  <2> DEFINE j == conn[c].loop
  <2>1. PICK p \in 1..Len(Queue(j)) : Queue(j)[p] = Functor(op, c)
    BY <1>3 DEF Holds
  <2>2. CASE j # i
    BY <1>1, <1>3, <2>1, <2>2 DEF Holds, Functor
  <2>3. CASE j = i
    <3>1. Queue(i)[p].of = c
      BY <2>1, <2>3 DEF Functor
    <3>2. p - 1 \in 1..Len(Queue(i)') /\ Queue(i)'[p - 1] = Queue(i)[p]
      BY <1>1, <2>1, <2>3, <3>1
    <3> QED BY <2>1, <2>3, <3>2 DEF Holds, Functor
  <2> QED BY <2>2, <2>3
<1> QED BY <1>2, <1>3, Kept

-----------------------------------------------------------------------------
(* At first nobody has connected and nothing is queued. *)
LEMMA InitTracking == Init => Tracking
<1> SUFFICES ASSUME Init PROVE Tracking
  OBVIOUS
<1>1. \A i \in Workers : Queue(i) = <<>>
  <2>1. \A i \in Workers : io[i].batch = <<>> /\ io[i].pending = <<>>
    BY DEF Init, IoInit, NewThread
  <2> QED BY <2>1, EmptySeq, ConcatEmptySeq DEF Queue
<1>2. backlog = <<>> /\ removals = <<>> /\ Len(<<>>) = 0 /\ DOMAIN <<>> = {}
  BY DEF Init
<1>3. ASSUME NEW c \in Clients PROVE Tracked(c)
  <2>1. InOrder(c)
    BY <1>1, <1>2 DEF InOrder
  <2>2. ~Waiting(c) /\ ~Removing(c)
    BY <1>2 DEF Waiting, Removing
  <2>3. 0 \notin Workers
    BY DEF Workers
  <2> QED BY <2>1, <2>2, <2>3 DEF Init, NoConnection, Tracked
<1>4. IsInjective(backlog)
  BY <1>2 DEF IsInjective
<1> QED BY <1>3, <1>4 DEF Tracking

(* Whatever leaves connections and queues alone. *)
LEMMA QuietTracking ==
  ASSUME Tracking, UNCHANGED <<client, backlog, conn, map, removals>>,
         \A j \in Workers : Queue(j)' = Queue(j)
  PROVE  Tracking'
<1>1. ASSUME NEW c \in Clients PROVE Tracked(c)'
  BY QuietKept DEF Tracking, Waiting, Removing
<1> QED BY <1>1 DEF Tracking

(* Clients connect and close. *)
LEMMA ClientTracking ==
  ASSUME TypeOK, Tracking, NEW c \in Clients, Client(c)
  PROVE  Tracking'
<1>1. \A j \in Workers : Queue(j)' = Queue(j)
  BY DEF Client, Connect, Disconnect, ioVars, Queue
<1>2. conn' = conn /\ map' = map /\ removals' = removals
  BY DEF Client, Connect, Disconnect
<1>3. \A d \in Clients : Removing(d)' <=> Removing(d)
  BY <1>2 DEF Removing
<1>4. CASE Connect(c)
  <2>1. /\ Len(backlog') = Len(backlog) + 1 /\ Len(backlog) \in Nat
        /\ backlog'[Len(backlog) + 1] = c
        /\ \A p \in 1..Len(backlog) : backlog'[p] = backlog[p]
        /\ DOMAIN backlog = 1..Len(backlog) /\ DOMAIN backlog' = 1..(Len(backlog) + 1)
    BY <1>4, LenProperties DEF Connect, TypeOK
  <2>2. ~Waiting(c)
    BY <1>4 DEF Connect, Tracking, Tracked
  <2>3. IsInjective(backlog')
    BY <2>1, <2>2 DEF Tracking, Waiting, IsInjective
  <2>4. \A d \in Clients : Waiting(d)' <=> Waiting(d) \/ d = c
    BY <2>1 DEF Waiting
  <2>5. ASSUME NEW d \in Clients PROVE Tracked(d)'
    <3>1. CASE d = c
      <4>1. client[c] = "idle" /\ client'[c] = "asked" /\ Waiting(c)'
        BY <1>4, <2>4 DEF Connect, TypeOK
      <4>2. Tracked(c) /\ conn[c].state = "none"
        BY <4>1 DEF Tracking, Tracked
      <4>3. InOrder(c)'
        BY <1>1, <1>2, <4>2 DEF Tracked, InOrder
      <4> QED BY <1>2, <1>3, <3>1, <4>1, <4>2, <4>3 DEF Tracked
    <3>2. CASE d # c
      <4>1. client'[d] = client[d]
        BY <1>4, <3>2 DEF Connect, TypeOK
      <4> QED BY <1>1, <1>2, <1>3, <2>4, <3>2, <4>1, QuietKept DEF Tracking
    <3> QED BY <3>1, <3>2
  <2> QED BY <2>3, <2>5 DEF Tracking
<1>5. CASE Disconnect(c)
  <2>1. ASSUME NEW d \in Clients PROVE Tracked(d)'
    <3>1. Waiting(d)' <=> Waiting(d)
      BY <1>5 DEF Disconnect, Waiting
    <3>2. /\ Tracked(d)
          /\ \/ client'[d] = client[d]
             \/ client[d] = "open" /\ client'[d] = "closed"
             \/ client[d] = "asked" /\ client'[d] = "left"
      BY <1>5 DEF Disconnect, TypeOK, Tracking
    <3>3. InOrder(d)'
      BY <1>1, <1>2, <3>2 DEF Tracked, InOrder
    <3>4. conn[d].loop \in Workers =>
             /\ Holds("established", d) => Holds("established", d)'
             /\ Holds("destroyed", d) => Holds("destroyed", d)'
      BY <1>1, <1>2 DEF Holds, Functor
    <3> QED BY <1>2, <1>3, <3>1, <3>2, <3>3, <3>4 DEF Tracked
  <2> QED BY <1>5, <2>1 DEF Disconnect, Tracking
<1> QED BY <1>4, <1>5 DEF Client

(* A connection is accepted: connectEstablished() is the first functor of it. *)
LEMMA AcceptTracking ==
  ASSUME TypeOK, Threading, Tracking, Accept
  PROVE  Tracking'
<1>1. backlog # <<>> /\ Head(backlog) \in Clients
  BY HeadTailProperties DEF Accept, TypeOK
<1>2. loops[next] \in Workers
  BY NextLoop DEF Accept, Established
<1>3. PICK c \in Clients, i \in Workers :
         /\ c = Head(backlog)
         /\ backlog' = Tail(backlog)
         /\ client' = [client EXCEPT ![c] = IF @ = "left" THEN "closed" ELSE "open"]
         /\ map' = map \cup {c}
         /\ conn' = [conn EXCEPT ![c].state = "Connecting", ![c].loop = i]
         /\ Post(i, Functor("established", c))
         /\ removals' = removals
  BY <1>1, <1>2 DEF Accept, Established
<1> DEFINE f == Functor("established", c)
<1>4. /\ c = backlog[1]
      /\ DOMAIN backlog = 1..Len(backlog) /\ Len(backlog) \in Nat \ {0}
      /\ DOMAIN backlog' = 1..(Len(backlog) - 1) /\ Len(backlog') = Len(backlog) - 1
      /\ \A p \in 1..(Len(backlog) - 1) : backlog'[p] = backlog[p + 1]
  BY <1>1, <1>3, HeadTailProperties, LenProperties, EmptySeq DEF TypeOK
<1>5. f \in Functors /\ f.of = c /\ f.op = "established" /\ Post(i, f)
  BY <1>3, FunctorTyped DEF Functor
<1> HIDE DEF f
<1>6. IsInjective(backlog') /\ ~Waiting(c)'
  <2>1. \A p, q \in 1..Len(backlog) : backlog[p] = backlog[q] => p = q
    BY <1>4 DEF Tracking, IsInjective
  <2>2. \A p, q \in 1..Len(backlog') : backlog'[p] = backlog'[q] => p = q
    BY <1>4, <2>1
  <2>3. \A p \in 1..Len(backlog') : backlog'[p] # c
    BY <1>4, <2>1
  <2> QED BY <1>4, <2>2, <2>3 DEF IsInjective, Waiting
<1>7. ASSUME NEW d \in Clients, d # c PROVE Waiting(d)' <=> Waiting(d)
  <2>1. ASSUME NEW p \in 1..Len(backlog), backlog[p] = d PROVE Waiting(d)'
    <3>1. p - 1 \in 1..(Len(backlog) - 1) /\ (p - 1) + 1 = p
      BY <1>4, <1>7, <2>1
    <3> QED BY <1>4, <2>1, <3>1 DEF Waiting
  <2>2. ASSUME NEW p \in 1..Len(backlog'), backlog'[p] = d PROVE Waiting(d)
    BY <1>4, <2>2 DEF Waiting
  <2> QED BY <2>1, <2>2 DEF Waiting
<1>8. \A d \in Clients : Removing(d)' <=> Removing(d)
  BY <1>3 DEF Removing
<1>9. ASSUME NEW d \in Clients, d # c PROVE Tracked(d)'
  <2>1. client'[d] = client[d] /\ conn'[d] = conn[d] /\ (d \in map' <=> d \in map)
    BY <1>3, <1>9 DEF TypeOK
  <2> QED BY <1>3, <1>5, <1>7, <1>8, <1>9, <2>1, PostKept DEF Tracking
<1>10. Tracked(c)'
  <2>1. /\ Tracked(c) /\ Waiting(c)
    BY <1>4 DEF Tracking, Waiting
  <2>2. client[c] \in {"asked", "left"} /\ conn[c].state = "none" /\ conn[c].loop \notin Workers
    BY <2>1 DEF Tracked
  <2>3. /\ client'[c] \in {"open", "closed"} /\ conn'[c].state = "Connecting" /\ conn'[c].loop = i
        /\ conn'[c].polled = conn[c].polled
        /\ conn'[c].ups = conn[c].ups /\ conn'[c].downs = conn[c].downs
    BY <1>3, <1>4 DEF TypeOK, ConnectionType
  <2>4. /\ Len(Queue(i)') = Len(Queue(i)) + 1 /\ Len(Queue(i)) \in Nat
        /\ Queue(i)'[Len(Queue(i)) + 1] = f
        /\ \A p \in 1..Len(Queue(i)) : Queue(i)'[p] = Queue(i)[p]
        /\ \A j \in Workers : j # i => Queue(j)' = Queue(j)
    BY <1>3, <1>5, PostQueue, QueueTyped
  <2>5. \A j \in Workers : \A p \in 1..Len(Queue(j)) : Queue(j)[p].of # c
    BY <2>1, <2>2 DEF Tracked, InOrder
  <2>6. InOrder(c)'
    <3> SUFFICES ASSUME NEW j \in Workers, NEW p \in 1..Len(Queue(j)'), Queue(j)'[p].of = c
                 PROVE  /\ conn'[c].loop = j
                        /\ Queue(j)'[p].op = "established" <=>
                             /\ conn'[c].state = "Connecting"
                             /\ \A q \in 1..(p - 1) : Queue(j)'[q].of # c
                        /\ Queue(j)'[p].op = "destroyed" => c \notin map'
      BY DEF InOrder
    <3>1. j = i /\ p = Len(Queue(i)) + 1
      BY <2>4, <2>5
    <3>2. \A q \in 1..(p - 1) : Queue(j)'[q].of # c
      BY <2>4, <2>5, <3>1
    <3> QED BY <1>5, <2>3, <2>4, <3>1, <3>2
  <2>7. Holds("established", c)'
    BY <2>3, <2>4 DEF Holds, f, Functor
  <2>8. ~Removing(c)'
    BY <1>4, <1>8, <2>1, <2>2 DEF Tracked
  <2>9. c \in map'
    BY <1>3
  <2> QED BY <1>6, <2>1, <2>2, <2>3, <2>6, <2>7, <2>8, <2>9 DEF Tracked
<1> QED BY <1>6, <1>9, <1>10 DEF Tracking

(* A connection leaves the map and connectDestroyed() goes to its loop.            *)
LEMMA DestroyedPosted ==
  ASSUME TypeOK, NEW c \in Clients, Tracked(c), conn[c].state # "none",
         UNCHANGED <<client, backlog, conn>>, c \notin map', PostsDestroyed(c),
         Removing(c)' => Removing(c)
  PROVE  Tracked(c)'
<1>1. PICK i \in Workers, f \in Functors :
         /\ i = conn[c].loop /\ f = Functor("destroyed", c)
         /\ Post(i, f) /\ f.of = c /\ f.op = "destroyed"
  BY FunctorTyped DEF Tracked, PostsDestroyed, Functor
<1>2. /\ Len(Queue(i)') = Len(Queue(i)) + 1 /\ Len(Queue(i)) \in Nat
      /\ Queue(i)'[Len(Queue(i)) + 1] = f
      /\ \A p \in 1..Len(Queue(i)) : Queue(i)'[p] = Queue(i)[p]
      /\ \A j \in Workers : j # i => Queue(j)' = Queue(j)
  BY <1>1, PostQueue, QueueTyped
<1>3. InOrder(c)'
  <2> SUFFICES ASSUME NEW j \in Workers, NEW p \in 1..Len(Queue(j)'), Queue(j)'[p].of = c
               PROVE  /\ conn'[c].loop = j
                      /\ Queue(j)'[p].op = "established" <=>
                           /\ conn'[c].state = "Connecting"
                           /\ \A q \in 1..(p - 1) : Queue(j)'[q].of # c
                      /\ Queue(j)'[p].op = "destroyed" => c \notin map'
    BY DEF InOrder
  <2>1. CASE j # i \/ p # Len(Queue(i)) + 1
    <3>1. /\ p \in 1..Len(Queue(j)) /\ Queue(j)'[p] = Queue(j)[p]
          /\ \A q \in 1..(p - 1) : Queue(j)'[q] = Queue(j)[q]
      BY <1>2, <2>1, QueueTyped
    <3> QED BY <3>1 DEF Tracked, InOrder
  <2>2. CASE j = i /\ p = Len(Queue(i)) + 1
    <3>1. ASSUME conn[c].state = "Connecting"
          PROVE  \E q \in 1..(p - 1) : Queue(i)'[q].of = c
      <4>1. PICK q \in 1..Len(Queue(i)) : Queue(i)[q] = Functor("established", c)
        BY <1>1, <3>1 DEF Tracked, Holds
      <4> QED BY <1>2, <2>2, <4>1 DEF Functor
    <3> QED BY <1>1, <1>2, <2>2, <3>1
  <2> QED BY <2>1, <2>2
<1>4. Holds("destroyed", c)'
  BY <1>1, <1>2 DEF Holds, Functor
<1>5. Holds("established", c) => Holds("established", c)'
  BY <1>1, <1>2 DEF Holds, Functor
<1>6. Waiting(c)' <=> Waiting(c)
  BY DEF Waiting
<1> QED BY <1>3, <1>4, <1>5, <1>6 DEF Tracked

(* removeConnectionInLoop(). *)
LEMMA RemoveTracking ==
  ASSUME TypeOK, Tracking, RemoveConnection
  PROVE  Tracking'
<1>1. removals # <<>> /\ Head(removals) \in Clients
  BY HeadTailProperties DEF RemoveConnection, TypeOK
<1>2. PICK c \in Clients :
         /\ c = Head(removals) /\ removals' = Tail(removals)
         /\ map' = map \ {c} /\ PostsDestroyed(c)
         /\ UNCHANGED <<client, backlog, conn>>
  BY <1>1 DEF RemoveConnection
<1>3. /\ c = removals[1] /\ Len(removals) \in Nat \ {0}
      /\ Len(removals') = Len(removals) - 1
      /\ \A p \in 1..(Len(removals) - 1) : removals'[p] = removals[p + 1]
  BY <1>1, <1>2, HeadTailProperties, EmptySeq DEF TypeOK
<1>4. \A d \in Clients : Removing(d)' => Removing(d)
  BY <1>3 DEF Removing
<1>5. ASSUME NEW d \in Clients, d # c, Removing(d) PROVE Removing(d)'
  <2>1. PICK p \in 1..Len(removals) : removals[p] = d
    BY <1>5 DEF Removing
  <2>2. p - 1 \in 1..(Len(removals) - 1) /\ (p - 1) + 1 = p
    BY <1>3, <1>5, <2>1
  <2> QED BY <1>3, <2>1, <2>2 DEF Removing
<1>6. Tracked(c) /\ conn[c].state = "Disconnected" /\ conn[c].loop \in Workers
  BY <1>3 DEF Tracking, Tracked, Removing
<1>7. Tracked(c)'
  BY <1>2, <1>4, <1>6, DestroyedPosted
<1>8. ASSUME NEW d \in Clients, d # c PROVE Tracked(d)'
  <2>1. PICK i \in Workers, f \in Functors : Post(i, f) /\ f.of # d
    BY <1>2, <1>6, <1>8, FunctorTyped DEF PostsDestroyed, Functor
  <2>2. Waiting(d)' <=> Waiting(d)
    BY <1>2 DEF Waiting
  <2> QED BY <1>2, <1>4, <1>5, <1>8, <2>1, <2>2, PostKept DEF Tracking
<1> QED BY <1>2, <1>7, <1>8 DEF Tracking

(* ~TcpServer, for one connection of the map. *)
LEMMA DropTracking ==
  ASSUME TypeOK, Tracking, DropConnection
  PROVE  Tracking'
<1>1. PICK c \in Clients : /\ c \in map /\ map' = map \ {c} /\ PostsDestroyed(c)
                          /\ UNCHANGED <<client, backlog, conn, removals>>
  BY DEF DropConnection, TypeOK
<1>2. Tracked(c) /\ conn[c].state # "none" /\ conn[c].loop \in Workers
  BY <1>1 DEF Tracking, Tracked
<1>3. \A d \in Clients : (Removing(d)' <=> Removing(d)) /\ (Waiting(d)' <=> Waiting(d))
  BY <1>1 DEF Removing, Waiting
<1>4. Tracked(c)'
  BY <1>1, <1>2, <1>3, DestroyedPosted
<1>5. ASSUME NEW d \in Clients, d # c PROVE Tracked(d)'
  <2>1. PICK i \in Workers, f \in Functors : Post(i, f) /\ f.of # d
    BY <1>1, <1>2, <1>5, FunctorTyped DEF PostsDestroyed, Functor
  <2> QED BY <1>1, <1>3, <1>5, <2>1, PostKept DEF Tracking
<1> QED BY <1>1, <1>4, <1>5 DEF Tracking

(* An IO thread closes a connection or shuts it down. *)
LEMMA CloseTracking ==
  ASSUME TypeOK, Threading, Tracking, NEW i \in Workers, NEW c \in Clients,
         HandleClose(i, c) \/ Shutdown(i, c)
  PROVE  Tracking'
<1>1. \A j \in Workers : Queue(j)' = Queue(j)
  <2>1. io' = [io EXCEPT ![i].at = "swap"]
    BY DEF HandleClose, Shutdown, Moves
  <2> QED BY <2>1 DEF Queue, TypeOK, IoType
<1>2. Tracked(c) /\ conn[c].state \in {"Connected", "Disconnecting"} /\ conn[c] \in ConnectionType
  BY DEF HandleClose, Shutdown, Polled, Tracking, Tracked, TypeOK
<1>3. UNCHANGED <<client, backlog, map>> /\ \A d \in Clients : d # c => conn'[d] = conn[d]
  BY DEF HandleClose, Shutdown, TypeOK
<1>4. \A d \in Clients : Waiting(d)' <=> Waiting(d)
  BY <1>3 DEF Waiting
<1>5. /\ \A d \in Clients : d # c => (Removing(d)' <=> Removing(d))
      /\ HandleClose(i, c) => Removing(c)'
      /\ ~HandleClose(i, c) => (Removing(c)' <=> Removing(c))
  <2>1. CASE HandleClose(i, c)
    <3>1. /\ Len(removals') = Len(removals) + 1 /\ Len(removals) \in Nat
          /\ removals'[Len(removals) + 1] = c
          /\ \A p \in 1..Len(removals) : removals'[p] = removals[p]
      BY <2>1, LenProperties DEF HandleClose, AsksForRemoval, TypeOK
    <3> QED BY <2>1, <3>1 DEF Removing
  <2>2. CASE ~HandleClose(i, c)
    BY <2>2 DEF Shutdown, Removing
  <2> QED BY <2>1, <2>2
<1>6. ASSUME NEW d \in Clients, d # c PROVE Tracked(d)'
  BY <1>1, <1>3, <1>4, <1>5, <1>6, QuietKept DEF Tracking
<1>7. Tracked(c)'
  <2>1. /\ conn'[c].loop = conn[c].loop /\ conn'[c].ups = conn[c].ups
        /\ conn'[c].state # "Connecting"
    <3>1. CASE HandleClose(i, c)
      <4>1. conn'[c] = [conn[c] EXCEPT !.state = "Disconnected", !.polled = FALSE, !.downs = @ + 1]
        BY <3>1 DEF HandleClose, Down, TypeOK
      <4> QED BY <1>2, <4>1 DEF ConnectionType
    <3>2. CASE Shutdown(i, c)
      <4>1. conn'[c] = [conn[c] EXCEPT !.state = "Disconnecting"]
        BY <3>2 DEF Shutdown, TypeOK
      <4> QED BY <1>2, <4>1 DEF ConnectionType
    <3> QED BY <3>1, <3>2
  <2>2. InOrder(c)'
    BY <1>1, <1>2, <1>3, <2>1 DEF Tracked, InOrder
  <2>3. CASE HandleClose(i, c)
    <3>1. /\ conn'[c].state = "Disconnected" /\ conn'[c].polled = FALSE
          /\ conn'[c].downs = conn[c].downs + 1
      BY <1>2, <2>3 DEF HandleClose, Down, TypeOK, ConnectionType
    <3> QED BY <1>2, <1>3, <1>4, <1>5, <2>1, <2>2, <2>3, <3>1 DEF Tracked
  <2>4. CASE Shutdown(i, c) /\ ~HandleClose(i, c)
    <3>1. /\ conn'[c].state = "Disconnecting" /\ conn'[c].downs = conn[c].downs
      BY <1>2, <2>4 DEF Shutdown, TypeOK, ConnectionType
    <3>2. c \in map' \/ Holds("destroyed", c)'
      <4>1. conn[c].state = "Connected" /\ conn[c].loop \in Workers
        BY <1>2, <2>4 DEF Shutdown, Tracked
      <4>2. Holds("destroyed", c) => Holds("destroyed", c)'
        BY <1>1, <2>1, <4>1 DEF Holds, Functor
      <4> QED BY <1>2, <1>3, <4>1, <4>2 DEF Tracked
    <3> QED BY <1>2, <1>3, <1>4, <1>5, <2>1, <2>2, <2>4, <3>1, <3>2 DEF Tracked
  <2> QED BY <2>3, <2>4
<1> QED BY <1>3, <1>6, <1>7 DEF Tracking

(* The first functor of a loop runs. *)
LEMMA RunTracking ==
  ASSUME TypeOK, Tracking, NEW i \in Workers, RunFunctor(i)
  PROVE  Tracking'
<1>1. /\ Len(Queue(i)') = Len(Queue(i)) - 1 /\ Len(Queue(i)) \in Nat
      /\ Len(Queue(i)) >= 1 /\ Queue(i)[1] = Head(io[i].batch)
      /\ \A p \in 1..(Len(Queue(i)) - 1) : Queue(i)'[p] = Queue(i)[p + 1]
      /\ \A j \in Workers : j # i => Queue(j)' = Queue(j)
      /\ Head(io[i].batch) \in Functors
  BY RunQueue, QueueTyped
<1>2. PICK f \in Functors : f = Head(io[i].batch) /\ conn' = [conn EXCEPT ![f.of] = After(f)]
  BY <1>1 DEF RunFunctor
<1>3. PICK c \in Clients : c = f.of
  BY DEF Functors
<1>4. f.op \in {"established", "destroyed"} /\ Queue(i)[1] = f /\ 1 \in 1..Len(Queue(i))
  BY <1>1, <1>2 DEF Functors
<1>5. UNCHANGED <<client, backlog, map, removals>>
  BY DEF RunFunctor
<1>6. \A d \in Clients : (Removing(d)' <=> Removing(d)) /\ (Waiting(d)' <=> Waiting(d))
  BY <1>5 DEF Removing, Waiting
<1>7. ASSUME NEW d \in Clients, d # c PROVE Tracked(d)'
  <2>1. conn'[d] = conn[d] /\ Head(io[i].batch).of # d
    BY <1>2, <1>3, <1>7 DEF TypeOK
  <2> QED BY <1>5, <1>6, <2>1, RunKept DEF Tracking
<1>8. /\ Tracked(c) /\ conn[c] \in ConnectionType /\ conn'[c] = After(f) /\ conn[c].loop = i
      /\ f.op = "established" <=> conn[c].state = "Connecting"
      /\ f.op = "destroyed" => c \notin map
  <2>1. Tracked(c) /\ conn[c] \in ConnectionType /\ conn'[c] = After(f)
    BY <1>2, <1>3 DEF Tracking, TypeOK
  <2>2. \A q \in 1..(1 - 1) : Queue(i)[q].of # c
    OBVIOUS
  <2> QED BY <1>3, <1>4, <2>1, <2>2 DEF Tracked, InOrder
<1>9. /\ conn'[c].loop = i /\ conn'[c].state # "Connecting"
      /\ f.op = "established" =>
            /\ conn'[c].state = "Connected" /\ conn'[c].polled
            /\ conn'[c].ups = conn[c].ups + 1 /\ conn'[c].downs = conn[c].downs
      /\ f.op = "destroyed" =>
            /\ conn'[c].polled = FALSE /\ conn'[c].ups = conn[c].ups
            /\ IF conn[c].state = "Connected"
                  THEN conn'[c].state = "Disconnected" /\ conn'[c].downs = conn[c].downs + 1
                  ELSE conn'[c].state = conn[c].state /\ conn'[c].downs = conn[c].downs
  <2>1. CASE f.op = "established"
    <3>1. conn'[c] = [conn[c] EXCEPT !.state = "Connected", !.polled = TRUE, !.ups = @ + 1]
      BY <1>3, <1>8, <2>1 DEF After
    <3> QED BY <1>8, <2>1, <3>1 DEF ConnectionType
  <2>2. CASE f.op = "destroyed" /\ conn[c].state = "Connected"
    <3>1. conn'[c] = [conn[c] EXCEPT !.state = "Disconnected", !.polled = FALSE, !.downs = @ + 1]
      BY <1>3, <1>8, <2>2 DEF After, Destroyed, Down
    <3> QED BY <1>8, <2>2, <3>1 DEF ConnectionType
  <2>3. CASE f.op = "destroyed" /\ conn[c].state # "Connected"
    <3>1. conn'[c] = [conn[c] EXCEPT !.polled = FALSE]
      BY <1>3, <1>8, <2>3 DEF After, Destroyed
    <3> QED BY <1>8, <2>3, <3>1 DEF ConnectionType
  <2> QED BY <1>4, <2>1, <2>2, <2>3
<1>10. InOrder(c)'
  <2> SUFFICES ASSUME NEW j \in Workers, NEW p \in 1..Len(Queue(j)'), Queue(j)'[p].of = c
               PROVE  /\ conn'[c].loop = j
                      /\ Queue(j)'[p].op = "established" <=>
                           /\ conn'[c].state = "Connecting"
                           /\ \A q \in 1..(p - 1) : Queue(j)'[q].of # c
                      /\ Queue(j)'[p].op = "destroyed" => c \notin map'
    BY DEF InOrder
  <2>1. CASE j # i
    BY <1>1, <1>8, <2>1 DEF Tracked, InOrder
  <2>2. CASE j = i
    <3>1. /\ p + 1 \in 1..Len(Queue(i)) /\ Queue(i)'[p] = Queue(i)[p + 1]
          /\ 1 \in 1..((p + 1) - 1)
      BY <1>1, <2>2
    <3>2. Queue(i)[1].of = c
      BY <1>3, <1>4
    <3>3. /\ Queue(i)[p + 1].op # "established"
          /\ Queue(i)[p + 1].op = "destroyed" => c \notin map
      BY <1>8, <2>2, <3>1, <3>2 DEF Tracked, InOrder
    <3> QED BY <1>5, <1>9, <2>2, <3>1, <3>3
  <2> QED BY <2>1, <2>2
<1>11. f.op = "established" /\ Holds("destroyed", c) => Holds("destroyed", c)'
  <2> SUFFICES ASSUME f.op = "established", Holds("destroyed", c) PROVE Holds("destroyed", c)'
    OBVIOUS
  <2>1. PICK p \in 1..Len(Queue(i)) : Queue(i)[p] = Functor("destroyed", c)
    BY <1>8 DEF Holds
  <2>2. p # 1
    BY <1>4, <2>1 DEF Functor
  <2>3. p - 1 \in 1..(Len(Queue(i)) - 1) /\ (p - 1) + 1 = p
    BY <1>1, <2>2
  <2>4. p - 1 \in 1..Len(Queue(i)') /\ Queue(i)'[p - 1] = Functor("destroyed", c)
    BY <1>1, <2>1, <2>3
  <2> QED BY <1>9, <2>4 DEF Holds, Functor
<1>12. Tracked(c)'
  <2>1. CASE f.op = "established"
    BY <1>5, <1>6, <1>8, <1>9, <1>10, <1>11, <2>1 DEF Tracked
  <2>2. CASE f.op = "destroyed"
    BY <1>5, <1>6, <1>8, <1>9, <1>10, <2>2 DEF Tracked, ConnectionType
  <2> QED BY <1>4, <2>1, <2>2
<1> QED BY <1>5, <1>7, <1>12 DEF Tracking

-----------------------------------------------------------------------------
(* Accepting a connection keeps types and threads. *)
LEMMA AcceptThreading ==
  ASSUME TypeOK, Threading, Accept
  PROVE  TypeOK' /\ Threading'
<1>1. /\ Head(backlog) \in Clients /\ Tail(backlog) \in Seq(Clients)
      /\ loops[next] \in Workers /\ next' \in Workers
  BY HeadTailProperties, NextLoop DEF Accept, Established, TypeOK
<1>2. PICK c \in Clients, i \in Workers :
         /\ backlog' = Tail(backlog)
         /\ client' = [client EXCEPT ![c] = IF @ = "left" THEN "closed" ELSE "open"]
         /\ map' = map \cup {c}
         /\ conn' = [conn EXCEPT ![c].state = "Connecting", ![c].loop = i]
         /\ Post(i, Functor("established", c))
  BY <1>1 DEF Accept, Established
<1>3. io' \in [Workers -> IoType] /\ Threading'
  BY <1>2, FunctorTyped, PostThreading DEF Accept
<1>4. conn' \in [Clients -> ConnectionType]
  <2>1. conn' = [conn EXCEPT ![c] = [conn[c] EXCEPT !.state = "Connecting", !.loop = i]]
    BY <1>2 DEF TypeOK, ConnectionType
  <2>2. conn[c] \in ConnectionType /\ i \in 0..NumThreads
    BY DEF TypeOK, Workers
  <2>3. [conn[c] EXCEPT !.state = "Connecting", !.loop = i] \in ConnectionType
    BY <2>2 DEF ConnectionType, States
  <2> QED BY <2>1, <2>3 DEF TypeOK
<1> QED BY <1>1, <1>2, <1>3, <1>4 DEF Accept, TypeOK

(* So does whatever else the main thread does. *)
LEMMA MainThreading ==
  ASSUME TypeOK, Threading, Tracking,
         \/ Listen \/ AcceptFails \/ RemoveConnection \/ LoopReturns
         \/ DestroyStore \/ DropConnection \/ DestroyPool \/ Exit
  PROVE  TypeOK' /\ Threading'
<1> USE NumThreadsAssumption
<1>1. CASE Listen
  <2>1. who = NumThreads + 1
    BY <1>1 DEF Listen, TypeOK
  <2>2. TypeOK'
    BY <1>1 DEF Listen, TypeOK, Mains, serverVars
  <2>3. loops' = [i \in 1..NumThreads |-> i]
    BY <1>1, <2>1 DEF Listen, Threading, StartsUp
  <2>4. ASSUME NEW i \in Workers PROVE Lives(i)'
    <3>1. Lives(i) /\ i < who
      BY <2>1 DEF Threading, Workers
    <3> QED BY <1>1, <3>1 DEF Listen, Lives, Told, StartsUp, Looping, Starting
  <2> QED BY <1>1, <2>2, <2>3, <2>4 DEF Listen, Threading, StartsUp
<1>2. CASE AcceptFails
  <2>1. fails' \in 0..MaxFails
    BY <1>2, TcpServerAssumption DEF AcceptFails, TypeOK
  <2> QED BY <1>2, <2>1 DEF AcceptFails, TypeOK, Threading, Lives, Told, ioVars
<1>3. CASE LoopReturns
  BY <1>3 DEF LoopReturns, TypeOK, Mains, serverVars, Threading, Lives, Told, StartsUp
<1>4. CASE DestroyStore
  BY <1>4 DEF DestroyStore, TypeOK, Mains, Threading, Lives, Told, StartsUp
<1>5. CASE DestroyPool
  <2>1. TypeOK'
    BY <1>5 DEF DestroyPool, TypeOK, Mains, serverVars
  <2>2. ASSUME NEW i \in Workers PROVE Lives(i)'
    <3>1. Lives(i) /\ ~(i < 1)
      BY DEF Threading, Workers
    <3> QED BY <1>5, <3>1 DEF DestroyPool, Lives, Told, StartsUp
  <2> QED BY <1>5, <2>1, <2>2 DEF DestroyPool, Threading, StartsUp
<1>6. CASE Exit
  BY <1>6 DEF Exit, TypeOK, Mains, serverVars, Threading, Lives, Told, StartsUp
<1>7. CASE RemoveConnection
  <2>1. removals # <<>> /\ Head(removals) \in Clients /\ Tail(removals) \in Seq(Clients)
    BY <1>7, HeadTailProperties DEF RemoveConnection, TypeOK
  <2>2. Len(removals) \in Nat \ {0} /\ Head(removals) = removals[1]
    BY <2>1, EmptySeq DEF TypeOK
  <2>3. conn[Head(removals)].loop \in Workers
    BY <2>1, <2>2 DEF Tracking, Tracked, Removing
  <2>4. io' \in [Workers -> IoType] /\ Threading'
    BY <1>7, <2>1, <2>3, FunctorTyped, PostThreading DEF RemoveConnection, PostsDestroyed
  <2> QED BY <1>7, <2>1, <2>4 DEF RemoveConnection, TypeOK
<1>8. CASE DropConnection
  <2>1. PICK c \in Clients : c \in map /\ map' = map \ {c} /\ PostsDestroyed(c)
    BY <1>8 DEF DropConnection, TypeOK
  <2>2. conn[c].loop \in Workers
    BY <2>1 DEF Tracking, Tracked
  <2>3. io' \in [Workers -> IoType] /\ Threading'
    BY <1>8, <2>1, <2>2, FunctorTyped, PostThreading DEF DropConnection, PostsDestroyed
  <2> QED BY <1>8, <2>1, <2>3 DEF DropConnection, TypeOK
<1> QED BY <1>1, <1>2, <1>3, <1>4, <1>5, <1>6, <1>7, <1>8

(* Clients leave the threads alone. *)
LEMMA ClientThreading ==
  ASSUME TypeOK, Threading, NEW c \in Clients, Client(c)
  PROVE  TypeOK' /\ Threading'
<1>1. ioVars' = ioVars /\ map' = map /\ UNCHANGED <<fails, conn, removals, store>>
  BY DEF Client, Connect, Disconnect
<1>2. Threading'
  BY <1>1 DEF ioVars, Threading, Lives, Told
<1>3. backlog' \in Seq(Clients) /\ edge' \in BOOLEAN
  <2>1. Append(backlog, c) \in Seq(Clients)
    BY DEF TypeOK
  <2> QED BY <2>1 DEF Client, Connect, Disconnect, TypeOK
<1>4. client' \in [Clients -> {"idle", "asked", "left", "open", "closed"}]
  BY DEF Client, Connect, Disconnect, TypeOK
<1> QED BY <1>1, <1>2, <1>3, <1>4 DEF TypeOK, ioVars

-----------------------------------------------------------------------------
(* One step of anybody. *)
LEMMA NextInv == ServerInv /\ [Next]_vars => ServerInv'
<1> SUFFICES ASSUME TypeOK, Threading, Tracking, [Next]_vars
             PROVE  TypeOK' /\ Threading' /\ Tracking'
  BY DEF ServerInv
<1>1. CASE (StartPool \/ EndPool) /\ UNCHANGED serverVars
  <2>1. \A j \in Workers : Queue(j)' = Queue(j)
    <3>1. \A j \in Workers : io'[j].batch = io[j].batch /\ io'[j].pending = io[j].pending
      <4> USE DEF TypeOK, IoType
      <4>1. CASE io' = io
        BY <4>1
      <4>2. CASE StartThread
        BY <4>2 DEF StartThread, Moves
      <4>3. CASE StoreQuit
        BY <4>3 DEF StoreQuit
      <4>4. CASE WakeQuit
        BY <4>4 DEF WakeQuit, WakesLoop
      <4> QED BY <1>1, <4>1, <4>2, <4>3, <4>4
              DEF StartPool, LatchOpens, Collect, CondWaits, EndPool, SeesLoop, Join
    <3> QED BY <3>1 DEF Queue
  <2> QED BY <1>1, <2>1, StartThreading, EndThreading, QuietTracking DEF serverVars
<1>2. CASE Listen \/ DestroyStore \/ DestroyPool \/ Exit \/ AcceptFails \/ LoopReturns
  <2>1. UNCHANGED <<io, client, backlog, conn, map, removals>>
    BY <1>2 DEF Listen, DestroyStore, DestroyPool, Exit, AcceptFails, LoopReturns, serverVars, ioVars
  <2> QED BY <1>2, <2>1, MainThreading, QuietTracking DEF Queue
<1>3. CASE Accept
  BY <1>3, AcceptThreading, AcceptTracking
<1>4. CASE RemoveConnection
  BY <1>4, MainThreading, RemoveTracking
<1>5. CASE DropConnection
  BY <1>5, MainThreading, DropTracking
<1>6. ASSUME NEW i \in Workers,
             (Runs(i) \/ PollTimeout(i)) /\ UNCHANGED serverVars
      PROVE  TypeOK' /\ Threading' /\ Tracking'
  BY <1>6, RunsThreading, RunsQueue, QuietTracking DEF serverVars
<1>7. ASSUME NEW i \in Workers, RunFunctor(i)
      PROVE  TypeOK' /\ Threading' /\ Tracking'
  BY <1>7, ConnectionThreading, RunTracking
<1>8. ASSUME NEW i \in Workers, StoreDone(i) \/ \E c \in Clients : UseStore(i, c)
      PROVE  TypeOK' /\ Threading' /\ Tracking'
  <2>1. PICK to : io' = [io EXCEPT ![i].at = to] /\ UNCHANGED serverVars
    BY <1>8 DEF StoreDone, UseStore, Moves
  <2>2. \A j \in Workers : Queue(j)' = Queue(j)
    BY <2>1 DEF Queue, TypeOK, IoType
  <2> QED BY <1>8, <2>1, <2>2, ConnectionThreading, QuietTracking DEF serverVars
<1>9. ASSUME NEW i \in Workers, NEW c \in Clients, HandleClose(i, c) \/ Shutdown(i, c)
      PROVE  TypeOK' /\ Threading' /\ Tracking'
  BY <1>9, ConnectionThreading, CloseTracking
<1>10. ASSUME NEW c \in Clients, Client(c)
       PROVE  TypeOK' /\ Threading' /\ Tracking'
  BY <1>10, ClientThreading, ClientTracking
<1>11. CASE UNCHANGED vars
  <2>1. UNCHANGED <<ioVars, serverVars>>
    BY <1>11 DEF vars
  <2> QED BY <2>1, QuietTracking
      DEF TypeOK, Threading, Lives, Told, ioVars, serverVars, Queue
<1> QED BY <1>1, <1>2, <1>3, <1>4, <1>5, <1>6, <1>7, <1>8, <1>9, <1>10, <1>11
    DEF Next, Lifecycle, Serves, Works

(* The inductive invariant. *)
LEMMA InvCorrect == Spec => []ServerInv
<1>1. Init => ServerInv
  BY InitThreading, InitTracking DEF ServerInv
<1> QED BY <1>1, NextInv, PTL DEF Spec

(* Every variable keeps its type, and next_ stays within the loops                *)
(* (eventloop_thread_pool.cpp:36-48).                                           *)
THEOREM TypeCorrect == Spec => []TypeOK
<1>1. ServerInv => TypeOK
  BY DEF ServerInv
<1> QED BY <1>1, InvCorrect, PTL

(* For every number of IO threads, no loop ends before it is told to, which is    *)
(* after the last post to it, and every EventLoopThread is freed after its end    *)
(* (eventloop_thread.cpp:15-21,38-55, tcp_server.cpp:28-37,52-98).              *)
THEOREM LoopsAliveCorrect == Spec => []LoopsAlive
<1>1. ServerInv => LoopsAlive
  BY DEF ServerInv, Threading, Lives, LoopsAlive, StartsUp, Workers
<1> QED BY <1>1, InvCorrect, PTL

-----------------------------------------------------------------------------
(* The refinement of ConnectionLife.  A step touches one connection; the others  *)
(* see nothing of it, and see it as their own only if the queue of their loop    *)
(* or the queue of removals changes for them.                                   *)
LEMMA Member ==
  ASSUME NEW S, NEW s \in Seq(S), NEW x
  PROVE  x \in ToSet(s) <=> \E p \in 1..Len(s) : s[p] = x
<1>1. DOMAIN s = 1..Len(s)
  BY LenProperties
<1> QED BY <1>1 DEF ToSet

LEMMA QueueTypedNext ==
  ASSUME TypeOK', NEW i \in Workers
  PROVE  Queue(i)' \in Seq(Functors)
<1>1. io'[i].batch \in Seq(Functors) /\ io'[i].pending \in Seq(Functors)
  BY DEF TypeOK, IoType
<1> QED BY <1>1, ConcatProperties DEF Queue

Has(i, f) == \E p \in 1..Len(Queue(i)) : Queue(i)[p] = f
Single(i, f) == \A p, q \in 1..Len(Queue(i)) : Queue(i)[p] = f /\ Queue(i)[q] = f => p = q

(* Queued, before and after a step, by the positions of the queues. *)
LEMMA QueuedAt ==
  ASSUME TypeOK, NEW op, NEW c \in Clients
  PROVE  Queued(op, c) <=> \E i \in Workers : conn[c].loop = i /\ Has(i, Functor(op, c))
BY QueueTyped, Member DEF Queued, Has

LEMMA QueuedAtNext ==
  ASSUME TypeOK', NEW op, NEW c \in Clients
  PROVE  Queued(op, c)' <=> \E i \in Workers : conn'[c].loop = i /\ Has(i, Functor(op, c))'
<1>1. ASSUME NEW i \in Workers
      PROVE  Functor(op, c) \in ToSet(Queue(i)') <=> Has(i, Functor(op, c))'
  BY QueueTypedNext, Member DEF Has, Functor
<1> QED BY <1>1 DEF Queued, Functor

LEMMA RemovingAt ==
  ASSUME TypeOK, NEW c \in Clients
  PROVE  c \in ToSet(removals) <=> Removing(c)
BY Member DEF TypeOK, Removing

LEMMA RemovingAtNext ==
  ASSUME TypeOK', NEW c \in Clients
  PROVE  c \in ToSet(removals') <=> Removing(c)'
BY Member DEF TypeOK, Removing

LEMMA PostHas ==
  ASSUME TypeOK, NEW i \in Workers, NEW f \in Functors, Post(i, f), NEW j \in Workers, NEW g
  PROVE  /\ Has(j, g)' <=> Has(j, g) \/ (j = i /\ g = f)
         /\ Single(j, g) /\ (g = f => ~Has(i, g)) => Single(j, g)'
<1>1. /\ Len(Queue(i)') = Len(Queue(i)) + 1 /\ Len(Queue(i)) \in Nat
      /\ Queue(i)'[Len(Queue(i)) + 1] = f
      /\ \A p \in 1..Len(Queue(i)) : Queue(i)'[p] = Queue(i)[p]
      /\ \A k \in Workers : k # i => Queue(k)' = Queue(k)
  BY PostQueue, QueueTyped
<1>2. CASE j = i
  BY <1>1, <1>2 DEF Has, Single
<1>3. CASE j # i
  BY <1>1, <1>3 DEF Has, Single
<1> QED BY <1>2, <1>3

LEMMA RunHas ==
  ASSUME TypeOK, NEW i \in Workers, RunFunctor(i), NEW h, h = Head(io[i].batch),
         NEW j \in Workers, NEW g
  PROVE  /\ h \in Functors /\ Has(i, h) /\ Queue(i)[1] = h /\ 1 \in 1..Len(Queue(i))
         /\ j # i \/ g # h => (Has(j, g)' <=> Has(j, g))
         /\ Single(i, h) => ~Has(i, h)'
         /\ Single(j, g) => Single(j, g)'
<1> DEFINE L == Len(Queue(i))
<1>1. /\ Len(Queue(i)') = L - 1 /\ L \in Nat /\ L >= 1 /\ Queue(i)[1] = h /\ h \in Functors
      /\ \A p \in 1..(L - 1) : Queue(i)'[p] = Queue(i)[p + 1]
      /\ \A k \in Workers : k # i => Queue(k)' = Queue(k)
  BY RunQueue, QueueTyped
<1>2. Has(i, h) /\ 1 \in 1..L
  BY <1>1 DEF Has
<1>3. CASE j # i
  BY <1>1, <1>3 DEF Has, Single
<1>4. ASSUME g # h, Has(i, g) PROVE Has(i, g)'
  <2>1. PICK p \in 1..L : Queue(i)[p] = g
    BY <1>4 DEF Has
  <2>2. p - 1 \in 1..(L - 1) /\ (p - 1) + 1 = p
    BY <1>1, <1>4, <2>1
  <2> QED BY <1>1, <2>1, <2>2 DEF Has
<1>5. ASSUME Has(i, g)' PROVE Has(i, g)
  BY <1>1, <1>5 DEF Has
<1>6. ASSUME Single(i, h) PROVE ~Has(i, h)'
  <2> SUFFICES ASSUME NEW p \in 1..(L - 1), Queue(i)'[p] = h PROVE FALSE
    BY <1>1 DEF Has
  <2>1. p + 1 \in 1..L /\ p + 1 # 1 /\ Queue(i)[p + 1] = h
    BY <1>1
  <2> QED BY <1>1, <1>2, <1>6, <2>1 DEF Single
<1>7. ASSUME Single(i, g) PROVE Single(i, g)'
  <2> SUFFICES ASSUME NEW p \in 1..(L - 1), NEW q \in 1..(L - 1),
                      Queue(i)'[p] = g, Queue(i)'[q] = g
               PROVE  p = q
    BY <1>1 DEF Single
  <2>1. p + 1 \in 1..L /\ q + 1 \in 1..L /\ Queue(i)[p + 1] = g /\ Queue(i)[q + 1] = g
    BY <1>1
  <2>2. p + 1 = q + 1
    BY <1>7, <2>1 DEF Single
  <2> QED BY <2>2
<1> HIDE DEF L
<1>8. CASE j = i
  BY <1>1, <1>2, <1>4, <1>5, <1>6, <1>7, <1>8 DEF L
<1> QED BY <1>1, <1>2, <1>3, <1>6, <1>8 DEF L

(* A connection that sees nothing of the step. *)
Unseen(c) == /\ conn'[c] = conn[c] /\ (c \in map' <=> c \in map)
             /\ Removing(c)' <=> Removing(c)
             /\ \A op \in {"established", "destroyed"} : Queued(op, c)' <=> Queued(op, c)

LEMMA UnseenLives ==
  ASSUME TypeOK, TypeOK', NEW c \in Clients, Unseen(c), main' \in Serving <=> main \in Serving
  PROVE  UNCHANGED Life(c)!vars
<1>1. c \in ToSet(removals') <=> c \in ToSet(removals)
  BY RemovingAt, RemovingAtNext DEF Unseen
<1>2. (c \in ToSet(removals))' = (c \in ToSet(removals))
  BY <1>1
<1>3. (c \in map)' = (c \in map) /\ (main \notin Serving)' = (main \notin Serving)
  BY DEF Unseen, Serving, StartsUp
<1>4. ASSUME NEW op \in {"established", "destroyed"} PROVE Queued(op, c)' = Queued(op, c)
  <2>1. Queued(op, c)' <=> Queued(op, c)
    BY DEF Unseen
  <2> QED BY <2>1 DEF Queued
<1>5. conn'[c] = conn[c]
  BY DEF Unseen
<1> QED BY <1>2, <1>3, <1>4, <1>5, Zenon DEF Life!vars

(* What keeps it from being removed or destroyed twice stays with it. *)
LEMMA OnceKept ==
  ASSUME NEW c \in Clients, Once(c),
         conn'[c].state = conn[c].state, c \in map' <=> c \in map, Removing(c)' <=> Removing(c),
         main' \in Serving => main \in Serving,
         \A j \in Workers : Single(j, Functor("destroyed", c)) => Single(j, Functor("destroyed", c))'
  PROVE  Once(c)'
<1>1. \A j \in Workers : Single(j, Functor("destroyed", c))'
  BY DEF Once, Single
<1>2. main' \in Serving /\ conn'[c].state # "none"
        => c \in map' \/ (conn'[c].state = "Disconnected" /\ ~Removing(c)')
  BY DEF Once
<1> QED BY <1>1, <1>2 DEF Once, Single, Functor, Serving, StartsUp

(* Connections, queues and removals stay as they are. *)
LEMMA QuietLives ==
  ASSUME TypeOK, TypeOK', HandedOnce, UNCHANGED <<conn, map, removals>>,
         \A j \in Workers : Queue(j)' = Queue(j), main' \in Serving <=> main \in Serving
  PROVE  HandedOnce' /\ \A c \in Clients : UNCHANGED Life(c)!vars
<1>1. ASSUME NEW c \in Clients PROVE Once(c)' /\ Unseen(c)
  <2>1. \A op \in {"established", "destroyed"} : Queued(op, c)' <=> Queued(op, c)
    BY DEF Queued, Functor
  <2>2. Unseen(c)
    BY <2>1 DEF Unseen, Removing
  <2>3. \A j \in Workers : Single(j, Functor("destroyed", c)) => Single(j, Functor("destroyed", c))'
    BY DEF Single, Functor
  <2> QED BY <2>2, <2>3, OnceKept DEF Unseen, HandedOnce
<1>2. IsInjective(removals')
  BY DEF HandedOnce
<1>3. \A c \in Clients : UNCHANGED Life(c)!vars
  BY <1>1, UnseenLives
<1> QED BY <1>1, <1>2, <1>3 DEF HandedOnce

(* A functor of another connection is posted, or run. *)
LEMMA PostUnseen ==
  ASSUME TypeOK, TypeOK', NEW d \in Clients, Once(d), conn'[d] = conn[d],
         d \in map' <=> d \in map, Removing(d)' <=> Removing(d),
         NEW i \in Workers, NEW f \in Functors, Post(i, f), f.of # d,
         main' \in Serving <=> main \in Serving
  PROVE  Once(d)' /\ UNCHANGED Life(d)!vars
<1>1. ASSUME NEW op \in {"established", "destroyed"}, NEW j \in Workers
      PROVE  /\ Has(j, Functor(op, d))' <=> Has(j, Functor(op, d))
             /\ Single(j, Functor(op, d)) => Single(j, Functor(op, d))'
  <2>1. PICK g : g = Functor(op, d) /\ g # f
    <3>1. Functor(op, d).of = d
      BY DEF Functor
    <3>2. Functor(op, d) # f
      BY <3>1
    <3> QED BY <3>2, Zenon
  <2>2. (Has(j, g)' <=> Has(j, g)) /\ (Single(j, g) => Single(j, g)')
    BY <2>1, PostHas
  <2> QED BY <2>1, <2>2
<1>2. \A op \in {"established", "destroyed"} : Queued(op, d)' <=> Queued(op, d)
  BY <1>1, QueuedAt, QueuedAtNext
<1>3. Unseen(d)
  BY <1>2 DEF Unseen
<1> QED BY <1>1, <1>3, OnceKept, UnseenLives

LEMMA RunUnseen ==
  ASSUME TypeOK, TypeOK', NEW d \in Clients, Once(d), conn'[d] = conn[d],
         d \in map' <=> d \in map, Removing(d)' <=> Removing(d),
         NEW i \in Workers, RunFunctor(i), Head(io[i].batch).of # d,
         main' \in Serving <=> main \in Serving
  PROVE  Once(d)' /\ UNCHANGED Life(d)!vars
<1>1. ASSUME NEW op \in {"established", "destroyed"}, NEW j \in Workers
      PROVE  /\ Has(j, Functor(op, d))' <=> Has(j, Functor(op, d))
             /\ Single(j, Functor(op, d)) => Single(j, Functor(op, d))'
  <2>1. PICK h : h = Head(io[i].batch)
    OBVIOUS
  <2>2. PICK g : g = Functor(op, d) /\ g # h
    <3>1. Functor(op, d).of = d
      BY DEF Functor
    <3>2. Functor(op, d) # h
      BY <2>1, <3>1
    <3> QED BY <3>2, Zenon
  <2>3. (Has(j, g)' <=> Has(j, g)) /\ (Single(j, g) => Single(j, g)')
    BY <2>1, <2>2, RunHas
  <2> QED BY <2>2, <2>3
<1>2. \A op \in {"established", "destroyed"} : Queued(op, d)' <=> Queued(op, d)
  BY <1>1, QueuedAt, QueuedAtNext
<1>3. Unseen(d)
  BY <1>2 DEF Unseen
<1> QED BY <1>1, <1>3, OnceKept, UnseenLives

(* Equal as truth values. *)
LEMMA SameTruth ==
  ASSUME TypeOK, TypeOK', NEW c \in Clients
  PROVE  /\ (Removing(c)' <=> Removing(c)) => (c \in ToSet(removals))' = (c \in ToSet(removals))
         /\ \A op \in {"established", "destroyed"} :
              /\ (Queued(op, c)' <=> Queued(op, c)) => Queued(op, c)' = Queued(op, c)
              /\ Queued(op, c)' => Queued(op, c)' = TRUE
              /\ ~Queued(op, c)' => Queued(op, c)' = FALSE
         /\ (main' \in Serving <=> main \in Serving) => (main \notin Serving)' = (main \notin Serving)
<1>1. (c \in ToSet(removals') <=> Removing(c)') /\ (c \in ToSet(removals) <=> Removing(c))
  BY RemovingAt, RemovingAtNext
<1>2. (Removing(c)' <=> Removing(c)) => (c \in ToSet(removals))' = (c \in ToSet(removals))
  BY <1>1
<1>3. \A op \in {"established", "destroyed"} :
              /\ (Queued(op, c)' <=> Queued(op, c)) => Queued(op, c)' = Queued(op, c)
              /\ Queued(op, c)' => Queued(op, c)' = TRUE
              /\ ~Queued(op, c)' => Queued(op, c)' = FALSE
  BY DEF Queued
<1>4. (main' \in Serving <=> main \in Serving) => (main \notin Serving)' = (main \notin Serving)
  BY DEF Serving, StartsUp
<1> QED BY <1>2, <1>3, <1>4

(* A connection is accepted. *)
LEMMA AcceptLives ==
  ASSUME ServerInv, TypeOK', Tracking', HandedOnce, Accept
  PROVE  HandedOnce' /\ \A d \in Clients : [Life(d)!Next]_(Life(d)!vars)
<1> USE DEF ServerInv
<1>1. backlog # <<>> /\ Head(backlog) \in Clients
  BY HeadTailProperties DEF Accept, TypeOK
<1>2. loops[next] \in Workers
  BY NextLoop DEF Accept, Established
<1>3. PICK c \in Clients, i \in Workers :
         /\ c = Head(backlog)
         /\ map' = map \cup {c}
         /\ conn' = [conn EXCEPT ![c].state = "Connecting", ![c].loop = i]
         /\ Post(i, Functor("established", c))
         /\ removals' = removals /\ main = "serve" /\ main' = main
  BY <1>1, <1>2 DEF Accept, Established
<1>4. Waiting(c) /\ Tracked(c)
  <2>1. c = backlog[1] /\ Len(backlog) \in Nat \ {0}
    BY <1>1, <1>3, EmptySeq DEF TypeOK
  <2> QED BY <2>1 DEF Waiting, Tracking
<1>5. /\ conn[c].state = "none" /\ conn[c].loop \notin Workers /\ ~Removing(c)
  BY <1>4 DEF Tracked
<1>6. /\ conn'[c].state = "Connecting" /\ conn'[c].loop = i
      /\ conn'[c].polled = conn[c].polled
      /\ conn'[c].ups = conn[c].ups /\ conn'[c].downs = conn[c].downs
  BY <1>3 DEF TypeOK, ConnectionType
<1>7. /\ main \in Serving /\ main' \in Serving
      /\ \A d \in Clients : Removing(d)' <=> Removing(d)
  BY <1>3 DEF Serving, Removing
<1>8. Functor("established", c) \in Functors /\ Functor("established", c).of = c
      /\ Functor("destroyed", c) # Functor("established", c)
  BY FunctorTyped DEF Functor
<1>9. ASSUME NEW d \in Clients, d # c PROVE Once(d)' /\ UNCHANGED Life(d)!vars
  <2>1. conn'[d] = conn[d] /\ (d \in map' <=> d \in map)
    BY <1>3, <1>9 DEF TypeOK
  <2>2. PICK f \in Functors : Post(i, f) /\ f.of # d
    BY <1>3, <1>8, <1>9
  <2> QED BY <1>7, <2>1, <2>2, PostUnseen DEF HandedOnce
<1>10. ASSUME NEW j \in Workers, NEW op
       PROVE  ~Has(j, Functor(op, c))
  <2>1. InOrder(c)
    BY <1>4 DEF Tracked
  <2> QED BY <1>5, <2>1 DEF InOrder, Has, Functor
<1>11. /\ Queued("established", c)'
       /\ ~Queued("destroyed", c) /\ ~Queued("destroyed", c)'
  <2>1. \A j \in Workers : ~Has(j, Functor("destroyed", c))'
    BY <1>3, <1>8, <1>10, PostHas
  <2>2. Has(i, Functor("established", c))'
    BY <1>3, <1>8, PostHas
  <2> QED BY <1>6, <1>10, <2>1, <2>2, QueuedAt, QueuedAtNext
<1>12. Once(c)'
  <2>1. \A j \in Workers : Single(j, Functor("destroyed", c))'
    BY <1>3, <1>8, <1>10, PostHas, SMTT(30) DEF HandedOnce, Once, Single
  <2>2. c \in map'
    BY <1>3
  <2> QED BY <2>1, <2>2 DEF Once, Single, Functor, Serving, StartsUp
<1>13. Life(c)!Accept
  <2>1. (c \in map)' = TRUE
    BY <1>3
  <2>2. (main \notin Serving) = FALSE
    BY <1>7
  <2>3. /\ Queued("established", c)' = TRUE
        /\ Queued("destroyed", c)' = Queued("destroyed", c)
        /\ (c \in ToSet(removals))' = (c \in ToSet(removals))
        /\ (main \notin Serving)' = (main \notin Serving)
    BY <1>7, <1>11, SameTruth
  <2> QED BY <1>5, <1>6, <2>1, <2>2, <2>3, Zenon DEF Life!Accept
<1>14. \A d \in Clients : Once(d)'
  BY <1>9, <1>12
<1>15. HandedOnce'
  BY <1>3, <1>14 DEF HandedOnce
<1>16. \A d \in Clients : Life(d)!Next \/ UNCHANGED Life(d)!vars
  BY <1>9, <1>13, Zenon DEF Life!Next
<1> QED BY <1>15, <1>16

(* A connection leaves the map and is handed to its connectDestroyed(). *)
LEMMA HandedToLoop ==
  ASSUME TypeOK, TypeOK', NEW c \in Clients, Tracked(c), Once(c), c \in map,
         conn' = conn, c \notin map', PostsDestroyed(c), main' = main,
         main \in Serving => conn[c].state = "Disconnected" /\ ~Removing(c)'
  PROVE  Once(c)' /\ ~Queued("destroyed", c) /\ Queued("destroyed", c)'
         /\ (Queued("established", c)' <=> Queued("established", c))
<1>1. conn[c].loop \in Workers /\ InOrder(c) /\ conn[c].state # "none"
  BY DEF Tracked
<1>2. PICK i \in Workers, f \in Functors, e \in Functors :
         /\ i = conn[c].loop /\ Post(i, f)
         /\ f = Functor("destroyed", c) /\ e = Functor("established", c) /\ e # f
  <2>1. Functor("established", c) # Functor("destroyed", c)
    BY DEF Functor
  <2> QED BY <1>1, <2>1, FunctorTyped DEF PostsDestroyed
<1>3. ASSUME NEW j \in Workers PROVE ~Has(j, f)
  BY <1>1, <1>2 DEF InOrder, Has, Functor
<1>4. ASSUME NEW j \in Workers
      PROVE  /\ Has(j, f)' <=> j = i
             /\ Has(j, e)' <=> Has(j, e)
             /\ Single(j, f)'
  <2>1. Single(j, f)
    BY <1>3 DEF Single, Has
  <2> QED BY <1>2, <1>3, <2>1, PostHas
<1>5. /\ Queued("destroyed", c) <=> \E j \in Workers : conn[c].loop = j /\ Has(j, f)
      /\ Queued("destroyed", c)' <=> \E j \in Workers : conn'[c].loop = j /\ Has(j, f)'
      /\ Queued("established", c) <=> \E j \in Workers : conn[c].loop = j /\ Has(j, e)
      /\ Queued("established", c)' <=> \E j \in Workers : conn'[c].loop = j /\ Has(j, e)'
  BY <1>2, QueuedAt, QueuedAtNext
<1>6. ~Queued("destroyed", c) /\ Queued("destroyed", c)'
         /\ (Queued("established", c)' <=> Queued("established", c))
  BY <1>2, <1>3, <1>4, <1>5
<1>7. main' \in Serving => conn'[c].state = "Disconnected" /\ ~Removing(c)'
  BY DEF Serving, StartsUp
<1> QED BY <1>2, <1>4, <1>6 DEF Once, Single, Functor, Serving, StartsUp

(* removeConnectionInLoop(). *)
LEMMA RemoveLives ==
  ASSUME ServerInv, TypeOK', HandedOnce, RemoveConnection
  PROVE  HandedOnce' /\ \A d \in Clients : [Life(d)!Next]_(Life(d)!vars)
<1> USE DEF ServerInv
<1>1. removals # <<>> /\ Head(removals) \in Clients
  BY HeadTailProperties DEF RemoveConnection, TypeOK
<1>2. PICK c \in Clients :
         /\ c = Head(removals) /\ removals' = Tail(removals)
         /\ map' = map \ {c} /\ PostsDestroyed(c)
         /\ conn' = conn /\ main = "serve" /\ main' = main
  BY <1>1 DEF RemoveConnection
<1>3. /\ c = removals[1] /\ Len(removals) \in Nat \ {0}
      /\ DOMAIN removals = 1..Len(removals) /\ DOMAIN removals' = 1..(Len(removals) - 1)
      /\ Len(removals') = Len(removals) - 1
      /\ \A p \in 1..(Len(removals) - 1) : removals'[p] = removals[p + 1]
  BY <1>1, <1>2, HeadTailProperties, LenProperties, EmptySeq DEF TypeOK
<1>4. \A p, q \in 1..Len(removals) : removals[p] = removals[q] => p = q
  BY <1>3 DEF HandedOnce, IsInjective
<1>5. IsInjective(removals') /\ ~Removing(c)'
  <2>1. \A p, q \in 1..Len(removals') : removals'[p] = removals'[q] => p = q
    BY <1>3, <1>4
  <2>2. \A p \in 1..Len(removals') : removals'[p] # c
    BY <1>3, <1>4
  <2> QED BY <1>3, <2>1, <2>2 DEF IsInjective, Removing
<1>6. ASSUME NEW d \in Clients, d # c PROVE Removing(d)' <=> Removing(d)
  <2>1. ASSUME NEW p \in 1..Len(removals), removals[p] = d PROVE Removing(d)'
    <3>1. p - 1 \in 1..(Len(removals) - 1) /\ (p - 1) + 1 = p
      BY <1>3, <1>6, <2>1
    <3> QED BY <1>3, <2>1, <3>1 DEF Removing
  <2>2. ASSUME NEW p \in 1..Len(removals'), removals'[p] = d PROVE Removing(d)
    BY <1>3, <2>2 DEF Removing
  <2> QED BY <2>1, <2>2 DEF Removing
<1>7. Tracked(c) /\ Once(c) /\ Removing(c) /\ main \in Serving
  BY <1>2, <1>3 DEF Tracking, Removing, HandedOnce, Serving
<1>8. conn[c].state = "Disconnected" /\ conn[c].loop \in Workers /\ c \in map
  BY <1>7 DEF Tracked, Once
<1>9. Once(c)' /\ ~Queued("destroyed", c) /\ Queued("destroyed", c)'
         /\ (Queued("established", c)' <=> Queued("established", c))
  BY <1>2, <1>5, <1>7, <1>8, HandedToLoop
<1>10. ASSUME NEW d \in Clients, d # c PROVE Once(d)' /\ UNCHANGED Life(d)!vars
  <2>1. PICK i \in Workers, f \in Functors : Post(i, f) /\ f.of # d
    BY <1>2, <1>8, <1>10, FunctorTyped DEF PostsDestroyed, Functor
  <2> QED BY <1>2, <1>6, <1>10, <2>1, PostUnseen DEF HandedOnce
<1>11. Life(c)!Remove
  <2>1. (c \in map)' = FALSE
    BY <1>2
  <2>2. c \in ToSet(removals) /\ (c \in ToSet(removals))' = FALSE
    BY <1>5, <1>7, RemovingAt, RemovingAtNext
  <2>3. /\ Queued("established", c)' = Queued("established", c)
        /\ Queued("destroyed", c)' = TRUE
        /\ (main \notin Serving)' = (main \notin Serving)
    BY <1>2, <1>9, SameTruth
  <2> QED BY <1>2, <1>7, <1>8, <1>9, <2>1, <2>2, <2>3, Zenon DEF Life!Remove
<1>12. \A d \in Clients : Once(d)'
  BY <1>9, <1>10
<1>13. HandedOnce'
  BY <1>5, <1>12 DEF HandedOnce
<1>14. \A d \in Clients : Life(d)!Next \/ UNCHANGED Life(d)!vars
  BY <1>10, <1>11, Zenon DEF Life!Next
<1> QED BY <1>13, <1>14

(* ~TcpServer, for one connection of the map. *)
LEMMA DropLives ==
  ASSUME ServerInv, TypeOK', HandedOnce, DropConnection
  PROVE  HandedOnce' /\ \A d \in Clients : [Life(d)!Next]_(Life(d)!vars)
<1> USE DEF ServerInv
<1>1. PICK c \in Clients : /\ c \in map /\ map' = map \ {c} /\ PostsDestroyed(c)
                          /\ conn' = conn /\ removals' = removals
                          /\ main = "server" /\ main' = main
  BY DEF DropConnection, TypeOK
<1>2. Tracked(c) /\ Once(c) /\ conn[c].loop \in Workers
  BY <1>1 DEF Tracking, Tracked, HandedOnce
<1>3. \A d \in Clients : Removing(d)' <=> Removing(d)
  BY <1>1 DEF Removing
<1>4. main \notin Serving
  BY <1>1 DEF Serving, StartsUp
<1>5. Once(c)' /\ ~Queued("destroyed", c) /\ Queued("destroyed", c)'
         /\ (Queued("established", c)' <=> Queued("established", c))
  BY <1>1, <1>2, <1>4, HandedToLoop
<1>6. ASSUME NEW d \in Clients, d # c PROVE Once(d)' /\ UNCHANGED Life(d)!vars
  <2>1. PICK i \in Workers, f \in Functors : Post(i, f) /\ f.of # d
    BY <1>1, <1>2, <1>6, FunctorTyped DEF PostsDestroyed, Functor
  <2> QED BY <1>1, <1>3, <1>6, <2>1, PostUnseen DEF HandedOnce
<1>7. Life(c)!Drop
  <2>1. (c \in map)' = FALSE
    BY <1>1
  <2>2. /\ Queued("established", c)' = Queued("established", c)
        /\ Queued("destroyed", c)' = TRUE
        /\ (c \in ToSet(removals))' = (c \in ToSet(removals))
    BY <1>3, <1>5, SameTruth
  <2>3. (main \notin Serving)' = TRUE
    BY <1>1, <1>4 DEF Serving, StartsUp
  <2> QED BY <1>1, <1>5, <2>1, <2>2, <2>3, Zenon DEF Life!Drop
<1>8. \A d \in Clients : Once(d)'
  BY <1>5, <1>6
<1>9. HandedOnce'
  BY <1>1, <1>8 DEF HandedOnce
<1>10. \A d \in Clients : Life(d)!Next \/ UNCHANGED Life(d)!vars
  BY <1>6, <1>7, Zenon DEF Life!Next
<1> QED BY <1>9, <1>10

(* An IO thread closes a connection or shuts it down. *)
LEMMA CloseLives ==
  ASSUME ServerInv, TypeOK', HandedOnce, NEW i \in Workers, NEW c \in Clients,
         HandleClose(i, c) \/ Shutdown(i, c)
  PROVE  HandedOnce' /\ \A d \in Clients : [Life(d)!Next]_(Life(d)!vars)
<1> USE DEF ServerInv
<1>1. \A j \in Workers : Queue(j)' = Queue(j)
  <2>1. io' = [io EXCEPT ![i].at = "swap"]
    BY DEF HandleClose, Shutdown, Moves
  <2> QED BY <2>1 DEF Queue, TypeOK, IoType
<1>2. /\ Tracked(c) /\ Once(c) /\ conn[c].state \in {"Connected", "Disconnecting"}
      /\ conn[c].polled /\ conn[c] \in ConnectionType
  BY DEF HandleClose, Shutdown, Polled, Tracking, Tracked, TypeOK, HandedOnce
<1>3. /\ map' = map /\ main' = main /\ conn'[c].loop = conn[c].loop
      /\ \A d \in Clients : d # c => conn'[d] = conn[d]
      /\ \/ HandleClose(i, c) /\ conn'[c] = Down(c)
         \/ Shutdown(i, c) /\ conn'[c] = [conn[c] EXCEPT !.state = "Disconnecting"]
  <2>1. map' = map /\ main' = main
    BY DEF HandleClose, Shutdown
  <2>2. CASE HandleClose(i, c)
    <3>1. conn' = [conn EXCEPT ![c] = Down(c)]
      BY <2>2 DEF HandleClose
    <3>2. Down(c).loop = conn[c].loop
      BY <1>2 DEF Down, ConnectionType
    <3> QED BY <2>1, <2>2, <3>1, <3>2 DEF TypeOK
  <2>3. CASE Shutdown(i, c)
    <3>1. conn' = [conn EXCEPT ![c] = [conn[c] EXCEPT !.state = "Disconnecting"]]
      BY <2>3 DEF Shutdown, TypeOK
    <3> QED BY <1>2, <2>1, <2>3, <3>1 DEF TypeOK, ConnectionType
  <2> QED BY <2>2, <2>3
<1>4. ~Removing(c)
  BY <1>2 DEF Tracked
<1>5. /\ \A d \in Clients : d # c => (Removing(d)' <=> Removing(d))
      /\ HandleClose(i, c) => Removing(c)'
      /\ ~HandleClose(i, c) => (Removing(c)' <=> Removing(c))
      /\ IsInjective(removals')
  <2>1. CASE HandleClose(i, c)
    <3>1. /\ Len(removals') = Len(removals) + 1 /\ Len(removals) \in Nat
          /\ removals'[Len(removals) + 1] = c
          /\ \A p \in 1..Len(removals) : removals'[p] = removals[p]
          /\ DOMAIN removals = 1..Len(removals) /\ DOMAIN removals' = 1..(Len(removals) + 1)
      BY <2>1, LenProperties DEF HandleClose, AsksForRemoval, TypeOK
    <3>2. IsInjective(removals')
      BY <1>4, <3>1 DEF HandedOnce, Removing, IsInjective
    <3> QED BY <2>1, <3>1, <3>2 DEF Removing
  <2>2. CASE ~HandleClose(i, c)
    BY <2>2 DEF Shutdown, Removing, HandedOnce
  <2> QED BY <2>1, <2>2
<1>6. ASSUME NEW d \in Clients
      PROVE  \A op \in {"established", "destroyed"} : Queued(op, d)' <=> Queued(op, d)
  <2>1. conn'[d].loop = conn[d].loop
    BY <1>3
  <2> QED BY <1>1, <2>1 DEF Queued, Functor
<1>7. ASSUME NEW d \in Clients
      PROVE  \A j \in Workers : Single(j, Functor("destroyed", d)) => Single(j, Functor("destroyed", d))'
  BY <1>1 DEF Single, Functor
<1>8. ASSUME NEW d \in Clients, d # c PROVE Once(d)' /\ UNCHANGED Life(d)!vars
  <2>1. Unseen(d)
    BY <1>3, <1>5, <1>6, <1>8 DEF Unseen
  <2>2. Once(d) /\ (main' \in Serving <=> main \in Serving)
    BY <1>3 DEF HandedOnce, Serving, StartsUp
  <2> QED BY <1>3, <1>5, <1>7, <1>8, <2>1, <2>2, OnceKept, UnseenLives
<1>9. Once(c)'
  <2>1. main' \in Serving => c \in map'
    BY <1>2, <1>3 DEF Once, Serving, StartsUp
  <2>2. \A j \in Workers : Single(j, Functor("destroyed", c))'
    BY <1>2, <1>7 DEF Once, Single
  <2> QED BY <2>1, <2>2 DEF Once, Single, Functor, Serving, StartsUp
<1>10. /\ \A op \in {"established", "destroyed"} : Queued(op, c)' = Queued(op, c)
       /\ (main \notin Serving)' = (main \notin Serving)
       /\ (c \in map)' = (c \in map)
  BY <1>3, <1>6, SameTruth
<1>11. Life(c)!Next
  <2>1. CASE HandleClose(i, c)
    <3>1. /\ conn'[c].state = "Disconnected" /\ conn'[c].polled = FALSE
          /\ conn'[c].ups = conn[c].ups /\ conn'[c].downs = conn[c].downs + 1
      BY <1>2, <2>1 DEF HandleClose, Down, TypeOK, ConnectionType
    <3>2. (c \in ToSet(removals))' = TRUE
      BY <1>5, <2>1, RemovingAtNext
    <3>3. conn'[c].polled = ~conn[c].polled
      BY <1>2, <3>1
    <3>4. Life(c)!Close
      BY <1>2, <1>10, <3>1, <3>2, <3>3, Zenon DEF Life!Close, Life!Open
    <3> QED BY <3>4 DEF Life!Next
  <2>2. CASE Shutdown(i, c) /\ ~HandleClose(i, c)
    <3>1. /\ conn[c].state = "Connected"
          /\ conn'[c].state = "Disconnecting" /\ conn'[c].polled = conn[c].polled
          /\ conn'[c].ups = conn[c].ups /\ conn'[c].downs = conn[c].downs
      <4>1. conn[c].state = "Connected"
        BY <2>2 DEF Shutdown
      <4>2. conn'[c] = [conn[c] EXCEPT !.state = "Disconnecting"]
        BY <1>3, <2>2
      <4> QED BY <1>2, <4>1, <4>2 DEF ConnectionType
    <3>2. (c \in ToSet(removals))' = (c \in ToSet(removals))
      BY <1>5, <2>2, SameTruth
    <3>3. Life(c)!StartClosing
      BY <1>2, <1>10, <3>1, <3>2, Zenon DEF Life!StartClosing
    <3> QED BY <3>3 DEF Life!Next
  <2> QED BY <2>1, <2>2
<1>12. \A d \in Clients : Once(d)'
  BY <1>8, <1>9
<1>13. HandedOnce'
  BY <1>5, <1>12 DEF HandedOnce
<1>14. \A d \in Clients : Life(d)!Next \/ UNCHANGED Life(d)!vars
  BY <1>8, <1>11, Zenon
<1> QED BY <1>13, <1>14

(* The first functor of a loop runs: there is no other of its kind for its      *)
(* connection.                                                                  *)
LEMMA RunLives ==
  ASSUME ServerInv, TypeOK', Tracking', HandedOnce, NEW i \in Workers, RunFunctor(i)
  PROVE  HandedOnce' /\ \A d \in Clients : [Life(d)!Next]_(Life(d)!vars)
<1> USE DEF ServerInv
<1>1. PICK f \in Functors : /\ f = Head(io[i].batch) /\ conn' = [conn EXCEPT ![f.of] = After(f)]
                            /\ Has(i, f) /\ Queue(i)[1] = f /\ 1 \in 1..Len(Queue(i))
  <2>1. PICK f : f = Head(io[i].batch)
    OBVIOUS
  <2>2. /\ f \in Functors /\ Has(i, f) /\ Queue(i)[1] = f /\ 1 \in 1..Len(Queue(i))
    BY <2>1, RunHas, ZenonT(30)
  <2>3. conn' = [conn EXCEPT ![f.of] = After(f)]
    BY <2>1 DEF RunFunctor
  <2> QED BY <2>1, <2>2, <2>3
<1>2. PICK c \in Clients : /\ c = f.of
                           /\ f = Functor("established", c) \/ f = Functor("destroyed", c)
  BY DEF Functors, Functor
<1>3. map' = map /\ removals' = removals /\ main' = main
  BY DEF RunFunctor
<1>4. \A d \in Clients : Removing(d)' <=> Removing(d)
  BY <1>3 DEF Removing
<1>5. ASSUME NEW d \in Clients, d # c PROVE Once(d)' /\ UNCHANGED Life(d)!vars
  <2>1. conn'[d] = conn[d] /\ Head(io[i].batch).of # d
    BY <1>1, <1>2, <1>5 DEF TypeOK
  <2>2. Once(d) /\ (d \in map' <=> d \in map) /\ (main' \in Serving <=> main \in Serving)
    BY <1>3 DEF HandedOnce, Serving, StartsUp
  <2> QED BY <1>4, <2>1, <2>2, RunUnseen
<1>6. /\ Tracked(c) /\ Once(c) /\ conn[c] \in ConnectionType /\ conn'[c] = After(f)
      /\ conn[c].loop = i
      /\ f.op = "established" <=> conn[c].state = "Connecting"
      /\ f.op = "destroyed" => c \notin map
  <2>0. i \in Workers /\ f.of = c /\ Queue(i)[1] = f /\ 1 \in 1..Len(Queue(i))
    BY <1>1, <1>2
  <2>1. Tracked(c) /\ Once(c) /\ conn[c] \in ConnectionType /\ conn'[c] = After(f)
    BY <1>1, <1>2 DEF Tracking, HandedOnce, TypeOK
  <2>2. \A q \in 1..(1 - 1) : Queue(i)[q].of # c
    OBVIOUS
  <2>3. InOrder(c)
    BY <2>1 DEF Tracked
  <2>4. /\ conn[c].loop = i
        /\ f.op = "established" <=> conn[c].state = "Connecting"
        /\ f.op = "destroyed" => c \notin map
    BY <2>0, <2>2, <2>3 DEF InOrder
  <2> QED BY <2>1, <2>4
<1>7. /\ (c \in map)' = (c \in map) /\ (main \notin Serving)' = (main \notin Serving)
      /\ (c \in ToSet(removals))' = (c \in ToSet(removals))
  BY <1>3
<1>8. \A j \in Workers : Single(j, Functor("destroyed", c))'
  <2>1. ASSUME NEW j \in Workers, NEW g, Single(j, g) PROVE Single(j, g)'
    BY <1>1, <2>1, RunHas
  <2> QED BY <1>6, <2>1 DEF Once, Single
<1>9. ASSUME f = Functor("established", c) PROVE Once(c)' /\ Life(c)!Next
  <2>1. /\ f.op = "established" /\ f.of = c /\ conn[c].state = "Connecting"
        /\ Functor("destroyed", c) # f
    BY <1>6, <1>9 DEF Functor
  <2>2. /\ conn'[c].state = "Connected" /\ conn'[c].polled = TRUE /\ conn'[c].ups = conn[c].ups + 1
        /\ conn'[c].downs = conn[c].downs /\ conn'[c].loop = conn[c].loop
    BY <1>6, <2>1 DEF After, ConnectionType
  <2>3. Queued("established", c) /\ ~Queued("established", c)'
    <3>1. Queued("established", c)
      BY <1>1, <1>6, <1>9, QueuedAt
    <3>2. ASSUME NEW j \in Workers PROVE ~Has(j, f)'
      <4>1. InOrder(c)'
        BY DEF Tracking, Tracked
      <4> QED BY <2>1, <2>2, <4>1 DEF InOrder, Has
    <3> QED BY <1>9, <3>1, <3>2, QueuedAtNext
  <2>4. Queued("destroyed", c)' <=> Queued("destroyed", c)
    <3>1. ASSUME NEW j \in Workers, NEW g, g # f PROVE Has(j, g)' <=> Has(j, g)
      BY <1>1, <3>1, RunHas
    <3>2. \A j \in Workers : Has(j, Functor("destroyed", c))' <=> Has(j, Functor("destroyed", c))
      BY <2>1, <3>1
    <3> QED BY <2>2, <3>2, QueuedAt, QueuedAtNext
  <2>5. Once(c)'
    <3>1. main' \in Serving => c \in map'
      BY <1>3, <1>6, <2>1 DEF Once, Serving, StartsUp
    <3> QED BY <1>8, <3>1 DEF Once, Single, Functor, Serving, StartsUp
  <2>6. Life(c)!Establish
    <3>1. /\ Queued("established", c)' = FALSE
          /\ Queued("destroyed", c)' = Queued("destroyed", c)
      BY <2>3, <2>4, SameTruth
    <3> QED BY <1>7, <2>1, <2>2, <2>3, <3>1, Zenon DEF Life!Establish
  <2> QED BY <2>5, <2>6, Zenon DEF Life!Next
<1>10. ASSUME f = Functor("destroyed", c) PROVE Once(c)' /\ Life(c)!Next
  <2>1. /\ f.op = "destroyed" /\ f.of = c /\ c \notin map /\ conn[c].state # "Connecting"
        /\ Functor("established", c) # f
    BY <1>6, <1>10 DEF Functor
  <2>2. /\ conn'[c].polled = FALSE /\ conn'[c].ups = conn[c].ups /\ conn'[c].loop = conn[c].loop
        /\ IF conn[c].state = "Connected"
             THEN conn'[c].state = "Disconnected" /\ conn'[c].downs = conn[c].downs + 1
             ELSE conn'[c].state = conn[c].state /\ conn'[c].downs = conn[c].downs
    BY <1>6, <2>1 DEF After, Destroyed, Down, ConnectionType
  <2>3. Queued("destroyed", c) /\ ~Queued("destroyed", c)'
    <3>1. Queued("destroyed", c)
      BY <1>1, <1>6, <1>10, QueuedAt
    <3>2. Single(i, f)
      BY <1>6, <1>10 DEF Once, Single
    <3>3. ~Has(i, f)'
      BY <1>1, <3>2, RunHas
    <3> QED BY <1>6, <1>10, <2>2, <3>1, <3>3, QueuedAtNext
  <2>4. ~Queued("established", c) /\ ~Queued("established", c)'
    <3>1. conn'[c].state # "Connecting"
      BY <2>1, <2>2
    <3>2. InOrder(c) /\ InOrder(c)'
      BY <1>6 DEF Tracking, Tracked
    <3>3. ASSUME NEW j \in Workers
          PROVE  ~Has(j, Functor("established", c)) /\ ~Has(j, Functor("established", c))'
      BY <2>1, <3>1, <3>2 DEF InOrder, Has, Functor
    <3> QED BY <3>3, QueuedAt, QueuedAtNext
  <2>5. Once(c)'
    <3>1. main' \in Serving /\ conn'[c].state # "none"
            => conn'[c].state = "Disconnected" /\ ~Removing(c)'
      <4>1. conn'[c].state # "none" => conn[c].state # "none"
        BY <2>2
      <4> QED BY <1>3, <1>4, <1>6, <2>1, <2>2, <4>1 DEF Once, Serving, StartsUp
    <3> QED BY <1>8, <3>1 DEF Once, Single, Functor, Serving, StartsUp
  <2>6. Life(c)!Destroy
    <3>1. /\ Queued("destroyed", c)' = FALSE
          /\ Queued("established", c)' = Queued("established", c)
      BY <2>3, <2>4, SameTruth
    <3> QED BY <1>7, <2>1, <2>2, <2>3, <2>4, <3>1, Zenon DEF Life!Destroy
  <2> QED BY <2>5, <2>6, Zenon DEF Life!Next
<1>11. Once(c)' /\ Life(c)!Next
  BY <1>2, <1>9, <1>10
<1>12. \A d \in Clients : Once(d)'
  BY <1>5, <1>11
<1>13. HandedOnce'
  BY <1>3, <1>12 DEF HandedOnce
<1>14. \A d \in Clients : Life(d)!Next \/ UNCHANGED Life(d)!vars
  BY <1>5, <1>11, Zenon
<1> QED BY <1>13, <1>14

(* One step of anybody is, for each connection, a step of its life or none. *)
LEMMA NextLives ==
  ASSUME ServerInv, ServerInv', HandedOnce, [Next]_vars
  PROVE  HandedOnce' /\ \A d \in Clients : [Life(d)!Next]_(Life(d)!vars)
<1>1. TypeOK /\ TypeOK' /\ Threading /\ Tracking /\ Tracking'
  BY DEF ServerInv
<1>2. CASE (StartPool \/ EndPool) /\ UNCHANGED serverVars
  <2>1. \A j \in Workers : io'[j].batch = io[j].batch /\ io'[j].pending = io[j].pending
    <3> USE <1>1 DEF TypeOK, IoType
    <3>1. CASE io' = io
      BY <3>1
    <3>2. CASE StartThread
      BY <3>2 DEF StartThread, Moves
    <3>3. CASE StoreQuit
      BY <3>3 DEF StoreQuit
    <3>4. CASE WakeQuit
      BY <3>4 DEF WakeQuit, WakesLoop
    <3> QED BY <1>2, <3>1, <3>2, <3>3, <3>4
            DEF StartPool, LatchOpens, Collect, CondWaits, EndPool, SeesLoop, Join
  <2>2. main' \in Serving <=> main \in Serving
    BY <1>2 DEF StartPool, StartThread, LatchOpens, Collect, CondWaits,
                EndPool, SeesLoop, StoreQuit, WakeQuit, Join, Serving, StartsUp
  <2>3. UNCHANGED <<conn, map, removals>> /\ \A j \in Workers : Queue(j)' = Queue(j)
    BY <1>2, <2>1 DEF serverVars, Queue
  <2> QED BY <1>1, <2>2, <2>3, QuietLives
<1>3. CASE Listen \/ DestroyStore \/ DestroyPool \/ Exit \/ AcceptFails
  <2>1. UNCHANGED <<io, conn, map, removals>>
    BY <1>3 DEF Listen, DestroyStore, DestroyPool, Exit, AcceptFails, serverVars, ioVars
  <2>2. main' \in Serving <=> main \in Serving
    BY <1>3 DEF Listen, DestroyStore, DestroyPool, Exit, AcceptFails, ioVars, Serving, StartsUp
  <2>3. \A j \in Workers : Queue(j)' = Queue(j)
    BY <2>1 DEF Queue
  <2> QED BY <1>1, <2>1, <2>2, <2>3, QuietLives
<1>4. CASE LoopReturns
  <2>1. UNCHANGED <<io, conn, map, removals>> /\ main = "serve" /\ main' = "closing"
    BY <1>4 DEF LoopReturns, serverVars
  <2>2. main \in Serving /\ main' \notin Serving
    BY <2>1 DEF Serving, StartsUp
  <2>3. \A j \in Workers : Queue(j)' = Queue(j)
    BY <2>1 DEF Queue
  <2>4. ASSUME NEW d \in Clients PROVE Once(d)' /\ Life(d)!Stop
    <3>1. \A op \in {"established", "destroyed"} : Queued(op, d)' <=> Queued(op, d)
      BY <2>1, <2>3 DEF Queued, Functor
    <3>2. Removing(d)' <=> Removing(d)
      BY <2>1 DEF Removing
    <3>3. /\ \A op \in {"established", "destroyed"} : Queued(op, d)' = Queued(op, d)
          /\ (d \in ToSet(removals))' = (d \in ToSet(removals))
      BY <1>1, <3>1, <3>2, SameTruth
    <3>4. (d \in map)' = (d \in map) /\ (main \notin Serving) = FALSE /\ (main \notin Serving)' = TRUE
      BY <2>1, <2>2 DEF Serving, StartsUp
    <3>5. Life(d)!Stop
      BY <2>1, <3>3, <3>4, Zenon DEF Life!Stop
    <3>6. \A j \in Workers : Single(j, Functor("destroyed", d)) => Single(j, Functor("destroyed", d))'
      BY <2>3 DEF Single, Functor
    <3> QED BY <2>1, <2>2, <3>2, <3>5, <3>6, OnceKept DEF HandedOnce
  <2> QED BY <2>1, <2>4, Zenon DEF HandedOnce, Life!Next
<1>5. CASE Accept
  BY <1>1, <1>5, AcceptLives
<1>6. CASE RemoveConnection
  BY <1>1, <1>6, RemoveLives
<1>7. CASE DropConnection
  BY <1>1, <1>7, DropLives
<1>8. ASSUME NEW i \in Workers, (Runs(i) \/ PollTimeout(i)) /\ UNCHANGED serverVars
      PROVE  HandedOnce' /\ \A d \in Clients : [Life(d)!Next]_(Life(d)!vars)
  <2>1. \A j \in Workers : Queue(j)' = Queue(j)
    BY <1>1, <1>8, RunsQueue
  <2>2. main' \in Serving <=> main \in Serving
    BY <1>8 DEF Runs, CountDown, MakeLoop, Publish, Notifies, EnterLoop, Check, PollWakes, Swap,
                EndThread, PollTimeout, Serving, StartsUp
  <2> QED BY <1>1, <1>8, <2>1, <2>2, QuietLives DEF serverVars
<1>9. ASSUME NEW i \in Workers, RunFunctor(i)
      PROVE  HandedOnce' /\ \A d \in Clients : [Life(d)!Next]_(Life(d)!vars)
  BY <1>1, <1>9, RunLives
<1>10. ASSUME NEW i \in Workers, StoreDone(i) \/ \E c \in Clients : UseStore(i, c)
       PROVE  HandedOnce' /\ \A d \in Clients : [Life(d)!Next]_(Life(d)!vars)
  <2>1. PICK to : io' = [io EXCEPT ![i].at = to] /\ UNCHANGED serverVars /\ main' = main
    BY <1>10 DEF StoreDone, UseStore, Moves
  <2>2. \A j \in Workers : Queue(j)' = Queue(j)
    BY <1>1, <2>1 DEF Queue, TypeOK, IoType
  <2>3. main' \in Serving <=> main \in Serving
    BY <2>1 DEF Serving, StartsUp
  <2> QED BY <1>1, <2>1, <2>2, <2>3, QuietLives DEF serverVars
<1>11. ASSUME NEW i \in Workers, NEW c \in Clients, HandleClose(i, c) \/ Shutdown(i, c)
       PROVE  HandedOnce' /\ \A d \in Clients : [Life(d)!Next]_(Life(d)!vars)
  BY <1>1, <1>11, CloseLives
<1>12. ASSUME NEW c \in Clients, Client(c)
       PROVE  HandedOnce' /\ \A d \in Clients : [Life(d)!Next]_(Life(d)!vars)
  <2>1. UNCHANGED <<io, main, conn, map, removals>>
    BY <1>12 DEF Client, Connect, Disconnect, ioVars
  <2>2. (\A j \in Workers : Queue(j)' = Queue(j)) /\ (main' \in Serving <=> main \in Serving)
    BY <2>1 DEF Queue, Serving, StartsUp
  <2> QED BY <1>1, <2>1, <2>2, QuietLives
<1>13. CASE UNCHANGED vars
  <2>1. UNCHANGED <<io, main, conn, map, removals>>
    BY <1>13 DEF vars, ioVars, serverVars
  <2>2. (\A j \in Workers : Queue(j)' = Queue(j)) /\ (main' \in Serving <=> main \in Serving)
    BY <2>1 DEF Queue, Serving, StartsUp
  <2> QED BY <1>1, <2>1, <2>2, QuietLives
<1> QED BY <1>2, <1>3, <1>4, <1>5, <1>6, <1>7, <1>8, <1>9, <1>10, <1>11, <1>12, <1>13
    DEF Next, Lifecycle, Serves, Works

(* Nobody has connected: every life is at its beginning. *)
LEMMA InitLives == Init => HandedOnce /\ \A c \in Clients : Life(c)!Init
<1> SUFFICES ASSUME Init PROVE HandedOnce /\ \A c \in Clients : Life(c)!Init
  OBVIOUS
<1>1. \A i \in Workers : Queue(i) = <<>>
  <2>1. \A i \in Workers : io[i].batch = <<>> /\ io[i].pending = <<>>
    BY DEF Init, IoInit, NewThread
  <2> QED BY <2>1, EmptySeq, ConcatEmptySeq DEF Queue
<1>2. removals = <<>> /\ Len(<<>>) = 0 /\ DOMAIN <<>> = {} /\ map = {} /\ main = "start"
  BY DEF Init, IoInit
<1>3. ASSUME NEW c \in Clients PROVE Once(c) /\ Life(c)!Init
  <2>1. /\ conn[c].state = "none" /\ conn[c].loop = 0 /\ conn[c].polled = FALSE
        /\ conn[c].ups = 0 /\ conn[c].downs = 0
    BY DEF Init, NoConnection
  <2>2. Once(c)
    BY <1>1, <1>2, <2>1 DEF Once
  <2>3. Queued("established", c) = FALSE /\ Queued("destroyed", c) = FALSE
    BY <2>1 DEF Queued, Workers
  <2>4. (c \in map) = FALSE /\ (main \notin Serving) = FALSE
    BY <1>2 DEF Serving, StartsUp
  <2>5. (c \in ToSet(removals)) = FALSE
    BY <1>2 DEF ToSet
  <2>6. (conn[c].state = "Connecting") = FALSE
    BY <2>1
  <2>7. conn[c].state \in {"none", "Connecting"}
    BY <2>1
  <2> QED BY <2>1, <2>2, <2>3, <2>4, <2>5, <2>6, <2>7, Zenon DEF Life!Init
<1>4. IsInjective(removals)
  BY <1>2 DEF IsInjective
<1> QED BY <1>3, <1>4 DEF HandedOnce

LEMMA HandedOnceCorrect == Spec => []HandedOnce
<1>1. Init => HandedOnce
  BY InitLives
<1>2. ServerInv /\ ServerInv' /\ HandedOnce /\ [Next]_vars => HandedOnce'
  BY NextLives
<1> QED BY <1>1, <1>2, InvCorrect, PTL DEF Spec

(* For every number of connections and IO threads, no connection is forgotten     *)
(* between the thread that accepts it, the one that serves it and the teardown:   *)
(* up to its end or its shutdown() the map or a queued connectDestroyed() has it, *)
(* and one that is shutting down leaves the map only when the server is           *)
(* destroyed, by a connectDestroyed() that takes it out of the poller             *)
(* (tcp_server.cpp:28-37,52-98, tcp_connection.cpp:143-164,211-224).              *)
THEOREM NoneForgottenCorrect == Spec => []NoneForgotten
<1>1. ASSUME ServerInv, HandedOnce PROVE NoneForgotten
  <2> SUFFICES ASSUME NEW c \in Clients
               PROVE  /\ conn[c].state = "Connecting" => Queued("established", c)
                      /\ conn[c].state \in {"Connecting", "Connected"} =>
                            c \in map \/ Queued("destroyed", c)
                      /\ conn[c].state = "Disconnecting" =>
                            \/ c \in map
                            \/ main \notin Serving
                                 /\ (Queued("destroyed", c) \/ ~conn[c].polled)
                      /\ conn[c].state = "Disconnected" /\ c \in map => c \in ToSet(removals)
                      /\ conn[c].downs <= conn[c].ups /\ conn[c].ups <= 1
                      /\ conn[c].state = "Disconnected" <=> conn[c].downs = 1
    BY DEF NoneForgotten
  <2>1. Tracked(c) /\ TypeOK /\ Once(c)
    BY <1>1 DEF ServerInv, Tracking, HandedOnce
  <2>2. ASSUME NEW op, conn[c].loop \in Workers, Holds(op, c) PROVE Queued(op, c)
    <3>1. DOMAIN Queue(conn[c].loop) = 1..Len(Queue(conn[c].loop))
      BY <2>1, <2>2, QueueTyped, LenProperties
    <3> QED BY <2>2, <3>1 DEF Holds, Queued, ToSet
  <2>3. Removing(c) => c \in ToSet(removals)
    <3>1. DOMAIN removals = 1..Len(removals)
      BY <2>1, LenProperties DEF TypeOK
    <3> QED BY <3>1 DEF Removing, ToSet
  <2>4. /\ conn[c].state = "Connecting" => Queued("established", c)
        /\ conn[c].state \in {"Connecting", "Connected"} => c \in map \/ Queued("destroyed", c)
    BY <2>1, <2>2 DEF Tracked
  <2>5. conn[c].state = "Disconnecting" =>
           c \in map \/ (main \notin Serving /\ (Queued("destroyed", c) \/ ~conn[c].polled))
    BY <2>1, <2>2 DEF Tracked, Once
  <2> QED BY <2>1, <2>3, <2>4, <2>5 DEF Tracked
<1>2. ServerInv /\ HandedOnce => NoneForgotten
  BY <1>1
<1> QED BY <1>2, InvCorrect, HandedOnceCorrect, PTL

(* For every number of connections and IO threads, each connection lives the life *)
(* of ConnectionLife: it is removed and destroyed once, in this order, whatever   *)
(* the threads do and also when the server stops (tcp_server.cpp:28-37,52-98,     *)
(* tcp_connection.cpp:132-164,211-224).                                           *)
THEOREM LivesInOrderCorrect == Spec => LivesInOrder
<1>1. Init => \A c \in Clients : Life(c)!Init
  BY InitLives
<1>2. ServerInv /\ ServerInv' /\ HandedOnce /\ [Next]_vars
        => [\A c \in Clients : [Life(c)!Next]_(Life(c)!vars)]_vars
  BY NextLives
<1> QED BY <1>1, <1>2, InvCorrect, HandedOnceCorrect, PTL DEF Spec, LivesInOrder
=============================================================================

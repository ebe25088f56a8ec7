-------------------------- MODULE EventLoop_proofs --------------------------
(***************************************************************************)
(* Proofs about EventLoop for every set of calling threads and every       *)
(* number of calls: type correctness, no lost wakeup, and that callbacks   *)
(* run in queue order, each at most once.                                  *)
(***************************************************************************)
EXTENDS EventLoop, SequenceTheorems, TLAPS

(* Concatenation of callbacks is associative. *)
LEMMA TasksAssociative ==
  ASSUME NEW s \in Seq(Tasks), NEW t \in Seq(Tasks), NEW u \in Seq(Tasks)
  PROVE  s \o (t \o u) = (s \o t) \o u
BY ConcatAssociative, SMTT(30)

(* Pushing a callback keeps the account of the queue. *)
LEMMA PushStep ==
  ASSUME TypeOK, LoopInv, NEW t \in Threads, Push(t)
  PROVE  /\ calls' \in [Threads -> Nat]
         /\ pending' \in Seq(Tasks) /\ queued' \in Seq(Tasks)
         /\ queued' = ran \o batch \o pending'
         /\ \E task \in Tasks : queued' = Append(queued, task)
<1> DEFINE task == [from |-> t, n |-> calls[t] + 1]
<1>1. calls[t] + 1 \in Nat /\ task \in Tasks
  BY EventLoopAssumption DEF Push, TypeOK, Tasks, Limit
<1>2. calls' \in [Threads -> Nat]
  BY <1>1 DEF Push, TypeOK
<1>3. pending' = Append(pending, task) /\ queued' = Append(queued, task)
  BY DEF Push
<1>4. pending' \in Seq(Tasks) /\ queued' \in Seq(Tasks)
  BY <1>1, <1>3 DEF TypeOK
<1>5. queued' = ran \o batch \o pending'
  <2> DEFINE front == ran \o batch
  <2>1. front \in Seq(Tasks) /\ <<task>> \in Seq(Tasks) /\ pending \in Seq(Tasks)
    BY <1>1, ConcatProperties DEF TypeOK
  <2>2. Append(pending, task) = pending \o <<task>>
    <3> HIDE DEF task
    <3> QED BY <1>1 DEF TypeOK
  <2>3. Append(front \o pending, task) = (front \o pending) \o <<task>>
    <3>1. front \o pending \in Seq(Tasks)
      BY <2>1, ConcatProperties
    <3> HIDE DEF front, task
    <3> QED BY <1>1, <3>1
  <2>4. (front \o pending) \o <<task>> = front \o (pending \o <<task>>)
    BY <2>1, TasksAssociative, Zenon
  <2>5. queued = front \o pending
    BY DEF LoopInv
  <2> HIDE DEF front
  <2>6. queued' = front \o pending'
    BY <1>3, <2>2, <2>3, <2>4, <2>5
  <2> QED BY <2>6 DEF front
<1> QED BY <1>1, <1>2, <1>3, <1>4, <1>5

(* Running the next functor moves it from the batch to what has run. *)
LEMMA RunStep ==
  ASSUME NEW q \in Seq(Tasks), NEW r \in Seq(Tasks), NEW b \in Seq(Tasks),
         NEW p \in Seq(Tasks), b # <<>>, q = r \o b \o p
  PROVE  /\ Append(r, Head(b)) \in Seq(Tasks) /\ Tail(b) \in Seq(Tasks)
         /\ q = Append(r, Head(b)) \o Tail(b) \o p
         /\ Len(r) < Len(q) /\ Append(r, Head(b)) = Append(r, q[Len(r) + 1])
<1>1. Head(b) \in Tasks /\ Tail(b) \in Seq(Tasks) /\ <<Head(b)>> \in Seq(Tasks)
      /\ b = <<Head(b)>> \o Tail(b) /\ Head(b) = b[1] /\ Len(b) \in Nat \ {0}
  BY HeadTailProperties, EmptySeq
<1>2. Append(r, Head(b)) = r \o <<Head(b)>>
  BY <1>1
<1>3. r \o b = (r \o <<Head(b)>>) \o Tail(b)
  <2> DEFINE h == <<Head(b)>>
             rest == Tail(b)
  <2>1. h \in Seq(Tasks) /\ rest \in Seq(Tasks) /\ b = h \o rest
    BY <1>1
  <2> HIDE DEF h, rest
  <2>2. r \o (h \o rest) = (r \o h) \o rest
    BY <2>1, TasksAssociative, SMTT(30)
  <2>3. r \o b = (r \o h) \o rest
    BY <2>1, <2>2
  <2> QED BY <2>3 DEF h, rest
<1>4. Append(r, Head(b)) \in Seq(Tasks)
  BY <1>1
<1>5. r \o b \in Seq(Tasks) /\ Len(r \o b) = Len(r) + Len(b)
      /\ Len(r) \in Nat /\ Len(p) \in Nat /\ (r \o b)[Len(r) + 1] = Head(b)
  <2>1. \A i \in 1..(Len(r) + Len(b)) : (r \o b)[i] = IF i <= Len(r) THEN r[i] ELSE b[i - Len(r)]
    BY ConcatProperties
  <2>2. Len(r) \in Nat /\ Len(p) \in Nat
    BY LenProperties
  <2> QED BY <1>1, <2>1, <2>2, ConcatProperties
<1>6. Len(q) = Len(r) + Len(b) + Len(p) /\ q[Len(r) + 1] = Head(b)
  <2>1. \A i \in 1..(Len(r \o b) + Len(p)) :
           q[i] = IF i <= Len(r \o b) THEN (r \o b)[i] ELSE p[i - Len(r \o b)]
    BY <1>5, ConcatProperties
  <2>2. Len(q) = Len(r \o b) + Len(p)
    BY <1>5, ConcatProperties
  <2> QED BY <1>1, <1>5, <2>1, <2>2
<1> QED BY <1>1, <1>2, <1>3, <1>4, <1>5, <1>6

LEMMA CallbackStep ==
  ASSUME TypeOK, LoopInv, Callback
  PROVE  /\ quit' \in BOOLEAN /\ edge' \in BOOLEAN /\ counter' \in Nat
         /\ pending' \in Seq(Tasks) /\ queued' \in Seq(Tasks)
         /\ calls' \in [Threads -> Nat] /\ quitters' \subseteq {"early", "late"}
         /\ queued' = ran \o batch \o pending'
         /\ UNCHANGED queued \/ \E task \in Tasks : queued' = Append(queued, task)
         /\ WakeupReady => WakeupReady'
         /\ pending' # pending /\ calling => WakeupReady'
<1>1. CASE Nothing
  BY <1>1 DEF Nothing, NoWakeup, TypeOK, LoopInv, WakeupReady
<1>2. CASE QueueHere
  <2>1. Push(LoopThread) /\ LoopThread \in Threads
    BY <1>2 DEF QueueHere, Threads
  <2>2. /\ calls' \in [Threads -> Nat]
        /\ pending' \in Seq(Tasks) /\ queued' \in Seq(Tasks)
        /\ queued' = ran \o batch \o pending'
        /\ \E task \in Tasks : queued' = Append(queued, task)
    BY <2>1, PushStep
  <2>3. edge' \in BOOLEAN /\ counter' \in Nat /\ (WakeupReady => WakeupReady')
        /\ (calling => WakeupReady')
    <3>1. CASE calling
      BY <1>2, <3>1 DEF QueueHere, Wakeup, TypeOK, WakeupReady
    <3>2. CASE ~calling
      BY <1>2, <3>2 DEF QueueHere, NoWakeup, TypeOK, WakeupReady
    <3> QED BY <3>1, <3>2
  <2>4. quit' \in BOOLEAN /\ quitters' \subseteq {"early", "late"}
    BY <1>2 DEF QueueHere, TypeOK
  <2> QED BY <2>2, <2>3, <2>4
<1>3. CASE QuitHere
  <2>1. calls' \in [Threads -> Nat]
    <3>1. LoopThread \in Threads
      BY DEF Threads
    <3> QED BY <1>3, <3>1 DEF QuitHere, TypeOK
  <2>2. quitters' \subseteq {"early", "late"}
    BY <1>3 DEF QuitHere, SetQuit, TypeOK
  <2> QED BY <1>3, <2>1, <2>2 DEF QuitHere, SetQuit, NoWakeup, TypeOK, LoopInv, WakeupReady
<1> QED BY <1>1, <1>2, <1>3 DEF Callback

(* A callback that leaves the queue alone has queued nothing. *)
LEMMA CallbackGrows ==
  ASSUME TypeOK, Callback, pending' = pending
  PROVE  UNCHANGED queued
<1>1. CASE Nothing \/ QuitHere
  BY <1>1 DEF Nothing, QuitHere
<1>2. CASE QueueHere
  <2>1. PICK task : pending' = Append(pending, task)
    BY <1>2 DEF QueueHere, Push
  <2>2. Len(pending') = Len(pending) + 1 /\ Len(pending) \in Nat
    BY <2>1 DEF TypeOK
  <2> QED BY <2>2
<1> QED BY <1>1, <1>2 DEF Callback

-----------------------------------------------------------------------------
LEMMA InvInit ==
  ASSUME Init PROVE TypeOK /\ LoopInv
<1>1. <<>> \in Seq(Tasks)
  BY EmptySeq
<1>2. <<>> \o <<>> \o <<>> = <<>>
  BY <1>1, ConcatEmptySeq
<1> QED BY <1>1, <1>2 DEF Init, TypeOK, PCs, LoopInv, CallingOnlyInRun, NoLostQuit, WillWake, Announced

LEMMA CallerStep ==
  ASSUME TypeOK, LoopInv, NEW t \in Callers, Caller(t)
  PROVE  TypeOK' /\ LoopInv'
<1>0. t \in Threads
  BY DEF Threads
<1>1. CASE Queue(t)
  <2>1. TypeOK'
    BY <1>0, <1>1, PushStep DEF Queue, ThenWakes, TypeOK, CallingOnlyInRun
  <2>2. (queued = ran \o batch \o pending)'
    BY <1>0, <1>1, PushStep DEF Queue
  <2>3. WillWake'
    BY <1>1 DEF Queue, ThenWakes, WillWake
  <2>4. pc = "init" => pending' = queued'
    BY <1>1 DEF Queue, Push, LoopInv
  <2> QED BY <1>1, <2>1, <2>2, <2>3, <2>4 DEF Queue, LoopInv, NoLostQuit
<1>2. CASE Quit(t)
  <2>1. TypeOK'
    <3>1. calls' \in [Threads -> Nat]
      BY <1>0, <1>2 DEF Quit, TypeOK
    <3>2. quitters' \subseteq {"early", "late"} /\ quit' = TRUE
      BY <1>2 DEF Quit, SetQuit, TypeOK
    <3> QED BY <1>2, <3>1, <3>2 DEF Quit, ThenWakes, TypeOK, CallingOnlyInRun
  <2>2. WillWake'
    BY <1>2 DEF Quit, ThenWakes, WillWake
  <2> QED BY <1>2, <2>1, <2>2 DEF Quit, LoopInv, NoLostQuit
<1>3. CASE CallerWakes(t)
  <2>1. TypeOK'
    BY <1>3 DEF CallerWakes, Wakeup, TypeOK, CallingOnlyInRun
  <2>2. WillWake'
    BY <1>3 DEF CallerWakes, Wakeup, TypeOK, WillWake, WakeupReady
  <2> QED BY <1>3, <2>1, <2>2 DEF CallerWakes, LoopInv, NoLostQuit
<1> QED BY <1>1, <1>2, <1>3 DEF Caller

LEMMA LoopStep ==
  ASSUME TypeOK, LoopInv, Loop \/ PollTimeout \/ BeforeLoop
  PROVE  TypeOK' /\ LoopInv'
<1> USE DEF PCs
<1>1. CASE StartLoop
  BY <1>1 DEF StartLoop, TypeOK, LoopInv, CallingOnlyInRun, NoLostQuit, WillWake, WakeupReady, Announced
<1>2. CASE Check
  BY <1>2 DEF Check, TypeOK, LoopInv, CallingOnlyInRun, NoLostQuit, WillWake, WakeupReady, Announced
<1>3. CASE PollReturns
  BY <1>3 DEF PollReturns, TypeOK, LoopInv, CallingOnlyInRun, NoLostQuit, WillWake, WakeupReady, Announced
<1>4. CASE HandleWakeup
  BY <1>4 DEF HandleWakeup, TypeOK, LoopInv, CallingOnlyInRun, NoLostQuit, WillWake, WakeupReady, Announced
<1>5. CASE HandleIo
  <2>1. Callback /\ pc = "events"
    BY <1>5 DEF HandleIo
  <2>2. TypeOK'
    BY <1>5, <2>1, CallbackStep DEF HandleIo, TypeOK, CallingOnlyInRun
  <2>3. (queued = ran \o batch \o pending)'
    BY <1>5, <2>1, CallbackStep DEF HandleIo
  <2> QED BY <1>5, <2>1, <2>2, <2>3 DEF HandleIo, LoopInv, NoLostQuit
<1>6. CASE EventsDone
  BY <1>6 DEF EventsDone, TypeOK, LoopInv, CallingOnlyInRun, NoLostQuit, WillWake, WakeupReady, Announced
<1>7. CASE Swap
  <2>1. batch = <<>> /\ batch' = pending /\ pending' = <<>> /\ <<>> \in Seq(Tasks)
    BY <1>7, EmptySeq DEF Swap, TakePending, LoopInv
  <2>2. ran \o <<>> = ran /\ (ran \o pending) \o <<>> = ran \o pending
    BY ConcatEmptySeq, ConcatProperties DEF TypeOK
  <2>3. (queued = ran \o batch \o pending)'
    BY <1>7, <2>1, <2>2 DEF Swap, LoopInv
  <2> QED BY <1>7, <2>1, <2>3 DEF Swap, TypeOK, LoopInv, CallingOnlyInRun, NoLostQuit
<1>8. CASE RunFunctor
  <2>1. /\ Callback /\ pc = "run" /\ batch # <<>>
        /\ batch' = Tail(batch) /\ ran' = Append(ran, Head(batch))
        /\ UNCHANGED <<pc, calling, active, waking, early>>
    BY <1>8 DEF RunFunctor
  <2>2. queued' = ran' \o batch' \o pending' /\ ran' \in Seq(Tasks) /\ batch' \in Seq(Tasks)
    <3>1. queued' \in Seq(Tasks) /\ pending' \in Seq(Tasks) /\ queued' = ran \o batch \o pending'
      BY <2>1, CallbackStep
    <3>2. ran \in Seq(Tasks) /\ batch \in Seq(Tasks)
      BY DEF TypeOK
    <3> QED BY <2>1, <3>1, <3>2, RunStep, SMTT(30)
  <2>3. TypeOK'
    BY <2>1, <2>2, CallbackStep DEF TypeOK, CallingOnlyInRun
  <2>4. pending' # <<>> /\ Announced' => WillWake'
    <3>1. CASE pending' = pending
      <4>1. UNCHANGED queued
        BY <2>1, <3>1, CallbackGrows
      <4> QED BY <2>1, <3>1, <4>1, CallbackStep DEF LoopInv, WillWake, Announced
    <3>2. CASE pending' # pending
      <4>1. calling
        BY <2>1 DEF TypeOK, CallingOnlyInRun
      <4> QED BY <2>1, <3>2, <4>1, CallbackStep DEF WillWake
    <3> QED BY <3>1, <3>2
  <2> QED BY <2>1, <2>2, <2>3, <2>4 DEF LoopInv, NoLostQuit
<1>9. CASE BatchDone
  BY <1>9 DEF BatchDone, ClearsCalling, TypeOK, LoopInv, CallingOnlyInRun, NoLostQuit, WillWake, WakeupReady, Announced
<1>10. CASE PollTimeout
  BY <1>10 DEF PollTimeout, TypeOK, LoopInv, CallingOnlyInRun, NoLostQuit, WillWake, WakeupReady, Announced
<1>11. CASE BeforeLoop
  <2>1. Callback /\ pc = "init"
    BY <1>11 DEF BeforeLoop, Callback
  <2>2. TypeOK'
    <3>1. early' \in Nat
      BY <1>11 DEF BeforeLoop, TypeOK
    <3> QED BY <1>11, <2>1, <3>1, CallbackStep DEF BeforeLoop, TypeOK, CallingOnlyInRun
  <2>3. (queued = ran \o batch \o pending)'
    BY <1>11, <2>1, CallbackStep DEF BeforeLoop
  <2>4. pending' # <<>> /\ Announced' => WillWake'
    <3>1. PICK task : pending' = Append(pending, task) /\ queued' = Append(queued, task)
      BY <1>11 DEF BeforeLoop, QueueHere, Push
    <3>2. Len(queued') = Len(queued) + 1 /\ Len(queued) \in Nat
      BY <3>1 DEF TypeOK
    <3>3. CASE early = Len(queued)
      BY <1>11, <3>2, <3>3 DEF BeforeLoop, Announced, TypeOK
    <3>4. CASE pending # <<>> /\ Announced
      BY <1>11, <2>1, <3>4, CallbackStep DEF BeforeLoop, LoopInv, WillWake
    <3>5. CASE early # Len(queued) /\ ~Announced
      <4>1. early > Len(queued)
        BY <3>2, <3>5 DEF Announced, TypeOK
      <4> QED BY <1>11, <3>2, <4>1, <3>5 DEF BeforeLoop, Announced, TypeOK
    <3>6. CASE pending = <<>> /\ Announced
      <4>1. Len(queued) = 0
        BY <2>1, <3>6 DEF LoopInv
      <4> QED BY <3>6, <4>1 DEF Announced, TypeOK
    <3> QED BY <3>3, <3>4, <3>5, <3>6
  <2>5. pending' = queued'
    BY <1>11, <2>1 DEF BeforeLoop, QueueHere, Push, LoopInv
  <2> QED BY <1>11, <2>1, <2>2, <2>3, <2>4, <2>5 DEF BeforeLoop, QueueHere, LoopInv, NoLostQuit
<1> QED BY <1>1, <1>2, <1>3, <1>4, <1>5, <1>6, <1>7, <1>8, <1>9, <1>10, <1>11 DEF Loop

LEMMA InvNext ==
  ASSUME TypeOK, LoopInv, [Next]_vars PROVE TypeOK' /\ LoopInv'
<1>1. CASE UNCHANGED vars
  BY <1>1 DEF vars, loopVars, TypeOK, LoopInv, CallingOnlyInRun, NoLostQuit, WillWake, WakeupReady, Announced
<1>2. CASE Next
  BY <1>2, CallerStep, LoopStep DEF Next
<1> QED BY <1>1, <1>2

(* The inductive invariant holds in every reachable state: whoever waits in
   poll() over work has a wakeup coming, and the queue's account balances. *)
THEOREM InvCorrect == Spec => [](TypeOK /\ LoopInv)
<1>1. Init => TypeOK /\ LoopInv
  BY InvInit
<1>2. (TypeOK /\ LoopInv) /\ [Next]_vars => (TypeOK /\ LoopInv)'
  BY InvNext
<1> QED BY <1>1, <1>2, PTL DEF Spec

(* Every variable of the loop stays within its type, for any number of
   threads and calls. *)
THEOREM TypeCorrect == Spec => []TypeOK
BY InvCorrect, PTL

(* No lost wakeup (eventloop.cpp:104-116): the loop never blocks in poll() over a
   callback that nobody is going to wake it up for, except what its own thread
   queued before loop() and before anybody else queued anything. *)
THEOREM NoLostWakeupCorrect == Spec => []NoLostWakeup
<1>1. TypeOK /\ LoopInv => NoLostWakeup
  BY DEF LoopInv, NoLostWakeup
<1> QED BY <1>1, InvCorrect, PTL

(* The loop never blocks in poll() after quit_ is set, without a wakeup on the
   way (eventloop.cpp:86-92). *)
THEOREM NoLostQuitCorrect == Spec => []NoLostQuit
<1>1. TypeOK /\ LoopInv => NoLostQuit
  BY DEF LoopInv
<1> QED BY <1>1, InvCorrect, PTL

(* Callbacks run in the order they were queued, each at most once, whatever
   the interleaving of queueing, wakeups, polls and swaps: EventLoop implements
   TaskQueue (eventloop.cpp:104-148). *)
THEOREM RunInOrderCorrect == Spec => RunInOrder
<1>1. Init => Callbacks!Init
  BY DEF Init, Callbacks!Init
<1>2. (TypeOK /\ LoopInv) /\ [Next]_vars => [Callbacks!Next]_(Callbacks!vars)
  <2> SUFFICES ASSUME TypeOK, LoopInv, [Next]_vars PROVE [Callbacks!Next]_(Callbacks!vars)
    OBVIOUS
  <2> USE DEF Callbacks!vars, Callbacks!Next
  <2>1. CASE UNCHANGED vars
    BY <2>1 DEF vars
  <2>2. ASSUME NEW t \in Callers, Caller(t) PROVE [Callbacks!Next]_(Callbacks!vars)
    <3>1. CASE Queue(t)
      BY <3>1, PushStep DEF Queue, Callbacks!Submit, Threads
    <3>2. CASE Quit(t) \/ CallerWakes(t)
      BY <3>2 DEF Quit, CallerWakes
    <3> QED BY <2>2, <3>1, <3>2 DEF Caller
  <2>3. CASE BeforeLoop \/ HandleIo
    <3>1. Callback /\ UNCHANGED ran
      BY <2>3 DEF BeforeLoop, HandleIo, Callback
    <3> QED BY <3>1, CallbackStep DEF Callbacks!Submit
  <2>4. CASE RunFunctor
    <3>1. Callback /\ batch # <<>> /\ ran' = Append(ran, Head(batch))
      BY <2>4 DEF RunFunctor
    <3>2. Len(ran) < Len(queued) /\ ran' = Append(ran, queued[Len(ran) + 1])
      BY <3>1, RunStep DEF TypeOK, LoopInv
    <3> QED BY <3>1, <3>2, CallbackStep DEF Callbacks!Run, Callbacks!RunAndSubmit
  <2>5. CASE \/ StartLoop \/ Check \/ PollReturns \/ HandleWakeup
             \/ EventsDone \/ Swap \/ BatchDone \/ PollTimeout
    BY <2>5 DEF StartLoop, Check, PollReturns, HandleWakeup, EventsDone, Swap,
                BatchDone, PollTimeout
  <2> QED BY <2>1, <2>2, <2>3, <2>4, <2>5 DEF Next, Loop
<1> QED BY <1>1, <1>2, InvCorrect, PTL DEF Spec, RunInOrder, Callbacks!Spec
=============================================================================

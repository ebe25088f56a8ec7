----------------------------- MODULE ThreadPool -----------------------------
(***************************************************************************)
(* base/threadpool.cpp: workers that take tasks from one queue, threads    *)
(* that submit to it, the two condition variables between them             *)
(* (base/mutex.h), and stop().                                             *)
(*                                                                         *)
(* A critical section of the mutex is one step.  A thread that waits on a  *)
(* condition starts its critical section again when it is woken, as the    *)
(* loops around Condition::wait() do; it may wake for no reason.  A task   *)
(* may itself call run().                                                  *)
(***************************************************************************)
EXTENDS Integers, Sequences, FiniteSets

CONSTANTS Workers, Submitters,
          MaxQueueSize,  \* maxQueueSize_; 0: no limit
          MaxTasks       \* bound: tasks handed to run()

Threads == Workers \cup Submitters

ASSUME ThreadPoolAssumption ==
    /\ Workers \cap Submitters = {} /\ Workers # {}
    /\ IsFiniteSet(Workers) /\ IsFiniteSet(Submitters)
    /\ MaxQueueSize \in Nat /\ MaxTasks \in Nat

VARIABLES running,   \* running_
          queue,     \* queue_: task numbers
          pc,        \* where each thread is: see PCs
          owner,     \* the thread that calls stop(): "idle", "joining" or "stopped"
          handed,    \* tasks handed to run() so far; the next one is handed + 1
          offer,     \* offer[t]: the task thread t is handing to run()
          accepted,  \* history: tasks pushed to queue_, in order
          taken      \* history: tasks taken from queue_, in order

vars == <<running, queue, pc, owner, handed, offer, accepted, taken>>

\* "check": about to read running_; "take", "submit": about to lock mutex_;
\* "notEmpty", "notFull": waiting; "task": running a task; "exited": done.
PCs == {"idle", "check", "take", "notEmpty", "task", "submit", "notFull", "exited"}

\* After start(): the workers run.
Init ==
    /\ running = TRUE
    /\ queue = <<>>
    /\ pc = [t \in Threads |-> IF t \in Workers THEN "check" ELSE "idle"]
    /\ owner = "idle"
    /\ handed = 0 /\ offer = [t \in Threads |-> 0]
    /\ accepted = <<>> /\ taken = <<>>

-----------------------------------------------------------------------------
NotNotified(t, p, cond, retry) == {[pc EXCEPT ![t] = p]}  \* mutant
\* pc with t at p, and one of the threads that wait at cond woken if there is one.
Notified(t, p, cond, retry) ==
    LET at == [pc EXCEPT ![t] = p]
        waiting == {u \in Threads : at[u] = cond}
    IN  IF waiting = {} THEN {at} ELSE {[at EXCEPT ![u] = retry] : u \in waiting}

IsFullButOne == MaxQueueSize > 0 /\ Len(queue) > MaxQueueSize  \* mutant
IsFull == MaxQueueSize > 0 /\ Len(queue) >= MaxQueueSize

\* where run() returns to
Back(t) == IF t \in Workers THEN "check" ELSE "idle"

\* run(task), called by another thread or by a task.
Hand(t) ==
    /\ pc[t] \in {"idle", "task"}
    /\ handed < MaxTasks
    /\ handed' = handed + 1
    /\ offer' = [offer EXCEPT ![t] = handed + 1]
    /\ pc' = [pc EXCEPT ![t] = "submit"]
    /\ UNCHANGED <<running, queue, owner, accepted, taken>>

RunWaits(t) ==
    /\ pc[t] = "submit"
    /\ IsFull /\ running
    /\ pc' = [pc EXCEPT ![t] = "notFull"]
    /\ UNCHANGED <<running, queue, owner, handed, offer, accepted, taken>>

\* The pool was stopped: the task is dropped.
RunDrops(t) ==
    /\ pc[t] = "submit"
    /\ ~running
    /\ pc' = [pc EXCEPT ![t] = Back(t)]
    /\ UNCHANGED <<running, queue, owner, handed, offer, accepted, taken>>

RunPushes(t) ==
    /\ pc[t] = "submit"
    /\ ~IsFull /\ running
    /\ queue' = Append(queue, offer[t])
    /\ accepted' = Append(accepted, offer[t])
    /\ pc' \in Notified(t, Back(t), "notEmpty", "take")
    /\ UNCHANGED <<running, owner, handed, offer, taken>>

-----------------------------------------------------------------------------
\* runInThread(): while (running_), a plain bool read without the mutex.  The race
\* allows no other outcome than this read: it sees false only after stop() has
\* written it, and a stale true is a read that came before stop().  take() locks
\* the mutex, so no build keeps the value over a turn of the loop.
Check(w) ==
    /\ pc[w] = "check"
    /\ pc' = [pc EXCEPT ![w] = IF running THEN "take" ELSE "exited"]
    /\ UNCHANGED <<running, queue, owner, handed, offer, accepted, taken>>

TakeWaits(w) ==
    /\ pc[w] = "take"
    /\ queue = <<>> /\ running
    /\ pc' = [pc EXCEPT ![w] = "notEmpty"]
    /\ UNCHANGED <<running, queue, owner, handed, offer, accepted, taken>>

\* Woken by stop() with nothing to do: an empty Task.
TakeNothing(w) ==
    /\ pc[w] = "take"
    /\ queue = <<>> /\ ~running
    /\ pc' = [pc EXCEPT ![w] = "check"]
    /\ UNCHANGED <<running, queue, owner, handed, offer, accepted, taken>>

\* Also after stop(): a worker that is in take() still gets a queued task.
LastIn == SubSeq(queue, 1, Len(queue) - 1)  \* mutant: pop_back()
Rest == Tail(queue)
Take(w) ==
    /\ pc[w] = "take"
    /\ queue # <<>>
    /\ queue' = Rest
    /\ taken' = Append(taken, Head(queue))
    /\ IF MaxQueueSize > 0 THEN pc' \in Notified(w, "task", "notFull", "submit")
                           ELSE pc' = [pc EXCEPT ![w] = "task"]
    /\ UNCHANGED <<running, owner, handed, offer, accepted>>

TaskEnds(w) ==
    /\ pc[w] = "task"
    /\ pc' = [pc EXCEPT ![w] = "check"]
    /\ UNCHANGED <<running, queue, owner, handed, offer, accepted, taken>>

\* A wait may return without a notify.
SpuriousWakeup(t) ==
    /\ pc[t] \in {"notEmpty", "notFull"}
    /\ pc' = [pc EXCEPT ![t] = IF @ = "notEmpty" THEN "take" ELSE "submit"]
    /\ UNCHANGED <<running, queue, owner, handed, offer, accepted, taken>>

-----------------------------------------------------------------------------
\* stop(): the flag and notifyAll() on both conditions, under the mutex ...
WakesTakers == [t \in Threads |-> IF pc[t] = "notEmpty" THEN "take" ELSE pc[t]]  \* mutant
WakesAll == [t \in Threads |-> CASE pc[t] = "notEmpty" -> "take"
                                 [] pc[t] = "notFull"  -> "submit"
                                 [] OTHER              -> pc[t]]
Stop ==
    /\ owner = "idle"
    /\ owner' = "joining"
    /\ running' = FALSE
    /\ pc' = WakesAll
    /\ UNCHANGED <<queue, handed, offer, accepted, taken>>

\* ... then join() for each worker.
Joined ==
    /\ owner = "joining"
    /\ \A w \in Workers : pc[w] = "exited"
    /\ owner' = "stopped"
    /\ UNCHANGED <<running, queue, pc, handed, offer, accepted, taken>>

InRun(t) == RunWaits(t) \/ RunDrops(t) \/ RunPushes(t)
Works(w) == Check(w) \/ TakeWaits(w) \/ TakeNothing(w) \/ Take(w) \/ TaskEnds(w)

Next == \/ \E t \in Threads : Hand(t) \/ InRun(t) \/ SpuriousWakeup(t)
        \/ \E w \in Workers : Works(w)
        \/ Stop \/ Joined

Spec == Init /\ [][Next]_vars

\* Every thread that is not waiting goes on (tasks end); no spurious wakeup,
\* no new task and no stop() is promised.
FairSpec == /\ Spec
            /\ \A t \in Threads : WF_vars(InRun(t))
            /\ \A w \in Workers : WF_vars(Works(w))
            /\ WF_vars(Joined)

-----------------------------------------------------------------------------
\* Types of the state; the queue never outgrows its limit, however many
\* submitters wake at once (threadpool.cpp:68-75 asserts it).
TypeOK ==
    /\ running \in BOOLEAN
    /\ queue \in Seq(1..MaxTasks)
    /\ MaxQueueSize > 0 => Len(queue) <= MaxQueueSize
    /\ pc \in [Threads -> PCs]
    /\ \A s \in Submitters : pc[s] \in {"idle", "submit", "notFull"}
    /\ owner \in {"idle", "joining", "stopped"}
    /\ handed \in 0..MaxTasks
    /\ offer \in [Threads -> 0..MaxTasks]
    /\ accepted \in Seq(1..MaxTasks) /\ taken \in Seq(1..MaxTasks)

\* Tasks are taken in the order they were accepted, each at most once, and those
\* not taken are still queued (threadpool.cpp:63-96).
Fifo == accepted = taken \o queue

\* So the pool is a TaskQueue, as the event loop is, with many threads on each side:
\* a task is taken after every one that was accepted before it, whichever worker
\* takes it, and stop() leaves the tasks it drops at the end (threadpool.cpp:45-96).
Promise == INSTANCE TaskQueue WITH Tasks <- 1..MaxTasks, queued <- accepted, ran <- taken
TasksInOrder == Promise!Spec

\* The threads at p.
ThreadsAt(p) == {t \in Threads : pc[t] = p}

\* No lost wakeup on either condition: while a worker waits for tasks, every
\* queued task has another worker on its way to take(), and while a thread waits
\* for room, every free place has another one on its way to push
\* (threadpool.cpp:68-70,76,81-85,91-93).
NoIdleWaiter ==
    /\ ThreadsAt("notEmpty") # {} => Len(queue) <= Cardinality(ThreadsAt("take"))
    /\ ThreadsAt("notFull") # {} => MaxQueueSize - Len(queue) <= Cardinality(ThreadsAt("submit"))

\* What makes these inductive: a thread in run() has a task to push, and once
\* running_ is false nobody waits.
Offering == \A t \in Threads : pc[t] \in {"submit", "notFull"} => offer[t] # 0
NoWaitAfterStop == ~running => ThreadsAt("notEmpty") = {} /\ ThreadsAt("notFull") = {}

PoolInv == TypeOK /\ Fifo /\ NoIdleWaiter /\ Offering /\ NoWaitAfterStop

\* Tasks that submit to a full queue can occupy every worker; then nobody takes.
Stuck == IsFull /\ \A w \in Workers : pc[w] \in {"submit", "notFull"}

\* Every accepted task is run, unless the pool is stopped or every worker waits
\* in a task for room in the queue, which only a worker can make.
AcceptedRun == \A n \in 1..MaxTasks :
                  Len(accepted) >= n ~> (Len(taken) >= n \/ ~running \/ Stuck)

\* stop() returns, whatever the workers and submitters wait for, and then nobody
\* waits in run() or take() any more (threadpool.cpp:45-56).
StopReturns == owner = "joining" ~> /\ owner = "stopped"
                                    /\ \A t \in Threads : pc[t] \in {"idle", "exited"}
=============================================================================

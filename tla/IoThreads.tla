------------------------------ MODULE IoThreads ------------------------------
(***************************************************************************)
(* The IO threads of a server (net/eventloop_thread_pool.cpp,              *)
(* net/eventloop_thread.cpp, base/thread.cpp, base/count_down_latch.h):    *)
(* how the main thread starts each one and waits for the EventLoop it      *)
(* makes on its own stack, how they run their loops, and how the           *)
(* destructors end them one after another.                                 *)
(*                                                                         *)
(* A loop is seen as EventLoop guarantees it: functors run in queue order, *)
(* and a functor queued by another thread ends a poll() that blocks.  What *)
(* events and functors do is left to the module that extends this one.     *)
(***************************************************************************)
EXTENDS Naturals, Sequences

CONSTANT NumThreads  \* numThreads_

ASSUME NumThreadsAssumption == NumThreads \in Nat \ {0}

Workers == 1..NumThreads

VARIABLES
    main,   \* where the main thread is
    who,    \* the EventLoopThread it is starting or destroying
    io,     \* per IO thread: see IoType
    loops,  \* loops_
    next    \* next_, counted from 1

ioVars == <<main, who, io, loops, next>>

\* An IO thread: where it is, loop_ # nullptr, and its EventLoop: quit_, a
\* write to its eventfd, pendingFunctors_ (what the destructor of the EventLoop
\* discards stays there) and the functors swapped out of it.
NewThread == [at |-> "none", shown |-> FALSE, quit |-> FALSE, wake |-> FALSE,
              pending |-> <<>>, batch |-> <<>>]

Starting == {"none", "born", "named", "made"}
Looping  == {"ready", "check", "poll", "store", "swap", "run"}
Ended    == {"left", "gone"}

Moves(i, to) == io' = [io EXCEPT ![i].at = to]

IoInit ==
    /\ main = "start" /\ who = 1
    /\ io = [i \in Workers |-> NewThread]
    /\ loops = <<>> /\ next = 1

-----------------------------------------------------------------------------
\* EventLoopThreadPool::start on the main thread, one thread after another.

\* startLoop(): pthread_create ...
StartThread ==
    /\ main = "start" /\ who <= NumThreads
    /\ Moves(who, "born")
    /\ main' = "latch"
    /\ UNCHANGED <<who, loops, next>>

\* ... then Thread::start() waits on the latch for the thread's id ...
LatchOpens ==
    /\ main = "latch" /\ io[who].at # "born"
    /\ main' = "collect"
    /\ UNCHANGED <<who, io, loops, next>>

\* ... then startLoop() waits under the mutex until loop_ is set.
Collect ==
    /\ main = "collect" /\ io[who].shown
    /\ loops' = Append(loops, who)
    /\ who' = who + 1
    /\ main' = "start"
    /\ UNCHANGED <<io, next>>

CondWaits ==
    /\ main = "collect" /\ ~io[who].shown
    /\ main' = "wait"
    /\ UNCHANGED <<who, io, loops, next>>

StartPool == StartThread \/ LatchOpens \/ Collect \/ CondWaits

\* EventLoopThreadPool::getNextLoop: round robin.
NextAfterLast == next' = next + 1  \* mutant: without the remainder
Advances == next' = (next % Len(loops)) + 1

-----------------------------------------------------------------------------
\* runInThread() and threadFunc() on the new thread.

\* The thread's id, then countDown().
CountDown(i) ==
    /\ io[i].at = "born"
    /\ Moves(i, "named")
    /\ UNCHANGED <<main, who, loops, next>>

\* The EventLoop's constructor, and the ThreadInitCallback.
MakeLoop(i) ==
    /\ io[i].at = "named"
    /\ Moves(i, "made")
    /\ UNCHANGED <<main, who, loops, next>>

\* loop_ = &loop and notify(), under the mutex.
NotifiesNobody(i) == UNCHANGED main  \* mutant
Notifies(i) == main' = IF main = "wait" /\ who = i THEN "collect" ELSE main

Publish(i) ==
    /\ io[i].at = "made"
    /\ io' = [io EXCEPT ![i].at = "ready", ![i].shown = TRUE]
    /\ Notifies(i)
    /\ UNCHANGED <<who, loops, next>>

\* loop() resets quit_, whatever it was.
EnterLoop(i) ==
    /\ io[i].at = "ready"
    /\ io' = [io EXCEPT ![i].at = "check", ![i].quit = FALSE]
    /\ UNCHANGED <<main, who, loops, next>>

\* The condition of loop()'s while, at first and after each batch.
Check(i) ==
    /\ io[i].at = "check" \/ (io[i].at = "run" /\ io[i].batch = <<>>)
    /\ Moves(i, IF io[i].quit THEN "left" ELSE "poll")
    /\ UNCHANGED <<main, who, loops, next>>

\* poll() returns with the eventfd, whose counter handleRead() resets ...
PollWakes(i) ==
    /\ io[i].at = "poll" /\ io[i].wake
    /\ io' = [io EXCEPT ![i].at = "swap", ![i].wake = FALSE]
    /\ UNCHANGED <<main, who, loops, next>>

\* ... or with nothing.
PollTimeout(i) ==
    /\ io[i].at = "poll"
    /\ Moves(i, "swap")
    /\ UNCHANGED <<main, who, loops, next>>

Swap(i) ==
    /\ io[i].at = "swap"
    /\ io' = [io EXCEPT ![i].at = "run", ![i].batch = io[i].pending, ![i].pending = <<>>]
    /\ UNCHANGED <<main, who, loops, next>>

\* loop() has returned: loop_ = nullptr under the mutex, then the EventLoop and
\* the functors left in it are destroyed, and the thread ends.
EndThread(i) ==
    /\ io[i].at = "left"
    /\ io' = [io EXCEPT ![i].at = "gone", ![i].shown = FALSE]
    /\ UNCHANGED <<main, who, loops, next>>

\* What a thread does whenever it can; PollTimeout it does at some time.
Runs(i) == \/ CountDown(i) \/ MakeLoop(i) \/ Publish(i) \/ EnterLoop(i) \/ Check(i)
           \/ PollWakes(i) \/ Swap(i) \/ EndThread(i)

-----------------------------------------------------------------------------
\* queueInLoop() from another thread.
Post(i, functor) ==
    io' = [io EXCEPT ![i].pending = Append(@, functor), ![i].wake = TRUE]

\* ~EventLoopThread for one thread after another.  loop_ is read without the
\* mutex; it is null only if somebody else has ended the loop, and nobody does.
SeesLoop ==
    /\ main = "dtor" /\ who <= NumThreads
    /\ io[who].shown
    /\ main' = "quit"
    /\ UNCHANGED <<who, io, loops, next>>

\* loop_->quit() stores quit_ ...
StoreQuit ==
    /\ main = "quit"
    /\ io' = [io EXCEPT ![who].quit = TRUE]
    /\ main' = "wake"
    /\ UNCHANGED <<who, loops, next>>

\* ... and then wakes the loop, which may have ended since.
WakesNobody == UNCHANGED io  \* mutant
WakesLoop == io' = [io EXCEPT ![who].wake = TRUE]

WakeQuit ==
    /\ main = "wake"
    /\ WakesLoop
    /\ main' = "join"
    /\ UNCHANGED <<who, loops, next>>

JoinsAtOnce == TRUE  \* mutant
Joinable == io[who].at = "gone"
Join ==
    /\ main = "join"
    /\ Joinable
    /\ main' = "dtor" /\ who' = who + 1
    /\ UNCHANGED <<io, loops, next>>

EndPool == SeesLoop \/ StoreQuit \/ WakeQuit \/ Join
=============================================================================

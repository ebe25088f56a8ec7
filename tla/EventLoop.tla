------------------------------ MODULE EventLoop ------------------------------
(***************************************************************************)
(* net/eventloop.cpp with the eventfd and the edge-triggered epoll         *)
(* registration it wakes up with (net/epoll_poller.cpp:29-53): one thread  *)
(* runs loop(), other threads call queueInLoop()/runInLoop() and quit().   *)
(*                                                                         *)
(* A call made by a callback on the loop thread happens within that        *)
(* callback's step: no other thread can see the loop thread between them.  *)
(***************************************************************************)
EXTENDS Naturals, Sequences, FiniteSets

CONSTANTS Callers,   \* threads other than the loop's own
          LoopThread,
          MaxCalls,  \* bound: calls each of these threads makes
          MaxHere    \* bound: calls the loop's own thread makes

Threads == Callers \cup {LoopThread}

ASSUME EventLoopAssumption ==
    /\ LoopThread \notin Callers
    /\ MaxCalls \in Nat /\ MaxHere \in Nat

\* A callback: who queued it, and as its how-manieth call.
Tasks == [from : Threads, n : 1..(MaxCalls + MaxHere)]

Limit(t) == IF t = LoopThread THEN MaxHere ELSE MaxCalls

VARIABLES
    pc,       \* where the loop thread is: see PCs
    quit,     \* quit_
    calling,  \* callingPendingFunctors_
    pending,  \* pendingFunctors_
    batch,    \* functors: what doPendingFunctors() swapped out and has not run yet
    active,   \* activeChannels_ not handled yet: "wakeup" and "io"
    counter,  \* the eventfd's counter
    edge,     \* the eventfd is on epoll's ready list (set by a write)
    waking,   \* callers past the push or the store to quit_, before wakeup()
    calls,    \* calls made so far, per thread
    queued,   \* history: callbacks pushed to pendingFunctors_, in order
    ran,      \* history: callbacks taken from the queue and run, in order
    early,    \* history: how many callbacks the loop's own thread queued before
              \* loop() and before anybody else queued one
    quitters  \* history: when quit() was called: subset of {"early", "late"}

loopVars == <<pc, quit, calling, pending, batch, active, counter, edge>>
vars == <<loopVars, waking, calls, queued, ran, early, quitters>>

PCs == {"init", "check", "poll", "events", "swap", "run", "stopped"}

Init ==
    /\ pc = "init"
    /\ quit = FALSE /\ calling = FALSE
    /\ pending = <<>> /\ batch = <<>> /\ active = {}
    /\ counter = 0 /\ edge = FALSE
    /\ waking = {}
    /\ calls = [t \in Threads |-> 0]
    /\ queued = <<>> /\ ran = <<>> /\ early = 0
    /\ quitters = {}

-----------------------------------------------------------------------------
\* wakeup(): a write to the eventfd adds to it and raises an edge.
Wakeup == counter' = counter + 1 /\ edge' = TRUE

NoWakeup == UNCHANGED <<counter, edge>>

\* pendingFunctors_.push_back under mutex_.
Push(t) == LET task == [from |-> t, n |-> calls[t] + 1] IN
    /\ calls[t] < Limit(t)
    /\ calls' = [calls EXCEPT ![t] = @ + 1]
    /\ pending' = Append(pending, task)
    /\ queued' = Append(queued, task)

SetQuit == /\ quit' = TRUE
           /\ quitters' = quitters \cup {IF pc = "init" THEN "early" ELSE "late"}

-----------------------------------------------------------------------------
\* Another thread's calls: the push or the store, then the wakeup.

\* What is left of such a call after the push or the store.
ForgetsWakeup(t) == UNCHANGED waking  \* mutant
ThenWakes(t) == waking' = waking \cup {t}

\* queueInLoop() from another thread, and runInLoop(), which then only queues.
Queue(t) ==
    /\ t \notin waking
    /\ Push(t)
    /\ ThenWakes(t)
    /\ UNCHANGED <<pc, quit, calling, batch, active, counter, edge, ran, early, quitters>>

\* quit() from another thread.
Quit(t) ==
    /\ t \notin waking
    /\ calls[t] < Limit(t)
    /\ calls' = [calls EXCEPT ![t] = @ + 1]
    /\ SetQuit
    /\ ThenWakes(t)
    /\ UNCHANGED <<pc, calling, pending, batch, active, counter, edge, queued, ran, early>>

CallerWakes(t) ==
    /\ t \in waking
    /\ Wakeup
    /\ waking' = waking \ {t}
    /\ UNCHANGED <<pc, quit, calling, pending, batch, active, calls, queued, ran, early, quitters>>

Caller(t) == Queue(t) \/ Quit(t) \/ CallerWakes(t)

-----------------------------------------------------------------------------
\* What a callback does on the loop thread.  It may run another one in place
\* (runInLoop), which is a step of its own like any other callback.

Nothing == UNCHANGED <<quit, pending, calls, queued, quitters>> /\ NoWakeup

QueueHereSilently == Push(LoopThread) /\ NoWakeup /\ UNCHANGED <<quit, quitters>>  \* mutant
QueueHere == /\ Push(LoopThread)
             /\ IF calling THEN Wakeup ELSE NoWakeup
             /\ UNCHANGED <<quit, quitters>>

QuitHere == /\ calls[LoopThread] < Limit(LoopThread)
            /\ calls' = [calls EXCEPT ![LoopThread] = @ + 1]
            /\ SetQuit
            /\ UNCHANGED <<pending, queued>> /\ NoWakeup

Callback == Nothing \/ QueueHere \/ QuitHere

\* The loop thread's own calls before loop(), e.g. in a ThreadInitCallback.
BeforeLoop ==
    /\ pc = "init"
    /\ QueueHere
    /\ early' = IF early = Len(queued) THEN early + 1 ELSE early
    /\ UNCHANGED <<pc, calling, batch, active, waking, ran>>

StartLoop ==
    /\ pc = "init"
    /\ pc' = "check"
    /\ quit' = FALSE
    /\ UNCHANGED <<calling, pending, batch, active, counter, edge, waking, calls,
                   queued, ran, early, quitters>>

Check ==
    /\ pc = "check"
    /\ pc' = IF quit THEN "stopped" ELSE "poll"
    /\ UNCHANGED <<quit, calling, pending, batch, active, counter, edge, waking,
                   calls, queued, ran, early, quitters>>

\* epoll_wait returns what is on the ready list and still readable.
WakeupReady == edge /\ counter > 0

PollReturns ==
    /\ pc = "poll"
    /\ \E io \in BOOLEAN :
         /\ active' = (IF WakeupReady THEN {"wakeup"} ELSE {})
                        \cup (IF io THEN {"io"} ELSE {})
         /\ active' # {}
    /\ edge' = FALSE
    /\ pc' = "events"
    /\ UNCHANGED <<quit, calling, pending, batch, counter, waking, calls, queued,
                   ran, early, quitters>>

\* kPollTimeMs has passed, or EINTR.
PollTimeout ==
    /\ pc = "poll"
    /\ pc' = "swap"
    /\ UNCHANGED <<quit, calling, pending, batch, active, counter, edge, waking,
                   calls, queued, ran, early, quitters>>

\* handleRead(): reading an eventfd resets its counter.
HandleWakeup ==
    /\ pc = "events" /\ "wakeup" \in active
    /\ active' = active \ {"wakeup"}
    /\ counter' = 0
    /\ UNCHANGED <<pc, quit, calling, pending, batch, edge, waking, calls, queued,
                   ran, early, quitters>>

HandleIo ==
    /\ pc = "events" /\ "io" \in active
    /\ active' = active \ {"io"}
    /\ Callback
    /\ UNCHANGED <<pc, calling, batch, waking, ran, early>>

EventsDone ==
    /\ pc = "events" /\ active = {}
    /\ pc' = "swap"
    /\ UNCHANGED <<quit, calling, pending, batch, active, counter, edge, waking,
                   calls, queued, ran, early, quitters>>

\* doPendingFunctors(): the flag, then the swap under mutex_ ...
CopyPending == batch' = pending /\ UNCHANGED pending  \* mutant
TakePending == batch' = pending /\ pending' = <<>>

Swap ==
    /\ pc = "swap"
    /\ pc' = "run"
    /\ calling' = TRUE
    /\ TakePending
    /\ UNCHANGED <<quit, active, counter, edge, waking, calls, queued, ran, early, quitters>>

\* ... then each functor in turn ...
RunFunctor ==
    /\ pc = "run" /\ batch # <<>>
    /\ batch' = Tail(batch)
    /\ ran' = Append(ran, Head(batch))
    /\ Callback
    /\ UNCHANGED <<pc, calling, active, waking, early>>

\* ... and the flag again.
StaysCalling == UNCHANGED calling  \* mutant
ClearsCalling == calling' = FALSE

BatchDone ==
    /\ pc = "run" /\ batch = <<>>
    /\ pc' = "check"
    /\ ClearsCalling
    /\ UNCHANGED <<quit, pending, batch, active, counter, edge, waking, calls,
                   queued, ran, early, quitters>>

Loop == \/ StartLoop \/ Check \/ PollReturns \/ HandleWakeup \/ HandleIo
        \/ EventsDone \/ Swap \/ RunFunctor \/ BatchDone

Next == Loop \/ PollTimeout \/ BeforeLoop \/ \E t \in Callers : Caller(t)

Spec == Init /\ [][Next]_vars

\* The scheduler runs every thread that can run.  No fairness of PollTimeout:
\* a wakeup must not need the 10 seconds, and none of new calls.  In poll(),
\* only a raised edge obliges epoll_wait to return.
FairSpec == /\ Spec
            /\ WF_vars(Loop /\ ~(pc = "poll" /\ ~WakeupReady))
            /\ \A t \in Callers : WF_vars(CallerWakes(t))

-----------------------------------------------------------------------------
\* calling is true exactly while doPendingFunctors() runs functors.
CallingOnlyInRun == calling <=> pc = "run"

\* Types of the state, and when callingPendingFunctors_ is set, which decides
\* whether the loop's own thread writes to the eventfd (eventloop.cpp:110).
TypeOK ==
    /\ pc \in PCs
    /\ quit \in BOOLEAN /\ calling \in BOOLEAN /\ edge \in BOOLEAN
    /\ pending \in Seq(Tasks) /\ batch \in Seq(Tasks)
    /\ active \subseteq {"wakeup", "io"}
    /\ counter \in Nat
    /\ waking \subseteq Callers
    /\ calls \in [Threads -> Nat]
    /\ queued \in Seq(Tasks) /\ ran \in Seq(Tasks) /\ early \in Nat
    /\ quitters \subseteq {"early", "late"}
    /\ CallingOnlyInRun

\* epoll_wait will return, now or as soon as a caller has made its wakeup().
WillWake == WakeupReady \/ waking # {}

\* Somebody has pushed a callback after those that the loop's own thread pushed
\* before loop(): these are in neither of the two cases in which queueInLoop()
\* writes to the eventfd (eventloop.cpp:110).
Announced == Len(queued) > early

\* No lost wakeup: the loop never blocks in poll() over a callback that nobody
\* is going to wake it up for (eventloop.cpp:104-116), except callbacks that its
\* own thread queued before loop().
NoLostWakeup == pc = "poll" /\ pending # <<>> /\ Announced => WillWake

\* The same for quit(): the loop never blocks in poll() after quit_ is set.
NoLostQuit == pc = "poll" /\ quit => WillWake

\* What makes these inductive.  From the swap on, every callback in the queue
\* has a wakeup after it (early ones apart); only
\* the event phase resets the eventfd, always before the next swap.  What has
\* been queued is what has run, what is about to run and what is pending:
\* nothing is lost, duplicated or reordered.
LoopInv ==
    /\ pc \in {"init", "run", "check", "poll"} /\ pending # <<>> /\ Announced => WillWake
    /\ NoLostQuit
    /\ pc # "events" => active = {}
    /\ pc # "run" => batch = <<>>
    /\ pc = "init" => pending = queued
    /\ queued = ran \o batch \o pending

Callbacks == INSTANCE TaskQueue

\* Callbacks run in queue order, each at most once (doPendingFunctors's swap).
RunInOrder == Callbacks!Spec

\* Every callback queued runs, unless quit() ends the loop: no one waits for the
\* poll timeout, but for what the loop's own thread queued before loop() when
\* nobody else queues anything (eventloop.cpp:104-148).
Runs == \A n \in 1..(MaxCalls * Cardinality(Callers) + MaxHere) :
            (Len(queued) >= n /\ Announced) ~> (Len(ran) >= n \/ "late" \in quitters)

\* quit() called once loop() has started ends it (eventloop.cpp:86-92; one that
\* comes before is undone by line 62).
LateQuitStops == "late" \in quitters ~> pc = "stopped"
=============================================================================

------------------------------ MODULE TaskQueue ------------------------------
(***************************************************************************)
(* What EventLoop promises about queueInLoop() (net/eventloop.h:53-68) and *)
(* ThreadPool about run() (base/threadpool.h:17-28,54-55): callbacks start *)
(* in the order they were queued, each at most once.  Both are shown to    *)
(* implement it.                                                           *)
(***************************************************************************)
EXTENDS Naturals, Sequences

CONSTANT Tasks

VARIABLES queued,  \* every callback ever queued, in order
          ran      \* the callbacks that have run, in order

vars == <<queued, ran>>

Init == queued = <<>> /\ ran = <<>>

Submit == /\ \E task \in Tasks : queued' = Append(queued, task)
          /\ UNCHANGED ran

Run == /\ Len(ran) < Len(queued)
       /\ ran' = Append(ran, queued[Len(ran) + 1])
       /\ UNCHANGED queued

\* A callback that queues another one while it runs.
RunAndSubmit == /\ Len(ran) < Len(queued)
                /\ ran' = Append(ran, queued[Len(ran) + 1])
                /\ \E task \in Tasks : queued' = Append(queued, task)

Next == Submit \/ Run \/ RunAndSubmit

Spec == Init /\ [][Next]_vars
=============================================================================

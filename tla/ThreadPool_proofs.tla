------------------------- MODULE ThreadPool_proofs -------------------------
(***************************************************************************)
(* Proofs about ThreadPool for every finite set of workers and submitters, *)
(* every queue limit and every number of tasks: type correctness, the      *)
(* order of the queue, and that no wakeup is lost on either condition.     *)
(***************************************************************************)
EXTENDS ThreadPool, FiniteSetTheorems, SequenceTheorems, TLAPS

(* The names of tasks. *)
Tasks == 1..MaxTasks

(* Concatenation of tasks is associative. *)
LEMMA TasksAssociative ==
  ASSUME NEW s \in Seq(Tasks), NEW t \in Seq(Tasks), NEW u \in Seq(Tasks)
  PROVE  (s \o t) \o u = s \o (t \o u)
BY ConcatAssociative, SMTT(30)

(* The threads that f has at p. *)
At(f, p) == {t \in Threads : f[t] = p}

(* The threads at a place can be counted. *)
LEMMA AtFinite ==
  ASSUME NEW f, NEW p
  PROVE  IsFiniteSet(At(f, p)) /\ Cardinality(At(f, p)) \in Nat
<1>1. IsFiniteSet(Threads)
  BY ThreadPoolAssumption, FS_Union DEF Threads
<1>2. At(f, p) \in SUBSET Threads
  BY DEF At
<1>3. IsFiniteSet(At(f, p))
  BY <1>1, <1>2, FS_Subset
<1> QED BY <1>3, FS_CardinalityType

(* One thread comes to a place: there is one more. *)
LEMMA Arrives ==
  ASSUME NEW f, NEW g, NEW p, NEW u \in Threads, f[u] # p, g[u] = p,
         \A x \in Threads : x # u => (g[x] = p <=> f[x] = p)
  PROVE  Cardinality(At(g, p)) = Cardinality(At(f, p)) + 1
<1>1. At(g, p) = At(f, p) \cup {u} /\ u \notin At(f, p)
  BY DEF At
<1>2. IsFiniteSet(At(f, p))
  BY AtFinite
<1>3. Cardinality(At(f, p) \cup {u}) = Cardinality(At(f, p)) + 1
  BY <1>1, <1>2, FS_AddElement
<1> QED BY <1>1, <1>3

(* The threads at a place do not change. *)
LEMMA Stays ==
  ASSUME NEW f, NEW g, NEW p, \A x \in Threads : g[x] = p <=> f[x] = p
  PROVE  At(g, p) = At(f, p)
BY DEF At

(* Condition::notify: t moves to p, and one of the threads that then wait at  *)
(* cond, if there is one, to retry.                                           *)
LEMMA NotifiedCases ==
  ASSUME NEW t, NEW p, NEW cond, NEW retry, pc' \in Notified(t, p, cond, retry)
  PROVE  \/ /\ pc' = [pc EXCEPT ![t] = p]
            /\ \A u \in Threads : pc'[u] # cond
         \/ \E u \in Threads : /\ [pc EXCEPT ![t] = p][u] = cond
                               /\ pc' = [[pc EXCEPT ![t] = p] EXCEPT ![u] = retry]
<1> DEFINE at == [pc EXCEPT ![t] = p]
           waiting == {u \in Threads : at[u] = cond}
<1>1. CASE waiting = {}
  BY <1>1 DEF Notified
<1>2. CASE waiting # {}
  <2>1. PICK u \in waiting : pc' = [at EXCEPT ![u] = retry]
    BY <1>2 DEF Notified
  <2> QED BY <2>1
<1> QED BY <1>1, <1>2

(* The bounds say nothing of threads that do not wait, and only the number of *)
(* threads at each place matters.                                             *)
LEMMA IdleAt ==
  /\ NoIdleWaiter <=>
       /\ At(pc, "notEmpty") # {} => Len(queue) <= Cardinality(At(pc, "take"))
       /\ At(pc, "notFull") # {} => MaxQueueSize - Len(queue) <= Cardinality(At(pc, "submit"))
  /\ NoWaitAfterStop <=> (~running => At(pc, "notEmpty") = {} /\ At(pc, "notFull") = {})
BY DEF NoIdleWaiter, NoWaitAfterStop, ThreadsAt, At

LEMMA IdleAtNext ==
  /\ NoIdleWaiter' <=>
       /\ At(pc', "notEmpty") # {} => Len(queue') <= Cardinality(At(pc', "take"))
       /\ At(pc', "notFull") # {} => MaxQueueSize - Len(queue') <= Cardinality(At(pc', "submit"))
  /\ NoWaitAfterStop' <=> (~running' => At(pc', "notEmpty") = {} /\ At(pc', "notFull") = {})
BY DEF NoIdleWaiter, NoWaitAfterStop, ThreadsAt, At

-----------------------------------------------------------------------------
LEMMA InitInv == Init => PoolInv
<1> SUFFICES ASSUME Init PROVE PoolInv
  OBVIOUS
<1>1. TypeOK
  BY ThreadPoolAssumption DEF Init, TypeOK, PCs, Threads
<1>2. Fifo
  BY DEF Init, Fifo
<1>3. At(pc, "notEmpty") = {} /\ At(pc, "notFull") = {}
  BY DEF Init, At
<1>4. Offering
  BY DEF Init, Offering
<1> QED BY <1>1, <1>2, <1>3, <1>4, IdleAt DEF PoolInv

(* What a step needs to show of the counts when no queue entry comes or goes: *)
(* whoever starts to wait may do so, and whoever stops being on its way was   *)
(* not counted on.                                                            *)
LEMMA QueueKept ==
  ASSUME PoolInv, UNCHANGED <<queue, running>>, NEW t \in Threads,
         pc' \in [Threads -> PCs], \A x \in Threads : x # t => pc'[x] = pc[x],
         pc'[t] = "notEmpty" => queue = <<>> /\ running,
         pc'[t] = "notFull" => MaxQueueSize <= Len(queue) /\ running,
         pc[t] = "take" => queue = <<>>,
         pc[t] = "submit" => ~running \/ MaxQueueSize <= Len(queue)
  PROVE  NoIdleWaiter' /\ NoWaitAfterStop'
<1>1. NoWaitAfterStop'
  BY IdleAt, IdleAtNext DEF PoolInv, At
<1>2. Len(queue) \in Nat /\ MaxQueueSize \in Nat
  BY ThreadPoolAssumption DEF PoolInv, TypeOK
<1>3. ASSUME At(pc', "notEmpty") # {} PROVE Len(queue) <= Cardinality(At(pc', "take"))
  <2>1. CASE queue = <<>>
    BY <2>1, <1>2, AtFinite
  <2>2. CASE queue # <<>>
    <3>1. pc'[t] # "notEmpty" /\ pc[t] # "take"
      BY <2>2
    <3>2. At(pc, "notEmpty") # {}
      BY <1>3, <3>1 DEF At
    <3>3. Len(queue) <= Cardinality(At(pc, "take"))
      BY <3>2, IdleAt DEF PoolInv
    <3>4. CASE pc'[t] = "take"
      <4>1. Cardinality(At(pc', "take")) = Cardinality(At(pc, "take")) + 1
        <5>1. \A x \in Threads : x # t => (pc'[x] = "take" <=> pc[x] = "take")
          OBVIOUS
        <5> QED BY <3>1, <3>4, <5>1, Arrives
      <4>2. Cardinality(At(pc, "take")) \in Nat
        BY AtFinite
      <4> QED BY <1>2, <3>3, <4>1, <4>2
    <3>5. CASE pc'[t] # "take"
      BY <3>1, <3>3, <3>5, Stays
    <3> QED BY <3>4, <3>5
  <2> QED BY <2>1, <2>2
<1>4. ASSUME At(pc', "notFull") # {}
      PROVE  MaxQueueSize - Len(queue) <= Cardinality(At(pc', "submit"))
  <2>1. CASE MaxQueueSize <= Len(queue)
    BY <2>1, <1>2, AtFinite
  <2>2. CASE ~(MaxQueueSize <= Len(queue))
    <3>1. running
      BY <1>1, <1>4, IdleAtNext
    <3>2. pc'[t] # "notFull" /\ pc[t] # "submit"
      BY <2>2, <3>1
    <3>3. At(pc, "notFull") # {}
      BY <1>4, <3>2 DEF At
    <3>4. MaxQueueSize - Len(queue) <= Cardinality(At(pc, "submit"))
      BY <3>3, IdleAt DEF PoolInv
    <3>5. CASE pc'[t] = "submit"
      <4>1. Cardinality(At(pc', "submit")) = Cardinality(At(pc, "submit")) + 1
        <5>1. \A x \in Threads : x # t => (pc'[x] = "submit" <=> pc[x] = "submit")
          OBVIOUS
        <5> QED BY <3>2, <3>5, <5>1, Arrives
      <4>2. Cardinality(At(pc, "submit")) \in Nat
        BY AtFinite
      <4> QED BY <1>2, <3>4, <4>1, <4>2
    <3>6. CASE pc'[t] # "submit"
      BY <3>2, <3>4, <3>6, Stays
    <3> QED BY <3>5, <3>6
  <2> QED BY <2>1, <2>2
<1> QED BY <1>1, <1>3, <1>4, IdleAtNext

(* The steps that leave the queue alone. *)
LEMMA QuietStep ==
  ASSUME PoolInv, NEW t \in Threads,
         Hand(t) \/ RunWaits(t) \/ RunDrops(t) \/ SpuriousWakeup(t)
         \/ (t \in Workers /\ (Check(t) \/ TakeWaits(t) \/ TakeNothing(t) \/ TaskEnds(t)))
  PROVE  PoolInv'
<1>1. pc \in [Threads -> PCs] /\ t \in DOMAIN pc /\ MaxQueueSize \in Nat /\ MaxTasks \in Nat
      /\ handed \in Nat /\ Workers \cap Submitters = {}
  BY ThreadPoolAssumption DEF PoolInv, TypeOK
<1>2. UNCHANGED <<queue, running, accepted, taken, owner>>
  BY DEF Hand, RunWaits, RunDrops, SpuriousWakeup, Check, TakeWaits, TakeNothing, TaskEnds
<1>3. /\ pc' \in [Threads -> PCs]
      /\ \A x \in Threads : x # t => pc'[x] = pc[x]
      /\ t \in Submitters => pc'[t] \in {"idle", "submit", "notFull"}
      /\ pc'[t] = "notEmpty" => queue = <<>> /\ running
      /\ pc'[t] = "notFull" => MaxQueueSize <= Len(queue) /\ running
      /\ pc[t] = "take" => queue = <<>>
      /\ pc[t] = "submit" => ~running \/ MaxQueueSize <= Len(queue)
      /\ pc'[t] \in {"submit", "notFull"} =>
           \/ pc[t] \in {"submit", "notFull"} /\ offer' = offer
           \/ offer'[t] = handed + 1 /\ \A x \in Threads : x # t => offer'[x] = offer[x]
      /\ pc'[t] \notin {"submit", "notFull"} => offer' = offer
  <2>1. CASE Hand(t)
    BY <2>1, <1>1 DEF Hand, PCs, PoolInv, TypeOK
  <2>2. CASE RunWaits(t)
    BY <2>2, <1>1 DEF RunWaits, IsFull, PCs
  <2>3. CASE RunDrops(t)
    BY <2>3, <1>1 DEF RunDrops, Back, PCs
  <2>4. CASE SpuriousWakeup(t)
    BY <2>4, <1>1 DEF SpuriousWakeup, PCs, PoolInv, TypeOK
  <2>5. CASE t \in Workers /\ Check(t)
    BY <2>5, <1>1 DEF Check, PCs
  <2>6. CASE t \in Workers /\ TakeWaits(t)
    BY <2>6, <1>1 DEF TakeWaits, PCs
  <2>7. CASE t \in Workers /\ TakeNothing(t)
    BY <2>7, <1>1 DEF TakeNothing, PCs
  <2>8. CASE t \in Workers /\ TaskEnds(t)
    BY <2>8, <1>1 DEF TaskEnds, PCs
  <2> QED BY <2>1, <2>2, <2>3, <2>4, <2>5, <2>6, <2>7, <2>8
<1>4. handed' \in 0..MaxTasks /\ offer' \in [Threads -> 0..MaxTasks]
  <2>1. CASE Hand(t)
    BY <2>1, <1>1 DEF Hand, PoolInv, TypeOK
  <2>2. CASE ~Hand(t)
    BY <2>2 DEF RunWaits, RunDrops, SpuriousWakeup, Check, TakeWaits, TakeNothing,
                TaskEnds, PoolInv, TypeOK
  <2> QED BY <2>1, <2>2
<1>5. TypeOK'
  BY <1>1, <1>2, <1>3, <1>4 DEF PoolInv, TypeOK, Threads
<1>6. Fifo'
  BY <1>2 DEF PoolInv, Fifo
<1>7. Offering'
  BY <1>1, <1>3 DEF PoolInv, Offering
<1>8. NoIdleWaiter' /\ NoWaitAfterStop'
  BY <1>2, <1>3, QueueKept
<1> QED BY <1>5, <1>6, <1>7, <1>8 DEF PoolInv

(* run() appends a task and wakes a worker. *)
LEMMA PushStep ==
  ASSUME PoolInv, NEW t \in Threads, RunPushes(t)
  PROVE  PoolInv'
<1>1. /\ pc \in [Threads -> PCs] /\ MaxQueueSize \in Nat /\ MaxTasks \in Nat
      /\ Workers \cap Submitters = {} /\ Len(queue) \in Nat
      /\ pc[t] = "submit" /\ running /\ offer[t] \in 1..MaxTasks
      /\ queue \in Seq(1..MaxTasks) /\ accepted \in Seq(1..MaxTasks) /\ taken \in Seq(1..MaxTasks)
  BY ThreadPoolAssumption DEF PoolInv, TypeOK, Offering, RunPushes
<1>2. /\ queue' = Append(queue, offer[t]) /\ accepted' = Append(accepted, offer[t])
      /\ UNCHANGED <<running, owner, handed, offer, taken>>
  BY DEF RunPushes
<1>3. queue' \in Seq(1..MaxTasks) /\ accepted' \in Seq(1..MaxTasks) /\ Len(queue') = Len(queue) + 1
  BY <1>1, <1>2
<1>4. /\ pc' \in [Threads -> PCs] /\ pc'[t] = Back(t)
      /\ \/ At(pc', "notEmpty") = {} /\ \A x \in Threads : x # t => pc'[x] = pc[x]
         \/ \E u \in Threads :
              /\ u # t /\ pc[u] = "notEmpty" /\ pc'[u] = "take"
              /\ \A x \in Threads : x # t /\ x # u => pc'[x] = pc[x]
  <2>1. pc' \in Notified(t, Back(t), "notEmpty", "take")
    BY DEF RunPushes
  <2>2. Back(t) \in PCs /\ "notEmpty" \in PCs /\ "take" \in PCs /\ Back(t) # "notEmpty"
        /\ pc[t] # "notEmpty"
    BY <1>1 DEF Back, PCs
  <2>3. \/ /\ pc' = [pc EXCEPT ![t] = Back(t)]
           /\ \A u \in Threads : pc'[u] # "notEmpty"
        \/ \E u \in Threads : /\ [pc EXCEPT ![t] = Back(t)][u] = "notEmpty"
                              /\ pc' = [[pc EXCEPT ![t] = Back(t)] EXCEPT ![u] = "take"]
    BY <2>1, NotifiedCases
  <2> HIDE DEF Back
  <2> QED BY <1>1, <2>2, <2>3 DEF At
<1>5. Back(t) \in {"check", "idle"} /\ (t \in Submitters => Back(t) = "idle")
  BY <1>1 DEF Back
<1>6. TypeOK'
  <2>1. MaxQueueSize > 0 => Len(queue') <= MaxQueueSize
    BY <1>1, <1>3 DEF RunPushes, IsFull
  <2>2. \A s \in Submitters : pc'[s] \in {"idle", "submit", "notFull"}
    BY <1>4, <1>5 DEF PoolInv, TypeOK, Threads
  <2> QED BY <1>2, <1>3, <1>4, <2>1, <2>2 DEF PoolInv, TypeOK
<1>7. Fifo'
  <2>1. accepted = taken \o queue
    BY DEF PoolInv, Fifo
  <2> DEFINE one == <<offer[t]>>
  <2>2. one \in Seq(1..MaxTasks)
    BY <1>1
  <2>3. queue' = queue \o one /\ accepted' = accepted \o one
    BY <1>1, <1>2, AppendIsConcat
  <2> HIDE DEF one
  <2>4. (taken \o queue) \o one = taken \o (queue \o one)
    BY <1>1, <2>2, TasksAssociative DEF Tasks
  <2> QED BY <1>2, <2>1, <2>3, <2>4 DEF Fifo
<1>8. Offering'
  BY <1>2, <1>4, <1>5 DEF PoolInv, Offering
<1>9. NoWaitAfterStop'
  BY <1>1, <1>2 DEF NoWaitAfterStop
<1>10. ASSUME At(pc', "notEmpty") # {} PROVE Len(queue') <= Cardinality(At(pc', "take"))
  <2>1. PICK u \in Threads : /\ u # t /\ pc[u] = "notEmpty" /\ pc'[u] = "take"
                             /\ \A x \in Threads : x # t /\ x # u => pc'[x] = pc[x]
    BY <1>4, <1>10
  <2>2. Len(queue) <= Cardinality(At(pc, "take"))
    <3>1. u \in At(pc, "notEmpty")
      BY <2>1 DEF At
    <3> QED BY <3>1, IdleAt DEF PoolInv
  <2>3. \A x \in Threads : x # u => (pc'[x] = "take" <=> pc[x] = "take")
    BY <1>1, <1>4, <1>5, <2>1
  <2>4. Cardinality(At(pc', "take")) = Cardinality(At(pc, "take")) + 1
    BY <2>1, <2>3, Arrives
  <2>5. Cardinality(At(pc, "take")) \in Nat
    BY AtFinite
  <2> QED BY <1>1, <1>3, <2>2, <2>4, <2>5
<1>11. ASSUME At(pc', "notFull") # {}
       PROVE  MaxQueueSize - Len(queue') <= Cardinality(At(pc', "submit"))
  <2>1. \A x \in Threads : x # t => (pc'[x] = "submit" <=> pc[x] = "submit")
    BY <1>4
  <2>2. At(pc, "notFull") # {}
    BY <1>4, <1>5, <1>11 DEF At
  <2>3. MaxQueueSize - Len(queue) <= Cardinality(At(pc, "submit"))
    BY <2>2, IdleAt DEF PoolInv
  <2>4. Cardinality(At(pc, "submit")) = Cardinality(At(pc', "submit")) + 1
    <3>1. pc'[t] # "submit" /\ pc[t] = "submit"
      BY <1>1, <1>4, <1>5
    <3> QED BY <2>1, <3>1, Arrives
  <2>5. Cardinality(At(pc', "submit")) \in Nat
    BY AtFinite
  <2> QED BY <1>1, <1>3, <2>3, <2>4, <2>5
<1> QED BY <1>6, <1>7, <1>8, <1>9, <1>10, <1>11, IdleAtNext DEF PoolInv

(* take() removes the oldest task and wakes a thread that waits for room. *)
LEMMA TakeStep ==
  ASSUME PoolInv, NEW w \in Workers, Take(w)
  PROVE  PoolInv'
<1>1. /\ pc \in [Threads -> PCs] /\ MaxQueueSize \in Nat /\ MaxTasks \in Nat
      /\ Workers \cap Submitters = {} /\ w \in Threads /\ w \notin Submitters
      /\ pc[w] = "take" /\ queue # <<>>
      /\ queue \in Seq(1..MaxTasks) /\ taken \in Seq(1..MaxTasks)
  BY ThreadPoolAssumption DEF PoolInv, TypeOK, Take, Threads
<1>2. /\ queue' = Tail(queue) /\ taken' = Append(taken, Head(queue))
      /\ UNCHANGED <<running, owner, handed, offer, accepted>>
  BY DEF Take, Rest
<1>3. /\ queue' \in Seq(1..MaxTasks) /\ taken' \in Seq(1..MaxTasks)
      /\ Len(queue) \in Nat \ {0} /\ Len(queue') = Len(queue) - 1
  BY <1>1, <1>2, HeadTailProperties
<1>4. /\ pc' \in [Threads -> PCs] /\ pc'[w] = "task"
      /\ \/ /\ MaxQueueSize > 0 => At(pc', "notFull") = {}
            /\ \A x \in Threads : x # w => pc'[x] = pc[x]
         \/ \E u \in Threads :
              /\ u # w /\ pc[u] = "notFull" /\ pc'[u] = "submit"
              /\ \A x \in Threads : x # w /\ x # u => pc'[x] = pc[x]
  <2>1. "task" \in PCs /\ "submit" \in PCs
    BY DEF PCs
  <2>2. CASE MaxQueueSize > 0
    <3>1. pc' \in Notified(w, "task", "notFull", "submit")
      BY <2>2 DEF Take
    <3>2. \/ /\ pc' = [pc EXCEPT ![w] = "task"]
             /\ \A u \in Threads : pc'[u] # "notFull"
          \/ \E u \in Threads : /\ [pc EXCEPT ![w] = "task"][u] = "notFull"
                                /\ pc' = [[pc EXCEPT ![w] = "task"] EXCEPT ![u] = "submit"]
      BY <3>1, NotifiedCases
    <3> QED BY <1>1, <2>1, <3>2 DEF At
  <2>3. CASE ~(MaxQueueSize > 0)
    BY <1>1, <2>1, <2>3 DEF Take
  <2> QED BY <2>2, <2>3
<1>5. TypeOK'
  <2>1. MaxQueueSize > 0 => Len(queue') <= MaxQueueSize
    BY <1>1, <1>3 DEF PoolInv, TypeOK
  <2>2. \A s \in Submitters : pc'[s] \in {"idle", "submit", "notFull"}
    BY <1>1, <1>4 DEF PoolInv, TypeOK, Threads
  <2> QED BY <1>2, <1>3, <1>4, <2>1, <2>2 DEF PoolInv, TypeOK
<1>6. Fifo'
  <2> DEFINE one == <<Head(queue)>>
             rest == Tail(queue)
  <2>1. one \in Seq(Tasks) /\ rest \in Seq(Tasks) /\ queue = one \o rest
    BY <1>1, HeadTailProperties DEF Tasks
  <2>2. taken' = taken \o one
    BY <1>1, <1>2, AppendIsConcat, HeadTailProperties
  <2> HIDE DEF one, rest
  <2>3. (taken \o one) \o rest = taken \o (one \o rest)
    BY <1>1, <2>1, TasksAssociative DEF Tasks
  <2>4. queue' = rest /\ accepted' = accepted
    BY <1>2 DEF rest
  <2> QED BY <2>1, <2>2, <2>3, <2>4 DEF Fifo, PoolInv
<1>7. Offering'
  BY <1>2, <1>4 DEF PoolInv, Offering
<1>8. NoWaitAfterStop'
  BY <1>1, <1>2, <1>4, IdleAt, IdleAtNext DEF PoolInv, At
<1>9. ASSUME At(pc', "notEmpty") # {} PROVE Len(queue') <= Cardinality(At(pc', "take"))
  <2>1. \A x \in Threads : x # w => (pc'[x] = "take" <=> pc[x] = "take")
    BY <1>4
  <2>2. At(pc, "notEmpty") # {}
    BY <1>4, <1>9 DEF At
  <2>3. Len(queue) <= Cardinality(At(pc, "take"))
    BY <2>2, IdleAt DEF PoolInv
  <2>4. Cardinality(At(pc, "take")) = Cardinality(At(pc', "take")) + 1
    <3>1. pc'[w] # "take"
      BY <1>4
    <3> QED BY <1>1, <2>1, <3>1, Arrives
  <2>5. Cardinality(At(pc', "take")) \in Nat
    BY AtFinite
  <2> QED BY <1>3, <2>3, <2>4, <2>5
<1>10. ASSUME At(pc', "notFull") # {}
       PROVE  MaxQueueSize - Len(queue') <= Cardinality(At(pc', "submit"))
  <2>1. Cardinality(At(pc', "submit")) \in Nat /\ Cardinality(At(pc, "submit")) \in Nat
    BY AtFinite
  <2>2. CASE MaxQueueSize = 0
    BY <1>3, <2>1, <2>2
  <2>3. CASE MaxQueueSize > 0
    <3>1. PICK u \in Threads : /\ u # w /\ pc[u] = "notFull" /\ pc'[u] = "submit"
                               /\ \A x \in Threads : x # w /\ x # u => pc'[x] = pc[x]
      BY <1>4, <1>10, <2>3
    <3>2. MaxQueueSize - Len(queue) <= Cardinality(At(pc, "submit"))
      <4>1. u \in At(pc, "notFull")
        BY <3>1 DEF At
      <4> QED BY <4>1, IdleAt DEF PoolInv
    <3>3. \A x \in Threads : x # u => (pc'[x] = "submit" <=> pc[x] = "submit")
      BY <1>1, <1>4, <3>1
    <3>4. Cardinality(At(pc', "submit")) = Cardinality(At(pc, "submit")) + 1
      BY <3>1, <3>3, Arrives
    <3> QED BY <1>1, <1>3, <2>1, <3>2, <3>4
  <2> QED BY <1>1, <2>2, <2>3
<1> QED BY <1>5, <1>6, <1>7, <1>8, <1>9, <1>10, IdleAtNext DEF PoolInv

(* stop() wakes everybody. *)
LEMMA StopStep ==
  ASSUME PoolInv, Stop
  PROVE  PoolInv'
<1>1. /\ pc' = [t \in Threads |-> CASE pc[t] = "notEmpty" -> "take"
                                    [] pc[t] = "notFull"  -> "submit"
                                    [] OTHER              -> pc[t]]
      /\ running' = FALSE /\ owner' = "joining"
      /\ UNCHANGED <<queue, handed, offer, accepted, taken>>
  BY DEF Stop, WakesAll
<1>2. /\ pc' \in [Threads -> PCs]
      /\ \A t \in Threads : /\ pc[t] = "notEmpty" => pc'[t] = "take"
                            /\ pc[t] = "notFull" => pc'[t] = "submit"
                            /\ pc[t] \notin {"notEmpty", "notFull"} => pc'[t] = pc[t]
  BY <1>1 DEF PoolInv, TypeOK, PCs
<1>3. TypeOK'
  BY <1>1, <1>2 DEF PoolInv, TypeOK, Threads
<1>4. Fifo' /\ Offering'
  BY <1>1, <1>2 DEF PoolInv, Fifo, Offering
<1>5. At(pc', "notEmpty") = {} /\ At(pc', "notFull") = {}
  BY <1>2 DEF At
<1> QED BY <1>3, <1>4, <1>5, IdleAtNext DEF PoolInv

LEMMA NextInv == PoolInv /\ [Next]_vars => PoolInv'
<1> SUFFICES ASSUME PoolInv, [Next]_vars PROVE PoolInv'
  OBVIOUS
<1>1. ASSUME NEW t \in Threads, Hand(t) \/ RunWaits(t) \/ RunDrops(t) \/ SpuriousWakeup(t)
      PROVE  PoolInv'
  BY <1>1, QuietStep
<1>2. ASSUME NEW t \in Threads, RunPushes(t) PROVE PoolInv'
  BY <1>2, PushStep
<1>3. ASSUME NEW w \in Workers, Check(w) \/ TakeWaits(w) \/ TakeNothing(w) \/ TaskEnds(w)
      PROVE  PoolInv'
  <2>1. w \in Threads
    BY DEF Threads
  <2> QED BY <1>3, <2>1, QuietStep
<1>4. ASSUME NEW w \in Workers, Take(w) PROVE PoolInv'
  BY <1>4, TakeStep
<1>5. CASE Stop
  BY <1>5, StopStep
<1>6. CASE Joined
  BY <1>6 DEF Joined, PoolInv, TypeOK, Fifo, NoIdleWaiter, ThreadsAt, Offering, NoWaitAfterStop
<1>7. CASE UNCHANGED vars
  BY <1>7 DEF vars, PoolInv, TypeOK, Fifo, NoIdleWaiter, ThreadsAt, Offering, NoWaitAfterStop
<1> QED BY <1>1, <1>2, <1>3, <1>4, <1>5, <1>6, <1>7 DEF Next, InRun, Works

(* Whatever threads submit, wait, wake and stop: the inductive invariant holds. *)
THEOREM InvCorrect == Spec => []PoolInv
<1> QED BY InitInv, NextInv, PTL DEF Spec

(* Every variable keeps its type, and the queue never outgrows its limit        *)
(* (threadpool.cpp:69-75).                                                      *)
THEOREM TypeCorrect == Spec => []TypeOK
<1>1. PoolInv => TypeOK
  BY DEF PoolInv
<1> QED BY <1>1, InvCorrect, PTL

(* Tasks are taken in the order they were accepted, each at most once           *)
(* (threadpool.cpp:63-96).                                                      *)
THEOREM FifoCorrect == Spec => []Fifo
<1>1. PoolInv => Fifo
  BY DEF PoolInv
<1> QED BY <1>1, InvCorrect, PTL

(* No wakeup is lost on either condition, for any number of workers, submitters *)
(* and places (threadpool.cpp:68-70,76,81-85,91-93).                            *)
THEOREM NoIdleWaiterCorrect == Spec => []NoIdleWaiter
<1>1. PoolInv => NoIdleWaiter
  BY DEF PoolInv
<1> QED BY <1>1, InvCorrect, PTL

-----------------------------------------------------------------------------
(* The refinement of TaskQueue: a step accepts one task, takes the first that    *)
(* was not taken yet, or changes neither history.                               *)
LEMMA PushIsSubmit ==
  ASSUME PoolInv, NEW t \in Threads, RunPushes(t)
  PROVE  Promise!Submit
<1>1. offer[t] \in 0..MaxTasks /\ offer[t] # 0 /\ MaxTasks \in Nat
  BY ThreadPoolAssumption DEF PoolInv, TypeOK, Offering, RunPushes
<1>2. offer[t] \in 1..MaxTasks
  BY <1>1
<1> QED BY <1>2 DEF RunPushes, Promise!Submit

LEMMA TakeIsRun ==
  ASSUME PoolInv, NEW w \in Workers, Take(w)
  PROVE  Promise!Run
<1>1. /\ queue \in Seq(Tasks) /\ taken \in Seq(Tasks) /\ queue # <<>>
      /\ accepted = taken \o queue
      /\ taken' = Append(taken, Head(queue)) /\ accepted' = accepted
  BY DEF PoolInv, TypeOK, Fifo, Take, Tasks
<1>2. Len(queue) \in Nat \ {0} /\ Len(taken) \in Nat /\ Head(queue) = queue[1]
  BY <1>1, EmptySeq, LenProperties
<1>3. /\ Len(accepted) = Len(taken) + Len(queue)
      /\ accepted[Len(taken) + 1] = queue[1]
  <2>1. /\ Len(taken \o queue) = Len(taken) + Len(queue)
        /\ \A k \in 1..(Len(taken) + Len(queue)) :
              (taken \o queue)[k] = IF k <= Len(taken) THEN taken[k] ELSE queue[k - Len(taken)]
    BY <1>1, ConcatProperties
  <2>2. Len(taken) + 1 \in 1..(Len(taken) + Len(queue)) /\ ~(Len(taken) + 1 <= Len(taken))
    BY <1>2
  <2>3. Len(taken) + 1 - Len(taken) = 1
    BY <1>2
  <2>4. accepted[Len(taken) + 1] = queue[Len(taken) + 1 - Len(taken)]
    BY <1>1, <2>1, <2>2
  <2> QED BY <1>1, <2>1, <2>3, <2>4
<1> QED BY <1>1, <1>2, <1>3 DEF Promise!Run

LEMMA NextIsOrdered == PoolInv /\ [Next]_vars => [Promise!Next]_(Promise!vars)
<1> SUFFICES ASSUME PoolInv, [Next]_vars PROVE Promise!Next \/ UNCHANGED Promise!vars
  OBVIOUS
<1>1. ASSUME NEW t \in Threads, RunPushes(t) PROVE Promise!Next
  BY <1>1, PushIsSubmit DEF Promise!Next
<1>2. ASSUME NEW w \in Workers, Take(w) PROVE Promise!Next
  BY <1>2, TakeIsRun DEF Promise!Next
<1>3. ASSUME NEW t \in Threads, Hand(t) \/ RunWaits(t) \/ RunDrops(t) \/ SpuriousWakeup(t)
      PROVE  UNCHANGED Promise!vars
  BY <1>3 DEF Hand, RunWaits, RunDrops, SpuriousWakeup, Promise!vars
<1>4. ASSUME NEW w \in Workers, Check(w) \/ TakeWaits(w) \/ TakeNothing(w) \/ TaskEnds(w)
      PROVE  UNCHANGED Promise!vars
  BY <1>4 DEF Check, TakeWaits, TakeNothing, TaskEnds, Promise!vars
<1>5. CASE Stop \/ Joined \/ UNCHANGED vars
  BY <1>5 DEF Stop, Joined, vars, Promise!vars
<1> QED BY <1>1, <1>2, <1>3, <1>4, <1>5 DEF Next, InRun, Works

(* For every number of workers, submitters and places, the pool is a TaskQueue:   *)
(* tasks are taken in the order they were accepted, each at most once, whoever    *)
(* takes them, waits or stops the pool (threadpool.cpp:45-96).                   *)
THEOREM TasksInOrderCorrect == Spec => TasksInOrder
<1>1. Init => Promise!Init
  BY DEF Init, Promise!Init
<1> QED BY <1>1, NextIsOrdered, InvCorrect, PTL DEF Spec, TasksInOrder, Promise!Spec
=============================================================================

--------------------------- MODULE SkipList_proofs ---------------------------
(***************************************************************************)
(* Proofs about SkipList for every set of threads, keys and values and     *)
(* every maxLevel_: type correctness, the structure of the list, and that  *)
(* its operations are atomic operations on a map.                          *)
(*                                                                         *)
(* Types alone are not inductive (a null update[i] would be followed), so  *)
(* TypeOK and Inv are proved together, one lemma per group of actions.     *)
(***************************************************************************)
EXTENDS SkipList, FiniteSetTheorems, TLAPS

Keyed == {"insert", "search", "remove"}

(* A request of an operation on a key carries a key, and insert() a value. *)
LEMMA RequestTypes ==
  ASSUME TypeOK, NEW t \in Threads
  PROVE  /\ req[t].name \in Keyed => req[t].key \in Keys
         /\ req[t].name = "insert" => req[t].value \in Values
         /\ req[t].name \in Keyed \cup {"size", "clear"}
  BY DEF TypeOK, Requests, Keyed

(* Keys are above the header, and the header is above nothing. *)
LEMMA KeyOrder ==
  ASSUME NEW k \in Keys
  PROVE  k \in Nat /\ k > Header /\ k # Nil /\ k # Header
  BY SkipListAssumption DEF Header, Nil

(* After the search loop (skiplist.h:226-242): update[] holds the last node
   below the key on every level in use, and the key is linked iff it is the
   node after current. *)
LEMMA AfterSearch ==
  ASSUME TypeOK, Inv, NEW t \in Threads,
         pc[t] = "apply", req[t].name \in Keyed
  PROVE  /\ \A j \in 0..currentLevel : LastBelow(update[t][j], j, req[t].key)
         /\ Found(t) <=> req[t].key \in At(0)
         /\ update[t][0] = cur[t]
<1> DEFINE key == req[t].key
<1>1. /\ lvl[t] = -1
      /\ update[t][0] = cur[t]
      /\ \A j \in Levels : -1 < j /\ j <= currentLevel => LastBelow(update[t][j], j, key)
  BY DEF Inv, SearchInv, Keyed
<1>2. currentLevel \in 0..MaxLevel /\ MaxLevel \in Nat
  BY SkipListAssumption DEF TypeOK, Levels
<1>3. \A j \in 0..currentLevel : LastBelow(update[t][j], j, key)
  BY <1>1, <1>2 DEF Levels
<1>4. LastBelow(cur[t], 0, key)
  BY <1>1, <1>2, <1>3
<1>5. key \in Keys
  BY RequestTypes
<1>6. IsSucc(forward[cur[t]][0], cur[t], 0)
  BY <1>2, <1>4 DEF Inv, Structure, Chains, LastBelow, Levels
<1>7. Found(t) => key \in At(0)
  BY <1>5, <1>6, KeyOrder DEF Found, IsSucc
<1>8. ASSUME key \in At(0) PROVE Found(t)
  <2>0. cur[t] \in Nat /\ key \in Nat
    <3>1. cur[t] \in Keys \cup {Header}
      BY <1>4 DEF LastBelow, At
    <3>2. key \in Nat
      BY <1>5, KeyOrder
    <3>3. cur[t] \in Nat
      BY <3>1, KeyOrder DEF Header
    <3> QED BY <3>2, <3>3
  <2>1. cur[t] \in Int /\ key \in Int /\ key > cur[t]
    BY <1>4, <2>0 DEF LastBelow
  <2>2. forward[cur[t]][0] # Nil
    BY <1>6, <1>8, <2>1 DEF IsSucc
  <2>3. forward[cur[t]][0] \in Keys /\ forward[cur[t]][0] <= key
    BY <1>6, <1>8, <2>1, <2>2 DEF IsSucc, At
  <2>4. key <= forward[cur[t]][0]
    BY <1>4, <2>2 DEF LastBelow
  <2> QED BY <2>1, <2>3, <2>4, KeyOrder DEF Found
<1> QED BY <1>1, <1>3, <1>7, <1>8

(* The step that ends an operation's critical work keeps the mutex, and no
   other thread is inside the list. *)
LEMMA FinishStep ==
  ASSUME TypeOK, Inv, NEW t \in Threads, NEW answer,
         pc[t] = "apply", Finish(t, answer),
         answer \in [ok : BOOLEAN, value : Values \cup {NoValue}, count : Int]
  PROVE  /\ holder' \in Threads \cup {NoThread}
         /\ pc' \in [Threads -> PCs]
         /\ req' \in [Threads -> Requests]
         /\ ret' \in [Threads -> [ok : BOOLEAN, value : Values \cup {NoValue}, count : Int]]
         /\ cur' \in [Threads -> Nodes]
         /\ lvl' \in [Threads -> Levels \cup {-1}]
         /\ update' \in [Threads -> [Levels -> Nodes \cup {Nil}]]
         /\ MutexHeld'
         /\ PCRequest'
         /\ \A u \in Threads : SearchInv(u)'
<1>1. /\ pc' = [pc EXCEPT ![t] = "unlock"]
      /\ UNCHANGED <<holder, req, cur, lvl, update>>
      /\ ret' = [ret EXCEPT ![t] = answer]
  BY DEF Finish, locals
<1>2. pc' \in [Threads -> PCs]
  BY <1>1 DEF TypeOK, PCs
<1>3. MutexHeld'
  BY <1>1 DEF TypeOK, Inv, MutexHeld
<1>4. PCRequest'
  BY <1>1 DEF TypeOK, Inv, PCRequest
<1>5. \A u \in Threads : pc'[u] \notin {"search", "apply"}
  BY <1>1 DEF TypeOK, Inv, MutexHeld
<1> QED BY <1>1, <1>2, <1>3, <1>4, <1>5 DEF TypeOK, SearchInv

-----------------------------------------------------------------------------
(* Steps that leave the list alone. *)

LEMMA SharedUnchanged ==
  ASSUME UNCHANGED shared, TypeOK, Inv
  PROVE  /\ (/\ forward \in [Nodes -> [Levels -> Keys \cup {Nil}]]
             /\ nodeLevel \in [Keys -> Levels \cup {Free}]
             /\ value \in [Keys -> Values \cup {NoValue}]
             /\ currentLevel \in Levels
             /\ elementCount \in Int)'
         /\ Structure' /\ ValueLive'
  BY DEF shared, TypeOK, Inv, Structure, Chains, TopLevel, CountExact, ValueLive, IsSucc, At

LEMMA CallStep ==
  ASSUME TypeOK, Inv, NEW t \in Threads, Call(t)
  PROVE  TypeOK' /\ Inv'
<1>1. TypeOK'
  BY SharedUnchanged DEF Call, TypeOK, locals, PCs
<1>2. MutexHeld' /\ PCRequest'
  BY DEF Call, TypeOK, Inv, MutexHeld, PCRequest
<1>3. ASSUME NEW u \in Threads PROVE SearchInv(u)'
  <2>1. CASE u = t
    BY <2>1 DEF Call, TypeOK, SearchInv
  <2>2. CASE u # t
    BY <2>2 DEF Call, TypeOK, Inv, SearchInv, LastBelow, At, shared, locals
  <2> QED BY <2>1, <2>2
<1> QED BY <1>1, <1>2, <1>3, SharedUnchanged DEF Call, Inv

LEMMA LockStep ==
  ASSUME TypeOK, Inv, NEW t \in Threads, Lock(t)
  PROVE  TypeOK' /\ Inv'
<1>0. \A u \in Threads : pc[u] \notin {"search", "apply", "unlock"}
  BY SkipListAssumption DEF Lock, Inv, MutexHeld
<1>1. TypeOK'
  <2>1. pc' \in [Threads -> PCs]
    BY DEF Lock, TypeOK, PCs
  <2>2. lvl' \in [Threads -> Levels \cup {-1}]
    BY DEF Lock, TypeOK
  <2>3. cur' \in [Threads -> Nodes] /\ update' \in [Threads -> [Levels -> Nodes \cup {Nil}]]
    BY DEF Lock, TypeOK, Nodes
  <2> QED BY <2>1, <2>2, <2>3, SharedUnchanged DEF Lock, TypeOK
<1>2. MutexHeld'
  BY <1>0 DEF Lock, TypeOK, MutexHeld
<1>3. PCRequest'
  BY <1>0 DEF Lock, TypeOK, PCRequest
<1>4. ASSUME NEW u \in Threads PROVE SearchInv(u)'
  <2>1. CASE u # t
    BY <1>0, <2>1 DEF Lock, TypeOK, SearchInv
  <2>2. CASE u = t
    <3>1. CASE req[t].name \notin {"insert", "search", "remove"}
      BY <2>2, <3>1 DEF Lock, TypeOK, SearchInv
    <3>2. CASE req[t].name \in {"insert", "search", "remove"}
      <4>1. req[t].key \in Keys
        BY <3>2, RequestTypes DEF Keyed
      <4>2. req' = req /\ pc'[t] = "search" /\ lvl'[t] = currentLevel /\ cur'[t] = Header
            /\ currentLevel' = currentLevel
        BY <3>2 DEF Lock, TypeOK, shared
      <4>3. currentLevel \in 0..MaxLevel /\ MaxLevel \in Nat
        BY SkipListAssumption DEF TypeOK, Levels
      <4>4. lvl'[t] \in 0..currentLevel'
        BY <4>2, <4>3
      <4>5. \A j \in Levels : ~(lvl'[t] < j /\ j <= currentLevel')
        BY <4>2, <4>3 DEF Levels
      <4> QED BY <2>2, <4>1, <4>2, <4>4, <4>5, KeyOrder DEF SearchInv
    <3> QED BY <3>1, <3>2
  <2> QED BY <2>1, <2>2
<1> QED BY <1>1, <1>2, <1>3, <1>4, SharedUnchanged DEF Lock, Inv

(* What the search loop knows at the top of an iteration (skiplist.h:229). *)
LEMMA AtLoopTop ==
  ASSUME TypeOK, Inv, NEW t \in Threads, pc[t] = "search"
  PROVE  /\ req[t].key \in Keys
         /\ lvl[t] \in 0..currentLevel /\ lvl[t] \in Levels /\ lvl[t] \in Nat
         /\ cur[t] \in At(lvl[t]) \cup {Header}
         /\ cur[t] < req[t].key
         /\ IsSucc(forward[cur[t]][lvl[t]], cur[t], lvl[t])
         /\ forward[cur[t]][lvl[t]] \in Keys \cup {Nil}
         /\ holder = t
<1>1. req[t].name \in Keyed
  BY DEF Inv, PCRequest, Keyed
<1>2. /\ lvl[t] \in 0..currentLevel
      /\ cur[t] \in At(lvl[t]) \cup {Header}
      /\ cur[t] < req[t].key
  BY <1>1 DEF Inv, SearchInv, Keyed
<1>3. lvl[t] \in Levels /\ lvl[t] \in Nat
  BY <1>2, SkipListAssumption DEF TypeOK, Levels
<1>4. IsSucc(forward[cur[t]][lvl[t]], cur[t], lvl[t])
  BY <1>2, <1>3 DEF Inv, Structure, Chains
<1>5. forward[cur[t]][lvl[t]] \in Keys \cup {Nil}
  BY <1>2, <1>3 DEF TypeOK, Nodes, At
<1> QED BY <1>1, <1>2, <1>3, <1>4, <1>5, RequestTypes DEF Inv, MutexHeld

LEMMA AdvanceStep ==
  ASSUME TypeOK, Inv, NEW t \in Threads, Advance(t)
  PROVE  TypeOK' /\ Inv'
<1> DEFINE m == forward[cur[t]][lvl[t]]
<1>1. pc[t] = "search" /\ m # Nil /\ m < req[t].key
  BY DEF Advance, Below
<1>2. m \in At(lvl[t]) /\ m \in Keys
  BY <1>1, AtLoopTop DEF IsSucc
<1>3. cur' = [cur EXCEPT ![t] = m] /\ UNCHANGED <<shared, holder, pc, req, ret, lvl, update>>
  BY DEF Advance
<1>4. TypeOK'
  BY <1>2, <1>3, SharedUnchanged DEF TypeOK, Nodes
<1>5. MutexHeld' /\ PCRequest'
  BY <1>3 DEF Inv, MutexHeld, PCRequest
<1>6. ASSUME NEW u \in Threads PROVE SearchInv(u)'
  <2>1. CASE u = t
    BY <1>1, <1>2, <1>3, <2>1 DEF TypeOK, Inv, SearchInv, LastBelow, At, shared
  <2>2. CASE u # t
    BY <1>3, <2>2 DEF TypeOK, Inv, SearchInv, LastBelow, At, shared
  <2> QED BY <2>1, <2>2
<1> QED BY <1>3, <1>4, <1>5, <1>6, SharedUnchanged DEF Inv

LEMMA DescendStep ==
  ASSUME TypeOK, Inv, NEW t \in Threads, Descend(t)
  PROVE  TypeOK' /\ Inv'
<1> DEFINE i == lvl[t]
           m == forward[cur[t]][i]
           key == req[t].key
<1>1. pc[t] = "search" /\ ~(m # Nil /\ m < key)
  BY DEF Descend, Below
<1>2. /\ update' = [update EXCEPT ![t][i] = cur[t]]
      /\ lvl' = [lvl EXCEPT ![t] = i - 1]
      /\ pc' = [pc EXCEPT ![t] = IF i = 0 THEN "apply" ELSE "search"]
      /\ UNCHANGED <<shared, holder, req, ret, cur>>
  BY DEF Descend
<1>3. /\ key \in Nat /\ m \in Nat \cup {Nil} /\ i \in Nat /\ i \in Levels
      /\ i \in 0..currentLevel /\ cur[t] \in Nodes
      /\ MaxLevel \in Nat /\ currentLevel \in 0..MaxLevel
  BY <1>1, AtLoopTop, KeyOrder, SkipListAssumption DEF Nodes, TypeOK, Levels
<1>4. LastBelow(cur[t], i, key)
  <2>1. m = Nil \/ key <= m
    BY <1>1, <1>3 DEF Nil
  <2> QED BY <1>1, <2>1, AtLoopTop DEF LastBelow
<1>5. TypeOK'
  <2>1. lvl' \in [Threads -> Levels \cup {-1}]
    BY <1>2, <1>3 DEF TypeOK, Levels
  <2>2. update' \in [Threads -> [Levels -> Nodes \cup {Nil}]]
    BY <1>2, <1>3 DEF TypeOK
  <2>3. pc' \in [Threads -> PCs]
    BY <1>2 DEF TypeOK, PCs
  <2> QED BY <1>2, <2>1, <2>2, <2>3, SharedUnchanged DEF TypeOK
<1>6. MutexHeld' /\ PCRequest'
  BY <1>1, <1>2 DEF TypeOK, Inv, MutexHeld, PCRequest
<1>7. ASSUME NEW u \in Threads, u # t PROVE SearchInv(u)'
  BY <1>1, <1>2, <1>7, AtLoopTop DEF TypeOK, Inv, MutexHeld, SearchInv
<1>8. SearchInv(t)'
  <2>1. \A j \in Levels : i <= j /\ j <= currentLevel => LastBelow(update'[t][j], j, key)
    <3>1. \A j \in Levels : i < j /\ j <= currentLevel => LastBelow(update[t][j], j, key)
      BY <1>1 DEF Inv, SearchInv, PCRequest
    <3>2. \A j \in Levels : update'[t][j] = IF j = i THEN cur[t] ELSE update[t][j]
      BY <1>2, <1>3 DEF TypeOK
    <3> QED BY <1>3, <1>4, <3>1, <3>2 DEF Levels
  <2>2. /\ lvl'[t] = i - 1 /\ cur'[t] = cur[t] /\ req'[t] = req[t]
        /\ UNCHANGED <<forward, nodeLevel, currentLevel>>
    BY <1>2 DEF TypeOK, shared
  <2>3. \A j \in Levels : lvl'[t] < j => i <= j
    BY <1>3, <2>2 DEF Levels
  <2>4. (\A j \in Levels : lvl[t] < j /\ j <= currentLevel
                            => LastBelow(update[t][j], j, req[t].key))'
    BY <2>1, <2>2, <2>3 DEF LastBelow, At
  <2>5. CASE i = 0
    <3>1. pc'[t] = "apply" /\ lvl'[t] = -1
      BY <1>2, <2>2, <2>5 DEF TypeOK
    <3>2. update'[t][0] = cur'[t]
      BY <1>2, <1>3, <2>2, <2>5 DEF TypeOK
    <3> QED BY <2>2, <2>4, <3>1, <3>2 DEF SearchInv
  <2>6. CASE i # 0
    <3>1. pc'[t] = "search" /\ lvl'[t] \in 0..currentLevel'
      <4>1. pc'[t] = "search"
        BY <1>2, <2>6 DEF TypeOK
      <4>2. i - 1 \in 0..currentLevel
        BY <1>3, <2>6
      <4> QED BY <4>1, <4>2, <2>2
    <3>2. cur[t] \in At(i - 1) \cup {Header}
      <4>1. At(i) \subseteq At(i - 1)
        BY <1>3 DEF At, TypeOK, Levels, Free
      <4> QED BY <1>1, <4>1, AtLoopTop
    <3>3. (cur[t] \in At(lvl[t]) \cup {Header})'
      BY <2>2, <3>2 DEF At, Header
    <3>4. cur'[t] < req'[t].key
      BY <1>1, <2>2, AtLoopTop
    <3> QED BY <2>2, <2>4, <3>1, <3>3, <3>4 DEF SearchInv
  <2> QED BY <2>5, <2>6
<1> QED BY <1>2, <1>5, <1>6, <1>7, <1>8, SharedUnchanged DEF Inv

LEMMA UnlockStep ==
  ASSUME TypeOK, Inv, NEW t \in Threads, Unlock(t)
  PROVE  TypeOK' /\ Inv'
<1>1. TypeOK'
  <2>1. pc' \in [Threads -> PCs]
    BY DEF Unlock, TypeOK, PCs
  <2>2. /\ cur' \in [Threads -> Nodes]
        /\ lvl' \in [Threads -> Levels \cup {-1}]
        /\ update' \in [Threads -> [Levels -> Nodes \cup {Nil}]]
    BY DEF Unlock, TypeOK, Nodes
  <2> QED BY <2>1, <2>2, SharedUnchanged DEF Unlock, TypeOK
<1>2. \A u \in Threads : pc'[u] \notin {"search", "apply", "unlock"}
  BY SkipListAssumption DEF Unlock, TypeOK, Inv, MutexHeld
<1>3. MutexHeld' /\ PCRequest'
  BY <1>2, SkipListAssumption DEF Unlock, MutexHeld, PCRequest
<1>4. \A u \in Threads : SearchInv(u)'
  BY <1>2 DEF SearchInv
<1> QED BY <1>1, <1>3, <1>4, SharedUnchanged DEF Unlock, Inv

-----------------------------------------------------------------------------
(* Steps that read or change the list. *)

LEMMA ReadStep ==
  ASSUME TypeOK, Inv, NEW t \in Threads, Search(t) \/ RemoveAbsent(t) \/ Size(t)
  PROVE  TypeOK' /\ Inv'
<1>1. pc[t] = "apply" /\ UNCHANGED shared
  BY DEF Search, RemoveAbsent, Size
<1>2. PICK a \in [ok : BOOLEAN, value : Values \cup {NoValue}, count : Int] : Finish(t, a)
  <2>1. CASE Search(t)
    <3>1. req[t].key \in Keys
      BY <2>1, RequestTypes DEF Search, Keyed
    <3>2. value[req[t].key] \in Values \cup {NoValue}
      BY <3>1 DEF TypeOK
    <3> DEFINE a == IF Found(t) THEN Answer(TRUE, value[req[t].key], 0)
                                ELSE Answer(FALSE, NoValue, 0)
    <3>3. a \in [ok : BOOLEAN, value : Values \cup {NoValue}, count : Int]
      BY <3>2 DEF Answer
    <3>4. Finish(t, a)
      BY <2>1 DEF Search
    <3> QED BY <3>3, <3>4
  <2>2. CASE RemoveAbsent(t)
    <3>1. Finish(t, Answer(FALSE, NoValue, 0))
      BY <2>2 DEF RemoveAbsent
    <3>2. Answer(FALSE, NoValue, 0) \in [ok : BOOLEAN, value : Values \cup {NoValue}, count : Int]
      BY DEF Answer
    <3> QED BY <3>1, <3>2
  <2>3. CASE Size(t)
    <3>1. Finish(t, Answer(TRUE, NoValue, elementCount)) /\ elementCount \in Int
      BY <2>3 DEF Size, TypeOK
    <3>2. Answer(TRUE, NoValue, elementCount) \in [ok : BOOLEAN, value : Values \cup {NoValue}, count : Int]
      BY <3>1 DEF Answer
    <3> QED BY <3>1, <3>2
  <2> QED BY <2>1, <2>2, <2>3
<1> QED BY <1>1, <1>2, FinishStep, SharedUnchanged DEF TypeOK, Inv

LEMMA InsertExistingStep ==
  ASSUME TypeOK, Inv, NEW t \in Threads, InsertExisting(t)
  PROVE  TypeOK' /\ Inv'
<1> DEFINE k == req[t].key
<1>1. /\ pc[t] = "apply" /\ req[t].name \in Keyed /\ Found(t)
      /\ value' = [value EXCEPT ![k] = req[t].value]
      /\ UNCHANGED <<forward, nodeLevel, currentLevel, elementCount>>
      /\ Finish(t, Answer(FALSE, NoValue, 0))
  BY DEF InsertExisting, Keyed
<1>2. k \in At(0) /\ k \in Keys /\ req[t].value \in Values
  BY <1>1, AfterSearch, RequestTypes DEF InsertExisting
<1>3. value' \in [Keys -> Values \cup {NoValue}]
  BY <1>1, <1>2 DEF TypeOK
<1>4. ValueLive'
  BY <1>1, <1>2, SkipListAssumption DEF TypeOK, Inv, ValueLive, At, Free
<1>5. Structure'
  BY <1>1 DEF Inv, Structure, Chains, TopLevel, CountExact, IsSucc, At
<1>6. Answer(FALSE, NoValue, 0) \in [ok : BOOLEAN, value : Values \cup {NoValue}, count : Int]
  BY DEF Answer
<1>7. /\ forward' \in [Nodes -> [Levels -> Keys \cup {Nil}]]
      /\ nodeLevel' \in [Keys -> Levels \cup {Free}]
      /\ currentLevel' \in Levels /\ elementCount' \in Int
  BY <1>1 DEF TypeOK
<1> QED BY <1>1, <1>3, <1>4, <1>5, <1>6, <1>7, FinishStep DEF TypeOK, Inv

LEMMA ClearStep ==
  ASSUME TypeOK, Inv, NEW t \in Threads, Clear(t)
  PROVE  TypeOK' /\ Inv'
<1>1. /\ forward' = [n \in Nodes |-> [i \in Levels |->
            IF n = Header /\ i > currentLevel THEN forward[n][i] ELSE Nil]]
      /\ nodeLevel' = [k \in Keys |-> Free]
      /\ value' = [k \in Keys |-> NoValue]
      /\ currentLevel' = 0 /\ elementCount' = 0
  BY DEF Clear
<1>2. 0 \in Levels /\ currentLevel \in Levels
  BY SkipListAssumption DEF Levels, TypeOK
<1>3. \A i \in Levels : i > currentLevel => forward[Header][i] = Nil
  <2> SUFFICES ASSUME NEW i \in Levels, i > currentLevel PROVE forward[Header][i] = Nil
    OBVIOUS
  <2>1. IsSucc(forward[Header][i], Header, i)
    BY DEF Inv, Structure, Chains
  <2>2. At(i) = {}
    <3>1. i \in Int /\ currentLevel \in Int
      BY <1>2, SkipListAssumption DEF Levels
    <3>2. \A k \in Keys : nodeLevel[k] <= currentLevel /\ nodeLevel[k] \in Int
      BY SkipListAssumption DEF Inv, Structure, TopLevel, TypeOK, Levels, Free
    <3> QED BY <3>1, <3>2 DEF At
  <2> QED BY <2>1, <2>2 DEF IsSucc
<1>4. forward' = [n \in Nodes |-> [i \in Levels |-> Nil]]
  BY <1>1, <1>3
<1>5. \A i \in Levels : At(i)' = {}
  BY <1>1 DEF At, Free, Levels
<1>6. Chains'
  BY <1>4, <1>5 DEF Chains, IsSucc, Header, Nodes
<1>7. TopLevel'
  BY <1>1 DEF TopLevel, Free
<1>8. CountExact'
  BY <1>1, <1>2, <1>5, FS_EmptySet DEF CountExact
<1>9. ValueLive'
  BY <1>1 DEF ValueLive
<1>10. /\ forward' \in [Nodes -> [Levels -> Keys \cup {Nil}]]
       /\ nodeLevel' \in [Keys -> Levels \cup {Free}]
       /\ value' \in [Keys -> Values \cup {NoValue}]
       /\ currentLevel' \in Levels /\ elementCount' \in Int
  BY <1>1, <1>2, <1>4
<1>11. Answer(TRUE, NoValue, 0) \in [ok : BOOLEAN, value : Values \cup {NoValue}, count : Int]
  BY DEF Answer
<1> QED BY <1>6, <1>7, <1>8, <1>9, <1>10, <1>11, FinishStep
        DEF Clear, TypeOK, Inv, Structure

(* A node found by the search bounds every other node of its level: what is
   before p stays at or before p, what is after it is at or after the key. *)
LEMMA Neighbours ==
  ASSUME TypeOK, Inv, NEW i \in Levels, NEW key \in Keys, NEW p, LastBelow(p, i, key),
         NEW n \in At(i) \cup {Header}
  PROVE  /\ p \in Nat /\ n \in Nat /\ p \in Nodes /\ n \in Nodes
         /\ IsSucc(forward[p][i], p, i)
         /\ IsSucc(forward[n][i], n, i)
         /\ n < p => forward[n][i] # Nil /\ forward[n][i] <= p
         /\ n > p => forward[p][i] # Nil /\ forward[p][i] <= n /\ key <= n
         /\ forward[n][i] \in Nat \cup {Nil} /\ forward[p][i] \in Nat \cup {Nil}
<1>1. p \in At(i) \cup {Header}
  BY DEF LastBelow
<1>2. p \in Nodes /\ n \in Nodes
  BY <1>1 DEF At, Nodes
<1>3. p \in Nat /\ n \in Nat
  BY <1>2, KeyOrder DEF Nodes, Header
<1>4. IsSucc(forward[p][i], p, i) /\ IsSucc(forward[n][i], n, i)
  BY <1>1 DEF Inv, Structure, Chains
<1>5. forward[n][i] \in Nat \cup {Nil} /\ forward[p][i] \in Nat \cup {Nil}
  <2>1. forward[n][i] \in Keys \cup {Nil} /\ forward[p][i] \in Keys \cup {Nil}
    BY <1>2 DEF TypeOK
  <2> QED BY <2>1, KeyOrder
<1>6. ASSUME n < p PROVE forward[n][i] # Nil /\ forward[n][i] <= p
  <2>1. p \in At(i)
    BY <1>1, <1>3, <1>6 DEF Header
  <2> QED BY <1>3, <1>4, <1>6, <2>1 DEF IsSucc
<1>7. ASSUME n > p PROVE forward[p][i] # Nil /\ forward[p][i] <= n /\ key <= n
  <2>1. n \in At(i)
    BY <1>3, <1>7 DEF Header
  <2>2. forward[p][i] # Nil /\ forward[p][i] <= n
    BY <1>3, <1>4, <1>7, <2>1 DEF IsSucc
  <2>3. key <= forward[p][i] /\ key \in Nat
    BY <2>2, KeyOrder DEF LastBelow
  <2> QED BY <1>3, <1>5, <2>2, <2>3 DEF Nil
<1> QED BY <1>2, <1>3, <1>4, <1>5, <1>6, <1>7

(* Above currentLevel_ no node is linked, so the header is the last node below
   any key there and its slot is null (skiplist.h:249-254). *)
LEMMA AboveTop ==
  ASSUME TypeOK, Inv, NEW i \in Levels, i > currentLevel, NEW key \in Keys
  PROVE  At(i) = {} /\ forward[Header][i] = Nil /\ LastBelow(Header, i, key)
<1>1. i \in Int /\ currentLevel \in Int
  BY SkipListAssumption DEF Levels, TypeOK
<1>2. \A k \in Keys : nodeLevel[k] <= currentLevel /\ nodeLevel[k] \in Int
  BY SkipListAssumption DEF Inv, Structure, TopLevel, TypeOK, Levels, Free
<1>3. At(i) = {}
  BY <1>1, <1>2 DEF At
<1>4. IsSucc(forward[Header][i], Header, i)
  BY DEF Inv, Structure, Chains
<1>5. forward[Header][i] = Nil
  BY <1>3, <1>4 DEF IsSucc
<1> QED BY <1>3, <1>5, KeyOrder DEF LastBelow

LEMMA InsertNewStep ==
  ASSUME TypeOK, Inv, NEW t \in Threads, InsertNew(t)
  PROVE  TypeOK' /\ Inv'
<1> DEFINE k == req[t].key
<1>1. pc[t] = "apply" /\ req[t].name \in Keyed /\ ~Found(t)
  BY DEF InsertNew, Keyed
<1>2. k \in Keys /\ req[t].value \in Values /\ k \notin At(0)
  BY <1>1, AfterSearch, RequestTypes DEF InsertNew
<1>3. PICK r \in RandomLevels :
        /\ nodeLevel' = [nodeLevel EXCEPT ![k] = r]
        /\ currentLevel' = IF r > currentLevel THEN r ELSE currentLevel
        /\ forward' = [n \in Nodes |-> [i \in Levels |->
              IF n = k THEN IF i <= r THEN forward[Pred(t, i)][i] ELSE Nil
              ELSE IF i <= r /\ n = Pred(t, i) THEN k ELSE forward[n][i]]]
  BY DEF InsertNew, Splice
<1>4. /\ value' = [value EXCEPT ![k] = req[t].value]
      /\ elementCount' = elementCount + 1
      /\ Finish(t, Answer(TRUE, NoValue, 0))
  BY DEF InsertNew
<1>5. /\ r \in Nat /\ r \in Levels /\ currentLevel \in Nat /\ MaxLevel \in Nat
      /\ Levels \subseteq Nat /\ 0 \in Levels /\ k \in Nat /\ k # Header /\ k > Header
  <2>1. MaxLevel \in Nat /\ Levels \subseteq Nat /\ 0 \in Levels
    BY SkipListAssumption DEF Levels
  <2>2. r \in Levels /\ currentLevel \in Levels
    BY DEF RandomLevels, TypeOK
  <2> QED BY <1>2, <2>1, <2>2, KeyOrder
<1>6. \A i \in Levels : LastBelow(Pred(t, i), i, k)
  <2> SUFFICES ASSUME NEW i \in Levels PROVE LastBelow(Pred(t, i), i, k)
    OBVIOUS
  <2>1. CASE i > currentLevel
    BY <1>2, <2>1, AboveTop DEF Pred
  <2>2. CASE ~(i > currentLevel)
    <3>1. i \in 0..currentLevel
      BY <1>5, <2>2
    <3> QED BY <1>1, <2>2, <3>1, AfterSearch DEF Pred
  <2> QED BY <2>1, <2>2
<1>7. nodeLevel[k] = Free /\ \A i \in Levels : k \notin At(i)
  BY <1>2, <1>5 DEF At, TypeOK, Levels, Free
<1>8. \A i \in Levels : At(i)' = IF i <= r THEN At(i) \cup {k} ELSE At(i)
  BY <1>2, <1>3, <1>5, <1>7 DEF At, TypeOK, Free
<1>9. /\ forward' \in [Nodes -> [Levels -> Keys \cup {Nil}]]
      /\ nodeLevel' \in [Keys -> Levels \cup {Free}]
      /\ value' \in [Keys -> Values \cup {NoValue}]
      /\ currentLevel' \in Levels /\ elementCount' \in Int
  <2>1. \A i \in Levels : Pred(t, i) \in Nodes
    BY <1>6 DEF LastBelow, At, Nodes
  <2>2. forward' \in [Nodes -> [Levels -> Keys \cup {Nil}]]
    BY <1>2, <1>3, <2>1 DEF TypeOK
  <2>3. nodeLevel' \in [Keys -> Levels \cup {Free}] /\ currentLevel' \in Levels
    BY <1>3, <1>5 DEF TypeOK
  <2>4. value' \in [Keys -> Values \cup {NoValue}] /\ elementCount' \in Int
    BY <1>2, <1>4 DEF TypeOK
  <2> QED BY <2>2, <2>3, <2>4
<1>10. Chains'
  <2> SUFFICES ASSUME NEW i \in Levels, NEW n \in At(i)' \cup {Header}
               PROVE  IsSucc(forward[n][i], n, i)'
    BY DEF Chains
  <2> DEFINE p == Pred(t, i)
  <2>0. LastBelow(p, i, k)
    BY <1>6
  <2>1. CASE i > r
    <3>1. n \in At(i) \cup {Header} /\ At(i)' = At(i) /\ n # k /\ n \in Nodes
      BY <1>5, <1>7, <1>8, <2>1 DEF At, Nodes
    <3>2. forward'[n][i] = forward[n][i]
      BY <1>3, <1>5, <2>1, <3>1
    <3>3. IsSucc(forward[n][i], n, i)
      BY <3>1 DEF Inv, Structure, Chains
    <3> QED BY <3>1, <3>2, <3>3 DEF IsSucc
  <2>2. CASE i <= r
    <3>1. At(i)' = At(i) \cup {k} /\ k \notin At(i) /\ At(i) \subseteq Nat
      BY <1>7, <1>8, <2>2, KeyOrder DEF At
    <3>2. /\ p \in Nat /\ p \in Nodes /\ p < k /\ p \in At(i) \cup {Header}
          /\ forward[p][i] = Nil \/ k <= forward[p][i]
          /\ IsSucc(forward[p][i], p, i) /\ forward[p][i] \in Nat \cup {Nil}
      BY <1>2, <2>0, Neighbours DEF LastBelow
    <3>3. CASE n = k
      <4>1. forward'[n][i] = forward[p][i]
        BY <1>2, <1>3, <2>2, <3>3 DEF Nodes
      <4>2. forward[p][i] # k
        BY <3>1, <3>2, <1>2, KeyOrder DEF IsSucc
      <4> QED BY <1>5, <3>1, <3>2, <3>3, <4>1, <4>2 DEF IsSucc, Nil
    <3>4. CASE n # k
      <4>1. /\ n \in At(i) \cup {Header} /\ n \in Nodes /\ n \in Nat
            /\ IsSucc(forward[n][i], n, i)
            /\ n < p => forward[n][i] # Nil /\ forward[n][i] <= p
            /\ n > p => k <= n
            /\ forward[n][i] \in Nat \cup {Nil}
        BY <1>2, <2>0, <3>1, <3>4, Neighbours
      <4>2. CASE n = p
        <5>1. forward'[n][i] = k
          BY <1>3, <2>2, <3>4, <4>1, <4>2
        <5>2. \A a \in At(i) : a <= p \/ k <= a
          BY <1>5, <3>1, <3>2 DEF IsSucc, Nil
        <5> QED BY <1>5, <3>1, <3>2, <4>2, <5>1, <5>2 DEF IsSucc, Nil
      <4>3. CASE n # p
        <5>1. forward'[n][i] = forward[n][i]
          BY <1>3, <3>4, <4>1, <4>3
        <5>2. CASE n < p
          <6>1. forward[n][i] # Nil /\ forward[n][i] <= k
            BY <1>5, <3>2, <4>1, <5>2 DEF Nil
          <6> QED BY <1>5, <3>1, <4>1, <5>1, <6>1 DEF IsSucc
        <5>3. CASE n > p
          BY <1>5, <3>1, <4>1, <5>1, <5>3 DEF IsSucc
        <5> QED BY <3>2, <4>1, <4>3, <5>2, <5>3
      <4> QED BY <4>2, <4>3
    <3> QED BY <3>3, <3>4
  <2> QED BY <1>5, <2>1, <2>2
<1>11. TopLevel'
  <2>1. \A a \in Keys : nodeLevel'[a] <= currentLevel'
    <3> TAKE a \in Keys
    <3>1. nodeLevel'[a] = IF a = k THEN r ELSE nodeLevel[a]
      BY <1>3 DEF TypeOK
    <3>2. nodeLevel[a] <= currentLevel /\ nodeLevel[a] \in Levels \cup {Free}
      BY DEF TypeOK, Inv, Structure, TopLevel
    <3>3. nodeLevel[a] \in Int
      BY <3>2, SkipListAssumption DEF Levels, Free
    <3> QED BY <1>3, <1>5, <3>1, <3>2, <3>3
  <2>2. CASE r > currentLevel
    <3>1. currentLevel' = r /\ Pred(t, r) = Header
      BY <1>3, <2>2 DEF Pred
    <3>2. forward'[Header][r] = k
      BY <1>3, <1>5, <3>1 DEF Nodes
    <3> QED BY <1>2, <2>1, <3>1, <3>2, KeyOrder DEF TopLevel
  <2>3. CASE ~(r > currentLevel)
    <3>1. currentLevel' = currentLevel /\ currentLevel \in Levels
      BY <1>3, <2>3 DEF TypeOK
    <3>2. forward'[Header][currentLevel] \in {k, forward[Header][currentLevel]}
      BY <1>3, <1>5, <3>1 DEF Nodes
    <3> QED BY <1>2, <2>1, <3>1, <3>2, KeyOrder DEF TopLevel, Inv, Structure
  <2> QED BY <2>2, <2>3
<1>12. CountExact'
  <2>1. At(0)' = At(0) \cup {k}
    BY <1>5, <1>8
  <2> QED BY <1>2, <1>4, <2>1, FS_AddElement DEF CountExact, Inv, Structure
<1>13. ValueLive'
  BY <1>2, <1>3, <1>4, <1>5, SkipListAssumption DEF TypeOK, Inv, ValueLive, Free
<1>14. Answer(TRUE, NoValue, 0) \in [ok : BOOLEAN, value : Values \cup {NoValue}, count : Int]
  BY DEF Answer
<1> QED BY <1>1, <1>4, <1>9, <1>10, <1>11, <1>12, <1>13, <1>14, FinishStep
        DEF TypeOK, Inv, Structure

(* What remove() unlinks (skiplist.h:317-322): exactly the levels of the node. *)
LEMMA UnlinkedLevels ==
  ASSUME TypeOK, Inv, NEW t \in Threads, pc[t] = "apply", req[t].name \in Keyed,
         Found(t)
  PROVE  LET k == req[t].key IN
         /\ k \in At(0) /\ nodeLevel[k] \in 0..currentLevel
         /\ \A i \in 0..nodeLevel[k] : forward[update[t][i]][i] = k
         /\ Unlinked(t) = 0..nodeLevel[k]
<1> DEFINE k == req[t].key
           u(i) == update[t][i]
<1>1. k \in At(0) /\ k \in Keys
  BY AfterSearch, RequestTypes
<1>2. /\ currentLevel \in Nat /\ MaxLevel \in Nat /\ currentLevel <= MaxLevel
      /\ 0..currentLevel \subseteq Levels
  BY SkipListAssumption DEF TypeOK, Levels
<1>3. nodeLevel[k] \in 0..currentLevel
  <2>1. nodeLevel[k] >= 0 /\ nodeLevel[k] <= currentLevel
    BY <1>1 DEF At, Inv, Structure, TopLevel
  <2>2. nodeLevel[k] \in Levels
    <3>1. nodeLevel[k] \in Levels \cup {Free}
      BY <1>1 DEF TypeOK
    <3> QED BY <2>1, <3>1 DEF Free
  <2> QED BY <1>2, <2>1, <2>2 DEF Levels
<1>4. \A i \in 0..currentLevel : LastBelow(u(i), i, k)
  BY AfterSearch
<1>5. ASSUME NEW i \in 0..nodeLevel[k] PROVE forward[u(i)][i] = k
  <2>1. i \in 0..currentLevel /\ i \in Levels /\ k \in At(i)
    BY <1>1, <1>2, <1>3 DEF At
  <2>2. u(i) < k /\ u(i) \in Nat /\ k \in Nat
    BY <1>1, <1>4, <2>1, Neighbours, KeyOrder DEF LastBelow
  <2>3. forward[k][i] \in Nat \cup {Nil} /\ forward[u(i)][i] # Nil /\ forward[u(i)][i] <= k
    BY <1>1, <1>4, <2>1, <2>2, Neighbours
  <2>4. k <= forward[u(i)][i] /\ forward[u(i)][i] \in Nat
    BY <1>1, <1>4, <2>1, <2>3, Neighbours DEF LastBelow
  <2> QED BY <2>2, <2>3, <2>4
<1>6. ASSUME NEW i \in 0..currentLevel, i > nodeLevel[k] PROVE forward[u(i)][i] # k
  <2>1. i \in Levels /\ k \notin At(i)
    BY <1>2, <1>3, <1>6 DEF At
  <2>2. IsSucc(forward[u(i)][i], u(i), i)
    BY <1>4, <2>1 DEF LastBelow, Inv, Structure, Chains
  <2> QED BY <1>1, <2>1, <2>2, KeyOrder DEF IsSucc
<1>7. Unlinked(t) \subseteq 0..nodeLevel[k]
  BY <1>2, <1>3, <1>6 DEF Unlinked
<1>8. 0..nodeLevel[k] \subseteq Unlinked(t)
  <2> SUFFICES ASSUME NEW i \in 0..nodeLevel[k] PROVE i \in Unlinked(t)
    OBVIOUS
  <2>1. i \in 0..currentLevel /\ 0..i \subseteq 0..nodeLevel[k]
    BY <1>2, <1>3
  <2> QED BY <1>5, <2>1 DEF Unlinked
<1> QED BY <1>1, <1>3, <1>5, <1>7, <1>8

LEMMA RemovePresentStep ==
  ASSUME TypeOK, Inv, NEW t \in Threads, RemovePresent(t)
  PROVE  TypeOK' /\ Inv'
<1> DEFINE k == req[t].key
           u(i) == update[t][i]
<1>1. pc[t] = "apply" /\ req[t].name \in Keyed /\ Found(t)
  BY DEF RemovePresent, Keyed
<1>2. /\ forward' = [n \in Nodes |-> [i \in Levels |->
            IF n = k THEN Nil
            ELSE IF i \in Unlinked(t) /\ n = u(i) THEN forward[k][i]
            ELSE forward[n][i]]]
      /\ nodeLevel' = [nodeLevel EXCEPT ![k] = Free]
      /\ value' = [value EXCEPT ![k] = NoValue]
      /\ elementCount' = elementCount - 1
      /\ Finish(t, Answer(TRUE, NoValue, 0))
  BY DEF RemovePresent
<1>3. PICK l \in 0..currentLevel : LoweredTo(l, forward'[Header]) /\ currentLevel' = l
  BY DEF RemovePresent
<1>4. k \in Keys /\ k \in Nat /\ k > Header /\ k # Header /\ k \in At(0)
  BY <1>1, RequestTypes, AfterSearch, KeyOrder
<1>5. /\ nodeLevel[k] \in 0..currentLevel
      /\ \A i \in 0..nodeLevel[k] : forward[u(i)][i] = k
      /\ Unlinked(t) = 0..nodeLevel[k]
  BY <1>1, UnlinkedLevels
<1>6. MaxLevel \in Nat /\ Levels \subseteq Nat /\ currentLevel \in Levels /\ 0..currentLevel \subseteq Levels
  BY SkipListAssumption DEF Levels, TypeOK
<1>7. \A i \in Levels : At(i)' = At(i) \ {k}
  BY <1>2, <1>4, <1>6 DEF At, TypeOK, Free
<1>8. /\ forward' \in [Nodes -> [Levels -> Keys \cup {Nil}]]
      /\ nodeLevel' \in [Keys -> Levels \cup {Free}]
      /\ value' \in [Keys -> Values \cup {NoValue}]
      /\ currentLevel' \in Levels /\ elementCount' \in Int
  <2>1. forward' \in [Nodes -> [Levels -> Keys \cup {Nil}]]
    <3>1. \A i \in Levels : forward[k][i] \in Keys \cup {Nil}
      BY <1>4 DEF TypeOK, Nodes
    <3> QED BY <1>2, <3>1 DEF TypeOK
  <2> QED BY <1>2, <1>3, <1>4, <1>6, <2>1 DEF TypeOK
<1>9. Chains'
  <2> SUFFICES ASSUME NEW i \in Levels, NEW n \in At(i)' \cup {Header}
               PROVE  IsSucc(forward[n][i], n, i)'
    BY DEF Chains
  <2>1. /\ n \in At(i) \cup {Header} /\ n # k /\ n \in Nodes /\ n \in Nat
        /\ IsSucc(forward[n][i], n, i) /\ forward[n][i] \in Nat \cup {Nil}
    <3>1. n \in At(i) \cup {Header} /\ n # k /\ n \in Nodes
      BY <1>4, <1>7 DEF At, Nodes
    <3>2. IsSucc(forward[n][i], n, i) /\ forward[n][i] \in Keys \cup {Nil}
      BY <3>1 DEF Inv, Structure, Chains, TypeOK
    <3> QED BY <3>1, <3>2, KeyOrder DEF Nodes, Header
  <2>2. At(i)' = At(i) \ {k} /\ At(i) \subseteq Nat
    BY <1>7, KeyOrder DEF At
  <2>3. CASE i \notin 0..nodeLevel[k]
    <3>1. forward'[n][i] = forward[n][i]
      BY <1>2, <1>5, <2>1, <2>3
    <3>2. k \notin At(i)
      BY <1>5, <1>6, <2>3 DEF At
    <3> QED BY <2>1, <2>2, <3>1, <3>2 DEF IsSucc
  <2>4. CASE i \in 0..nodeLevel[k]
    <3>1. k \in At(i) /\ i \in 0..currentLevel
      BY <1>4, <1>5, <1>6, <2>4 DEF At
    <3>2. LastBelow(u(i), i, k) /\ forward[u(i)][i] = k
      BY <1>1, <1>5, <2>4, <3>1, AfterSearch
    <3>3. /\ u(i) \in Nat /\ u(i) < k
          /\ IsSucc(k, u(i), i)
          /\ IsSucc(forward[k][i], k, i) /\ forward[k][i] \in Nat \cup {Nil}
      BY <1>4, <3>1, <3>2, Neighbours DEF LastBelow
    <3>4. CASE n = u(i)
      <4>1. forward'[n][i] = forward[k][i]
        BY <1>2, <1>5, <2>1, <2>4, <3>4
      <4>2. \A a \in At(i) \ {k} : a <= k => a <= u(i)
        BY <1>4, <2>2, <3>3 DEF IsSucc, Nil
      <4> QED BY <1>4, <2>2, <3>3, <3>4, <4>1, <4>2 DEF IsSucc, Nil
    <3>5. CASE n # u(i)
      <4>1. forward'[n][i] = forward[n][i]
        BY <1>2, <2>1, <3>5
      <4>2. forward[n][i] # k
        <5>1. n < u(i) => forward[n][i] <= u(i)
          BY <1>4, <2>1, <3>2, Neighbours
        <5>2. n > u(i) => k <= n
          BY <1>4, <2>1, <3>2, Neighbours
        <5>3. forward[n][i] # Nil => forward[n][i] > n
          BY <2>1 DEF IsSucc
        <5> QED BY <1>4, <2>1, <3>3, <3>5, <5>1, <5>2, <5>3 DEF Nil
      <4> QED BY <2>1, <2>2, <4>1, <4>2 DEF IsSucc
    <3> QED BY <3>4, <3>5
  <2> QED BY <2>3, <2>4
<1>10. TopLevel'
  <2>1. l = 0 \/ forward'[Header][l] # Nil
    BY <1>3 DEF LoweredTo
  <2>2. ASSUME NEW a \in Keys PROVE nodeLevel'[a] <= l
    <3>1. l \in Nat /\ currentLevel \in Nat
      BY <1>3, <1>6
    <3>2. CASE a = k
      BY <1>2, <3>1, <3>2 DEF TypeOK, Free
    <3>3. CASE a # k
      <4>1. nodeLevel'[a] = nodeLevel[a] /\ nodeLevel[a] <= currentLevel
            /\ nodeLevel[a] \in Levels \cup {Free}
        BY <1>2, <3>3 DEF TypeOK, Inv, Structure, TopLevel
      <4>2. nodeLevel[a] \in Int
        BY <4>1, SkipListAssumption DEF Levels, Free
      <4> SUFFICES ASSUME nodeLevel[a] > l PROVE FALSE
        BY <3>1, <4>1, <4>2
      <4>0. nodeLevel[a] \in Levels
        BY <3>1, <4>1, <4>2 DEF Free
      <4> PICK j \in Levels : j = nodeLevel[a]
        BY <4>0
      <4>3. j \in (l + 1)..currentLevel /\ j \in Levels
        BY <1>6, <3>1, <4>1, <4>2
      <4>4. forward'[Header][j] = Nil
        BY <1>3, <4>3 DEF LoweredTo
      <4>5. a \in At(j)'
        BY <1>7, <3>3, <4>2, <4>3 DEF At
      <4>6. IsSucc(forward[Header][j], Header, j)'
        BY <1>9, <4>3 DEF Chains
      <4>7. a <= Header
        BY <4>4, <4>5, <4>6 DEF IsSucc
      <4> QED BY <4>7, KeyOrder DEF Header
    <3> QED BY <3>2, <3>3
  <2> QED BY <1>3, <2>1, <2>2 DEF TopLevel
<1>11. CountExact'
  <2>1. At(0)' = At(0) \ {k}
    BY <1>6, <1>7, SkipListAssumption DEF Levels
  <2> QED BY <1>2, <1>4, <2>1, FS_RemoveElement DEF CountExact, Inv, Structure
<1>12. ValueLive'
  BY <1>2, <1>4 DEF TypeOK, Inv, ValueLive
<1>13. Answer(TRUE, NoValue, 0) \in [ok : BOOLEAN, value : Values \cup {NoValue}, count : Int]
  BY DEF Answer
<1> QED BY <1>1, <1>2, <1>8, <1>9, <1>10, <1>11, <1>12, <1>13, FinishStep
        DEF TypeOK, Inv, Structure

-----------------------------------------------------------------------------
(* The invariant holds initially and no step breaks it. *)
LEMMA InvInit ==
  ASSUME Init PROVE TypeOK /\ Inv
<1>1. TypeOK
  <2>1. req \in [Threads -> Requests]
    BY DEF Init, Requests
  <2>2. ret \in [Threads -> [ok : BOOLEAN, value : Values \cup {NoValue}, count : Int]]
    BY DEF Init, NoAnswer, Answer
  <2>3. currentLevel \in Levels
    BY SkipListAssumption DEF Init, Levels
  <2> QED BY <2>1, <2>2, <2>3 DEF Init, TypeOK, Nodes, PCs
<1>2. Structure
  <2>1. \A i \in Levels : At(i) = {}
    BY SkipListAssumption DEF Init, At, Levels, Free
  <2>2. 0 \in Levels
    BY SkipListAssumption DEF Levels
  <2>3. Chains
    BY <2>1 DEF Init, Chains, IsSucc, Nodes
  <2>4. TopLevel
    BY DEF Init, TopLevel, Free
  <2>5. CountExact
    BY <2>1, <2>2, FS_EmptySet DEF Init, CountExact
  <2> QED BY <2>3, <2>4, <2>5 DEF Structure
<1>3. MutexHeld /\ ValueLive /\ PCRequest
  BY SkipListAssumption DEF Init, MutexHeld, ValueLive, PCRequest
<1>4. \A t \in Threads : SearchInv(t)
  BY DEF Init, SearchInv
<1> QED BY <1>1, <1>2, <1>3, <1>4 DEF Inv

LEMMA InvNext ==
  ASSUME TypeOK, Inv, [Next]_vars PROVE TypeOK' /\ Inv'
<1>1. CASE UNCHANGED vars
  <2>1. TypeOK'
    BY <1>1, SharedUnchanged DEF vars, locals, TypeOK
  <2>2. MutexHeld' /\ PCRequest'
    BY <1>1 DEF vars, Inv, MutexHeld, PCRequest
  <2>3. ASSUME NEW u \in Threads PROVE SearchInv(u)'
    BY <1>1 DEF vars, shared, locals, Inv, SearchInv, LastBelow, At
  <2> QED BY <1>1, <2>1, <2>2, <2>3, SharedUnchanged DEF vars, Inv
<1>2. CASE Next
  <2>1. PICK t \in Threads : Call(t) \/ Running(t)
    BY <1>2 DEF Next
  <2> QED BY <2>1, CallStep, LockStep, AdvanceStep, DescendStep, UnlockStep,
             InsertExistingStep, InsertNewStep, ReadStep, RemovePresentStep, ClearStep
          DEF Running, Apply
<1> QED BY <1>1, <1>2

(* Every reachable state, also in the middle of an operation, satisfies the
   inductive invariant: levels are exact ascending chains, the counters are
   right, the mutex is held by the thread inside, and the search loop's locals
   are what the code after it relies on (skiplist.h:181-356). *)
THEOREM InvCorrect == Spec => [](TypeOK /\ Inv)
<1>1. Init => TypeOK /\ Inv
  BY InvInit
<1>2. (TypeOK /\ Inv) /\ [Next]_vars => (TypeOK /\ Inv)'
  BY InvNext
<1> QED BY <1>1, <1>2, PTL DEF Spec

(* No reachable state leaves the types: every step of every operation keeps
   its pointers, levels and locals in range, so no null pointer is followed
   and no forward[] slot outside 0..maxLevel_ is used. *)
THEOREM TypeCorrect == Spec => []TypeOK
BY InvCorrect, PTL

(* The structure of the list (skiplist.h:219-356): each level is the ascending
   chain of exactly its nodes, currentLevel_ is exact, elementCount_ counts. *)
THEOREM StructureCorrect == Spec => []Structure
<1>1. TypeOK /\ Inv => Structure
  BY DEF Inv
<1> QED BY InvCorrect, <1>1, PTL

-----------------------------------------------------------------------------
(* Refinement: SkipList implements OrderedMap. *)

(* OrderedMap's Cardinality is this module's. *)
LEMMA SameCardinality ==
  ASSUME NEW S PROVE Map!Cardinality(S) = Cardinality(S)
  BY DEF Map!Cardinality, Cardinality

LEMMA LiveIsLinked ==
  ASSUME TypeOK, Inv PROVE Map!Live = At(0)
<1>1. ASSUME NEW k \in Keys PROVE nodeLevel[k] # Free <=> nodeLevel[k] >= 0
  <2>1. nodeLevel[k] \in Levels \cup {Free}
    BY DEF TypeOK
  <2> QED BY <2>1, SkipListAssumption DEF Levels, Free
<1> QED BY <1>1 DEF Map!Live, Inv, ValueLive, At

LEMMA FinishRefines ==
  ASSUME TypeOK, Inv, NEW t \in Threads, pc[t] = "apply",
         NEW ok \in BOOLEAN, NEW v \in Values \cup {NoValue},
         NEW n \in 0..Cardinality(At(0)), Finish(t, Map!Answer(ok, v, n)),
         \/ Map!Insert(req[t], Map!Answer(ok, v, n))
         \/ Map!Search(req[t], Map!Answer(ok, v, n))
         \/ Map!Remove(req[t], Map!Answer(ok, v, n))
         \/ Map!Size(req[t], Map!Answer(ok, v, n))
         \/ Map!Clear(req[t], Map!Answer(ok, v, n))
  PROVE  Map!TakeEffect(t)
<1>1. pc' = [pc EXCEPT ![t] = "unlock"] /\ req' = req
      /\ ret' = [ret EXCEPT ![t] = Map!Answer(ok, v, n)]
  BY DEF Finish
<1>2. phase[t] = "pending" /\ phase' = [phase EXCEPT ![t] = "done"]
  BY <1>1 DEF phase, TypeOK
<1>3. ok \in BOOLEAN /\ v \in Values \cup {NoValue} /\ n \in 0..Map!Cardinality(Map!Live)
  BY LiveIsLinked, SameCardinality
<1> QED BY <1>1, <1>2, <1>3, Zenon DEF Map!TakeEffect

LEMMA ApplyRefines ==
  ASSUME TypeOK, Inv, NEW t \in Threads, Apply(t)
  PROVE  Map!TakeEffect(t)
<1> DEFINE k == req[t].key
<1>1. Cardinality(At(0)) \in Nat /\ elementCount = Cardinality(At(0))
  BY FS_CardinalityType DEF Inv, Structure, CountExact
<1>2. 0 \in 0..Cardinality(At(0)) /\ elementCount \in 0..Cardinality(At(0))
  BY <1>1
<1>3. req[t].name \in Keyed /\ pc[t] = "apply" =>
        k \in Keys /\ (Found(t) <=> value[k] # NoValue)
  <2> SUFFICES ASSUME req[t].name \in Keyed, pc[t] = "apply"
               PROVE  k \in Keys /\ (Found(t) <=> value[k] # NoValue)
    OBVIOUS
  <2>1. k \in Keys /\ (Found(t) <=> k \in At(0))
    BY AfterSearch, RequestTypes
  <2>2. nodeLevel[k] \in Levels \cup {Free} /\ (value[k] # NoValue <=> nodeLevel[k] # Free)
    BY <2>1 DEF TypeOK, Inv, ValueLive
  <2> QED BY <2>1, <2>2, SkipListAssumption DEF At, Levels, Free
<1> USE DEF Keyed, Map!Answer, Answer
<1>4. CASE InsertExisting(t)
  <2>1. Map!Insert(req[t], Answer(FALSE, NoValue, 0))
    BY <1>3, <1>4 DEF InsertExisting, Map!Insert
  <2> QED BY <1>2, <1>4, <2>1, FinishRefines DEF InsertExisting
<1>5. CASE InsertNew(t)
  <2>1. Map!Insert(req[t], Answer(TRUE, NoValue, 0))
    BY <1>3, <1>5 DEF InsertNew, Map!Insert
  <2> QED BY <1>2, <1>5, <2>1, FinishRefines DEF InsertNew
<1>6. CASE Search(t)
  <2>1. k \in Keys /\ value[k] \in Values \cup {NoValue} /\ pc[t] = "apply"
    BY <1>3, <1>6 DEF Search, TypeOK
  <2>2. CASE Found(t)
    <3>1. Map!Search(req[t], Answer(TRUE, value[k], 0))
      BY <1>3, <1>6, <2>2 DEF Search, Map!Search, shared
    <3> QED BY <1>2, <1>6, <2>1, <2>2, <3>1, FinishRefines DEF Search
  <2>3. CASE ~Found(t)
    <3>1. Map!Search(req[t], Answer(FALSE, NoValue, 0))
      BY <1>3, <1>6, <2>3 DEF Search, Map!Search, shared
    <3> QED BY <1>2, <1>6, <2>1, <2>3, <3>1, FinishRefines DEF Search
  <2> QED BY <2>2, <2>3
<1>7. CASE RemoveAbsent(t)
  <2>1. value[k] = NoValue /\ k \in Keys /\ value \in [Keys -> Values \cup {NoValue}]
    BY <1>3, <1>7 DEF RemoveAbsent, TypeOK
  <2>2. Map!Remove(req[t], Answer(FALSE, NoValue, 0))
    BY <1>7, <2>1 DEF RemoveAbsent, Map!Remove, shared
  <2> QED BY <1>2, <1>7, <2>2, FinishRefines DEF RemoveAbsent
<1>8. CASE RemovePresent(t)
  <2>1. Map!Remove(req[t], Answer(TRUE, NoValue, 0))
    BY <1>3, <1>8 DEF RemovePresent, Map!Remove
  <2> QED BY <1>2, <1>8, <2>1, FinishRefines DEF RemovePresent
<1>9. CASE Size(t)
  <2>1. Map!Size(req[t], Answer(TRUE, NoValue, elementCount))
    <3>1. req[t].name = "size" /\ value' = value
      BY <1>9 DEF Size, shared
    <3>2. elementCount = Map!Cardinality(Map!Live)
      BY <1>1, LiveIsLinked, SameCardinality
    <3> QED BY <3>1, <3>2 DEF Map!Size
  <2> QED BY <1>2, <1>9, <2>1, FinishRefines DEF Size
<1>10. CASE Clear(t)
  <2>1. Map!Clear(req[t], Answer(TRUE, NoValue, 0))
    BY <1>10 DEF Clear, Map!Clear
  <2> QED BY <1>2, <1>10, <2>1, FinishRefines DEF Clear
<1> QED BY <1>4, <1>5, <1>6, <1>7, <1>8, <1>9, <1>10 DEF Apply

(* Every operation of the list is one atomic operation on an ordered map
   between its call and its return, whatever the other threads do: the list
   implements OrderedMap (skiplist.h:20-95). *)
THEOREM LinearizableCorrect == Spec => Linearizable
<1>1. Init => Map!Init
  BY DEF Init, Map!Init, phase, NoAnswer, Answer, Map!NoAnswer, Map!Answer
<1>2. (TypeOK /\ Inv) /\ [Next]_vars => [Map!Next]_(Map!vars)
  <2> SUFFICES ASSUME TypeOK, Inv, [Next]_vars PROVE [Map!Next]_(Map!vars)
    OBVIOUS
  <2>1. CASE UNCHANGED vars
    BY <2>1 DEF vars, shared, Map!vars, phase
  <2>2. ASSUME NEW t \in Threads, Call(t) PROVE Map!Invoke(t)
    <3>1. phase[t] = "idle" /\ phase' = [phase EXCEPT ![t] = "pending"]
      BY <2>2 DEF Call, phase, TypeOK
    <3>2. Map!Requests = Requests
      BY DEF Map!Requests, Requests
    <3> QED BY <2>2, <3>1, <3>2 DEF Call, Map!Invoke, shared
  <2>3. ASSUME NEW t \in Threads, Lock(t) \/ Advance(t) \/ Descend(t)
        PROVE  UNCHANGED Map!vars
    <3>1. UNCHANGED <<value, req, ret>>
      BY <2>3 DEF Lock, Advance, Descend, shared
    <3>2. phase' = phase
      BY <2>3 DEF Lock, Advance, Descend, phase, TypeOK
    <3> QED BY <3>1, <3>2 DEF Map!vars
  <2>4. ASSUME NEW t \in Threads, Unlock(t) PROVE Map!Return(t)
    <3>1. phase[t] = "done" /\ phase' = [phase EXCEPT ![t] = "idle"]
      BY <2>4 DEF Unlock, phase, TypeOK
    <3> QED BY <2>4, <3>1 DEF Unlock, Map!Return, shared
  <2> QED BY <2>1, <2>2, <2>3, <2>4, ApplyRefines DEF Next, Running, Map!Next
<1> QED BY <1>1, <1>2, InvCorrect, PTL DEF Spec, Linearizable, Map!Spec
=============================================================================

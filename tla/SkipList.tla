------------------------------ MODULE SkipList ------------------------------
(***************************************************************************)
(* storage/skiplist.h: the probabilistic ordered map behind the KV store,  *)
(* one step per iteration of its search loop, called by several threads.   *)
(*                                                                         *)
(* A node is named by its key (insert() creates a node only for a key that *)
(* is not linked); Header is below every key and Nil is the null           *)
(* shared_ptr.  nodeLevel[k] = Free says that no node of key k exists: the *)
(* last shared_ptr to it is gone.                                          *)
(***************************************************************************)
EXTENDS Integers, FiniteSets

CONSTANTS Threads,   \* threads calling the list (the IO threads of the server)
          Keys,      \* positive integers: only their order matters
          Values,
          NoValue,
          NoThread,  \* holder_ of an unlocked mutex
          MaxLevel   \* maxLevel_

Header == 0
Nil    == -1
Free   == -1

ASSUME SkipListAssumption ==
    /\ Keys \subseteq Nat \ {0}
    /\ MaxLevel \in Nat
    /\ NoValue \notin Values
    /\ NoThread \notin Threads

Levels == 0..MaxLevel          \* Node(maxLevel): forward has maxLevel + 1 slots
Nodes  == Keys \cup {Header}
LevelsTooHigh == 0..(MaxLevel + 1)  \* mutant
RandomLevels == {l \in Levels : l = 0 \/ l < MaxLevel}   \* getRandomLevel()

VARIABLES forward,       \* forward[n][i]: the node after n on level i, or Nil
          nodeLevel,     \* nodeLevel[k]: the highest level of node k, or Free
          value,         \* value[k]: the value of node k
          currentLevel,  \* currentLevel_
          elementCount,  \* elementCount_
          holder,        \* the thread that holds mutex_
          pc,            \* where each thread is: see PCs
          req, ret,      \* the call each thread makes, and its answer
          cur, lvl, update  \* the locals current, i and update of each thread

shared == <<forward, nodeLevel, value, currentLevel, elementCount>>
locals == <<cur, lvl, update>>
vars == <<shared, holder, pc, req, ret, locals>>

PCs == {"idle", "lock", "search", "apply", "unlock"}

Requests ==
    [name : {"insert"}, key : Keys, value : Values]
      \cup [name : {"search", "remove"}, key : Keys, value : {NoValue}]
      \cup [name : {"size", "clear"}, key : {Nil}, value : {NoValue}]

Answer(ok, v, count) == [ok |-> ok, value |-> v, count |-> count]
NoAnswer == Answer(FALSE, NoValue, 0)

Init ==
    /\ forward = [n \in Nodes |-> [i \in Levels |-> Nil]]
    /\ nodeLevel = [k \in Keys |-> Free]
    /\ value = [k \in Keys |-> NoValue]
    /\ currentLevel = 0
    /\ elementCount = 0
    /\ holder = NoThread
    /\ pc = [t \in Threads |-> "idle"]
    /\ req = [t \in Threads |-> [name |-> "size", key |-> Nil, value |-> NoValue]]
    /\ ret = [t \in Threads |-> NoAnswer]
    /\ cur = [t \in Threads |-> Header]
    /\ lvl = [t \in Threads |-> -1]
    /\ update = [t \in Threads |-> [i \in Levels |-> Nil]]

-----------------------------------------------------------------------------
Call(t) ==
    /\ pc[t] = "idle"
    /\ \E r \in Requests : req' = [req EXCEPT ![t] = r]
    /\ pc' = [pc EXCEPT ![t] = "lock"]
    /\ UNCHANGED <<shared, holder, ret, locals>>

\* MutexLockGuard lock(mutex_), then the locals' initial values.
Lock(t) ==
    /\ pc[t] = "lock"
    /\ holder = NoThread
    /\ holder' = t
    /\ cur' = [cur EXCEPT ![t] = Header]
    /\ update' = [update EXCEPT ![t] = [i \in Levels |-> Nil]]
    /\ IF req[t].name \in {"insert", "search", "remove"}
         THEN /\ pc' = [pc EXCEPT ![t] = "search"]
              /\ lvl' = [lvl EXCEPT ![t] = currentLevel]
         ELSE /\ pc' = [pc EXCEPT ![t] = "apply"]
              /\ UNCHANGED lvl
    /\ UNCHANGED <<shared, req, ret>>

\* The test of the search loop: is the next node on this level still below key?
BelowOrAt(t) == LET n == forward[cur[t]][lvl[t]] IN n # Nil /\ n <= req[t].key  \* mutant
Below(t) == LET n == forward[cur[t]][lvl[t]] IN n # Nil /\ n < req[t].key

\* while (current->forward[i] != nullptr && current->forward[i]->key < key)
Advance(t) ==
    /\ pc[t] = "search" /\ lvl[t] >= 0
    /\ Below(t)
    /\ cur' = [cur EXCEPT ![t] = forward[cur[t]][lvl[t]]]
    /\ UNCHANGED <<shared, holder, pc, req, ret, lvl, update>>

\* update[i] = current; the next lower level (after level 0: the operation).
Descend(t) ==
    /\ pc[t] = "search" /\ lvl[t] >= 0
    /\ ~Below(t)
    /\ update' = [update EXCEPT ![t][lvl[t]] = cur[t]]
    /\ lvl' = [lvl EXCEPT ![t] = lvl[t] - 1]
    /\ pc' = [pc EXCEPT ![t] = IF lvl[t] = 0 THEN "apply" ELSE "search"]
    /\ UNCHANGED <<shared, holder, req, ret, cur>>

\* current = current->forward[0]; current != nullptr && current->key == key
Found(t) == forward[cur[t]][0] = req[t].key

Finish(t, answer) ==
    /\ ret' = [ret EXCEPT ![t] = answer]
    /\ pc' = [pc EXCEPT ![t] = "unlock"]
    /\ UNCHANGED <<holder, req, locals>>

InsertExisting(t) ==
    /\ pc[t] = "apply" /\ req[t].name = "insert"
    /\ Found(t)
    /\ value' = [value EXCEPT ![req[t].key] = req[t].value]
    /\ Finish(t, Answer(FALSE, NoValue, 0))
    /\ UNCHANGED <<forward, nodeLevel, currentLevel, elementCount>>

\* update[i], completed with the header for levels above currentLevel_.
Pred(t, i) == IF i > currentLevel THEN Header ELSE update[t][i]

\* newNode->forward[i] = update[i]->forward[i]; update[i]->forward[i] = newNode
Splice(t, k, r) ==
    [n \in Nodes |-> [i \in Levels |->
        IF n = k THEN IF i <= r THEN forward[Pred(t, i)][i] ELSE Nil
        ELSE IF i <= r /\ n = Pred(t, i) THEN k ELSE forward[n][i]]]

InsertNew(t) ==
    LET k == req[t].key IN
    /\ pc[t] = "apply" /\ req[t].name = "insert"
    /\ ~Found(t)
    /\ \E r \in RandomLevels :
         /\ nodeLevel' = [nodeLevel EXCEPT ![k] = r]
         /\ currentLevel' = IF r > currentLevel THEN r ELSE currentLevel
         /\ forward' = Splice(t, k, r)
    /\ value' = [value EXCEPT ![k] = req[t].value]
    /\ elementCount' = elementCount + 1
    /\ Finish(t, Answer(TRUE, NoValue, 0))

Search(t) ==
    /\ pc[t] = "apply" /\ req[t].name = "search"
    /\ Finish(t, IF Found(t) THEN Answer(TRUE, value[req[t].key], 0)
                             ELSE Answer(FALSE, NoValue, 0))
    /\ UNCHANGED shared

RemoveAbsent(t) ==
    /\ pc[t] = "apply" /\ req[t].name = "remove"
    /\ ~Found(t)
    /\ Finish(t, Answer(FALSE, NoValue, 0))
    /\ UNCHANGED shared

\* The levels the unlink loop reaches before its break.
UnlinkedButTop(t) == 0..(currentLevel - 1)  \* mutant
Unlinked(t) == {i \in 0..currentLevel :
                  \A j \in 0..i : forward[update[t][j]][j] = req[t].key}

\* Where the loop that lowers currentLevel_ stops, for given header pointers.
LoweredTo(l, header) == /\ l = 0 \/ header[l] # Nil
                        /\ \A j \in (l + 1)..currentLevel : header[j] = Nil

RemovePresent(t) ==
    LET k == req[t].key IN
    /\ pc[t] = "apply" /\ req[t].name = "remove"
    /\ Found(t)
    /\ forward' = [n \in Nodes |-> [i \in Levels |->
          IF n = k THEN Nil
          ELSE IF i \in Unlinked(t) /\ n = update[t][i] THEN forward[k][i]
          ELSE forward[n][i]]]
    /\ \E l \in 0..currentLevel : LoweredTo(l, forward'[Header]) /\ currentLevel' = l
    /\ nodeLevel' = [nodeLevel EXCEPT ![k] = Free]
    /\ value' = [value EXCEPT ![k] = NoValue]
    /\ elementCount' = elementCount - 1
    /\ Finish(t, Answer(TRUE, NoValue, 0))

Size(t) ==
    /\ pc[t] = "apply" /\ req[t].name = "size"
    /\ Finish(t, Answer(TRUE, NoValue, elementCount))
    /\ UNCHANGED shared

\* Only the header's pointers up to currentLevel_ are reset; the nodes go
\* with their last shared_ptr.
Clear(t) ==
    /\ pc[t] = "apply" /\ req[t].name = "clear"
    /\ forward' = [n \in Nodes |-> [i \in Levels |->
          IF n = Header /\ i > currentLevel THEN forward[n][i] ELSE Nil]]
    /\ nodeLevel' = [k \in Keys |-> Free]
    /\ value' = [k \in Keys |-> NoValue]
    /\ currentLevel' = 0
    /\ elementCount' = 0
    /\ Finish(t, Answer(TRUE, NoValue, 0))

\* ~MutexLockGuard, and the locals are gone.
Unlock(t) ==
    /\ pc[t] = "unlock"
    /\ holder' = NoThread
    /\ pc' = [pc EXCEPT ![t] = "idle"]
    /\ cur' = [cur EXCEPT ![t] = Header]
    /\ lvl' = [lvl EXCEPT ![t] = -1]
    /\ update' = [update EXCEPT ![t] = [i \in Levels |-> Nil]]
    /\ UNCHANGED <<shared, req, ret>>

Apply(t) == \/ InsertExisting(t) \/ InsertNew(t) \/ Search(t)
            \/ RemoveAbsent(t) \/ RemovePresent(t) \/ Size(t) \/ Clear(t)

Running(t) == Lock(t) \/ Advance(t) \/ Descend(t) \/ Apply(t) \/ Unlock(t)

Next == \E t \in Threads : Call(t) \/ Running(t)

Spec == Init /\ [][Next]_vars

-----------------------------------------------------------------------------
\* Types of the state.
TypeOK ==
    /\ forward \in [Nodes -> [Levels -> Keys \cup {Nil}]]
    /\ nodeLevel \in [Keys -> Levels \cup {Free}]
    /\ value \in [Keys -> Values \cup {NoValue}]
    /\ currentLevel \in Levels
    /\ elementCount \in Int
    /\ holder \in Threads \cup {NoThread}
    /\ pc \in [Threads -> PCs]
    /\ req \in [Threads -> Requests]
    /\ ret \in [Threads -> [ok : BOOLEAN, value : Values \cup {NoValue}, count : Int]]
    /\ cur \in [Threads -> Nodes]
    /\ lvl \in [Threads -> Levels \cup {-1}]
    /\ update \in [Threads -> [Levels -> Nodes \cup {Nil}]]

\* The nodes that belong to level i.
At(i) == {k \in Keys : nodeLevel[k] >= i}

\* m is what follows n on level i: the least node above n, or Nil if none is.
IsSucc(m, n, i) ==
    IF m = Nil THEN \A k \in At(i) : k <= n
    ELSE /\ m \in At(i)
         /\ m > n
         /\ \A k \in At(i) : k <= n \/ m <= k

\* Every level is the ascending chain of exactly the nodes that reach that
\* level (so each level is a sublist of the one below, and the header slots
\* above currentLevel_, which insert() relies on and clear() does not touch,
\* are null).  The search loop (skiplist.h:226-233) therefore terminates: each
\* iteration goes down a level or on to a greater key.
Chains == \A i \in Levels : \A n \in At(i) \cup {Header} : IsSucc(forward[n][i], n, i)

\* currentLevel_ is the highest level in use: a search that starts there
\* misses no node and walks no empty level.
TopLevel == /\ \A k \in Keys : nodeLevel[k] <= currentLevel
            /\ currentLevel = 0 \/ forward[Header][currentLevel] # Nil

\* elementCount_ is the number of linked nodes.
CountExact == IsFiniteSet(At(0)) /\ elementCount = Cardinality(At(0))

\* Structural correctness of the list, in every state, also between the steps
\* of an operation that is under way in another thread (skiplist.h:219-356).
Structure == Chains /\ TopLevel /\ CountExact

\* Exactly the thread between its Lock and its Unlock holds mutex_.
MutexHeld == \A t \in Threads : pc[t] \in {"search", "apply", "unlock"} <=> holder = t

\* A node has a value exactly while it is linked.
ValueLive == \A k \in Keys : value[k] # NoValue <=> nodeLevel[k] # Free

\* n is the last node of level i below key.
LastBelow(n, i, key) == /\ n \in At(i) \cup {Header}
                        /\ n < key
                        /\ forward[n][i] = Nil \/ key <= forward[n][i]

\* The search loop's invariant: update[] is right on every level done so far,
\* and current is a node of the level being searched, below the key.
SearchInv(t) ==
    pc[t] \in {"search", "apply"} /\ req[t].name \in {"insert", "search", "remove"} =>
      /\ pc[t] = "search" => /\ lvl[t] \in 0..currentLevel
                             /\ cur[t] \in At(lvl[t]) \cup {Header}
                             /\ cur[t] < req[t].key
      /\ pc[t] = "apply" => lvl[t] = -1 /\ update[t][0] = cur[t]
      /\ \A j \in Levels : lvl[t] < j /\ j <= currentLevel
                             => LastBelow(update[t][j], j, req[t].key)

\* A request with no key never runs the search loop.
PCRequest == \A t \in Threads : pc[t] = "search" => req[t].name \in {"insert", "search", "remove"}

\* The inductive invariant: the structure of the list together with what the
\* operation that is under way has established about it.
Inv == /\ Structure
       /\ MutexHeld
       /\ ValueLive
       /\ PCRequest
       /\ \A t \in Threads : SearchInv(t)

-----------------------------------------------------------------------------
\* The atomic map this list implements: a key maps to the value of its node.
phase == [t \in Threads |-> CASE pc[t] = "idle" -> "idle"
                              [] pc[t] = "unlock" -> "done"
                              [] OTHER -> "pending"]
Map == INSTANCE OrderedMap WITH map <- value, NoKey <- Nil

\* Every operation behaves as one atomic operation on an ordered map between
\* its call and its return (skiplist.h:20-95: a thread-safe map).
Linearizable == Map!Spec
=============================================================================

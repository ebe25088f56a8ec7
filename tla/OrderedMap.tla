----------------------------- MODULE OrderedMap -----------------------------
(***************************************************************************)
(* What storage/skiplist.h promises its callers (lines 20-95): an ordered  *)
(* map from keys to values whose operations are atomic.  A call is         *)
(* invoked, takes effect in one step at some moment before it returns, and *)
(* returns the answer of that moment (linearizability).  SkipList is shown *)
(* to implement this module.                                               *)
(***************************************************************************)
EXTENDS Naturals, FiniteSets

CONSTANTS Threads,  \* callers
          Keys,
          Values,
          NoValue,  \* "no such key": never a member of Values
          NoKey     \* the key of a request that has none

VARIABLES map,    \* [Keys -> Values \cup {NoValue}]
          phase,  \* per thread: "idle", "pending" or "done"
          req,    \* per thread: the request of its last call
          ret     \* per thread: the answer of its last call

vars == <<map, phase, req, ret>>

Requests ==
    [name : {"insert"}, key : Keys, value : Values]
      \cup [name : {"search", "remove"}, key : Keys, value : {NoValue}]
      \cup [name : {"size", "clear"}, key : {NoKey}, value : {NoValue}]

\* The answer of a call: the bool it returns, the value search() stores
\* through its reference parameter, the int size() returns.
Answer(ok, v, n) == [ok |-> ok, value |-> v, count |-> n]
NoAnswer == Answer(FALSE, NoValue, 0)

Live == {k \in Keys : map[k] # NoValue}

Init == /\ map = [k \in Keys |-> NoValue]
        /\ phase = [t \in Threads |-> "idle"]
        /\ req = [t \in Threads |-> [name |-> "size", key |-> NoKey, value |-> NoValue]]
        /\ ret = [t \in Threads |-> NoAnswer]

Invoke(t) ==
    /\ phase[t] = "idle"
    /\ \E r \in Requests : req' = [req EXCEPT ![t] = r]
    /\ phase' = [phase EXCEPT ![t] = "pending"]
    /\ UNCHANGED <<map, ret>>

Insert(r, a) == /\ r.name = "insert"
                /\ a = Answer(map[r.key] = NoValue, NoValue, 0)
                /\ map' = [map EXCEPT ![r.key] = r.value]

Search(r, a) == /\ r.name = "search"
                /\ a = Answer(map[r.key] # NoValue, map[r.key], 0)
                /\ UNCHANGED map

Remove(r, a) == /\ r.name = "remove"
                /\ a = Answer(map[r.key] # NoValue, NoValue, 0)
                /\ map' = [map EXCEPT ![r.key] = NoValue]

Size(r, a) == /\ r.name = "size"
              /\ a = Answer(TRUE, NoValue, Cardinality(Live))
              /\ UNCHANGED map

Clear(r, a) == /\ r.name = "clear"
               /\ a = Answer(TRUE, NoValue, 0)
               /\ map' = [k \in Keys |-> NoValue]

\* The one step in which a pending call takes effect.
TakeEffect(t) ==
    /\ phase[t] = "pending"
    /\ phase' = [phase EXCEPT ![t] = "done"]
    /\ UNCHANGED req
    /\ \E ok \in BOOLEAN, v \in Values \cup {NoValue}, n \in 0..Cardinality(Live) :
         LET a == Answer(ok, v, n)
             r == req[t]
         IN  /\ ret' = [ret EXCEPT ![t] = a]
             /\ \/ Insert(r, a)
                \/ Search(r, a)
                \/ Remove(r, a)
                \/ Size(r, a)
                \/ Clear(r, a)

Return(t) ==
    /\ phase[t] = "done"
    /\ phase' = [phase EXCEPT ![t] = "idle"]
    /\ UNCHANGED <<map, req, ret>>

Next == \E t \in Threads : Invoke(t) \/ TakeEffect(t) \/ Return(t)

Spec == Init /\ [][Next]_vars
=============================================================================

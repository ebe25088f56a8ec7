------------------------ MODULE TcpConnection_proofs ------------------------
(***************************************************************************)
(* Proofs about TcpConnection for every message, buffer size and set of    *)
(* calling threads: the byte stream, the channel's registration, and, for  *)
(* a server that calls its connections on their own loop only, when there  *)
(* is something to write and who keeps a registered channel alive.         *)
(***************************************************************************)
EXTENDS TcpConnection, SequenceTheorems, TLAPS

(* Two records that differ at most in the channel and its registration. *)
Same(c, d) ==
    /\ d.state = c.state /\ d.inq = c.inq /\ d.fin = c.fin /\ d.rst = c.rst
    /\ d.out = c.out /\ d.snd = c.snd /\ d.wrShut = c.wrShut
    /\ d.ups = c.ups /\ d.downs = c.downs

(* The channel's index is that of a registered channel exactly if it is one. *)
Indexed(c) == ~c.epollError /\ (c.reg <=> c.index = "added") /\ (c.ready => c.reg)
Agrees(c)  == Indexed(c) /\ (c.reg => c.interest = c.events)

LEMMA EdgeIs ==
  ASSUME NEW c \in ConnType
  PROVE  LET d == Edge(c)
         IN  /\ d \in ConnType /\ Same(c, d)
             /\ d.index = c.index /\ d.events = c.events /\ d.interest = c.interest
             /\ (d.reg <=> c.reg) /\ (d.epollError <=> c.epollError)
             /\ (d.ready => c.ready \/ c.reg)
<1> DEFINE d == [c EXCEPT !.ready = @ \/ (c.reg /\ Reported(c) # {})]
<1>1. d \in ConnType
  BY DEF ConnType
<1>2. Same(c, d)
  BY DEF ConnType, Same
<1>3. d.index = c.index /\ d.events = c.events /\ d.interest = c.interest
  BY DEF ConnType
<1>4. d.reg = c.reg /\ d.epollError = c.epollError
  BY DEF ConnType
<1>5. d.ready = (c.ready \/ (c.reg /\ Reported(c) # {}))
  BY DEF ConnType
<1>6. Edge(c) = d
  BY DEF Edge
<1> HIDE DEF d
<1>7. d.ready => c.ready \/ c.reg
  BY <1>5
<1> QED BY <1>1, <1>2, <1>3, <1>4, <1>6, <1>7

(* epoll_ctl with an operation that the registration allows. *)
LEMMA DelIs ==
  ASSUME NEW c \in ConnType
  PROVE  LET d == Ctl(c, "DEL")
         IN  /\ d \in ConnType /\ Same(c, d)
             /\ d.index = c.index /\ d.events = c.events
             /\ ~d.reg /\ ~d.ready /\ (d.epollError <=> c.epollError)
<1> DEFINE d == [c EXCEPT !.reg = FALSE, !.ready = FALSE]
<1>1. d \in ConnType /\ Same(c, d)
  BY DEF ConnType, Same
<1>2. d.index = c.index /\ d.events = c.events /\ d.reg = FALSE /\ d.ready = FALSE
      /\ d.epollError = c.epollError
  BY DEF ConnType
<1>3. Ctl(c, "DEL") = d
  BY DEF Ctl
<1> QED BY <1>1, <1>2, <1>3

LEMMA RegisterIs ==
  ASSUME NEW c \in ConnType, NEW op \in {"ADD", "MOD"}, (op = "ADD") # c.reg
  PROVE  LET d == Ctl(c, op)
         IN  /\ d \in ConnType /\ Same(c, d)
             /\ d.index = c.index /\ d.events = c.events
             /\ d.reg /\ d.interest = c.events /\ (d.epollError <=> c.epollError)
<1> DEFINE e == [c EXCEPT !.reg = TRUE, !.interest = c.events]
<1>1. e \in ConnType /\ Same(c, e)
  BY DEF ConnType, Same
<1>2. e.index = c.index /\ e.events = c.events /\ e.reg = TRUE /\ e.interest = c.events
      /\ e.epollError = c.epollError
  BY DEF ConnType
<1>3. Ctl(c, op) = Edge(e)
  BY DEF Ctl
<1> HIDE DEF e
<1>4. /\ Edge(e) \in ConnType /\ Same(e, Edge(e))
      /\ Edge(e).index = e.index /\ Edge(e).events = e.events /\ Edge(e).interest = e.interest
      /\ (Edge(e).reg <=> e.reg) /\ (Edge(e).epollError <=> e.epollError)
  BY <1>1, EdgeIs
<1>5. Same(c, Edge(e))
  BY <1>1, <1>4 DEF Same
<1> QED BY <1>2, <1>3, <1>4, <1>5

(* What a Channel asks of the poller, whatever its index, succeeds and leaves the *)
(* two in agreement.                                                              *)
LEMMA UpdateIs ==
  ASSUME NEW c \in ConnType, Indexed(c)
  PROVE  LET d == UpdateChannel(c)
         IN  /\ d \in ConnType /\ Same(c, d) /\ d.events = c.events /\ Agrees(d)
             /\ (d.reg <=> ~(c.reg /\ c.events = {}))
<1>1. ~c.epollError /\ (c.reg <=> c.index = "added") /\ (c.ready => c.reg)
  BY DEF Indexed
<1>2. CASE c.index # "added"
  <2> DEFINE e == [c EXCEPT !.index = "added"]
  <2>1. e \in ConnType /\ Same(c, e)
    BY DEF ConnType, Same
  <2>2. e.index = "added" /\ e.events = c.events /\ e.reg = c.reg /\ e.epollError = c.epollError
    BY DEF ConnType
  <2>3. UpdateChannel(c) = Ctl(e, "ADD")
    BY <1>2 DEF UpdateChannel
  <2> HIDE DEF e
  <2>4. ("ADD" = "ADD") # e.reg
    BY <1>1, <1>2, <2>2
  <2> DEFINE d == Ctl(e, "ADD")
  <2>5. /\ d \in ConnType /\ Same(e, d)
        /\ d.index = e.index /\ d.events = e.events
        /\ d.reg /\ d.interest = e.events /\ (d.epollError <=> e.epollError)
    BY <2>1, <2>4, RegisterIs
  <2> HIDE DEF d
  <2>6. Same(c, d)
    BY <2>1, <2>5 DEF Same
  <2>7. Agrees(d)
    BY <1>1, <2>2, <2>5 DEF Agrees, Indexed
  <2> QED BY <1>1, <1>2, <2>2, <2>3, <2>5, <2>6, <2>7 DEF d
<1>3. CASE c.index = "added" /\ c.events = {}
  <2> DEFINE e == Ctl(c, "DEL")
             d == [e EXCEPT !.index = "deleted"]
  <2>1. UpdateChannel(c) = d
    BY <1>3 DEF UpdateChannel
  <2>2. /\ e \in ConnType /\ Same(c, e) /\ e.events = c.events
        /\ ~e.reg /\ ~e.ready /\ (e.epollError <=> c.epollError)
    BY DelIs
  <2> HIDE DEF e
  <2>3. d \in ConnType /\ Same(e, d)
    BY <2>2 DEF ConnType, Same
  <2>4. d.index = "deleted" /\ d.events = e.events /\ d.reg = e.reg /\ d.ready = e.ready
        /\ d.epollError = e.epollError
    BY <2>2 DEF ConnType
  <2> HIDE DEF d
  <2>5. Same(c, d)
    BY <2>2, <2>3 DEF Same
  <2>6. Agrees(d) /\ ~d.reg
    BY <1>1, <2>2, <2>4 DEF Agrees, Indexed
  <2> QED BY <1>1, <1>3, <2>1, <2>2, <2>3, <2>4, <2>5, <2>6
<1>4. CASE c.index = "added" /\ c.events # {}
  <2> DEFINE d == Ctl(c, "MOD")
  <2>1. UpdateChannel(c) = d
    BY <1>4 DEF UpdateChannel
  <2>2. ("MOD" = "ADD") # c.reg
    BY <1>1, <1>4
  <2>3. /\ d \in ConnType /\ Same(c, d)
        /\ d.index = c.index /\ d.events = c.events
        /\ d.reg /\ d.interest = c.events /\ (d.epollError <=> c.epollError)
    BY <2>2, RegisterIs
  <2> HIDE DEF d
  <2>4. Agrees(d)
    BY <1>1, <1>4, <2>3 DEF Agrees, Indexed
  <2> QED BY <1>4, <2>1, <2>3, <2>4
<1> QED BY <1>2, <1>3, <1>4

(* The four operations of a Channel, and its removal. *)
LEMMA ChannelIs ==
  ASSUME NEW c \in ConnType, Agrees(c)
  PROVE  /\ LET d == EnableReading(c) IN
              d \in ConnType /\ Same(c, d) /\ Agrees(d) /\ d.events = c.events \cup {"in"} /\ d.reg
         /\ LET d == EnableWriting(c) IN
              d \in ConnType /\ Same(c, d) /\ Agrees(d) /\ d.events = c.events \cup {"out"} /\ d.reg
         /\ LET d == DisableWriting(c) IN
              d \in ConnType /\ Same(c, d) /\ Agrees(d) /\ d.events = c.events \ {"out"}
              /\ ("in" \in c.events => d.reg)
         /\ LET d == DisableAll(c) IN
              d \in ConnType /\ Same(c, d) /\ Agrees(d) /\ d.events = {}
              /\ (d.reg <=> ~c.reg)
<1>1. ASSUME NEW E \in SUBSET Events
      PROVE  LET e == [c EXCEPT !.events = E]
                 d == UpdateChannel(e)
             IN  /\ d \in ConnType /\ Same(c, d) /\ Agrees(d) /\ d.events = E
                 /\ (d.reg <=> ~(c.reg /\ E = {}))
  <2> DEFINE e == [c EXCEPT !.events = E]
             d == UpdateChannel(e)
  <2>1. e \in ConnType /\ Same(c, e)
    BY DEF ConnType, Same
  <2>2. e.events = E /\ e.index = c.index /\ e.reg = c.reg /\ e.ready = c.ready
        /\ e.epollError = c.epollError
    BY DEF ConnType
  <2> HIDE DEF e
  <2>3. Indexed(e)
    BY <2>2 DEF Agrees, Indexed
  <2>4. /\ d \in ConnType /\ Same(e, d) /\ d.events = e.events /\ Agrees(d)
        /\ (d.reg <=> ~(e.reg /\ e.events = {}))
    BY <2>1, <2>3, UpdateIs
  <2> HIDE DEF d
  <2>5. Same(c, d)
    BY <2>1, <2>4 DEF Same
  <2> QED BY <2>2, <2>4, <2>5 DEF d, e
<1>2. c.events \in SUBSET Events /\ Events = {"in", "out"}
  BY DEF ConnType, Events
<1>3. c.events \cup {"in"} \in SUBSET Events /\ c.events \cup {"out"} \in SUBSET Events
      /\ c.events \ {"out"} \in SUBSET Events /\ {} \in SUBSET Events
  BY <1>2
<1>4. /\ EnableReading(c) = UpdateChannel([c EXCEPT !.events = c.events \cup {"in"}])
      /\ EnableWriting(c) = UpdateChannel([c EXCEPT !.events = c.events \cup {"out"}])
      /\ DisableWriting(c) = UpdateChannel([c EXCEPT !.events = c.events \ {"out"}])
      /\ DisableAll(c) = UpdateChannel([c EXCEPT !.events = {}])
  BY DEF EnableReading, EnableWriting, DisableWriting, DisableAll
<1>5. "in" \in c.events \cup {"in"} /\ "out" \in c.events \cup {"out"}
      /\ ("in" \in c.events => "in" \in c.events \ {"out"})
  OBVIOUS
<1> HIDE DEF Events
<1>6. LET d == EnableReading(c) IN
        d \in ConnType /\ Same(c, d) /\ Agrees(d) /\ d.events = c.events \cup {"in"} /\ d.reg
  BY <1>1, <1>3, <1>4, <1>5
<1>7. LET d == EnableWriting(c) IN
        d \in ConnType /\ Same(c, d) /\ Agrees(d) /\ d.events = c.events \cup {"out"} /\ d.reg
  BY <1>1, <1>3, <1>4, <1>5
<1>8. LET d == DisableWriting(c) IN
        /\ d \in ConnType /\ Same(c, d) /\ Agrees(d) /\ d.events = c.events \ {"out"}
        /\ ("in" \in c.events => d.reg)
  BY <1>1, <1>3, <1>4, <1>5
<1>9. LET d == DisableAll(c) IN
        d \in ConnType /\ Same(c, d) /\ Agrees(d) /\ d.events = {} /\ (d.reg <=> ~c.reg)
  BY <1>1, <1>3, <1>4
<1> QED BY <1>6, <1>7, <1>8, <1>9

LEMMA RemoveIs ==
  ASSUME NEW c \in ConnType, Agrees(c)
  PROVE  LET d == RemoveChannel(c)
         IN  d \in ConnType /\ Same(c, d) /\ Agrees(d) /\ d.events = c.events /\ ~d.reg
<1> DEFINE e == IF c.index = "added" THEN Ctl(c, "DEL") ELSE c
           d == [e EXCEPT !.index = "new"]
<1>1. RemoveChannel(c) = d
  BY DEF RemoveChannel
<1>2. ~c.epollError /\ (c.reg <=> c.index = "added") /\ (c.ready => c.reg)
  BY DEF Agrees, Indexed
<1>3. e \in ConnType /\ Same(c, e) /\ e.events = c.events /\ ~e.reg /\ ~e.ready /\ ~e.epollError
  <2>1. CASE c.index = "added"
    BY <1>2, <2>1, DelIs
  <2>2. CASE c.index # "added"
    BY <1>2, <2>2 DEF Same
  <2> QED BY <2>1, <2>2
<1> HIDE DEF e
<1>4. d \in ConnType /\ Same(e, d)
  BY <1>3 DEF ConnType, Same
<1>5. d.index = "new" /\ d.events = e.events /\ d.reg = e.reg /\ d.ready = e.ready
      /\ d.epollError = e.epollError
  BY <1>3 DEF ConnType
<1> HIDE DEF d
<1>6. Same(c, d)
  BY <1>3, <1>4 DEF Same
<1>7. Agrees(d)
  BY <1>3, <1>5 DEF Agrees, Indexed
<1> QED BY <1>1, <1>3, <1>4, <1>5, <1>6, <1>7

-----------------------------------------------------------------------------
(* A sequence cut in two, as write(2) cuts what it is given. *)
LEMMA CutIs ==
  ASSUME NEW S, NEW s \in Seq(S), NEW n \in 0..Len(s)
  PROVE  /\ SubSeq(s, 1, n) \in Seq(S) /\ SubSeqFrom(s, n + 1) \in Seq(S)
         /\ Len(SubSeq(s, 1, n)) = n
         /\ SubSeq(s, 1, n) \o SubSeqFrom(s, n + 1) = s
         /\ n = Len(s) <=> SubSeqFrom(s, n + 1) = <<>>
<1>1. Len(s) \in Nat /\ \A i \in 1..Len(s) : s[i] \in S
  BY LenProperties, ElementOfSeq
<1>2. SubSeq(s, 1, n) \in Seq(S) /\ Len(SubSeq(s, 1, n)) = n
  <2>1. \A i \in 1..n : s[i] \in S
    BY <1>1
  <2>2. 1 \in Int /\ n \in Int /\ (IF 1 <= n THEN n - 1 + 1 ELSE 0) = n
    BY <1>1
  <2> QED BY <2>1, <2>2, SubSeqProperties
<1>3. /\ SubSeqFrom(s, n + 1) \in Seq(S)
      /\ Len(SubSeqFrom(s, n + 1)) = Len(s) - n
  <2>1. \A i \in (n + 1)..Len(s) : s[i] \in S
    BY <1>1
  <2>2. n + 1 \in Int /\ Len(s) \in Int
        /\ (IF n + 1 <= Len(s) THEN Len(s) - (n + 1) + 1 ELSE 0) = Len(s) - n
    BY <1>1
  <2> QED BY <2>1, <2>2, SubSeqProperties DEF SubSeqFrom
<1>4. SubSeq(s, 1, n) \o SubSeqFrom(s, n + 1) = s
  <2>1. 1 \in 1..(Len(s) + 1) /\ n \in 1 - 1..Len(s) /\ Len(s) \in n..Len(s)
    BY <1>1
  <2>2. SubSeq(s, 1, n) \o SubSeq(s, n + 1, Len(s)) = SubSeq(s, 1, Len(s))
    BY <2>1, ConcatAdjacentSubSeq
  <2>3. SubSeq(s, 1, Len(s)) = s
    BY SubSeqFull, Zenon
  <2> QED BY <2>2, <2>3, Zenon DEF SubSeqFrom
<1>5. n = Len(s) <=> SubSeqFrom(s, n + 1) = <<>>
  <2>1. Len(<<>>) = 0 /\ (SubSeqFrom(s, n + 1) # <<>> => Len(SubSeqFrom(s, n + 1)) \in Nat \ {0})
    BY <1>3, EmptySeq
  <2> QED BY <1>1, <1>3, <2>1
<1> QED BY <1>2, <1>3, <1>4, <1>5

-----------------------------------------------------------------------------
(* A record that is well formed: the kernel's buffer within its room, channel and *)
(* registration in agreement.                                                     *)
Good(c) == c \in ConnType /\ Agrees(c) /\ Len(c.snd) <= SndCap

(* What is on its way to the peer; and EPOLLOUT asked for exactly while some of it *)
(* is still in outputBuffer_.                                                      *)
Stream(c) == c.snd \o c.out
Waits(c)  == IsWriting(c) <=> c.out # <<>>

Keeps(c, d) == d.state = c.state /\ d.inq = c.inq /\ d.fin = c.fin /\ d.rst = c.rst
                 /\ d.ups = c.ups /\ d.downs = c.downs

LEMMA GoodIs ==
  ASSUME NEW c, Good(c)
  PROVE  /\ c \in ConnType /\ Agrees(c) /\ Len(c.snd) <= SndCap
         /\ c.snd \in Seq(Unit) /\ c.out \in Seq(Unit) /\ c.events \in SUBSET {"in", "out"}
         /\ c.wrShut \in BOOLEAN /\ c.rst \in BOOLEAN /\ c.reg \in BOOLEAN
         /\ c.inq \in Nat /\ c.ups \in Nat /\ c.downs \in Nat /\ c.state \in States
         /\ Len(c.snd) \in Nat /\ Len(c.out) \in Nat
<1>1. c \in ConnType /\ Agrees(c) /\ Len(c.snd) <= SndCap
  BY DEF Good
<1>2. /\ c.snd \in Seq(Unit) /\ c.out \in Seq(Unit) /\ c.events \in SUBSET {"in", "out"}
      /\ c.wrShut \in BOOLEAN /\ c.rst \in BOOLEAN /\ c.reg \in BOOLEAN
      /\ c.inq \in Nat /\ c.ups \in Nat /\ c.downs \in Nat /\ c.state \in States
  BY <1>1 DEF ConnType, Events
<1>3. Len(c.snd) \in Nat /\ Len(c.out) \in Nat
  BY <1>2, LenProperties
<1> QED BY <1>1, <1>2, <1>3

LEMMA Regrouped ==
  ASSUME NEW s \in Seq(Unit), NEW t \in Seq(Unit), NEW u \in Seq(Unit)
  PROVE  (s \o t) \o u = s \o (t \o u)
BY ConcatAssociative, SMTT(30)

(* The same under a name, for the provers to instantiate without expanding it. *)
Regroups(s, t, u) == (s \o t) \o u = s \o (t \o u)

LEMMA RegroupsAll ==
  ASSUME NEW s \in Seq(Unit), NEW t \in Seq(Unit), NEW u \in Seq(Unit)
  PROVE  Regroups(s, t, u)
BY Regrouped DEF Regroups

LEMMA EmptyConcat ==
  ASSUME NEW s \in Seq(Unit), NEW t \in Seq(Unit)
  PROVE  (s \o t = <<>> <=> s = <<>> /\ t = <<>>) /\ (t = <<>> => s \o t = s)
BY ConcatEqualIffEmpty, ConcatEmptySeq

(* sendInLoop(): the data it accepts goes behind what is on its way already.  After *)
(* our own FIN nothing is accepted when nothing waits.                              *)
LEMMA SendIs ==
  ASSUME NEW c, Good(c), NEW data \in Seq(Unit)
  PROVE  LET d == SendInLoop(c, data)
         IN  /\ Good(d) /\ Keeps(c, d) /\ d.wrShut = c.wrShut
             /\ Accepted(c, data) \in Seq(Unit)
             /\ Stream(d) = Stream(c) \o Accepted(c, data)
             /\ (d.events = c.events \/ d.events = c.events \cup {"out"})
             /\ (c.reg => d.reg)
             /\ (Waits(c) => Waits(d))
             /\ (Waits(c) /\ c.wrShut /\ c.out = <<>> => d.out = <<>>)
<1> DEFINE d == SendInLoop(c, data)
<1>1. /\ c \in ConnType /\ Agrees(c) /\ Len(c.snd) <= SndCap
      /\ c.snd \in Seq(Unit) /\ c.out \in Seq(Unit)
      /\ Len(c.snd) \in Nat /\ Len(data) \in Nat /\ SndCap \in Nat
  BY GoodIs, LenProperties, TcpAssumption
<1>2. CASE Refuses(c)
  <2>1. d = c /\ Accepted(c, data) = <<>>
    BY <1>2 DEF SendInLoop, Accepted
  <2>2. Stream(c) \in Seq(Unit) /\ Stream(c) \o <<>> = Stream(c) /\ <<>> \in Seq(Unit)
    BY <1>1, ConcatProperties, ConcatEmptySeq, EmptySeq DEF Stream
  <2> HIDE DEF d
  <2> QED BY <2>1, <2>2 DEF Keeps, d
<1>3. CASE ~Refuses(c)
  <2> DEFINE n   == IF Direct(c) THEN MinOf(Len(data), Room(c)) ELSE 0
             pre  == SubSeq(data, 1, n)
             rest == SubSeqFrom(data, n + 1)
             wrote  == [c EXCEPT !.snd = @ \o pre]
             queued == [wrote EXCEPT !.out = @ \o rest]
  <2>1. n \in 0..Len(data) /\ n <= SndCap - Len(c.snd) /\ (~Direct(c) => n = 0)
    <3> DEFINE k == Len(data)
               r == SndCap - Len(c.snd)
    <3>1. k \in Nat /\ r \in Nat /\ n = IF Direct(c) THEN (IF k < r THEN k ELSE r) ELSE 0
      BY <1>1 DEF MinOf, Room
    <3> HIDE DEF k, r, n
    <3>2. n \in 0..k /\ n <= r /\ (~Direct(c) => n = 0)
      BY <3>1
    <3> QED BY <3>2 DEF k, r
  <2>2. Direct(c) => c.out = <<>> /\ ~WriteFails(c)
    BY <1>3 DEF Direct, Refuses
  <2>3. d = IF rest = <<>> THEN wrote ELSE IF IsWriting(c) THEN queued ELSE EnableWriting(queued)
    BY <1>3 DEF SendInLoop
  <2>4. Accepted(c, data) = data
    BY <1>3 DEF Accepted
  <2> HIDE DEF n, d
  <2>5. pre \in Seq(Unit) /\ rest \in Seq(Unit) /\ pre \o rest = data /\ Len(pre) = n
    BY <2>1, CutIs
  <2>6. c.out = <<>> \/ pre = <<>>
    BY <2>1, <2>2, <2>5, EmptySeq
  <2> HIDE DEF pre, rest
  <2>7. /\ c.snd \o pre \in Seq(Unit) /\ Len(c.snd \o pre) <= SndCap
        /\ c.out \o rest \in Seq(Unit)
        /\ (c.out \o rest = <<>> <=> c.out = <<>> /\ rest = <<>>)
        /\ (rest = <<>> => c.out \o rest = c.out)
    <3>1. c.snd \o pre \in Seq(Unit) /\ Len(c.snd \o pre) = Len(c.snd) + Len(pre)
      BY <1>1, <2>5, ConcatProperties
    <3>2. c.out \o rest \in Seq(Unit)
      BY <1>1, <2>5, ConcatProperties
    <3>3. /\ (c.out \o rest = <<>> <=> c.out = <<>> /\ rest = <<>>)
          /\ (rest = <<>> => c.out \o rest = c.out)
      BY <1>1, <2>5, EmptyConcat, Zenon
    <3>4. Len(c.snd) + n <= SndCap
      BY <1>1, <2>1
    <3> QED BY <2>5, <3>1, <3>2, <3>3, <3>4
  <2>8. (c.snd \o pre) \o (c.out \o rest) = Stream(c) \o data
    <3>1. (c.snd \o pre) \o (c.out \o rest) = (c.snd \o c.out) \o (pre \o rest)
      <4>1. c.snd \in Seq(Unit) /\ c.out \in Seq(Unit) /\ pre \in Seq(Unit) /\ rest \in Seq(Unit)
        BY <1>1, <2>5
      <4>2. pre = <<>> \/ c.out = <<>>
        BY <2>6
      <4>3. PICK u \in Seq(Unit), v \in Seq(Unit), p \in Seq(Unit), r \in Seq(Unit) :
               u = c.snd /\ v = c.out /\ p = pre /\ r = rest
        BY ONLY <4>1
      <4>0. u \in Seq(Unit) /\ v \in Seq(Unit) /\ p \in Seq(Unit) /\ r \in Seq(Unit)
        BY <4>3
      <4>4. (u \o p) \o (v \o r) = (u \o v) \o (p \o r)
        <5>1. <<>> \o r = r /\ u \o <<>> = u
          BY <4>3, ConcatEmptySeq
        <5>2. CASE v = <<>>
          <6>1. (u \o p) \o r = u \o (p \o r)
            <7>1. Regroups(u, p, r)
              BY ONLY <4>0, RegroupsAll
            <7> QED BY ONLY <7>1, Zenon DEF Regroups
          <6> QED BY <5>1, <5>2, <6>1, Zenon
        <5>3. CASE p = <<>>
          <6>1. (u \o v) \o r = u \o (v \o r)
            <7>1. Regroups(u, v, r)
              BY ONLY <4>0, RegroupsAll
            <7> QED BY ONLY <7>1, Zenon DEF Regroups
          <6> QED BY <5>1, <5>3, <6>1, Zenon
        <5> QED BY <4>2, <4>3, <5>2, <5>3
      <4> QED BY <4>3, <4>4
    <3> QED BY <2>5, <3>1, Zenon DEF Stream
  <2>9. /\ wrote \in ConnType /\ queued \in ConnType
        /\ Agrees(wrote) /\ Agrees(queued)
    BY <1>1, <2>7 DEF ConnType, Agrees, Indexed
  <2>10. /\ wrote.snd = c.snd \o pre /\ wrote.out = c.out
         /\ wrote.events = c.events /\ wrote.reg = c.reg /\ wrote.wrShut = c.wrShut
         /\ Keeps(c, wrote)
    BY <1>1 DEF ConnType, Keeps
  <2>11. /\ queued.snd = c.snd \o pre /\ queued.out = c.out \o rest
         /\ queued.events = c.events /\ queued.reg = c.reg /\ queued.wrShut = c.wrShut
         /\ Keeps(c, queued)
    BY <1>1 DEF ConnType, Keeps
  <2> HIDE DEF wrote, queued
  <2>12. Waits(c) /\ c.wrShut => c.out # <<>>
    BY <2>2, <1>3 DEF Waits, Direct, Refuses, WriteFails
  <2>13. CASE rest = <<>>
    <3>1. d = wrote
      BY <2>3, <2>13
    <3>2. Good(d) /\ (Waits(c) => Waits(d))
      BY <3>1, <2>7, <2>9, <2>10 DEF Good, Waits, IsWriting
    <3>3. Stream(d) = Stream(c) \o data
      BY <3>1, <2>7, <2>8, <2>10, <2>13 DEF Stream
    <3> QED BY <1>3, <2>4, <2>10, <2>12, <3>1, <3>2, <3>3 DEF d
  <2>14. CASE rest # <<>> /\ IsWriting(c)
    <3>1. d = queued
      BY <2>3, <2>14
    <3>2. Good(d) /\ (Waits(c) => Waits(d))
      BY <3>1, <2>7, <2>9, <2>11, <2>14 DEF Good, Waits, IsWriting
    <3>3. Stream(d) = Stream(c) \o data
      BY <3>1, <2>8, <2>11 DEF Stream
    <3> QED BY <1>3, <2>4, <2>11, <2>12, <3>1, <3>2, <3>3 DEF d
  <2>15. CASE rest # <<>> /\ ~IsWriting(c)
    <3>1. d = EnableWriting(queued)
      BY <2>3, <2>15
    <3>2. /\ d \in ConnType /\ Same(queued, d) /\ Agrees(d)
          /\ d.events = queued.events \cup {"out"} /\ d.reg
      BY <3>1, <2>9, ChannelIs
    <3>3. /\ d.snd = c.snd \o pre /\ d.out = c.out \o rest /\ d.wrShut = c.wrShut
          /\ Keeps(c, d)
      BY <3>2, <2>11 DEF Same, Keeps
    <3>4. Good(d) /\ (Waits(c) => Waits(d))
      BY <2>7, <2>15, <3>2, <3>3 DEF Good, Waits, IsWriting
    <3>5. Stream(d) = Stream(c) \o data
      BY <3>3, <2>8 DEF Stream
    <3>6. d.events = c.events \cup {"out"}
      BY <2>11, <3>2
    <3> QED BY <1>3, <2>4, <2>12, <3>2, <3>3, <3>4, <3>5, <3>6 DEF d
  <2> QED BY <2>13, <2>14, <2>15
<1> QED BY <1>2, <1>3

(* shutdownInLoop() shuts the write side only while nothing waits. *)
LEMMA ShutdownInLoopIs ==
  ASSUME NEW c, Good(c)
  PROVE  LET d == ShutdownInLoop(c)
         IN  /\ Good(d) /\ Keeps(c, d) /\ d.snd = c.snd /\ d.out = c.out
             /\ d.events = c.events /\ d.reg = c.reg
             /\ (Waits(c) /\ d.wrShut => c.wrShut \/ d.out = <<>>)
<1> DEFINE d == ShutdownInLoop(c)
           e == [c EXCEPT !.wrShut = TRUE]
<1>1. c \in ConnType /\ Agrees(c) /\ Len(c.snd) <= SndCap
  BY GoodIs
<1>2. e \in ConnType /\ Agrees(e) /\ Keeps(c, e)
  BY <1>1 DEF ConnType, Agrees, Indexed, Keeps
<1>3. e.snd = c.snd /\ e.out = c.out /\ e.events = c.events /\ e.reg = c.reg
  BY <1>1 DEF ConnType
<1>4. CASE IsWriting(c)
  <2>1. d = c
    BY <1>4 DEF ShutdownInLoop
  <2> HIDE DEF d
  <2> QED BY <2>1 DEF Keeps, d
<1>5. CASE ~IsWriting(c)
  <2>1. d = e
    BY <1>5 DEF ShutdownInLoop
  <2>2. Good(e)
    BY <1>1, <1>2, <1>3 DEF Good
  <2> HIDE DEF e, d
  <2>3. Waits(c) => d.out = <<>>
    BY <1>3, <1>5, <2>1 DEF Waits
  <2> QED BY <1>2, <1>3, <2>1, <2>2, <2>3 DEF d
<1> QED BY <1>4, <1>5

(* A change of state_ touches nothing else. *)
LEMMA StateIs ==
  ASSUME NEW c, Good(c), NEW x \in States
  PROVE  LET d == [c EXCEPT !.state = x]
         IN  /\ Good(d) /\ d.state = x /\ d.snd = c.snd /\ d.out = c.out /\ d.wrShut = c.wrShut
             /\ d.inq = c.inq /\ d.fin = c.fin /\ d.rst = c.rst /\ d.ups = c.ups /\ d.downs = c.downs
             /\ d.events = c.events /\ d.reg = c.reg /\ (Waits(c) <=> Waits(d))
<1> DEFINE d == [c EXCEPT !.state = x]
<1>1. c \in ConnType /\ Agrees(c) /\ Len(c.snd) <= SndCap
  BY GoodIs
<1>2. d \in ConnType /\ Agrees(d)
  BY <1>1 DEF ConnType, Agrees, Indexed
<1>3. /\ d.state = x /\ d.snd = c.snd /\ d.out = c.out /\ d.wrShut = c.wrShut
      /\ d.inq = c.inq /\ d.fin = c.fin /\ d.rst = c.rst /\ d.ups = c.ups /\ d.downs = c.downs
      /\ d.events = c.events /\ d.reg = c.reg
  BY <1>1 DEF ConnType
<1> HIDE DEF d
<1>4. Good(d) /\ (Waits(c) <=> Waits(d))
  BY <1>1, <1>2, <1>3 DEF Good, Waits, IsWriting
<1> QED BY <1>3, <1>4 DEF d

(* shutdown() on the loop's thread. *)
LEMMA ShutdownIs ==
  ASSUME NEW c, Good(c)
  PROVE  LET d == Shutdown(c)
         IN  /\ Good(d) /\ d.snd = c.snd /\ d.out = c.out /\ d.events = c.events /\ d.reg = c.reg
             /\ d.state = (IF c.state = "Connected" THEN "Disconnecting" ELSE c.state)
             /\ d.inq = c.inq /\ d.fin = c.fin /\ d.rst = c.rst /\ d.ups = c.ups /\ d.downs = c.downs
             /\ (Waits(c) <=> Waits(d)) /\ (Waits(c) /\ d.wrShut => c.wrShut \/ d.out = <<>>)
<1>1. CASE c.state = "Connected"
  <2> DEFINE e == [c EXCEPT !.state = "Disconnecting"]
             d == ShutdownInLoop(e)
  <2>1. /\ Good(e) /\ e.state = "Disconnecting" /\ e.snd = c.snd /\ e.out = c.out /\ e.wrShut = c.wrShut
        /\ e.inq = c.inq /\ e.fin = c.fin /\ e.rst = c.rst /\ e.ups = c.ups /\ e.downs = c.downs
        /\ e.events = c.events /\ e.reg = c.reg /\ (Waits(c) <=> Waits(e))
    BY StateIs DEF States
  <2>2. Shutdown(c) = d
    BY <1>1 DEF Shutdown
  <2> HIDE DEF e
  <2>3. /\ Good(d) /\ Keeps(e, d) /\ d.snd = e.snd /\ d.out = e.out
        /\ d.events = e.events /\ d.reg = e.reg
        /\ (Waits(e) /\ d.wrShut => e.wrShut \/ d.out = <<>>)
    BY <2>1, ShutdownInLoopIs
  <2> HIDE DEF d
  <2>4. Waits(c) <=> Waits(d)
    BY <2>1, <2>3 DEF Waits, IsWriting
  <2> QED BY <1>1, <2>1, <2>2, <2>3, <2>4 DEF Keeps
<1>2. CASE c.state # "Connected"
  BY <1>2 DEF Shutdown
<1> QED BY <1>1, <1>2

(* handleClose() ends the registration of a registered channel. *)
LEMMA CloseIs ==
  ASSUME NEW c, Good(c)
  PROVE  LET d == Close(c)
         IN  /\ Good(d) /\ d.snd = c.snd /\ d.out = c.out /\ d.wrShut = c.wrShut
             /\ d.inq = c.inq /\ d.fin = c.fin /\ d.rst = c.rst /\ d.ups = c.ups
             /\ d.state = "Disconnected" /\ d.downs = c.downs + 1
             /\ d.events = {} /\ (d.reg <=> ~c.reg)
<1> DEFINE e == [c EXCEPT !.state = "Disconnected"]
           f == DisableAll(e)
           d == [f EXCEPT !.downs = @ + 1]
<1>1. Close(c) = d
  BY DEF Close
<1>2. /\ Good(e) /\ e.state = "Disconnected" /\ e.snd = c.snd /\ e.out = c.out /\ e.wrShut = c.wrShut
      /\ e.inq = c.inq /\ e.fin = c.fin /\ e.rst = c.rst /\ e.ups = c.ups /\ e.downs = c.downs
      /\ e.reg = c.reg
  BY StateIs DEF States
<1> HIDE DEF e
<1>3. e \in ConnType /\ Agrees(e) /\ Len(e.snd) <= SndCap
  BY <1>2, GoodIs
<1>4. f \in ConnType /\ Same(e, f) /\ Agrees(f) /\ f.events = {} /\ (f.reg <=> ~e.reg)
  BY <1>3, ChannelIs
<1> HIDE DEF f
<1>5. d \in ConnType /\ Agrees(d)
  <2>1. f.downs \in Nat
    BY <1>4 DEF ConnType
  <2>2. f.downs + 1 \in Nat
    BY <2>1
  <2>3. d \in ConnType
    BY <1>4, <2>2 DEF ConnType
  <2>4. d.index = f.index /\ d.reg = f.reg /\ d.ready = f.ready /\ d.epollError = f.epollError
        /\ d.interest = f.interest /\ d.events = f.events
    BY <1>4 DEF ConnType
  <2> HIDE DEF d
  <2> QED BY <1>4, <2>3, <2>4 DEF Agrees, Indexed
<1>6. /\ d.downs = f.downs + 1 /\ d.state = f.state /\ d.snd = f.snd /\ d.out = f.out
      /\ d.wrShut = f.wrShut /\ d.inq = f.inq /\ d.fin = f.fin /\ d.rst = f.rst /\ d.ups = f.ups
      /\ d.events = f.events /\ d.reg = f.reg
  BY <1>4 DEF ConnType
<1> HIDE DEF d
<1>7. Good(d)
  BY <1>2, <1>3, <1>4, <1>5, <1>6 DEF Good, Same
<1> QED BY <1>1, <1>2, <1>4, <1>6, <1>7 DEF Same

(* handleWrite() moves bytes from outputBuffer_ to the kernel, in order, and shuts *)
(* the write side only when none is left.                                          *)
LEMMA HandleWriteIs ==
  ASSUME NEW c, Good(c)
  PROVE  LET d == HandleWrite(c)
         IN  /\ Good(d) /\ Keeps(c, d) /\ Stream(d) = Stream(c)
             /\ (d.events = c.events \/ d.events = c.events \ {"out"})
             /\ (c.reg /\ "in" \in c.events => d.reg)
             /\ (Waits(c) => Waits(d))
             /\ (c.out = <<>> => d.out = <<>>) /\ (d.wrShut => c.wrShut \/ d.out = <<>>)
<1> DEFINE d == HandleWrite(c)
           n == IF WriteFails(c) THEN 0 ELSE MinOf(Len(c.out), Room(c))
           pre  == SubSeq(c.out, 1, n)
           rest == SubSeqFrom(c.out, n + 1)
           e    == [c EXCEPT !.snd = @ \o pre]
           left == [e EXCEPT !.out = rest]
<1>1. /\ c \in ConnType /\ Agrees(c) /\ Len(c.snd) <= SndCap
      /\ c.snd \in Seq(Unit) /\ c.out \in Seq(Unit)
      /\ Len(c.snd) \in Nat /\ Len(c.out) \in Nat /\ SndCap \in Nat
  BY GoodIs, TcpAssumption
<1>2. n \in 0..Len(c.out) /\ n <= SndCap - Len(c.snd)
  <2> DEFINE k == Len(c.out)
             r == SndCap - Len(c.snd)
  <2>1. k \in Nat /\ r \in Nat /\ n = IF WriteFails(c) THEN 0 ELSE (IF k < r THEN k ELSE r)
    BY <1>1 DEF MinOf, Room
  <2> HIDE DEF k, r, n
  <2>2. n \in 0..k /\ n <= r
    BY <2>1
  <2> QED BY <2>2 DEF k, r
<1>3. d = IF ~IsWriting(c) \/ n = 0 THEN c ELSE IF left.out # <<>> THEN left ELSE Drained(left)
  BY DEF HandleWrite
<1>4. CASE ~IsWriting(c) \/ n = 0
  <2>1. d = c
    BY <1>3, <1>4
  <2> HIDE DEF d
  <2> QED BY <2>1 DEF Keeps, d
<1>5. CASE IsWriting(c) /\ n # 0
  <2>1. d = IF left.out # <<>> THEN left ELSE Drained(left)
    BY <1>3, <1>5
  <2> HIDE DEF n, d
  <2>2. pre \in Seq(Unit) /\ rest \in Seq(Unit) /\ pre \o rest = c.out /\ Len(pre) = n
    <3>1. c.out \in Seq(Unit) /\ n \in 0..Len(c.out)
      BY <1>1, <1>2
    <3>2. PICK o \in Seq(Unit) : o = c.out
      BY ONLY <3>1
    <3>3. n \in 0..Len(o)
      BY ONLY <3>1, <3>2
    <3>4. /\ SubSeq(o, 1, n) \in Seq(Unit) /\ SubSeqFrom(o, n + 1) \in Seq(Unit)
          /\ Len(SubSeq(o, 1, n)) = n /\ SubSeq(o, 1, n) \o SubSeqFrom(o, n + 1) = o
      BY ONLY <3>3, CutIs
    <3> QED BY <3>2, <3>4
  <2> HIDE DEF pre, rest
  <2>3. c.snd \o pre \in Seq(Unit) /\ Len(c.snd \o pre) <= SndCap
    <3>1. c.snd \o pre \in Seq(Unit) /\ Len(c.snd \o pre) = Len(c.snd) + Len(pre)
      BY <1>1, <2>2, ConcatProperties
    <3> QED BY <1>1, <1>2, <2>2, <3>1
  <2>4. (c.snd \o pre) \o rest = Stream(c)
    <3>1. (c.snd \o pre) \o rest = c.snd \o (pre \o rest)
      <4>1. c.snd \in Seq(Unit) /\ pre \in Seq(Unit) /\ rest \in Seq(Unit)
        BY <1>1, <2>2
      <4> QED BY ONLY <4>1, Regrouped
    <3> QED BY <2>2, <3>1, Zenon DEF Stream
  <2>5. left \in ConnType /\ Agrees(left)
    BY <1>1, <2>2, <2>3 DEF ConnType, Agrees, Indexed
  <2>6. /\ left.snd = c.snd \o pre /\ left.out = rest /\ left.events = c.events
        /\ left.reg = c.reg /\ left.wrShut = c.wrShut /\ Keeps(c, left)
    BY <1>1 DEF ConnType, Keeps
  <2> HIDE DEF left
  <2>7. Good(left) /\ Stream(left) = Stream(c)
    BY <2>3, <2>4, <2>5, <2>6 DEF Good, Stream
  <2>8. c.out # <<>>
    <3>1. Len(<<>>) = 0
      BY EmptySeq
    <3> QED BY <1>2, <1>5, <3>1
  <2>9. CASE left.out # <<>>
    <3>1. d = left
      BY <2>1, <2>9
    <3>2. Waits(d)
      BY <1>5, <2>6, <2>9, <3>1 DEF Waits, IsWriting
    <3> QED BY <2>6, <2>7, <2>8, <3>1, <3>2 DEF d
  <2>10. CASE left.out = <<>>
    <3> DEFINE w == DisableWriting(left)
    <3>1. d = IF left.state = "Disconnecting" THEN ShutdownInLoop(w) ELSE w
      BY <2>1, <2>10 DEF Drained
    <3>2. /\ w \in ConnType /\ Same(left, w) /\ Agrees(w) /\ w.events = left.events \ {"out"}
          /\ ("in" \in left.events => w.reg)
      BY <2>5, ChannelIs
    <3> HIDE DEF w
    <3>3. /\ w.snd = left.snd /\ w.out = <<>> /\ Keeps(c, w) /\ w.wrShut = c.wrShut
      BY <2>6, <2>10, <3>2 DEF Same, Keeps
    <3>4. Good(w) /\ Stream(w) = Stream(c) /\ Waits(w)
      BY <2>3, <2>6, <2>7, <2>10, <3>2, <3>3 DEF Good, Stream, Waits, IsWriting
    <3> DEFINE v == ShutdownInLoop(w)
    <3>5. /\ Good(v) /\ Keeps(w, v) /\ v.snd = w.snd /\ v.out = w.out
          /\ v.events = w.events /\ v.reg = w.reg
      BY <3>4, ShutdownInLoopIs
    <3> HIDE DEF v
    <3>6. Keeps(c, v) /\ Stream(v) = Stream(c) /\ Waits(v)
      BY <3>3, <3>4, <3>5 DEF Keeps, Stream, Waits, IsWriting
    <3>7. d = v \/ d = w
      BY <3>1 DEF v
    <3> QED BY <2>6, <3>2, <3>3, <3>4, <3>5, <3>6, <3>7 DEF d
  <2> QED BY <2>9, <2>10
<1> QED BY <1>4, <1>5

-----------------------------------------------------------------------------
(* What everything that runs on an open connection does to it, short of a close: it *)
(* may move it on to Disconnecting, keeps its registration, and leaves output and   *)
(* FIN in order.                                                                    *)
Open == {"Connected", "Disconnecting"}
Shut(c) == c.wrShut => c.out = <<>>
Serves(c, d) ==
    /\ Good(d)
    /\ d.inq <= c.inq /\ d.fin = c.fin /\ d.rst = c.rst /\ d.ups = c.ups /\ d.downs = c.downs
    /\ d.state = c.state \/ (c.state \in Open /\ d.state = "Disconnecting")
    /\ "in" \in c.events => "in" \in d.events /\ (c.reg => d.reg)
    /\ Waits(c) => Waits(d) /\ (Shut(c) => Shut(d))

LEMMA ServesTransitive ==
  ASSUME NEW c, Good(c), NEW d, NEW e, Serves(c, d), Serves(d, e)
  PROVE  Serves(c, e)
<1>1. c.inq \in Nat /\ d.inq \in Nat /\ e.inq \in Nat
  BY GoodIs DEF Serves
<1>2. e.inq <= c.inq
  BY <1>1 DEF Serves
<1> QED BY <1>2 DEF Serves, Open

LEMMA Serving ==
  ASSUME NEW c, Good(c)
  PROVE  /\ Serves(c, c)
         /\ \A data \in Seq(Unit) : Serves(c, SendInLoop(c, data))
         /\ Serves(c, Shutdown(c)) /\ Serves(c, HandleWrite(c)) /\ Serves(c, ShutdownInLoop(c))
         /\ c.state \in Open => Serves(c, [c EXCEPT !.state = "Disconnecting"])
<1> USE GoodIs
<1>1. Serves(c, c)
  BY DEF Serves
<1>2. ASSUME NEW data \in Seq(Unit) PROVE Serves(c, SendInLoop(c, data))
  <2> DEFINE d == SendInLoop(c, data)
  <2>1. /\ Good(d) /\ Keeps(c, d) /\ d.wrShut = c.wrShut
        /\ (d.events = c.events \/ d.events = c.events \cup {"out"})
        /\ (c.reg => d.reg)
        /\ (Waits(c) => Waits(d))
        /\ (Waits(c) /\ c.wrShut /\ c.out = <<>> => d.out = <<>>)
    BY SendIs
  <2> HIDE DEF d
  <2>2. "in" \in c.events => "in" \in d.events
    BY <2>1
  <2> QED BY <2>1, <2>2 DEF Serves, Shut, Keeps, d
<1>3. Serves(c, Shutdown(c))
  <2> DEFINE d == Shutdown(c)
  <2>1. /\ Good(d) /\ d.snd = c.snd /\ d.out = c.out /\ d.events = c.events /\ d.reg = c.reg
        /\ d.state = (IF c.state = "Connected" THEN "Disconnecting" ELSE c.state)
        /\ d.inq = c.inq /\ d.fin = c.fin /\ d.rst = c.rst /\ d.ups = c.ups /\ d.downs = c.downs
        /\ (Waits(c) <=> Waits(d)) /\ (Waits(c) /\ d.wrShut => c.wrShut \/ d.out = <<>>)
    BY ShutdownIs
  <2> HIDE DEF d
  <2> QED BY <2>1 DEF Serves, Shut, Open, d
<1>4. Serves(c, HandleWrite(c))
  <2> DEFINE d == HandleWrite(c)
  <2>1. /\ Good(d) /\ Keeps(c, d)
        /\ (d.events = c.events \/ d.events = c.events \ {"out"})
        /\ (c.reg /\ "in" \in c.events => d.reg)
        /\ (Waits(c) => Waits(d))
        /\ (c.out = <<>> => d.out = <<>>) /\ (d.wrShut => c.wrShut \/ d.out = <<>>)
    BY HandleWriteIs
  <2> HIDE DEF d
  <2>2. "in" \in c.events => "in" \in d.events
    BY <2>1
  <2> QED BY <2>1, <2>2 DEF Serves, Shut, Keeps, d
<1>5. Serves(c, ShutdownInLoop(c))
  <2> DEFINE d == ShutdownInLoop(c)
  <2>1. /\ Good(d) /\ Keeps(c, d) /\ d.snd = c.snd /\ d.out = c.out
        /\ d.events = c.events /\ d.reg = c.reg
        /\ (Waits(c) /\ d.wrShut => c.wrShut \/ d.out = <<>>)
    BY ShutdownInLoopIs
  <2> HIDE DEF d
  <2> QED BY <2>1 DEF Serves, Shut, Keeps, Waits, IsWriting, d
<1>6. ASSUME c.state \in Open PROVE Serves(c, [c EXCEPT !.state = "Disconnecting"])
  <2> DEFINE d == [c EXCEPT !.state = "Disconnecting"]
  <2>1. /\ Good(d) /\ d.state = "Disconnecting" /\ d.snd = c.snd /\ d.out = c.out /\ d.wrShut = c.wrShut
        /\ d.inq = c.inq /\ d.fin = c.fin /\ d.rst = c.rst /\ d.ups = c.ups /\ d.downs = c.downs
        /\ d.events = c.events /\ d.reg = c.reg /\ (Waits(c) <=> Waits(d))
    BY StateIs DEF States
  <2> HIDE DEF d
  <2> QED BY <1>6, <2>1 DEF Serves, Shut, d
<1> QED BY <1>1, <1>2, <1>3, <1>4, <1>5, <1>6

(* Message m is a sequence of bytes. *)
LEMMA UnitsTyped ==
  ASSUME NEW m \in Nat
  PROVE  Units(m) \in Seq(Unit)
<1>1. Units(m) \in [1..m -> Unit]
  BY DEF Units, Unit
<1> QED BY <1>1, SeqDef

(* What the peer has and what is on its way. *)
InOrder(c, r, s) == ~c.rst => r \o Stream(c) = s

LEMMA InOrderIs ==
  ASSUME NEW c, Good(c), NEW r \in Seq(Unit), NEW s
  PROVE  InOrder(c, r, s) <=> (~c.rst => r \o c.snd \o c.out = s)
<1>1. c.snd \in Seq(Unit) /\ c.out \in Seq(Unit)
  BY GoodIs
<1>2. (r \o c.snd) \o c.out = r \o (c.snd \o c.out)
  BY ONLY <1>1, Regrouped
<1> QED BY <1>2, Zenon DEF InOrder, Stream

LEMMA InOrderGrows ==
  ASSUME NEW c, Good(c), NEW r \in Seq(Unit), NEW s, InOrder(c, r, s),
         NEW d, d.rst = c.rst, NEW a \in Seq(Unit), Stream(d) = Stream(c) \o a
  PROVE  InOrder(d, r, s \o a)
<1>1. c.snd \in Seq(Unit) /\ c.out \in Seq(Unit)
  BY GoodIs
<1>2. Stream(c) \in Seq(Unit)
  BY <1>1, ConcatProperties DEF Stream
<1>3. (r \o Stream(c)) \o a = r \o (Stream(c) \o a)
  BY ONLY <1>2, Regrouped
<1> QED BY <1>3, Zenon DEF InOrder

-----------------------------------------------------------------------------
(* The callbacks of the application. *)
LEMMA AppSendsIs ==
  ASSUME TypeOK, NEW c, Good(c), InOrder(c, rcvd, sent), AppSends(c)
  PROVE  /\ Serves(c, conn') /\ InOrder(conn', rcvd, sent')
         /\ sent' \in Seq(Unit) /\ nextMsg' \in 1..(MaxMsgs + 1)
<1>1. /\ nextMsg \in 1..(MaxMsgs + 1) /\ rcvd \in Seq(Unit) /\ sent \in Seq(Unit)
      /\ nextMsg <= MaxMsgs /\ nextMsg' = nextMsg + 1 /\ MaxMsgs \in Nat
  BY TcpAssumption DEF TypeOK, AppSends, CanSend
<1>2. Units(nextMsg) \in Seq(Unit)
  <2>1. nextMsg \in Nat
    BY <1>1
  <2> QED BY <2>1, UnitsTyped
<1>3. nextMsg' \in 1..(MaxMsgs + 1)
  BY <1>1
<1>4. CASE c.state = "Connected"
  <2> DEFINE d == SendInLoop(c, Units(nextMsg))
             a == Accepted(c, Units(nextMsg))
  <2>1. conn' = d /\ sent' = sent \o a
    BY <1>4 DEF AppSends
  <2>2. Serves(c, d)
    BY <1>2, Serving
  <2>3. a \in Seq(Unit) /\ Stream(d) = Stream(c) \o a
    BY <1>2, SendIs
  <2> HIDE DEF d, a
  <2>4. InOrder(d, rcvd, sent \o a)
    BY <1>1, <2>2, <2>3, InOrderGrows DEF Serves
  <2>5. sent \o a \in Seq(Unit)
    BY <1>1, <2>3, ConcatProperties
  <2> QED BY <1>3, <2>1, <2>2, <2>4, <2>5
<1>5. CASE c.state # "Connected"
  <2>1. conn' = c /\ sent' = sent \o <<>>
    BY <1>5 DEF AppSends
  <2>2. sent' = sent
    BY <1>1, <2>1, ConcatEmptySeq
  <2> QED BY <1>1, <1>3, <2>1, <2>2, Serving
<1> QED BY <1>4, <1>5

LEMMA AppIs ==
  ASSUME TypeOK, NEW c, Good(c), InOrder(c, rcvd, sent),
         AppReplies(c) \/ AppQuits(c) \/ AppForceCloses(c)
  PROVE  /\ Serves(c, conn') /\ InOrder(conn', rcvd, sent')
         /\ sent' \in Seq(Unit) /\ nextMsg' \in 1..(MaxMsgs + 1)
         /\ functors' = functors \/ functors' = Append(functors, Functor("forceClose", <<>>, TRUE))
<1>1. nextMsg \in 1..(MaxMsgs + 1) /\ rcvd \in Seq(Unit) /\ sent \in Seq(Unit)
  BY DEF TypeOK
<1>2. CASE AppReplies(c)
  <2>1. functors' = functors
    BY <1>2 DEF AppReplies
  <2>2. CASE AppSends(c)
    BY <2>1, <2>2, AppSendsIs
  <2>3. CASE conn' = c /\ UNCHANGED <<nextMsg, sent>>
    BY <1>1, <2>1, <2>3, Serving
  <2> QED BY <1>2, <2>2, <2>3 DEF AppReplies
<1>3. CASE AppQuits(c)
  <2> DEFINE e == IF c.state = "Connected" THEN SendInLoop(c, Units(nextMsg)) ELSE c
             a == IF c.state = "Connected" THEN Accepted(c, Units(nextMsg)) ELSE <<>>
             d == Shutdown(e)
  <2>1. functors' = functors /\ conn' = d /\ sent' = sent \o a
        /\ nextMsg <= MaxMsgs /\ nextMsg' = nextMsg + 1
    BY <1>3 DEF AppQuits, CanSend
  <2>2. Units(nextMsg) \in Seq(Unit)
    <3>1. nextMsg \in Nat
      BY <1>1
    <3> QED BY <3>1, UnitsTyped
  <2>3. Serves(c, e) /\ a \in Seq(Unit) /\ Stream(e) = Stream(c) \o a
    <3>1. CASE c.state = "Connected"
      BY <2>2, <3>1, SendIs, Serving
    <3>2. CASE c.state # "Connected"
      <4>1. e = c /\ a = <<>>
        BY <3>2
      <4>2. c.snd \in Seq(Unit) /\ c.out \in Seq(Unit)
        BY GoodIs
      <4>3. Stream(c) \in Seq(Unit) /\ <<>> \in Seq(Unit)
        BY <4>2, ConcatProperties, EmptySeq DEF Stream
      <4>4. Stream(c) \o <<>> = Stream(c)
        BY <4>3, ConcatEmptySeq
      <4> HIDE DEF e, a
      <4> QED BY <4>1, <4>3, <4>4, Serving
    <3> QED BY <3>1, <3>2
  <2> HIDE DEF e, a
  <2>4. InOrder(e, rcvd, sent \o a) /\ Good(e)
    BY <1>1, <2>3, InOrderGrows DEF Serves
  <2>5. /\ Serves(e, d) /\ d.snd = e.snd /\ d.out = e.out
    BY <2>4, Serving, ShutdownIs
  <2> HIDE DEF d
  <2>6. InOrder(d, rcvd, sent \o a)
    BY <2>4, <2>5 DEF InOrder, Stream, Serves
  <2>7. Serves(c, d)
    BY <2>3, <2>5, ServesTransitive
  <2>8. sent \o a \in Seq(Unit)
    BY <1>1, <2>3, ConcatProperties
  <2>9. nextMsg' \in 1..(MaxMsgs + 1)
    BY <1>1, <2>1, TcpAssumption
  <2> QED BY <2>1, <2>6, <2>7, <2>8, <2>9
<1>4. CASE AppForceCloses(c)
  <2> DEFINE d == [c EXCEPT !.state = "Disconnecting"]
  <2>1. /\ c.state \in Open /\ conn' = d /\ UNCHANGED <<nextMsg, sent>>
        /\ functors' = Append(functors, Functor("forceClose", <<>>, TRUE))
    BY <1>4 DEF AppForceCloses, Open
  <2>2. Serves(c, d)
    BY <2>1, Serving
  <2>3. d.snd = c.snd /\ d.out = c.out
    BY StateIs DEF States
  <2> HIDE DEF d
  <2>4. InOrder(d, rcvd, sent)
    BY <2>2, <2>3 DEF InOrder, Stream, Serves
  <2> QED BY <1>1, <2>1, <2>2, <2>4
<1> QED BY <1>2, <1>3, <1>4

-----------------------------------------------------------------------------
(* The inductive invariant that holds whoever calls the connection: types, the *)
(* registration, the stream.                                                   *)
ConnInv == TypeOK /\ Agrees(conn) /\ StreamInOrder

LEMMA ConnIs ==
  ASSUME ConnInv
  PROVE  Good(conn) /\ conn.inq <= sentIn /\ InOrder(conn, rcvd, sent)
<1>1. Good(conn) /\ conn.inq <= sentIn /\ rcvd \in Seq(Unit)
  BY DEF ConnInv, TypeOK, Good
<1>2. ~conn.rst => rcvd \o conn.snd \o conn.out = sent
  BY DEF ConnInv, StreamInOrder
<1>3. InOrder(conn, rcvd, sent)
  BY <1>1, <1>2, InOrderIs
<1> QED BY <1>1, <1>3

LEMMA ConnInvIs ==
  ASSUME Good(conn), conn.inq <= sentIn, InOrder(conn, rcvd, sent),
         revents \subseteq Events \cup {"hup"}, functors \in Seq(FunctorType),
         inMap \in BOOLEAN, stopped \in BOOLEAN, removing \in Nat,
         callers \in [OffLoop -> CallerType],
         nextMsg \in 1..(MaxMsgs + 1), sentIn \in 0..MaxIn,
         rcvd \in Seq(Unit), sent \in Seq(Unit)
  PROVE  ConnInv
<1>1. conn \in ConnType /\ Agrees(conn) /\ Len(conn.snd) <= SndCap
  BY DEF Good
<1>2. ~conn.rst => rcvd \o conn.snd \o conn.out = sent
  BY InOrderIs
<1> QED BY <1>1, <1>2 DEF ConnInv, TypeOK, StreamInOrder

LEMMA SingleIs ==
  ASSUME NEW S, NEW x \in S
  PROVE  <<x>> \in Seq(S)
OBVIOUS

(* At the start nothing is registered and nothing is sent. *)
LEMMA ConnInit ==
  ASSUME Init
  PROVE  ConnInv
<1> USE TcpAssumption
<1>1. <<>> \in Seq(Unit) /\ Len(<<>>) = 0 /\ <<>> \o <<>> = <<>>
  BY EmptySeq, ConcatEmptySeq
<1>2. /\ conn \in ConnType /\ Agrees(conn) /\ conn.snd = <<>> /\ conn.out = <<>> /\ conn.inq = 0
  BY <1>1 DEF Init, ConnType, States, Events, Agrees, Indexed
<1>3. Good(conn)
  BY <1>1, <1>2 DEF Good
<1>4. rcvd = <<>> /\ sent = <<>> /\ sentIn = 0 /\ nextMsg = 1 /\ revents = {} /\ removing = 0
      /\ inMap = TRUE /\ stopped = FALSE
  BY DEF Init
<1>5. InOrder(conn, rcvd, sent)
  BY <1>1, <1>2, <1>4 DEF InOrder, Stream
<1>6. functors \in Seq(FunctorType)
  <2>1. Functor("established", <<>>, TRUE) \in FunctorType
    BY <1>1 DEF Functor, FunctorType
  <2>2. functors = <<Functor("established", <<>>, TRUE)>>
    BY DEF Init
  <2> QED BY <2>1, <2>2, SingleIs, Zenon
<1>7. callers \in [OffLoop -> CallerType]
  BY DEF Init, CallerType
<1>8. /\ conn.inq <= sentIn /\ sentIn \in 0..MaxIn /\ nextMsg \in 1..(MaxMsgs + 1)
      /\ revents \subseteq Events \cup {"hup"} /\ removing \in Nat
      /\ inMap \in BOOLEAN /\ stopped \in BOOLEAN
  <2>1. conn.inq = 0 /\ sentIn = 0 /\ nextMsg = 1 /\ removing = 0
    BY <1>2, <1>4
  <2>2. MaxMsgs \in Nat /\ MaxIn \in Nat
    OBVIOUS
  <2>3. conn.inq <= sentIn /\ sentIn \in 0..MaxIn /\ nextMsg \in 1..(MaxMsgs + 1) /\ removing \in Nat
    BY ONLY <2>1, <2>2
  <2> QED BY <1>4, <2>3
<1>9. rcvd \in Seq(Unit) /\ sent \in Seq(Unit)
  BY <1>1, <1>4
<1> QED BY <1>3, <1>5, <1>6, <1>7, <1>8, <1>9, ConnInvIs, Zenon

-----------------------------------------------------------------------------
(* A step that leaves the state of everything but the connection, the events, the *)
(* functors and the counters of removals as it is.                                *)
LEMMA ConnStep ==
  ASSUME ConnInv, Good(conn'), conn'.inq <= conn.inq, InOrder(conn', rcvd, sent'),
         revents' \subseteq revents \cup Events \cup {"hup"}, functors' \in Seq(FunctorType),
         removing' \in Nat, nextMsg' \in 1..(MaxMsgs + 1), sent' \in Seq(Unit),
         UNCHANGED <<inMap, stopped, callers, sentIn, rcvd>>
  PROVE  ConnInv'
<1>1. TypeOK
  BY DEF ConnInv
<1>2. conn'.inq <= sentIn'
  <2>1. conn.inq \in Nat /\ conn'.inq \in Nat /\ conn.inq <= sentIn /\ sentIn \in Nat
    BY <1>1, GoodIs, ConnIs, TcpAssumption DEF TypeOK
  <2> QED BY <2>1
<1>3. InOrder(conn', rcvd', sent')
  BY Zenon
<1>4. /\ revents' \subseteq Events \cup {"hup"}
      /\ inMap' \in BOOLEAN /\ stopped' \in BOOLEAN /\ callers' \in [OffLoop -> CallerType]
      /\ sentIn' \in 0..MaxIn /\ rcvd' \in Seq(Unit)
  BY <1>1 DEF TypeOK
<1>5. conn' \in ConnType /\ Agrees(conn)' /\ Len(conn'.snd) <= SndCap
  BY DEF Good, Agrees, Indexed
<1>6. ~conn'.rst => rcvd' \o conn'.snd \o conn'.out = sent'
  BY <1>3, <1>4, InOrderIs
<1>7. TypeOK'
  BY <1>2, <1>4, <1>5 DEF TypeOK
<1> QED BY <1>5, <1>6, <1>7 DEF ConnInv, StreamInOrder

(* The queue of functors, as it grows and as it is taken. *)
LEMMA FunctorsGrow ==
  ASSUME TypeOK, NEW op \in {"established", "send", "shutdown", "forceClose", "destroyed"},
         NEW data \in Seq(Unit), NEW shared \in BOOLEAN
  PROVE  Append(functors, Functor(op, data, shared)) \in Seq(FunctorType)
<1>1. Functor(op, data, shared) \in FunctorType
  BY DEF Functor, FunctorType
<1>2. functors \in Seq(FunctorType)
  BY DEF TypeOK
<1> QED BY <1>1, <1>2, AppendProperties

LEMMA FunctorsTaken ==
  ASSUME TypeOK, NEW op, Takes(op)
  PROVE  /\ functors' \in Seq(FunctorType) /\ functors' = Tail(functors) /\ functors # <<>>
         /\ Head(functors) \in FunctorType /\ Head(functors).op = op /\ revents = {}
         /\ Head(functors).data \in Seq(Unit)
<1>1. functors \in Seq(FunctorType) /\ functors # <<>> /\ functors' = Tail(functors)
      /\ Head(functors).op = op /\ revents = {}
  BY DEF TypeOK, Takes
<1>2. Head(functors) \in FunctorType /\ Tail(functors) \in Seq(FunctorType)
  BY <1>1, HeadTailProperties
<1> QED BY <1>1, <1>2 DEF FunctorType

-----------------------------------------------------------------------------
(* The small steps of the IO thread. *)
LEMMA PollIs ==
  ASSUME ConnInv, Poll
  PROVE  /\ Good(conn') /\ Same(conn, conn') /\ conn'.events = conn.events /\ conn'.reg = conn.reg
         /\ revents' \subseteq Events \cup {"hup"}
         /\ Serves(conn, conn') /\ Stream(conn') = Stream(conn)
<1>1. /\ conn \in ConnType /\ Agrees(conn) /\ Len(conn.snd) <= SndCap
      /\ conn' = [conn EXCEPT !.ready = FALSE]
  BY DEF ConnInv, TypeOK, Poll
<1>2. conn' \in ConnType /\ Agrees(conn')
  BY <1>1 DEF ConnType, Agrees, Indexed
<1>3. Same(conn, conn') /\ conn'.events = conn.events /\ conn'.reg = conn.reg
  BY <1>1 DEF ConnType, Same
<1>4. Good(conn')
  BY <1>1, <1>2, <1>3 DEF Good, Same
<1>5. conn.interest \subseteq Events
  BY <1>1 DEF ConnType
<1>6. revents' \subseteq Events \cup {"hup"}
  <2>1. Reported(conn) \subseteq conn.interest \cup {"hup"}
    BY DEF Reported
  <2>2. revents' \subseteq Reported(conn)
    BY DEF Poll
  <2> QED BY <1>5, <2>1, <2>2
<1>7. Serves(conn, conn') /\ Stream(conn') = Stream(conn)
  <2>1. conn'.inq \in Nat
    BY <1>4, GoodIs
  <2> QED BY <1>3, <1>4, <2>1 DEF Serves, Same, Stream, Waits, Shut, IsWriting
<1> QED BY <1>3, <1>4, <1>6, <1>7

LEMMA ReadFdIs ==
  ASSUME NEW c, Good(c)
  PROVE  LET d == ReadFd(c)
         IN  /\ Good(d) /\ d.inq <= c.inq /\ Stream(d) = Stream(c)
             /\ d.fin = c.fin /\ d.rst = c.rst /\ d.ups = c.ups /\ d.downs = c.downs
             /\ d.state = c.state /\ d.out = c.out /\ d.wrShut = c.wrShut
             /\ d.events = c.events /\ d.reg = c.reg
<1> DEFINE k == MinOf(c.inq, ReadMax)
           q == c.inq - k
           d == [c EXCEPT !.inq = q]
<1>1. c \in ConnType /\ Agrees(c) /\ Len(c.snd) <= SndCap /\ c.inq \in Nat
  BY GoodIs
<1>2. q \in Nat /\ q <= c.inq
  BY <1>1, TcpAssumption DEF MinOf
<1>3. ReadFd(c) = d
  BY DEF ReadFd
<1> HIDE DEF q
<1>4. d \in ConnType /\ Agrees(d)
  BY <1>1, <1>2 DEF ConnType, Agrees, Indexed
<1>5. /\ d.inq = q /\ d.snd = c.snd /\ d.out = c.out
      /\ d.fin = c.fin /\ d.rst = c.rst /\ d.ups = c.ups /\ d.downs = c.downs
      /\ d.state = c.state /\ d.wrShut = c.wrShut
      /\ d.events = c.events /\ d.reg = c.reg
  BY <1>1 DEF ConnType
<1> HIDE DEF d
<1>6. Good(d) /\ Stream(d) = Stream(c)
  BY <1>1, <1>4, <1>5 DEF Good, Stream
<1> QED BY <1>2, <1>3, <1>5, <1>6

LEMMA EstablishedIs ==
  ASSUME NEW c, Good(c)
  PROVE  LET d == EnableReading([c EXCEPT !.state = "Connected", !.ups = @ + 1])
         IN  /\ Good(d) /\ d.inq = c.inq /\ Stream(d) = Stream(c)
             /\ d.fin = c.fin /\ d.rst = c.rst /\ d.ups = c.ups + 1 /\ d.downs = c.downs
             /\ d.state = "Connected" /\ d.out = c.out /\ d.wrShut = c.wrShut
             /\ d.events = c.events \cup {"in"} /\ d.reg /\ (Waits(c) <=> Waits(d))
<1> DEFINE e == [c EXCEPT !.state = "Connected", !.ups = @ + 1]
           d == EnableReading(e)
<1>1. c \in ConnType /\ Agrees(c) /\ Len(c.snd) <= SndCap /\ c.ups \in Nat
  BY GoodIs
<1>2. e \in ConnType /\ Agrees(e)
  <2>1. c.ups + 1 \in Nat
    BY <1>1
  <2>2. e \in ConnType
    BY <1>1, <2>1 DEF ConnType, States
  <2>3. e.index = c.index /\ e.reg = c.reg /\ e.ready = c.ready /\ e.epollError = c.epollError
        /\ e.interest = c.interest /\ e.events = c.events
    BY <1>1 DEF ConnType
  <2> HIDE DEF e
  <2> QED BY <1>1, <2>2, <2>3 DEF Agrees, Indexed
<1>3. /\ e.inq = c.inq /\ e.snd = c.snd /\ e.out = c.out
      /\ e.fin = c.fin /\ e.rst = c.rst /\ e.ups = c.ups + 1 /\ e.downs = c.downs
      /\ e.state = "Connected" /\ e.wrShut = c.wrShut /\ e.events = c.events
  BY <1>1 DEF ConnType
<1> HIDE DEF e
<1>4. d \in ConnType /\ Same(e, d) /\ Agrees(d) /\ d.events = e.events \cup {"in"} /\ d.reg
  BY <1>2, ChannelIs
<1> HIDE DEF d
<1>5. Good(d) /\ Stream(d) = Stream(c)
  BY <1>1, <1>3, <1>4 DEF Good, Stream, Same
<1>6. Waits(c) <=> Waits(d)
  BY <1>3, <1>4 DEF Waits, IsWriting, Same
<1> QED BY <1>3, <1>4, <1>5, <1>6 DEF Same, d, e

LEMMA DestroyedIs ==
  ASSUME NEW c, Good(c)
  PROVE  LET e == IF c.state = "Connected" THEN Close(c) ELSE c
             d == RemoveChannel(e)
         IN  /\ Good(d) /\ d.inq = c.inq /\ d.snd = c.snd /\ d.out = c.out
             /\ d.fin = c.fin /\ d.rst = c.rst /\ d.ups = c.ups /\ d.wrShut = c.wrShut /\ ~d.reg
             /\ IF c.state = "Connected"
                  THEN d.state = "Disconnected" /\ d.downs = c.downs + 1 /\ d.events = {}
                  ELSE d.state = c.state /\ d.downs = c.downs /\ d.events = c.events
<1> DEFINE e == IF c.state = "Connected" THEN Close(c) ELSE c
           d == RemoveChannel(e)
<1>1. /\ Good(e) /\ e.inq = c.inq /\ e.snd = c.snd /\ e.out = c.out
      /\ e.fin = c.fin /\ e.rst = c.rst /\ e.ups = c.ups /\ e.wrShut = c.wrShut
      /\ IF c.state = "Connected"
           THEN e.state = "Disconnected" /\ e.downs = c.downs + 1 /\ e.events = {}
           ELSE e.state = c.state /\ e.downs = c.downs /\ e.events = c.events
  <2>1. CASE c.state = "Connected"
    BY <2>1, CloseIs
  <2>2. CASE c.state # "Connected"
    BY <2>2
  <2> QED BY <2>1, <2>2
<1> HIDE DEF e
<1>2. e \in ConnType /\ Agrees(e) /\ Len(e.snd) <= SndCap
  BY <1>1, GoodIs
<1>3. d \in ConnType /\ Same(e, d) /\ Agrees(d) /\ d.events = e.events /\ ~d.reg
  BY <1>2, RemoveIs
<1> HIDE DEF d
<1>4. Good(d)
  BY <1>2, <1>3 DEF Good, Same
<1> QED BY <1>1, <1>3, <1>4 DEF Same, d, e

-----------------------------------------------------------------------------
(* A step that keeps the stream and moves no message. *)
LEMMA QuietStep ==
  ASSUME ConnInv, Good(conn'), conn'.inq <= conn.inq,
         conn'.rst = conn.rst, Stream(conn') = Stream(conn),
         revents' \subseteq revents \cup Events \cup {"hup"}, functors' \in Seq(FunctorType),
         removing' = removing \/ removing' = removing + 1,
         UNCHANGED <<inMap, stopped, callers, nextMsg, sentIn, rcvd, sent>>
  PROVE  ConnInv'
<1>1. InOrder(conn', rcvd, sent')
  BY ConnIs DEF InOrder
<1>2. removing' \in Nat /\ nextMsg' \in 1..(MaxMsgs + 1) /\ sent' \in Seq(Unit)
  <2>1. removing \in Nat /\ nextMsg \in 1..(MaxMsgs + 1) /\ sent \in Seq(Unit)
    BY DEF ConnInv, TypeOK
  <2>2. removing' \in Nat
    BY <2>1
  <2>3. nextMsg' = nextMsg /\ sent' = sent
    OBVIOUS
  <2> QED BY <2>1, <2>2, <2>3
<1>3. UNCHANGED <<inMap, stopped, callers, sentIn, rcvd>>
  OBVIOUS
<1> QED BY <1>1, <1>2, <1>3, ConnStep

LEMMA IoKeepsConn ==
  ASSUME ConnInv, IoThread
  PROVE  ConnInv'
<1>1. /\ TypeOK /\ Good(conn) /\ InOrder(conn, rcvd, sent) /\ conn.inq \in Nat
      /\ functors \in Seq(FunctorType) /\ rcvd \in Seq(Unit) /\ sent \in Seq(Unit)
      /\ removing \in Nat /\ nextMsg \in 1..(MaxMsgs + 1) /\ <<>> \in Seq(Unit)
  <2>1. TypeOK /\ Good(conn) /\ InOrder(conn, rcvd, sent)
    BY ConnIs DEF ConnInv
  <2>2. conn.inq \in Nat /\ <<>> \in Seq(Unit)
    BY <2>1, GoodIs, EmptySeq
  <2> QED BY <2>1, <2>2 DEF TypeOK
<1>2. /\ Good(Close(conn)) /\ Close(conn).inq = conn.inq /\ Close(conn).rst = conn.rst
      /\ Stream(Close(conn)) = Stream(conn)
  BY <1>1, CloseIs DEF Stream
<1>3. conn.inq <= conn.inq
  BY <1>1
<1>4. CASE Poll
  <2>1. /\ functors' = functors /\ removing' = removing
        /\ UNCHANGED <<inMap, stopped, callers, nextMsg, sentIn, rcvd, sent>>
    BY <1>4 DEF Poll
  <2>2. Good(conn') /\ conn'.inq = conn.inq /\ conn'.rst = conn.rst /\ Stream(conn') = Stream(conn)
        /\ revents' \subseteq Events \cup {"hup"}
    BY <1>4, PollIs DEF Same
  <2> QED BY <1>1, <1>3, <2>1, <2>2, QuietStep
<1>5. CASE HandleHup
  <2>1. /\ conn' = Close(conn) /\ removing' = removing + 1 /\ revents' \subseteq revents
        /\ functors' = functors
        /\ UNCHANGED <<inMap, stopped, callers, nextMsg, sentIn, rcvd, sent>>
    BY <1>5 DEF HandleHup
  <2> QED BY <1>1, <1>2, <1>3, <2>1, QuietStep
<1>6. CASE HandleReadEof
  <2>1. /\ conn' = Close(conn) /\ removing' = removing + 1 /\ revents' \subseteq revents
        /\ functors' = functors
        /\ UNCHANGED <<inMap, stopped, callers, nextMsg, sentIn, rcvd, sent>>
    BY <1>6 DEF HandleReadEof
  <2> QED BY <1>1, <1>2, <1>3, <2>1, QuietStep
<1>7. CASE HandleReadData
  <2> DEFINE c == ReadFd(conn)
  <2>1. Good(c) /\ c.inq <= conn.inq /\ Stream(c) = Stream(conn) /\ c.rst = conn.rst
    BY <1>1, ReadFdIs
  <2>2. /\ AppReplies(c) \/ AppQuits(c) \/ AppForceCloses(c)
        /\ revents' \subseteq revents /\ removing' = removing
        /\ UNCHANGED <<inMap, stopped, callers, sentIn, rcvd>>
    BY <1>7 DEF HandleReadData
  <2> HIDE DEF c
  <2>3. InOrder(c, rcvd, sent)
    BY <1>1, <2>1 DEF InOrder
  <2>4. /\ Serves(c, conn') /\ InOrder(conn', rcvd, sent')
        /\ sent' \in Seq(Unit) /\ nextMsg' \in 1..(MaxMsgs + 1)
        /\ functors' = functors \/ functors' = Append(functors, Functor("forceClose", <<>>, TRUE))
    BY <1>1, <2>1, <2>2, <2>3, AppIs
  <2>5. functors' \in Seq(FunctorType)
    BY <1>1, <2>4, FunctorsGrow
  <2>6. Good(conn') /\ conn'.inq <= conn.inq
    <3>1. c.inq \in Nat /\ conn'.inq \in Nat
      BY <2>1, <2>4, GoodIs DEF Serves
    <3> QED BY <1>1, <2>1, <2>4, <3>1 DEF Serves
  <2> QED BY <1>1, <2>2, <2>4, <2>5, <2>6, ConnStep
<1>8. CASE HandleWritable
  <2>1. /\ conn' = HandleWrite(conn) /\ removing' = removing /\ revents' \subseteq revents
        /\ functors' = functors
        /\ UNCHANGED <<inMap, stopped, callers, nextMsg, sentIn, rcvd, sent>>
    BY <1>8 DEF HandleWritable
  <2>2. Good(conn') /\ conn'.inq = conn.inq /\ conn'.rst = conn.rst /\ Stream(conn') = Stream(conn)
    BY <1>1, <2>1, HandleWriteIs DEF Keeps
  <2> QED BY <1>1, <1>3, <2>1, <2>2, QuietStep
<1>9. CASE ConnectEstablished
  <2> DEFINE c == EnableReading([conn EXCEPT !.state = "Connected", !.ups = @ + 1])
  <2>1. Good(c) /\ c.inq = conn.inq /\ Stream(c) = Stream(conn) /\ c.rst = conn.rst
    BY <1>1, EstablishedIs, Zenon
  <2>2. /\ AppSends(c) \/ (conn' = c /\ UNCHANGED <<nextMsg, sent>>)
        /\ revents' = revents /\ removing' = removing /\ Takes("established")
        /\ UNCHANGED <<inMap, stopped, callers, sentIn, rcvd>>
    BY <1>9 DEF ConnectEstablished
  <2> HIDE DEF c
  <2>3. InOrder(c, rcvd, sent)
    BY <1>1, <2>1 DEF InOrder
  <2>4. /\ Serves(c, conn') /\ InOrder(conn', rcvd, sent')
        /\ sent' \in Seq(Unit) /\ nextMsg' \in 1..(MaxMsgs + 1)
    <3>1. CASE AppSends(c)
      BY <1>1, <2>1, <2>3, <3>1, AppSendsIs
    <3>2. CASE conn' = c /\ UNCHANGED <<nextMsg, sent>>
      BY <1>1, <2>1, <2>3, <3>2, Serving
    <3> QED BY <2>2, <3>1, <3>2
  <2>5. functors' \in Seq(FunctorType)
    BY <1>1, <2>2, FunctorsTaken
  <2>6. Good(conn') /\ conn'.inq <= conn.inq
    BY <1>3, <2>1, <2>4 DEF Serves
  <2> QED BY <1>1, <2>2, <2>4, <2>5, <2>6, ConnStep
<1>10. CASE QueuedSend
  <2> DEFINE d == SendInLoop(conn, Head(functors).data)
             a == Accepted(conn, Head(functors).data)
  <2>1. /\ conn' = d /\ sent' = sent \o a /\ removing' = removing /\ revents' = revents
        /\ Takes("send") /\ nextMsg' = nextMsg
        /\ UNCHANGED <<inMap, stopped, callers, sentIn, rcvd>>
    BY <1>10 DEF QueuedSend
  <2>2. functors' \in Seq(FunctorType) /\ Head(functors).data \in Seq(Unit)
    BY <1>1, <2>1, FunctorsTaken
  <2>3. Good(d) /\ Keeps(conn, d) /\ a \in Seq(Unit) /\ Stream(d) = Stream(conn) \o a
    BY <1>1, <2>2, SendIs
  <2> HIDE DEF d, a
  <2>4. InOrder(d, rcvd, sent \o a)
    BY <1>1, <2>3, InOrderGrows DEF Keeps
  <2>5. sent \o a \in Seq(Unit)
    BY <1>1, <2>3, ConcatProperties
  <2>6. Good(conn') /\ conn'.inq <= conn.inq
    BY <1>3, <2>1, <2>3 DEF Keeps
  <2> QED BY <1>1, <2>1, <2>2, <2>4, <2>5, <2>6, ConnStep
<1>11. CASE QueuedShutdown
  <2>1. /\ conn' = ShutdownInLoop(conn) /\ removing' = removing /\ revents' = revents
        /\ Takes("shutdown")
        /\ UNCHANGED <<inMap, stopped, callers, nextMsg, sentIn, rcvd, sent>>
    BY <1>11 DEF QueuedShutdown
  <2>2. Good(conn') /\ conn'.inq = conn.inq /\ conn'.rst = conn.rst /\ Stream(conn') = Stream(conn)
    BY <1>1, <2>1, ShutdownInLoopIs DEF Keeps, Stream
  <2>3. functors' \in Seq(FunctorType)
    BY <1>1, <2>1, FunctorsTaken
  <2> QED BY <1>1, <1>3, <2>1, <2>2, <2>3, QuietStep
<1>12. CASE QueuedForceClose
  <2>1. /\ (conn' = Close(conn) /\ removing' = removing + 1) \/ (conn' = conn /\ removing' = removing)
        /\ revents' = revents /\ Takes("forceClose")
        /\ UNCHANGED <<inMap, stopped, callers, nextMsg, sentIn, rcvd, sent>>
    BY <1>12 DEF QueuedForceClose
  <2>2. functors' \in Seq(FunctorType)
    BY <1>1, <2>1, FunctorsTaken
  <2>3. Good(conn') /\ conn'.inq = conn.inq /\ conn'.rst = conn.rst /\ Stream(conn') = Stream(conn)
    BY <1>1, <1>2, <2>1
  <2> QED BY <1>1, <1>3, <2>1, <2>2, <2>3, QuietStep
<1>13. CASE ConnectDestroyed
  <2>1. /\ conn' = RemoveChannel(IF conn.state = "Connected" THEN Close(conn) ELSE conn)
        /\ removing' = removing /\ revents' = revents /\ Takes("destroyed")
        /\ UNCHANGED <<inMap, stopped, callers, nextMsg, sentIn, rcvd, sent>>
    BY <1>13 DEF ConnectDestroyed
  <2>2. Good(conn') /\ conn'.inq = conn.inq /\ conn'.rst = conn.rst /\ Stream(conn') = Stream(conn)
    BY <1>1, <2>1, DestroyedIs DEF Stream
  <2>3. functors' \in Seq(FunctorType)
    BY <1>1, <2>1, FunctorsTaken
  <2> QED BY <1>1, <1>3, <2>1, <2>2, <2>3, QuietStep
<1> QED BY <1>4, <1>5, <1>6, <1>7, <1>8, <1>9, <1>10, <1>11, <1>12, <1>13 DEF IoThread

-----------------------------------------------------------------------------
(* The peer: what it does to the socket, and to nothing else of the connection. *)
OnlySocket(c, d) ==
    /\ Good(d) /\ d.state = c.state /\ d.out = c.out /\ d.wrShut = c.wrShut
    /\ d.events = c.events /\ d.reg = c.reg /\ d.ups = c.ups /\ d.downs = c.downs

LEMMA SocketIs ==
  ASSUME NEW c, Good(c), NEW e \in ConnType, Len(e.snd) <= SndCap,
         e.state = c.state, e.index = c.index, e.events = c.events, e.reg = c.reg,
         e.interest = c.interest, e.ready = c.ready, e.out = c.out, e.wrShut = c.wrShut,
         e.ups = c.ups, e.downs = c.downs, e.epollError = c.epollError
  PROVE  LET d == Edge(e)
         IN  OnlySocket(c, d) /\ d.inq = e.inq /\ d.fin = e.fin /\ d.rst = e.rst /\ d.snd = e.snd
<1> DEFINE d == Edge(e)
<1>1. Agrees(e)
  BY GoodIs DEF Agrees, Indexed
<1>2. /\ d \in ConnType /\ Same(e, d)
      /\ d.index = e.index /\ d.events = e.events /\ d.interest = e.interest
      /\ (d.reg <=> e.reg) /\ (d.epollError <=> e.epollError)
      /\ (d.ready => e.ready \/ e.reg)
  BY EdgeIs
<1> HIDE DEF d
<1>3. Agrees(d) /\ d.reg = e.reg
  BY <1>1, <1>2 DEF Agrees, Indexed, ConnType
<1>4. Good(d)
  BY <1>2, <1>3 DEF Good, Same
<1> QED BY <1>2, <1>3, <1>4 DEF OnlySocket, Same, d

(* What the peer takes off the kernel's buffer is the next of the stream. *)
LEMMA Received ==
  ASSUME NEW r \in Seq(Unit), NEW s \in Seq(Unit), NEW o \in Seq(Unit), s # <<>>
  PROVE  /\ Append(r, Head(s)) \in Seq(Unit) /\ Tail(s) \in Seq(Unit) /\ Len(Tail(s)) <= Len(s)
         /\ Append(r, Head(s)) \o (Tail(s) \o o) = r \o (s \o o)
<1> DEFINE h == Head(s)
           t == Tail(s)
<1>1. h \in Unit /\ t \in Seq(Unit) /\ Len(t) = Len(s) - 1 /\ Len(s) \in Nat
  BY HeadTailProperties, LenProperties
<1>2. s = <<h>> \o t /\ <<h>> \in Seq(Unit)
  BY HeadTailProperties, EmptySeq
<1>3. Append(r, h) = r \o <<h>> /\ Append(r, h) \in Seq(Unit)
  BY <1>1, AppendIsConcat, AppendProperties
<1> HIDE DEF h, t
<1>4. (r \o <<h>>) \o (t \o o) = r \o (<<h>> \o (t \o o))
  <2>1. t \o o \in Seq(Unit)
    BY <1>1, ConcatProperties
  <2> QED BY ONLY <1>2, <2>1, Regrouped
<1>5. (<<h>> \o t) \o o = <<h>> \o (t \o o)
  BY ONLY <1>1, <1>2, Regrouped
<1>6. Append(r, h) \o (t \o o) = r \o (s \o o)
  BY <1>2, <1>3, <1>4, <1>5, Zenon
<1>7. Len(t) <= Len(s)
  BY <1>1
<1> QED BY <1>1, <1>3, <1>6, <1>7 DEF h, t

LEMMA PeerIs ==
  ASSUME ConnInv, Peer
  PROVE  /\ OnlySocket(conn, conn') /\ conn'.inq <= sentIn' /\ InOrder(conn', rcvd', sent)
         /\ sentIn' \in 0..MaxIn /\ rcvd' \in Seq(Unit)
         /\ UNCHANGED <<revents, functors, inMap, removing, stopped, callers, nextMsg, sent>>
<1>1. /\ Good(conn) /\ conn.inq <= sentIn /\ InOrder(conn, rcvd, sent)
      /\ conn \in ConnType /\ Len(conn.snd) <= SndCap /\ SndCap \in Nat
      /\ conn.inq \in Nat /\ conn.snd \in Seq(Unit) /\ conn.out \in Seq(Unit)
      /\ Len(conn.snd) \in Nat
      /\ rcvd \in Seq(Unit) /\ sentIn \in 0..MaxIn /\ MaxIn \in Nat
  BY ConnIs, GoodIs, TcpAssumption DEF ConnInv, TypeOK
<1>2. CASE PeerSends
  <2> DEFINE q == conn.inq + 1
             e == [conn EXCEPT !.inq = q]
  <2>1. /\ conn' = Edge(e) /\ sentIn' = sentIn + 1 /\ sentIn < MaxIn /\ rcvd' = rcvd
        /\ UNCHANGED <<revents, functors, inMap, removing, stopped, callers, nextMsg, sent>>
    BY <1>2 DEF PeerSends
  <2>2. q \in Nat /\ q <= sentIn + 1 /\ sentIn + 1 \in 0..MaxIn
    <3>1. /\ conn.inq \in Nat /\ conn.inq <= sentIn /\ sentIn < MaxIn
          /\ sentIn \in 0..MaxIn /\ MaxIn \in Nat
      BY <1>1, <2>1, Zenon
    <3> QED BY ONLY <3>1 DEF q
  <2> HIDE DEF q
  <2>3. e \in ConnType
    BY <1>1, <2>2 DEF ConnType
  <2>4. /\ e.state = conn.state /\ e.index = conn.index /\ e.events = conn.events /\ e.reg = conn.reg
        /\ e.interest = conn.interest /\ e.ready = conn.ready /\ e.out = conn.out
        /\ e.wrShut = conn.wrShut /\ e.ups = conn.ups /\ e.downs = conn.downs
        /\ e.epollError = conn.epollError
        /\ e.inq = q /\ e.rst = conn.rst /\ e.snd = conn.snd
    BY <1>1 DEF ConnType
  <2> HIDE DEF e
  <2>5. OnlySocket(conn, conn') /\ conn'.inq = e.inq /\ conn'.rst = e.rst /\ conn'.snd = e.snd
    BY <1>1, <2>1, <2>3, <2>4, SocketIs
  <2>6. InOrder(conn', rcvd', sent)
    BY <1>1, <2>1, <2>4, <2>5 DEF InOrder, Stream, OnlySocket
  <2> QED BY <1>1, <2>1, <2>2, <2>4, <2>5, <2>6
<1>3. CASE PeerReceives
  <2> DEFINE e == [conn EXCEPT !.snd = Tail(@)]
  <2>1. /\ conn.snd # <<>> /\ conn' = Edge(e) /\ sentIn' = sentIn /\ rcvd' = Append(rcvd, Head(conn.snd))
        /\ UNCHANGED <<revents, functors, inMap, removing, stopped, callers, nextMsg, sent>>
    BY <1>3 DEF PeerReceives
  <2>2. /\ Append(rcvd, Head(conn.snd)) \in Seq(Unit)
        /\ Tail(conn.snd) \in Seq(Unit) /\ Len(Tail(conn.snd)) <= Len(conn.snd)
        /\ Append(rcvd, Head(conn.snd)) \o (Tail(conn.snd) \o conn.out)
              = rcvd \o (conn.snd \o conn.out)
    BY <1>1, <2>1, Received
  <2>3. e \in ConnType
    BY <1>1, <2>2 DEF ConnType
  <2>4. /\ e.state = conn.state /\ e.index = conn.index /\ e.events = conn.events /\ e.reg = conn.reg
        /\ e.interest = conn.interest /\ e.ready = conn.ready /\ e.out = conn.out
        /\ e.wrShut = conn.wrShut /\ e.ups = conn.ups /\ e.downs = conn.downs
        /\ e.epollError = conn.epollError
        /\ e.inq = conn.inq /\ e.rst = conn.rst /\ e.snd = Tail(conn.snd)
    BY <1>1 DEF ConnType
  <2> HIDE DEF e
  <2>5. Len(e.snd) <= SndCap
    <3>1. Len(Tail(conn.snd)) \in Nat
      BY <2>2, LenProperties
    <3> QED BY <1>1, <2>2, <2>4, <3>1
  <2>6. OnlySocket(conn, conn') /\ conn'.inq = e.inq /\ conn'.rst = e.rst /\ conn'.snd = e.snd
    BY <1>1, <2>1, <2>3, <2>4, <2>5, SocketIs
  <2>7. InOrder(conn', rcvd', sent)
    <3>1. conn'.snd = Tail(conn.snd) /\ conn'.out = conn.out /\ conn'.rst = conn.rst
      BY <2>4, <2>6 DEF OnlySocket
    <3> QED BY <1>1, <2>1, <2>2, <3>1, Zenon DEF InOrder, Stream
  <2> QED BY <1>1, <2>1, <2>2, <2>4, <2>6, <2>7
<1>4. CASE PeerFins
  <2> DEFINE e == [conn EXCEPT !.fin = TRUE]
  <2>1. /\ conn' = Edge(e) /\ sentIn' = sentIn /\ rcvd' = rcvd
        /\ UNCHANGED <<revents, functors, inMap, removing, stopped, callers, nextMsg, sent>>
    BY <1>4 DEF PeerFins
  <2>2. e \in ConnType
    BY <1>1 DEF ConnType
  <2>3. /\ e.state = conn.state /\ e.index = conn.index /\ e.events = conn.events /\ e.reg = conn.reg
        /\ e.interest = conn.interest /\ e.ready = conn.ready /\ e.out = conn.out
        /\ e.wrShut = conn.wrShut /\ e.ups = conn.ups /\ e.downs = conn.downs
        /\ e.epollError = conn.epollError
        /\ e.inq = conn.inq /\ e.rst = conn.rst /\ e.snd = conn.snd
    BY <1>1 DEF ConnType
  <2> HIDE DEF e
  <2>4. OnlySocket(conn, conn') /\ conn'.inq = e.inq /\ conn'.rst = e.rst /\ conn'.snd = e.snd
    BY <1>1, <2>1, <2>2, <2>3, SocketIs
  <2>5. InOrder(conn', rcvd', sent)
    BY <1>1, <2>1, <2>3, <2>4 DEF InOrder, Stream, OnlySocket
  <2> QED BY <1>1, <2>1, <2>3, <2>4, <2>5
<1>5. CASE PeerResets
  <2> DEFINE e == [conn EXCEPT !.rst = TRUE, !.fin = TRUE, !.snd = <<>>]
  <2>1. /\ conn' = Edge(e) /\ sentIn' = sentIn /\ rcvd' = rcvd
        /\ UNCHANGED <<revents, functors, inMap, removing, stopped, callers, nextMsg, sent>>
    BY <1>5 DEF PeerResets
  <2>2. <<>> \in Seq(Unit) /\ Len(<<>>) <= SndCap
    BY <1>1, EmptySeq
  <2>3. e \in ConnType
    BY <1>1, <2>2 DEF ConnType
  <2>4. /\ e.state = conn.state /\ e.index = conn.index /\ e.events = conn.events /\ e.reg = conn.reg
        /\ e.interest = conn.interest /\ e.ready = conn.ready /\ e.out = conn.out
        /\ e.wrShut = conn.wrShut /\ e.ups = conn.ups /\ e.downs = conn.downs
        /\ e.epollError = conn.epollError
        /\ e.inq = conn.inq /\ e.rst = TRUE /\ e.snd = <<>>
    BY <1>1 DEF ConnType
  <2> HIDE DEF e
  <2>5. OnlySocket(conn, conn') /\ conn'.inq = e.inq /\ conn'.rst = e.rst
    BY <1>1, <2>1, <2>2, <2>3, <2>4, SocketIs
  <2>6. InOrder(conn', rcvd', sent)
    BY <2>4, <2>5 DEF InOrder
  <2> QED BY <1>1, <2>1, <2>4, <2>5, <2>6
<1> QED BY <1>2, <1>3, <1>4, <1>5 DEF Peer

-----------------------------------------------------------------------------
(* The base loop, the peer and the other threads. *)
LEMMA ConnInvNext ==
  ASSUME Good(conn'), conn'.inq <= sentIn', InOrder(conn', rcvd', sent'),
         revents' \subseteq Events \cup {"hup"}, functors' \in Seq(FunctorType),
         inMap' \in BOOLEAN, stopped' \in BOOLEAN, removing' \in Nat,
         callers' \in [OffLoop -> CallerType],
         nextMsg' \in 1..(MaxMsgs + 1), sentIn' \in 0..MaxIn,
         rcvd' \in Seq(Unit), sent' \in Seq(Unit)
  PROVE  ConnInv'
<1>1. conn' \in ConnType /\ Agrees(conn)' /\ Len(conn'.snd) <= SndCap
  BY DEF Good, Agrees, Indexed
<1>2. ~conn'.rst => rcvd' \o conn'.snd \o conn'.out = sent'
  BY InOrderIs
<1>3. TypeOK'
  BY <1>1 DEF TypeOK
<1> QED BY <1>1, <1>2, <1>3 DEF ConnInv, StreamInOrder

LEMMA OthersKeepConn ==
  ASSUME ConnInv,
         \/ RemoveConnection \/ ServerDestructs \/ Peer
         \/ \E t \in OffLoop : Caller(t)
         \/ UNCHANGED vars
  PROVE  ConnInv'
<1>1. TypeOK /\ Good(conn) /\ conn.inq <= sentIn /\ InOrder(conn, rcvd, sent) /\ <<>> \in Seq(Unit)
  BY ConnIs, EmptySeq DEF ConnInv
<1>2. /\ revents \subseteq Events \cup {"hup"} /\ functors \in Seq(FunctorType)
      /\ inMap \in BOOLEAN /\ stopped \in BOOLEAN /\ removing \in Nat
      /\ callers \in [OffLoop -> CallerType]
      /\ nextMsg \in 1..(MaxMsgs + 1) /\ sentIn \in 0..MaxIn
      /\ rcvd \in Seq(Unit) /\ sent \in Seq(Unit)
  BY <1>1 DEF TypeOK
<1>3. \A op \in {"shutdown", "forceClose", "destroyed"}, shared \in BOOLEAN :
         Append(functors, Functor(op, <<>>, shared)) \in Seq(FunctorType)
  BY <1>1, FunctorsGrow
<1>4. CASE RemoveConnection
  <2>1. /\ functors' \in Seq(FunctorType) /\ inMap' = FALSE
        /\ removing > 0 /\ removing' = removing - 1
        /\ UNCHANGED <<conn, revents, stopped, callers, nextMsg, sentIn, rcvd, sent>>
    BY <1>3, <1>4 DEF RemoveConnection
  <2>2. removing' \in Nat
    BY <1>2, <2>1
  <2> QED BY <1>1, <1>2, <2>1, <2>2, ConnInvNext
<1>5. CASE ServerDestructs
  <2>1. /\ functors' \in Seq(FunctorType) /\ inMap' = FALSE /\ stopped' = TRUE
        /\ UNCHANGED <<conn, revents, removing, callers, nextMsg, sentIn, rcvd, sent>>
    BY <1>2, <1>3, <1>5 DEF ServerDestructs
  <2> QED BY <1>1, <1>2, <2>1, ConnInvNext
<1>6. CASE Peer
  <2>1. /\ OnlySocket(conn, conn') /\ conn'.inq <= sentIn' /\ InOrder(conn', rcvd', sent)
        /\ sentIn' \in 0..MaxIn /\ rcvd' \in Seq(Unit)
        /\ UNCHANGED <<revents, functors, inMap, removing, stopped, callers, nextMsg, sent>>
    BY <1>6, PeerIs
  <2>2. Good(conn')
    BY <2>1 DEF OnlySocket
  <2> QED BY <1>2, <2>1, <2>2, ConnInvNext
<1>7. CASE \E t \in OffLoop : Caller(t)
  <2>1. PICK t \in OffLoop : Caller(t)
    BY <1>7
  <2>2. callers[t] \in CallerType
    BY <1>2
  <2>3. ASSUME NEW call \in OffLoopCalls, Checks(t, call)
        PROVE  ConnInv'
    <3> DEFINE k == [at |-> call, left |-> callers[t].left - 1]
    <3>1. /\ callers' = [callers EXCEPT ![t] = k] /\ callers[t].left > 0
          /\ UNCHANGED <<conn, revents, functors, inMap, removing, stopped, nextMsg, sentIn, rcvd, sent>>
      BY <2>3 DEF Checks
    <3>2. k \in CallerType
      BY <2>2, <3>1, TcpAssumption DEF CallerType
    <3> HIDE DEF k
    <3>3. callers' \in [OffLoop -> CallerType]
      BY <1>2, <3>1, <3>2
    <3> QED BY <1>1, <1>2, <3>1, <3>3, ConnInvNext
  <2>4. ASSUME callers' = [callers EXCEPT ![t].at = "idle"]
        PROVE  callers' \in [OffLoop -> CallerType]
    <3>1. [callers[t] EXCEPT !.at = "idle"] \in CallerType
      BY <2>2 DEF CallerType
    <3> QED BY <1>2, <2>4, <3>1
  <2>5. /\ Good([conn EXCEPT !.state = "Disconnecting"])
        /\ [conn EXCEPT !.state = "Disconnecting"].inq = conn.inq
        /\ InOrder([conn EXCEPT !.state = "Disconnecting"], rcvd, sent)
    <3> DEFINE d == [conn EXCEPT !.state = "Disconnecting"]
    <3>1. Good(d) /\ d.inq = conn.inq /\ d.rst = conn.rst /\ d.snd = conn.snd /\ d.out = conn.out
      BY <1>1, StateIs DEF States
    <3> HIDE DEF d
    <3>2. InOrder(d, rcvd, sent)
      BY <1>1, <3>1 DEF InOrder, Stream
    <3> QED BY <3>1, <3>2 DEF d
  <2>6. CASE OffLoopSend(t)
    <3>1. /\ functors' = Append(functors, Functor("send", Units(nextMsg), FALSE))
          /\ nextMsg <= MaxMsgs /\ nextMsg' = nextMsg + 1
          /\ callers' = [callers EXCEPT ![t].at = "idle"]
          /\ UNCHANGED <<conn, revents, inMap, removing, stopped, sentIn, rcvd, sent>>
      BY <2>6 DEF OffLoopSend, CanSend
    <3>2. nextMsg \in Nat /\ nextMsg' \in 1..(MaxMsgs + 1)
      <4>1. nextMsg \in Nat /\ nextMsg >= 1 /\ MaxMsgs \in Nat
        BY <1>2, TcpAssumption
      <4> QED BY ONLY <4>1, <3>1
    <3>3. functors' \in Seq(FunctorType)
      BY <1>1, <3>1, <3>2, UnitsTyped, FunctorsGrow
    <3> QED BY <1>1, <1>2, <2>4, <3>1, <3>2, <3>3, ConnInvNext
  <2>7. CASE OffLoopShutdown(t)
    <3>1. /\ functors' \in Seq(FunctorType) /\ conn' = [conn EXCEPT !.state = "Disconnecting"]
          /\ callers' = [callers EXCEPT ![t].at = "idle"]
          /\ UNCHANGED <<revents, inMap, removing, stopped, nextMsg, sentIn, rcvd, sent>>
      BY <1>3, <2>7 DEF OffLoopShutdown
    <3> QED BY <1>1, <1>2, <2>4, <2>5, <3>1, ConnInvNext
  <2>8. CASE OffLoopForceClose(t)
    <3>1. /\ functors' \in Seq(FunctorType) /\ conn' = [conn EXCEPT !.state = "Disconnecting"]
          /\ callers' = [callers EXCEPT ![t].at = "idle"]
          /\ UNCHANGED <<revents, inMap, removing, stopped, nextMsg, sentIn, rcvd, sent>>
      BY <1>3, <2>8 DEF OffLoopForceClose
    <3> QED BY <1>1, <1>2, <2>4, <2>5, <3>1, ConnInvNext
  <2> QED BY <2>1, <2>3, <2>6, <2>7, <2>8 DEF Caller
<1>8. CASE UNCHANGED vars
  BY <1>8 DEF vars, ConnInv, TypeOK, Agrees, Indexed, StreamInOrder
<1> QED BY <1>4, <1>5, <1>6, <1>7, <1>8

-----------------------------------------------------------------------------
LEMMA ConnInvariant == Spec => []ConnInv
<1>1. Init => ConnInv
  BY ConnInit
<1>2. ConnInv /\ [Next]_vars => ConnInv'
  BY IoKeepsConn, OthersKeepConn DEF Next
<1> QED BY <1>1, <1>2, PTL DEF Spec

(* The types of the state: whatever is sent, by whomever, the kernel's buffer never *)
(* holds more than its room and never less than nothing is read from the socket     *)
(* (tcp_connection.cpp:65-109,166-209).                                             *)
THEOREM TypeCorrect == Spec => []TypeOK
<1>1. ConnInv => TypeOK
  BY DEF ConnInv
<1> QED BY <1>1, ConnInvariant, PTL

(* The bytes that the peer has received, the kernel holds and outputBuffer_ holds *)
(* are those that sendInLoop() accepted, in order, for every message, size of the *)
(* kernel's buffer and thread that sends (tcp_connection.cpp:38-109,185-209).     *)
THEOREM StreamInOrderCorrect == Spec => []StreamInOrder
<1>1. ConnInv => StreamInOrder
  BY DEF ConnInv
<1> QED BY <1>1, ConnInvariant, PTL

(* No epoll_ctl of the channel is impossible, and the kernel waits for what the *)
(* channel asks, through a close that runs twice and a removal that comes first *)
(* (epoll_poller.cpp:63-111, channel.h:62-85).                                  *)
THEOREM EpollAgreesCorrect == Spec => []EpollAgrees
<1>1. ConnInv => EpollAgrees
  BY DEF ConnInv, Agrees, Indexed, EpollAgrees
<1> QED BY <1>1, ConnInvariant, PTL

-----------------------------------------------------------------------------
(* What holds whoever calls the connection, until its close: EPOLLOUT is asked for *)
(* exactly while outputBuffer_ holds something, and the write side is shut only    *)
(* after it.  It is stronger than FinAfterData, which is not inductive: only       *)
(* IsWriting() tells shutdownInLoop() that there is output.                        *)
UntilDown == conn.downs = 0 => Waits(conn) /\ Shut(conn)

(* A step keeps it that closes, that serves, or that leaves output and events. *)
LEMMA UntilDownStep ==
  ASSUME UntilDown,
         \/ conn'.downs # 0
         \/ Serves(conn, conn')
         \/ /\ conn'.downs = conn.downs /\ conn'.out = conn.out
            /\ conn'.wrShut = conn.wrShut /\ (IsWriting(conn) <=> IsWriting(conn'))
  PROVE  UntilDown'
<1>1. CASE conn'.downs # 0
  BY <1>1 DEF UntilDown
<1>2. CASE Serves(conn, conn')
  <2>1. conn'.downs = 0 => Waits(conn') /\ Shut(conn')
    BY <1>2 DEF UntilDown, Serves
  <2> QED BY <2>1 DEF UntilDown, Waits, Shut, IsWriting
<1>3. CASE /\ conn'.downs = conn.downs /\ conn'.out = conn.out
           /\ conn'.wrShut = conn.wrShut /\ (IsWriting(conn) <=> IsWriting(conn'))
  BY <1>3 DEF UntilDown, Waits, Shut, IsWriting
<1> QED BY <1>1, <1>2, <1>3

LEMMA IoKeepsUntilDown ==
  ASSUME ConnInv, UntilDown, IoThread
  PROVE  UntilDown'
<1>1. TypeOK /\ Good(conn) /\ InOrder(conn, rcvd, sent)
  BY ConnIs DEF ConnInv
<1>2. Close(conn).downs # 0
  <2>1. conn.downs \in Nat /\ Close(conn).downs = conn.downs + 1
    BY <1>1, GoodIs, CloseIs
  <2> QED BY <2>1
<1>3. CASE Poll
  BY <1>3, PollIs, UntilDownStep
<1>4. CASE HandleHup \/ HandleReadEof
  BY <1>2, <1>4, UntilDownStep DEF HandleHup, HandleReadEof
<1>5. CASE HandleReadData
  <2> DEFINE c == ReadFd(conn)
  <2>1. /\ Good(c) /\ c.inq <= conn.inq /\ Stream(c) = Stream(conn)
        /\ c.fin = conn.fin /\ c.rst = conn.rst /\ c.ups = conn.ups /\ c.downs = conn.downs
        /\ c.state = conn.state /\ c.out = conn.out /\ c.wrShut = conn.wrShut
        /\ c.events = conn.events /\ c.reg = conn.reg
    BY <1>1, ReadFdIs
  <2>2. AppReplies(c) \/ AppQuits(c) \/ AppForceCloses(c)
    BY <1>5 DEF HandleReadData
  <2> HIDE DEF c
  <2>3. InOrder(c, rcvd, sent)
    BY <1>1, <2>1 DEF InOrder
  <2>4. Serves(c, conn')
    BY <1>1, <2>1, <2>2, <2>3, AppIs
  <2>5. Serves(conn, c)
    BY <2>1 DEF Serves, Waits, Shut, IsWriting
  <2>6. Serves(conn, conn')
    BY <1>1, <2>4, <2>5, ServesTransitive
  <2> QED BY <2>6, UntilDownStep
<1>6. CASE HandleWritable
  BY <1>1, <1>6, Serving, UntilDownStep DEF HandleWritable
<1>7. CASE ConnectEstablished
  <2> DEFINE c == EnableReading([conn EXCEPT !.state = "Connected", !.ups = @ + 1])
  <2>1. /\ Good(c) /\ Stream(c) = Stream(conn) /\ c.rst = conn.rst /\ c.downs = conn.downs
        /\ c.out = conn.out /\ c.wrShut = conn.wrShut /\ (Waits(conn) <=> Waits(c))
    BY <1>1, EstablishedIs, Zenon
  <2>2. AppSends(c) \/ conn' = c
    BY <1>7 DEF ConnectEstablished
  <2> HIDE DEF c
  <2>3. InOrder(c, rcvd, sent)
    BY <1>1, <2>1 DEF InOrder
  <2>4. Serves(c, conn')
    BY <1>1, <2>1, <2>2, <2>3, AppSendsIs, Serving
  <2>5. conn'.downs = 0 => Waits(c) /\ Shut(c)
    BY <2>1, <2>4 DEF UntilDown, Serves, Shut
  <2>6. conn'.downs = 0 => Waits(conn') /\ Shut(conn')
    BY <2>4, <2>5 DEF Serves
  <2> QED BY <2>6 DEF UntilDown, Waits, Shut, IsWriting
<1>8. CASE QueuedSend
  <2>1. Takes("send") /\ conn' = SendInLoop(conn, Head(functors).data)
    BY <1>8 DEF QueuedSend
  <2>2. Head(functors).data \in Seq(Unit)
    BY <1>1, <2>1, FunctorsTaken
  <2>3. Serves(conn, conn')
    BY <1>1, <2>1, <2>2, Serving
  <2> QED BY <2>3, UntilDownStep
<1>9. CASE QueuedShutdown
  BY <1>1, <1>9, Serving, UntilDownStep DEF QueuedShutdown
<1>10. CASE QueuedForceClose
  BY <1>1, <1>2, <1>10, Serving, UntilDownStep DEF QueuedForceClose
<1>11. CASE ConnectDestroyed
  <2>1. conn' = RemoveChannel(IF conn.state = "Connected" THEN Close(conn) ELSE conn)
    BY <1>11 DEF ConnectDestroyed
  <2>2. /\ conn'.out = conn.out /\ conn'.wrShut = conn.wrShut
        /\ IF conn.state = "Connected" THEN conn'.downs = conn.downs + 1
           ELSE conn'.downs = conn.downs /\ conn'.events = conn.events
    BY <1>1, <2>1, DestroyedIs
  <2>3. conn.downs \in Nat
    BY <1>1, GoodIs
  <2>4. conn'.downs # 0 \/ (conn'.downs = conn.downs /\ conn'.events = conn.events)
    BY <2>2, <2>3
  <2> QED BY <2>2, <2>4, UntilDownStep DEF IsWriting
<1> QED BY <1>3, <1>4, <1>5, <1>6, <1>7, <1>8, <1>9, <1>10, <1>11 DEF IoThread

LEMMA OthersKeepUntilDown ==
  ASSUME ConnInv, UntilDown,
         \/ RemoveConnection \/ ServerDestructs \/ Peer
         \/ \E t \in OffLoop : Caller(t)
         \/ UNCHANGED vars
  PROVE  UntilDown'
<1>1. Good(conn)
  BY ConnIs
<1>2. \/ conn' = conn
      \/ conn' = [conn EXCEPT !.state = "Disconnecting"]
      \/ OnlySocket(conn, conn')
  <2>1. CASE Peer
    BY <2>1, PeerIs
  <2>2. CASE ~Peer
    BY <2>2 DEF RemoveConnection, ServerDestructs, Caller, Checks, OffLoopSend, OffLoopShutdown,
                OffLoopForceClose, vars
  <2> QED BY <2>1, <2>2
<1>3. /\ conn'.downs = conn.downs /\ conn'.out = conn.out
      /\ conn'.wrShut = conn.wrShut /\ (IsWriting(conn) <=> IsWriting(conn'))
  <2>1. CASE conn' = conn
    BY <2>1
  <2>2. CASE conn' = [conn EXCEPT !.state = "Disconnecting"]
    <3>1. "Disconnecting" \in States
      BY DEF States
    <3> QED BY <1>1, <2>2, <3>1, StateIs DEF IsWriting
  <2>3. CASE OnlySocket(conn, conn')
    BY <2>3 DEF OnlySocket, IsWriting
  <2> QED BY <1>2, <2>1, <2>2, <2>3
<1> QED BY <1>3, UntilDownStep

LEMMA UntilDownInvariant == Spec => [](ConnInv /\ UntilDown)
<1>1. Init => ConnInv /\ UntilDown
  <2> SUFFICES ASSUME Init PROVE ConnInv /\ UntilDown
    OBVIOUS
  <2>1. conn.out = <<>> /\ conn.events = {} /\ conn.wrShut = FALSE
    BY DEF Init
  <2> QED BY <2>1, ConnInit DEF UntilDown, Waits, Shut, IsWriting
<1>2. ConnInv /\ UntilDown /\ [Next]_vars => (ConnInv /\ UntilDown)'
  BY IoKeepsConn, OthersKeepConn, IoKeepsUntilDown, OthersKeepUntilDown DEF Next
<1> QED BY <1>1, <1>2, PTL DEF Spec

(* The FIN never overtakes data, whoever calls the connection and whatever a late *)
(* shutdown() or forceClose() does to state_: until it is reported down, its      *)
(* write side is shut only when outputBuffer_ is empty                            *)
(* (tcp_connection.cpp:38-64,111-152,199-201).                                    *)
THEOREM FinAfterDataCorrect == Spec => []FinAfterData
<1>1. UntilDown => FinAfterData
  BY DEF UntilDown, FinAfterData, Shut
<1> QED BY <1>1, UntilDownInvariant, PTL

(* Whoever calls the connection, until its first close the channel asks for     *)
(* EPOLLOUT exactly while outputBuffer_ holds something: what a call from       *)
(* outside the loop can break of this, it breaks after the close                *)
(* (tcp_connection.cpp:84-109,187-201).                                         *)
THEOREM WritingUntilDown == Spec => [](conn.downs = 0 => WritingIffPending)
<1>1. UntilDown => (conn.downs = 0 => WritingIffPending)
  BY DEF UntilDown, WritingIffPending, Waits
<1> QED BY <1>1, UntilDownInvariant, PTL

-----------------------------------------------------------------------------
(* The inductive invariant of a connection that other threads at most send on: *)
(* then nobody takes it from its loop.  Its parts are the callers, the queue,  *)
(* the time before connectEstablished(), the phases after it, what keeps the   *)
(* connection alive, and, while the server is, its one close.                  *)
OnlySends == OffLoop = {} \/ OffLoopCalls \subseteq {"send"}

CallersSend == \A t \in OffLoop : callers[t].at \in {"idle", "send"}

Queue == \A i \in 1..Len(functors) :
    /\ functors[i].op # "shutdown"
    /\ functors[i].op = "established" => i = 1 /\ conn.state = "Connecting"
    /\ functors[i].op = "destroyed" => functors[i].shared
    /\ OffLoop = {} => functors[i].op # "send"

First(q) == q # <<>> /\ Head(q).op = "established"

Opening == conn.state = "Connecting" =>
    /\ First(functors) /\ revents = {}
    /\ conn.out = <<>> /\ conn.events = {} /\ ~conn.reg /\ conn.ups = 0 /\ conn.downs = 0

Phases ==
    /\ conn.state # "Connecting" => conn.ups = 1
    /\ conn.state \in Open => Waits(conn) /\ "in" \in conn.events
    /\ conn.state = "Disconnected" => conn.downs >= 1 /\ conn.events = {}
    /\ conn.downs = 0 => Shut(conn)

Going == \E i \in 1..Len(functors) : functors[i].op = "destroyed"
Kept  == inMap \/ removing > 0 \/ Going
Held  == OffLoop = {} /\ (conn.reg \/ revents # {} \/ conn.state \in {"Connecting", "Connected"})
           => Kept

Live ==
    /\ conn.state \in Open => conn.reg /\ conn.downs = 0
    /\ conn.state = "Disconnected" =>
          ~conn.reg /\ conn.downs = 1 /\ revents \cap {"in", "hup"} = {}
    /\ ~inMap \/ removing > 0 \/ Going => conn.state = "Disconnected"
    /\ ~("in" \in revents /\ "hup" \in revents)

LoopInv == ConnInv /\ CallersSend /\ Queue /\ Opening /\ Phases /\ Held /\ (stopped \/ Live)

LEMMA LoopIs ==
  ASSUME LoopInv
  PROVE  /\ ConnInv /\ TypeOK /\ Good(conn) /\ functors \in Seq(FunctorType) /\ Len(functors) \in Nat
         /\ conn.downs \in Nat /\ conn.ups \in Nat /\ removing \in Nat /\ conn.state \in States
         /\ conn.reg \in BOOLEAN /\ conn.inq \in Nat
<1>1. ConnInv /\ TypeOK /\ Good(conn)
  BY ConnIs DEF LoopInv, ConnInv
<1>2. functors \in Seq(FunctorType) /\ removing \in Nat
  BY <1>1 DEF TypeOK
<1> QED BY <1>1, <1>2, GoodIs, LenProperties

LEMMA QueueTaken ==
  ASSUME LoopInv, NEW op, Takes(op)
  PROVE  /\ Queue' /\ (Going' => Going) /\ (op # "destroyed" /\ Going => Going')
         /\ (op = "destroyed" => Going) /\ op # "shutdown" /\ (OffLoop = {} => op # "send")
         /\ (op = "established" <=> conn.state = "Connecting")
         /\ revents = {}
<1>1. /\ functors \in Seq(FunctorType) /\ functors # <<>> /\ functors' = Tail(functors)
      /\ Head(functors).op = op /\ revents = {}
  BY LoopIs DEF Takes
<1>2. /\ functors' \in Seq(FunctorType) /\ Len(functors') = Len(functors) - 1
      /\ \A i \in 1..Len(functors') : functors'[i] = functors[i + 1]
      /\ Len(functors) \in Nat \ {0} /\ functors[1].op = op
  BY <1>1, HeadTailProperties, EmptySeq
<1>3. \A i \in 1..Len(functors') : i + 1 \in 1..Len(functors) /\ i + 1 # 1
  BY <1>2
<1>4. 1 \in 1..Len(functors)
  BY <1>2
<1>5. /\ op # "shutdown" /\ (op = "established" => conn.state = "Connecting")
      /\ (OffLoop = {} => op # "send")
  BY <1>2, <1>4 DEF LoopInv, Queue
<1>6. conn.state = "Connecting" => op = "established"
  BY <1>1 DEF LoopInv, Opening, First
<1>7. Queue'
  BY <1>2, <1>3 DEF LoopInv, Queue
<1>8. Going' => Going
  BY <1>2, <1>3 DEF Going
<1>9. op # "destroyed" /\ Going => Going'
  <2>1. ASSUME op # "destroyed", NEW i \in 1..Len(functors), functors[i].op = "destroyed"
        PROVE  i - 1 \in 1..Len(functors') /\ functors'[i - 1] = functors[i]
    <3>1. i # 1
      BY <1>2, <2>1
    <3>2. i - 1 \in 1..Len(functors') /\ (i - 1) + 1 = i
      BY <1>2, <3>1
    <3> QED BY <1>2, <3>2
  <2> QED BY <2>1 DEF Going
<1>10. op = "destroyed" => Going
  BY <1>2, <1>4 DEF Going
<1> QED BY <1>1, <1>5, <1>6, <1>7, <1>8, <1>9, <1>10

LEMMA QueueGrown ==
  ASSUME LoopInv, NEW f \in FunctorType, f.op \in {"send", "forceClose", "destroyed"},
         f.op = "destroyed" => f.shared, OffLoop = {} => f.op # "send",
         functors' = Append(functors, f), conn.state = "Connecting" => conn'.state = "Connecting"
  PROVE  /\ Queue' /\ (First(functors) => First(functors'))
         /\ (Going' <=> Going \/ f.op = "destroyed")
<1>1. /\ functors \in Seq(FunctorType) /\ Len(functors) \in Nat
  BY LoopIs
<1>2. /\ functors' \in Seq(FunctorType) /\ functors' # <<>> /\ Len(functors') = Len(functors) + 1
      /\ \A i \in 1..Len(functors) : functors'[i] = functors[i]
      /\ functors'[Len(functors) + 1] = f
  BY <1>1, AppendProperties
<1>3. /\ \A i \in 1..Len(functors') : i \in 1..Len(functors) \/ i = Len(functors) + 1
      /\ \A i \in 1..Len(functors) : i \in 1..Len(functors')
      /\ Len(functors) + 1 \in 1..Len(functors')
  BY <1>1, <1>2
<1>4. Queue'
  <2> SUFFICES ASSUME NEW i \in 1..Len(functors')
               PROVE  /\ functors'[i].op # "shutdown"
                      /\ functors'[i].op = "established" => i = 1 /\ conn'.state = "Connecting"
                      /\ functors'[i].op = "destroyed" => functors'[i].shared
                      /\ OffLoop = {} => functors'[i].op # "send"
    BY DEF Queue
  <2>1. CASE i \in 1..Len(functors)
    <3>1. functors'[i] = functors[i]
      BY <1>2, <2>1
    <3>2. /\ functors[i].op # "shutdown"
          /\ functors[i].op = "established" => i = 1 /\ conn.state = "Connecting"
          /\ functors[i].op = "destroyed" => functors[i].shared
          /\ OffLoop = {} => functors[i].op # "send"
      BY <2>1 DEF LoopInv, Queue
    <3> QED BY <3>1, <3>2
  <2>2. CASE i = Len(functors) + 1
    <3>1. functors'[i] = f
      BY <1>2, <2>2
    <3> QED BY <3>1
  <2> QED BY <1>3, <2>1, <2>2
<1>5. Going' <=> Going \/ f.op = "destroyed"
  BY <1>2, <1>3 DEF Going
<1>6. First(functors) => First(functors')
  BY <1>1, HeadTailAppend DEF First
<1> QED BY <1>4, <1>5, <1>6

-----------------------------------------------------------------------------
(* A step that serves an open connection, or that changes the socket only. *)
LEMMA ServeStep ==
  ASSUME LoopInv, ConnInv',
         \/ conn.state \in Open /\ Serves(conn, conn') /\ (OffLoop = {} => Kept)
         \/ OnlySocket(conn, conn'),
         revents' \subseteq revents, Queue', Going' <=> Going,
         conn.state = "Connecting" => First(functors'),
         UNCHANGED <<inMap, removing, stopped>>, CallersSend'
  PROVE  LoopInv'
<1>1. /\ conn.state \in States /\ conn'.state \in States
      /\ conn.downs \in Nat /\ conn'.downs \in Nat
      /\ conn'.downs = conn.downs /\ conn'.ups = conn.ups
      /\ (conn.state = "Connecting" <=> conn'.state = "Connecting")
      /\ (conn.state \in Open <=> conn'.state \in Open)
      /\ (conn.state \notin Open => OnlySocket(conn, conn'))
  <2>1. conn.state \in States /\ conn.downs \in Nat
    BY LoopIs
  <2>2. Good(conn')
    BY DEF Serves, OnlySocket
  <2>3. conn'.state \in States /\ conn'.downs \in Nat
    BY <2>2, GoodIs
  <2> QED BY <2>1, <2>3 DEF Serves, OnlySocket, Open, States
<1>2. /\ conn.state \in Open => Waits(conn) /\ "in" \in conn.events
      /\ conn.state # "Connecting" => conn.ups = 1
      /\ conn.state = "Disconnected" => conn.downs >= 1 /\ conn.events = {}
      /\ conn.downs = 0 => Shut(conn)
  BY DEF LoopInv, Phases
<1>3. conn'.state \in Open => Waits(conn') /\ "in" \in conn'.events
  <2>1. CASE conn.state \in Open /\ Serves(conn, conn')
    BY <1>2, <2>1 DEF Serves
  <2>2. CASE OnlySocket(conn, conn')
    BY <1>1, <1>2, <2>2 DEF OnlySocket, Waits, IsWriting
  <2> QED BY <1>1, <2>1, <2>2
<1>4. conn'.state = "Disconnected" => conn'.downs >= 1 /\ conn'.events = {}
  BY <1>1, <1>2 DEF OnlySocket, Open
<1>5. conn'.downs = 0 => Shut(conn')
  <2>1. CASE conn.state \in Open /\ Serves(conn, conn')
    BY <1>1, <1>2, <2>1 DEF Serves
  <2>2. CASE OnlySocket(conn, conn')
    BY <1>1, <1>2, <2>2 DEF OnlySocket, Shut
  <2> QED BY <2>1, <2>2
<1>6. Phases'
  BY <1>1, <1>2, <1>3, <1>4, <1>5 DEF Phases, Waits, Shut, IsWriting
<1>7. Opening'
  <2>1. ASSUME conn'.state = "Connecting"
        PROVE  /\ First(functors') /\ revents' = {}
               /\ conn'.out = <<>> /\ conn'.events = {} /\ ~conn'.reg /\ conn'.ups = 0 /\ conn'.downs = 0
    <3>1. OnlySocket(conn, conn') /\ conn.state = "Connecting"
      BY <1>1, <2>1 DEF Open
    <3> QED BY <3>1 DEF LoopInv, Opening, OnlySocket
  <2> QED BY <2>1 DEF Opening, First
<1>8. Kept' <=> Kept
  BY DEF Kept
<1>9. Held'
  <2>1. CASE conn.state \in Open /\ Serves(conn, conn') /\ (OffLoop = {} => Kept)
    BY <1>8, <2>1 DEF Held
  <2>2. CASE OnlySocket(conn, conn')
    <3>1. conn'.reg = conn.reg /\ conn'.state = conn.state /\ (revents' # {} => revents # {})
      BY <2>2 DEF OnlySocket
    <3> QED BY <1>8, <3>1 DEF LoopInv, Held
  <2> QED BY <2>1, <2>2
<1>10. Live => Live'
  <2>1. CASE conn.state \in Open
    <3>1. Live => conn.reg /\ conn.downs = 0 /\ inMap /\ ~(removing > 0) /\ ~Going
                  /\ ~("in" \in revents /\ "hup" \in revents)
      BY <2>1 DEF Live, Open
    <3>2. conn.reg => conn'.reg
      BY <1>2, <2>1 DEF Serves, OnlySocket
    <3>3. conn'.state \in Open /\ conn'.state # "Disconnected"
      BY <1>1, <2>1 DEF Open
    <3> QED BY <1>1, <3>1, <3>2, <3>3 DEF Live
  <2>2. CASE conn.state \notin Open
    <3>1. OnlySocket(conn, conn')
      BY <1>1, <2>2
    <3>2. conn'.state = conn.state /\ conn'.reg = conn.reg /\ conn'.downs = conn.downs
      BY <3>1 DEF OnlySocket
    <3> QED BY <3>2 DEF Live
  <2> QED BY <2>1, <2>2
<1> QED BY <1>6, <1>7, <1>9, <1>10 DEF LoopInv

(* A step that closes the connection. *)
LEMMA CloseStep ==
  ASSUME LoopInv, ConnInv', conn' = Close(conn), removing' = removing + 1,
         conn.state # "Connecting", stopped \/ conn.state \in Open,
         revents' \subseteq revents, stopped \/ revents' \cap {"in", "hup"} = {},
         Queue', UNCHANGED <<inMap, stopped>>, CallersSend'
  PROVE  LoopInv'
<1>1. /\ conn'.state = "Disconnected" /\ conn'.downs = conn.downs + 1 /\ conn'.ups = conn.ups
      /\ conn'.events = {} /\ (conn'.reg <=> ~conn.reg)
  BY LoopIs, CloseIs
<1>2. conn.downs \in Nat /\ conn.ups = 1 /\ removing \in Nat
  BY LoopIs DEF LoopInv, Phases
<1>3. conn'.downs >= 1 /\ conn'.downs # 0 /\ removing' > 0
  BY <1>1, <1>2
<1>4. Opening' /\ Phases'
  BY <1>1, <1>2, <1>3 DEF Opening, Phases, Open
<1>5. Held'
  BY <1>3 DEF Held, Kept
<1>6. ~stopped /\ Live => Live'
  <2>1. ~stopped /\ Live => conn.reg /\ conn.downs = 0
    BY DEF Live
  <2>2. ~stopped => ~("in" \in revents' /\ "hup" \in revents')
    OBVIOUS
  <2> QED BY <1>1, <2>1, <2>2 DEF Live, Open
<1> QED BY <1>4, <1>5, <1>6 DEF LoopInv

-----------------------------------------------------------------------------
LEMMA LoopInit ==
  ASSUME Init
  PROVE  LoopInv
<1>1. ConnInv
  BY ConnInit
<1>2. /\ conn.state = "Connecting" /\ conn.out = <<>> /\ conn.events = {} /\ conn.reg = FALSE
      /\ conn.ups = 0 /\ conn.downs = 0 /\ conn.wrShut = FALSE
      /\ revents = {} /\ inMap = TRUE /\ removing = 0
      /\ functors = <<Functor("established", <<>>, TRUE)>>
      /\ callers = [t \in OffLoop |-> [at |-> "idle", left |-> MaxCalls]]
  BY DEF Init
<1>3. CallersSend
  BY <1>2 DEF CallersSend
<1>4. /\ functors # <<>> /\ Head(functors).op = "established" /\ functors[1].op = "established"
      /\ Len(functors) = 1
  BY <1>2 DEF Functor
<1>5. Queue /\ ~Going
  <2>1. \A i \in 1..Len(functors) : i = 1
    BY <1>4
  <2> QED BY <1>2, <1>4, <2>1 DEF Queue, Going
<1>6. Opening /\ Phases
  BY <1>2, <1>4 DEF Opening, Phases, First, Open, Shut
<1>7. Held /\ Live
  BY <1>2, <1>5 DEF Held, Kept, Live, Open
<1> QED BY <1>1, <1>3, <1>5, <1>6, <1>7 DEF LoopInv

LEMMA IoKeepsLoop ==
  ASSUME LoopInv, IoThread
  PROVE  LoopInv'
<1>1. /\ ConnInv /\ Good(conn) /\ TypeOK /\ conn.state \in States /\ ConnInv'
      /\ conn.reg \in BOOLEAN /\ conn.inq \in Nat /\ removing \in Nat
  BY LoopIs, IoKeepsConn
<1>2. OnlySocket(conn, conn)
  BY <1>1 DEF OnlySocket
<1>3. ASSUME callers' = callers PROVE CallersSend'
  BY <1>3 DEF LoopInv, CallersSend
<1>4. ASSUME functors' = functors, conn.state = "Connecting" => conn'.state = "Connecting"
      PROVE  Queue' /\ (Going' <=> Going)
  BY <1>4 DEF LoopInv, Queue, Going
<1>5. CASE Poll
  <2>1. /\ Good(conn') /\ Same(conn, conn') /\ conn'.events = conn.events /\ conn'.reg = conn.reg
    BY <1>1, <1>5, PollIs
  <2>2. /\ conn.ready /\ revents' = Reported(conn) \ (IF "in" \in Reported(conn) THEN {"hup"} ELSE {})
        /\ UNCHANGED <<functors, inMap, removing, stopped, callers, nextMsg, sentIn, rcvd, sent>>
    BY <1>5 DEF Poll
  <2>3. conn.reg
    BY <1>1, <2>2 DEF ConnInv, Agrees, Indexed
  <2>4. conn.state # "Connecting"
    BY <2>3 DEF LoopInv, Opening
  <2>5. CallersSend' /\ Queue' /\ (Going' <=> Going)
    BY <1>3, <1>4, <2>1, <2>2 DEF Same
  <2>6. Opening' /\ Phases'
    BY <2>1, <2>4 DEF LoopInv, Opening, Phases, Same, Waits, Shut, IsWriting
  <2>7. Kept' <=> Kept
    BY <2>2, <2>5 DEF Kept
  <2>8. Held'
    BY <2>3, <2>7 DEF LoopInv, Held
  <2>9. ~("in" \in revents' /\ "hup" \in revents')
    BY <2>2
  <2>10. Live => Live'
    BY <2>1, <2>2, <2>3, <2>5, <2>9 DEF Live, Same
  <2> QED BY <1>1, <2>2, <2>5, <2>6, <2>8, <2>10 DEF LoopInv
<1>6. ASSUME revents # {}
      PROVE  conn.state # "Connecting" /\ (OffLoop = {} => Kept)
  BY <1>6 DEF LoopInv, Opening, Held
<1>7. ASSUME stopped \/ revents \cap {"in", "hup"} # {}, revents # {}
      PROVE  stopped \/ conn.state \in Open
  BY <1>1, <1>6, <1>7 DEF LoopInv, Live, States, Open
<1>8. CASE HandleHup
  <2>1. /\ "hup" \in revents /\ revents' = revents \ {"hup"}
        /\ conn' = Close(conn) /\ removing' = removing + 1
        /\ UNCHANGED <<functors, inMap, stopped, callers>>
    BY <1>8 DEF HandleHup
  <2>2. conn.state # "Connecting" /\ (stopped \/ conn.state \in Open)
    BY <1>6, <1>7, <2>1
  <2>3. stopped \/ revents' \cap {"in", "hup"} = {}
    BY <2>1 DEF LoopInv, Live
  <2>4. Queue' /\ CallersSend'
    BY <1>3, <1>4, <2>1, <2>2
  <2> QED BY <1>1, <2>1, <2>2, <2>3, <2>4, CloseStep
<1>9. CASE HandleReadEof
  <2>1. /\ "in" \in revents /\ revents' = revents \ {"in"}
        /\ conn' = Close(conn) /\ removing' = removing + 1
        /\ UNCHANGED <<functors, inMap, stopped, callers>>
    BY <1>9 DEF HandleReadEof
  <2>2. conn.state # "Connecting" /\ (stopped \/ conn.state \in Open)
    BY <1>6, <1>7, <2>1
  <2>3. stopped \/ revents' \cap {"in", "hup"} = {}
    BY <2>1 DEF LoopInv, Live
  <2>4. Queue' /\ CallersSend'
    BY <1>3, <1>4, <2>1, <2>2
  <2> QED BY <1>1, <2>1, <2>2, <2>3, <2>4, CloseStep
<1>10. CASE HandleWritable
  <2>1. /\ "out" \in revents /\ revents' \subseteq revents /\ conn' = HandleWrite(conn)
        /\ UNCHANGED <<functors, inMap, removing, stopped, callers>>
    BY <1>10 DEF HandleWritable
  <2>2. conn.state # "Connecting" /\ (OffLoop = {} => Kept)
    BY <1>6, <2>1
  <2>3. Queue' /\ (Going' <=> Going) /\ CallersSend'
    BY <1>3, <1>4, <2>1, <2>2
  <2>4. CASE conn.state \in Open
    <3>1. Serves(conn, conn')
      BY <1>1, <2>1, Serving
    <3> QED BY <1>1, <2>1, <2>2, <2>3, <2>4, <3>1, ServeStep
  <2>5. CASE conn.state = "Disconnected"
    <3>1. ~IsWriting(conn)
      BY <2>5 DEF LoopInv, Phases, IsWriting
    <3>2. conn' = conn
      BY <2>1, <3>1 DEF HandleWrite
    <3> QED BY <1>1, <1>2, <2>1, <2>2, <2>3, <3>2, ServeStep
  <2> QED BY <1>1, <2>2, <2>4, <2>5 DEF States, Open
<1>11. CASE HandleReadData
  <2> DEFINE c == ReadFd(conn)
  <2>1. /\ Good(c) /\ c.inq <= conn.inq /\ Stream(c) = Stream(conn)
        /\ c.fin = conn.fin /\ c.rst = conn.rst /\ c.ups = conn.ups /\ c.downs = conn.downs
        /\ c.state = conn.state /\ c.out = conn.out /\ c.wrShut = conn.wrShut
        /\ c.events = conn.events /\ c.reg = conn.reg
    BY <1>1, ReadFdIs
  <2>2. /\ AppReplies(c) \/ AppQuits(c) \/ AppForceCloses(c)
        /\ "in" \in revents /\ revents' \subseteq revents
        /\ UNCHANGED <<inMap, removing, stopped, callers>>
    BY <1>11 DEF HandleReadData
  <2> HIDE DEF c
  <2>3. conn.state # "Connecting" /\ (OffLoop = {} => Kept)
    BY <1>6, <2>2
  <2>4. Serves(conn, c) /\ OnlySocket(conn, c)
    BY <2>1 DEF Serves, OnlySocket, Waits, Shut, IsWriting
  <2>5. CASE conn.state \in Open
    <3>1. InOrder(c, rcvd, sent)
      BY <1>1, <2>1, ConnIs DEF InOrder
    <3>2. /\ Serves(c, conn')
          /\ functors' = functors \/ functors' = Append(functors, Functor("forceClose", <<>>, TRUE))
      BY <1>1, <2>1, <2>2, <3>1, AppIs
    <3>3. Serves(conn, conn')
      BY <1>1, <2>4, <3>2, ServesTransitive
    <3>4. Queue' /\ (Going' <=> Going)
      <4>1. CASE functors' = functors
        BY <1>4, <2>3, <4>1
      <4>2. CASE functors' = Append(functors, Functor("forceClose", <<>>, TRUE))
        <5> DEFINE f == Functor("forceClose", <<>>, TRUE)
        <5>1. f \in FunctorType /\ f.op = "forceClose"
          BY EmptySeq DEF Functor, FunctorType
        <5> HIDE DEF f
        <5>2. functors' = Append(functors, f)
          BY <4>2 DEF f
        <5> QED BY <2>3, <5>1, <5>2, QueueGrown
      <4> QED BY <3>2, <4>1, <4>2
    <3>5. CallersSend'
      BY <1>3, <2>2
    <3> QED BY <1>1, <2>2, <2>3, <2>5, <3>3, <3>4, <3>5, ServeStep
  <2>6. CASE conn.state = "Disconnected"
    <3>1. c.state = "Disconnected"
      BY <2>1, <2>6
    <3>2. conn' = c /\ functors' = functors
      BY <2>2, <3>1 DEF AppReplies, AppSends, AppQuits, AppForceCloses, Shutdown
    <3>3. Queue' /\ (Going' <=> Going) /\ CallersSend'
      BY <1>3, <1>4, <2>2, <2>3, <3>2
    <3> QED BY <1>1, <2>2, <2>3, <2>4, <3>2, <3>3, ServeStep
  <2> QED BY <1>1, <2>3, <2>5, <2>6 DEF States, Open
<1>12. ASSUME NEW op, Takes(op)
       PROVE  /\ Queue' /\ (Going' => Going) /\ (op # "destroyed" /\ Going => Going')
              /\ (op = "destroyed" => Going) /\ op # "shutdown" /\ (OffLoop = {} => op # "send")
              /\ (op = "established" <=> conn.state = "Connecting")
              /\ revents = {}
  BY <1>12, QueueTaken
<1>13. CASE ConnectEstablished
  <2> DEFINE c == EnableReading([conn EXCEPT !.state = "Connected", !.ups = @ + 1])
  <2>1. /\ Good(c) /\ Stream(c) = Stream(conn) /\ c.rst = conn.rst
        /\ c.ups = conn.ups + 1 /\ c.downs = conn.downs
        /\ c.state = "Connected" /\ c.out = conn.out
        /\ c.events = conn.events \cup {"in"} /\ c.reg /\ (Waits(conn) <=> Waits(c))
    BY <1>1, EstablishedIs, Zenon
  <2>2. /\ AppSends(c) \/ (conn' = c /\ UNCHANGED <<nextMsg, sent>>)
        /\ Takes("established")
        /\ UNCHANGED <<revents, inMap, removing, stopped, callers>>
    BY <1>13 DEF ConnectEstablished
  <2> HIDE DEF c
  <2>3. conn.state = "Connecting" /\ revents = {} /\ Queue' /\ (Going' <=> Going)
    BY <1>12, <2>2
  <2>4. conn.out = <<>> /\ conn.events = {} /\ conn.ups = 0 /\ conn.downs = 0
    BY <2>3 DEF LoopInv, Opening
  <2>5. InOrder(c, rcvd, sent)
    BY <1>1, <2>1, ConnIs DEF InOrder
  <2>6. Serves(c, conn')
    <3>1. CASE AppSends(c)
      BY <1>1, <2>1, <2>5, <3>1, AppSendsIs
    <3>2. CASE conn' = c /\ UNCHANGED <<nextMsg, sent>>
      BY <2>1, <3>2, Serving
    <3> QED BY <2>2, <3>1, <3>2
  <2>7. Waits(c) /\ Shut(c) /\ "in" \in c.events
    BY <2>1, <2>4 DEF Waits, Shut, IsWriting
  <2>8. /\ conn'.state \in Open /\ conn'.ups = 1 /\ conn'.downs = 0 /\ conn'.reg
        /\ Waits(conn') /\ Shut(conn') /\ "in" \in conn'.events
    BY <2>1, <2>4, <2>6, <2>7 DEF Serves, Open
  <2>9. Opening' /\ Phases'
    BY <2>8 DEF Opening, Phases, Open, Waits, Shut, IsWriting
  <2>10. Kept' <=> Kept
    BY <2>2, <2>3 DEF Kept
  <2>11. Held'
    BY <2>3, <2>10 DEF LoopInv, Held
  <2>12. Live => Live'
    BY <2>2, <2>3, <2>8 DEF Live, Open
  <2>13. CallersSend'
    BY <1>3, <2>2
  <2> QED BY <1>1, <2>2, <2>3, <2>9, <2>11, <2>12, <2>13 DEF LoopInv
<1>14. CASE QueuedSend
  <2>1. /\ Takes("send") /\ conn' = SendInLoop(conn, Head(functors).data)
        /\ UNCHANGED <<revents, inMap, removing, stopped, callers>>
    BY <1>14 DEF QueuedSend
  <2>2. /\ Queue' /\ (Going' <=> Going) /\ OffLoop # {} /\ conn.state # "Connecting"
        /\ CallersSend' /\ Head(functors).data \in Seq(Unit)
    BY <1>1, <1>3, <1>12, <2>1, FunctorsTaken
  <2>3. CASE conn.state \in Open
    <3>1. Serves(conn, conn')
      BY <1>1, <2>1, <2>2, Serving
    <3> QED BY <1>1, <2>1, <2>2, <2>3, <3>1, ServeStep
  <2>4. CASE conn.state = "Disconnected"
    <3>1. conn' = conn
      BY <2>1, <2>4 DEF SendInLoop, Refuses
    <3> QED BY <1>1, <1>2, <2>1, <2>2, <3>1, ServeStep
  <2> QED BY <1>1, <2>2, <2>3, <2>4 DEF States, Open
<1>15. CASE QueuedShutdown
  BY <1>12, <1>15 DEF QueuedShutdown
<1>16. CASE QueuedForceClose
  <2>1. /\ Takes("forceClose")
        /\ IF StillOpen THEN conn' = Close(conn) /\ removing' = removing + 1
                        ELSE conn' = conn /\ removing' = removing
        /\ UNCHANGED <<revents, inMap, stopped, callers>>
    BY <1>16 DEF QueuedForceClose
  <2>2. /\ Queue' /\ (Going' <=> Going) /\ conn.state # "Connecting" /\ revents = {}
        /\ CallersSend'
    BY <1>3, <1>12, <2>1
  <2>3. CASE StillOpen
    BY <1>1, <2>1, <2>2, <2>3, CloseStep DEF StillOpen, Open
  <2>4. CASE ~StillOpen
    BY <1>1, <1>2, <2>1, <2>2, <2>4, ServeStep
  <2> QED BY <2>3, <2>4
<1>17. CASE ConnectDestroyed
  <2>1. /\ Takes("destroyed")
        /\ conn' = RemoveChannel(IF conn.state = "Connected" THEN Close(conn) ELSE conn)
        /\ UNCHANGED <<revents, inMap, removing, stopped, callers>>
    BY <1>17 DEF ConnectDestroyed
  <2>2. /\ Queue' /\ Going /\ (Going' => Going) /\ conn.state # "Connecting" /\ revents = {}
        /\ CallersSend'
    BY <1>3, <1>12, <2>1
  <2>3. /\ conn'.out = conn.out /\ conn'.ups = conn.ups /\ conn'.wrShut = conn.wrShut /\ ~conn'.reg
        /\ IF conn.state = "Connected"
             THEN conn'.state = "Disconnected" /\ conn'.downs = conn.downs + 1 /\ conn'.events = {}
             ELSE conn'.state = conn.state /\ conn'.downs = conn.downs /\ conn'.events = conn.events
    BY <1>1, <2>1, DestroyedIs
  <2>4. conn.downs \in Nat
    BY LoopIs
  <2>5. Opening' /\ Phases'
    <3>1. CASE conn.state = "Connected"
      <4>1. conn.downs + 1 >= 1 /\ conn.downs + 1 # 0
        BY <2>4
      <4> QED BY <2>3, <3>1, <4>1 DEF LoopInv, Opening, Phases, Open
    <3>2. CASE conn.state # "Connected"
      BY <2>2, <2>3, <3>2 DEF LoopInv, Opening, Phases, Open, Waits, Shut, IsWriting
    <3> QED BY <3>1, <3>2
  <2>6. Held'
    BY <2>1, <2>2, <2>3 DEF Held
  <2>7. Live => Live'
    BY <2>1, <2>2, <2>3 DEF Live, Open
  <2> QED BY <1>1, <2>1, <2>2, <2>5, <2>6, <2>7 DEF LoopInv
<1> QED BY <1>5, <1>8, <1>9, <1>10, <1>11, <1>13, <1>14, <1>15, <1>16, <1>17 DEF IoThread

LEMMA OthersKeepLoop ==
  ASSUME OnlySends, LoopInv,
         \/ RemoveConnection \/ ServerDestructs \/ Peer
         \/ \E t \in OffLoop : Caller(t)
         \/ UNCHANGED vars
  PROVE  LoopInv'
<1>1. /\ ConnInv /\ Good(conn) /\ TypeOK /\ conn.state \in States /\ ConnInv'
      /\ removing \in Nat
  BY LoopIs, OthersKeepConn
<1>2. OnlySocket(conn, conn)
  BY <1>1 DEF OnlySocket
<1>3. ASSUME callers' = callers PROVE CallersSend'
  BY <1>3 DEF LoopInv, CallersSend
<1>4. ASSUME functors' = functors, conn.state = "Connecting" => conn'.state = "Connecting"
      PROVE  Queue' /\ (Going' <=> Going)
  BY <1>4 DEF LoopInv, Queue, Going
<1>5. conn.state = "Connecting" => First(functors)
  BY DEF LoopInv, Opening
<1>6. ASSUME conn' = conn, functors' = Append(functors, Functor("destroyed", <<>>, TRUE))
      PROVE  /\ Queue' /\ Going' /\ (First(functors) => First(functors'))
  <2> DEFINE f == Functor("destroyed", <<>>, TRUE)
  <2>1. f \in FunctorType /\ f.op = "destroyed" /\ f.shared
    BY EmptySeq DEF Functor, FunctorType
  <2> HIDE DEF f
  <2>2. functors' = Append(functors, f)
    BY <1>6 DEF f
  <2> QED BY <1>6, <2>1, <2>2, QueueGrown
<1>7. ASSUME conn' = conn, revents' = revents, First(functors) => First(functors')
      PROVE  Opening' /\ Phases'
  BY <1>7 DEF LoopInv, Opening, Phases, First, Waits, Shut, IsWriting
<1>8. CASE RemoveConnection
  <2>1. /\ ~stopped /\ removing > 0 /\ inMap' = FALSE
        /\ functors' = Append(functors, Functor("destroyed", <<>>, TRUE))
        /\ UNCHANGED <<conn, revents, stopped, callers>>
    BY <1>8 DEF RemoveConnection
  <2>2. Queue' /\ Going' /\ Opening' /\ Phases' /\ CallersSend'
    BY <1>3, <1>6, <1>7, <2>1
  <2>3. Held'
    BY <2>2 DEF Held, Kept
  <2>4. Live'
    BY <2>1 DEF LoopInv, Live
  <2> QED BY <1>1, <2>2, <2>3, <2>4 DEF LoopInv
<1>9. CASE ServerDestructs
  <2>1. /\ stopped' = TRUE
        /\ functors' = IF inMap THEN Append(functors, Functor("destroyed", <<>>, TRUE)) ELSE functors
        /\ UNCHANGED <<conn, revents, removing, callers>>
    BY <1>9 DEF ServerDestructs
  <2>2. CallersSend'
    BY <1>3, <2>1
  <2>3. CASE inMap
    <3>1. Queue' /\ Going' /\ Opening' /\ Phases'
      BY <1>6, <1>7, <2>1, <2>3
    <3>2. Held'
      BY <3>1 DEF Held, Kept
    <3> QED BY <1>1, <2>1, <2>2, <3>1, <3>2 DEF LoopInv
  <2>4. CASE ~inMap
    <3>1. Queue' /\ (Going' <=> Going) /\ Opening' /\ Phases'
      BY <1>4, <1>7, <2>1, <2>4
    <3>2. Kept => Kept'
      BY <2>1, <2>4, <3>1 DEF Kept
    <3>3. Held'
      BY <2>1, <3>2 DEF LoopInv, Held
    <3> QED BY <1>1, <2>1, <2>2, <3>1, <3>3 DEF LoopInv
  <2> QED BY <2>3, <2>4
<1>10. CASE Peer
  <2>1. /\ OnlySocket(conn, conn')
        /\ UNCHANGED <<revents, functors, inMap, removing, stopped, callers>>
    BY <1>1, <1>10, PeerIs
  <2>2. Queue' /\ (Going' <=> Going) /\ CallersSend'
    BY <1>3, <1>4, <2>1 DEF OnlySocket
  <2> QED BY <1>1, <1>5, <2>1, <2>2, ServeStep
<1>11. CASE \E t \in OffLoop : Caller(t)
  <2>1. PICK t \in OffLoop : Caller(t)
    BY <1>11
  <2>2. /\ OffLoopCalls \subseteq {"send"} /\ callers[t].at \in {"idle", "send"}
        /\ callers \in [OffLoop -> CallerType] /\ callers[t] \in CallerType
    BY <1>1, <2>1 DEF OnlySends, LoopInv, CallersSend, TypeOK
  <2>3. ASSUME NEW at \in {"idle", "send"}, NEW k, k.at = at, callers' = [callers EXCEPT ![t] = k]
        PROVE  CallersSend'
    BY <2>2, <2>3 DEF LoopInv, CallersSend
  <2>4. ASSUME NEW call \in OffLoopCalls, Checks(t, call)
        PROVE  LoopInv'
    <3> DEFINE k == [at |-> call, left |-> callers[t].left - 1]
    <3>1. /\ callers' = [callers EXCEPT ![t] = k] /\ call \in {"idle", "send"} /\ k.at = call
          /\ UNCHANGED <<conn, revents, functors, inMap, removing, stopped>>
      BY <2>2, <2>4 DEF Checks
    <3> HIDE DEF k
    <3>2. CallersSend'
      BY <2>3, <3>1
    <3>3. Queue' /\ (Going' <=> Going)
      BY <1>4, <3>1
    <3> QED BY <1>1, <1>2, <1>5, <3>1, <3>2, <3>3, ServeStep
  <2>5. CASE OffLoopSend(t)
    <3> DEFINE f == Functor("send", Units(nextMsg), FALSE)
               k == [callers[t] EXCEPT !.at = "idle"]
    <3>1. /\ callers' = [callers EXCEPT ![t] = k] /\ functors' = Append(functors, f)
          /\ UNCHANGED <<conn, revents, inMap, removing, stopped>>
      BY <2>5 DEF OffLoopSend
    <3>2. k.at = "idle"
      BY <2>2 DEF CallerType
    <3>3. f \in FunctorType /\ f.op = "send"
      <4>1. nextMsg \in Nat
        BY <1>1 DEF TypeOK
      <4> QED BY <4>1, UnitsTyped DEF Functor, FunctorType
    <3> HIDE DEF f, k
    <3>4. CallersSend'
      BY <2>3, <3>1, <3>2
    <3>5. OffLoop # {}
      BY <2>1
    <3>6. Queue' /\ (First(functors) => First(functors')) /\ (Going' <=> Going)
      BY <3>1, <3>3, <3>5, QueueGrown
    <3> QED BY <1>1, <1>2, <1>5, <3>1, <3>4, <3>6, ServeStep
  <2>6. ~OffLoopShutdown(t) /\ ~OffLoopForceClose(t)
    BY <2>2 DEF OffLoopShutdown, OffLoopForceClose
  <2> QED BY <2>1, <2>4, <2>5, <2>6 DEF Caller
<1>12. CASE UNCHANGED vars
  <2>1. UNCHANGED <<conn, revents, functors, inMap, removing, stopped, callers>>
    BY <1>12 DEF vars
  <2>2. Queue' /\ (Going' <=> Going) /\ CallersSend'
    BY <1>3, <1>4, <2>1
  <2> QED BY <1>1, <1>2, <1>5, <2>1, <2>2, ServeStep
<1> QED BY <1>8, <1>9, <1>10, <1>11, <1>12

-----------------------------------------------------------------------------
LEMMA LoopInvariant == OnlySends /\ Spec => []LoopInv
<1> SUFFICES ASSUME OnlySends PROVE Spec => []LoopInv
  OBVIOUS
<1>1. Init => LoopInv
  BY LoopInit
<1>2. LoopInv /\ [Next]_vars => LoopInv'
  BY IoKeepsLoop, OthersKeepLoop DEF Next
<1> QED BY <1>1, <1>2, PTL DEF Spec

(* While other threads at most send, the channel asks for EPOLLOUT exactly while *)
(* outputBuffer_ holds something: a rest is never forgotten and the loop never   *)
(* spins, whatever the messages and the room of the kernel                       *)
(* (tcp_connection.cpp:96-107,193-195).                                          *)
THEOREM WritingIffPendingCorrect == OnlySends /\ Spec => []WritingIffPending
<1>1. LoopInv => WritingIffPending
  BY DEF LoopInv, Phases, WritingIffPending, Waits, Open
<1> QED BY <1>1, LoopInvariant, PTL

(* While other threads at most send, a connection comes up once and goes down at *)
(* most once: the events of one poll, a queued forceClose() and the removal by   *)
(* the base loop never close it twice before the server is destroyed             *)
(* (tcp_connection.cpp:132-164,211-224, channel.cpp:56-88).                      *)
THEOREM UpThenDownCorrect == OnlySends /\ Spec => []UpThenDown
<1>1. LoopInv => UpThenDown
  <2> SUFFICES ASSUME LoopInv PROVE UpThenDown
    OBVIOUS
  <2>1. /\ conn.state = "Connecting" => conn.ups = 0 /\ conn.downs = 0
        /\ conn.state # "Connecting" => conn.ups = 1
        /\ conn.state = "Disconnected" => conn.downs >= 1
    BY DEF LoopInv, Opening, Phases
  <2>2. conn.ups <= 1
    BY <2>1
  <2>3. conn.downs <= conn.ups \/ stopped
    <3>1. CASE stopped
      BY <3>1
    <3>2. CASE ~stopped
      <4>1. /\ conn.state \in Open => conn.downs = 0
            /\ conn.state = "Disconnected" => conn.downs = 1
        BY <3>2 DEF LoopInv, Live
      <4>2. conn.state \in {"Connecting", "Disconnected"} \cup Open
        BY LoopIs DEF States, Open
      <4> QED BY <2>1, <4>1, <4>2
    <3> QED BY <3>1, <3>2
  <2> QED BY <2>1, <2>2, <2>3 DEF UpThenDown
<1> QED BY <1>1, LoopInvariant, PTL

(* epoll never holds the channel of a connection that is gone: the map, the base *)
(* loop's removals and the queued connectDestroyed() hand the connection on, and *)
(* none lets go of it before its channel is out of the poller                    *)
(* (tcp_server.cpp:86-98, tcp_connection.cpp:154-164, epoll_poller.cpp:55-61).   *)
THEOREM RegisteredAliveCorrect == Spec => []RegisteredAlive
<1>1. CASE OffLoop # {}
  <2>1. TypeOK => RegisteredAlive
    BY <1>1 DEF RegisteredAlive, Alive
  <2> QED BY <2>1, TypeCorrect, PTL
<1>2. CASE OffLoop = {}
  <2>1. OnlySends
    BY <1>2 DEF OnlySends
  <2>2. LoopInv => RegisteredAlive
    <3> SUFFICES ASSUME LoopInv, conn.reg PROVE Alive
      BY DEF RegisteredAlive
    <3>1. Kept
      BY <1>2 DEF LoopInv, Held
    <3>2. ASSUME NEW i \in 1..Len(functors), functors[i].op = "destroyed"
          PROVE  i \in DOMAIN functors /\ functors[i].shared
      <4>1. functors \in Seq(FunctorType)
        BY LoopIs
      <4> QED BY <3>2, <4>1, LenProperties DEF LoopInv, Queue
    <3> QED BY <3>1, <3>2 DEF Kept, Going, Alive
  <2> QED BY <2>1, <2>2, LoopInvariant, PTL
<1> QED BY <1>1, <1>2
-----------------------------------------------------------------------------
(* The refinement of ConnectionLife.  What LoopInv does not say: a close is at most *)
(* asked of a registered channel, the map, the removal and connectDestroyed() hand   *)
(* the connection on and never hold it twice.                                       *)
Single(q) == \A i, j \in 1..Len(q) : q[i].op = "destroyed" /\ q[j].op = "destroyed" => i = j
Ending(events) == events \cap {"in", "hup"}
Handed ==
    /\ Ending(revents) # {} => conn.reg
    /\ ~("in" \in revents /\ "hup" \in revents)
    /\ conn.state = "Connected" => conn.reg
    /\ inMap => ~Going
    /\ ~stopped /\ removing > 0 => inMap /\ removing = 1
    /\ Single(functors)

(* The two functors that the abstract life knows of. *)
Pendings == /\ Pending("established") <=> conn.state = "Connecting"
            /\ Pending("destroyed") <=> Going

LEMMA PendingIs == LoopInv => Pendings
<1> SUFFICES ASSUME LoopInv
             PROVE  /\ Pending("established") <=> conn.state = "Connecting"
                    /\ Pending("destroyed") <=> Going
  BY DEF Pendings
<1>1. functors \in Seq(FunctorType) /\ DOMAIN functors = 1..Len(functors)
  BY LoopIs, LenProperties
<1>2. Pending("destroyed") <=> Going
  BY <1>1 DEF Pending, Going
<1>3. Pending("established") => conn.state = "Connecting"
  BY <1>1 DEF Pending, LoopInv, Queue
<1>4. ASSUME conn.state = "Connecting" PROVE Pending("established")
  <2>1. functors # <<>> /\ Head(functors).op = "established"
    BY <1>4 DEF LoopInv, Opening, First
  <2>2. Len(functors) \in Nat \ {0} /\ functors[1] = Head(functors)
    BY <1>1, <2>1, HeadTailProperties, EmptySeq
  <2>3. 1 \in DOMAIN functors
    BY <1>1, <2>2
  <2> QED BY <2>1, <2>2, <2>3 DEF Pending
<1> QED BY <1>2, <1>3, <1>4

LEMMA PendingNext == LoopInv' => Pendings'
BY PendingIs, PTL

LEMMA SingleTaken ==
  ASSUME LoopInv, Single(functors), NEW op, Takes(op)
  PROVE  Single(functors') /\ (op = "destroyed" => ~Going')
<1>1. functors \in Seq(FunctorType) /\ functors # <<>> /\ functors' = Tail(functors)
      /\ Head(functors).op = op
  BY LoopIs DEF Takes
<1>2. /\ Len(functors') = Len(functors) - 1
      /\ \A i \in 1..Len(functors') : functors'[i] = functors[i + 1]
      /\ Len(functors) \in Nat \ {0} /\ functors[1].op = op
  BY <1>1, HeadTailProperties, EmptySeq
<1>3. \A i \in 1..Len(functors') : i + 1 \in 1..Len(functors) /\ i + 1 # 1
  BY <1>2
<1>4. 1 \in 1..Len(functors)
  BY <1>2
<1>5. ASSUME NEW i \in 1..Len(functors'), NEW j \in 1..Len(functors'),
             functors'[i].op = "destroyed", functors'[j].op = "destroyed"
      PROVE  i = j
  <2>1. i + 1 = j + 1
    BY <1>2, <1>3, <1>5 DEF Single
  <2> QED BY <1>2, <2>1
<1>6. ASSUME op = "destroyed", NEW i \in 1..Len(functors'), functors'[i].op = "destroyed"
      PROVE  FALSE
  BY <1>2, <1>3, <1>4, <1>6 DEF Single
<1> QED BY <1>5, <1>6 DEF Single, Going

LEMMA SingleGrown ==
  ASSUME LoopInv, Single(functors), NEW f, f \in FunctorType, functors' = Append(functors, f),
         f.op = "destroyed" => ~Going
  PROVE  Single(functors')
<1>1. functors \in Seq(FunctorType) /\ Len(functors) \in Nat
  BY LoopIs
<1>2. /\ Len(functors') = Len(functors) + 1
      /\ \A i \in 1..Len(functors) : functors'[i] = functors[i]
      /\ functors'[Len(functors) + 1] = f
  BY <1>1, AppendProperties
<1>3. \A i \in 1..Len(functors') : i \in 1..Len(functors) \/ i = Len(functors) + 1
  BY <1>1, <1>2
<1>4. ASSUME NEW i \in 1..Len(functors'), NEW j \in 1..Len(functors'),
             functors'[i].op = "destroyed", functors'[j].op = "destroyed"
      PROVE  i = j
  <2>1. CASE i \in 1..Len(functors) /\ j \in 1..Len(functors)
    BY <1>2, <1>4, <2>1 DEF Single
  <2>2. CASE i \notin 1..Len(functors) \/ j \notin 1..Len(functors)
    BY <1>2, <1>3, <1>4, <2>2 DEF Going
  <2> QED BY <2>1, <2>2
<1> QED BY <1>4 DEF Single

LEMMA AppendGoing ==
  ASSUME functors \in Seq(FunctorType), NEW f, f \in FunctorType, functors' = Append(functors, f)
  PROVE  Going' <=> Going \/ f.op = "destroyed"
<1>1. /\ Len(functors) \in Nat /\ Len(functors') = Len(functors) + 1
      /\ \A i \in 1..Len(functors) : functors'[i] = functors[i]
      /\ functors'[Len(functors) + 1] = f
  BY AppendProperties, LenProperties
<1>2. /\ \A i \in 1..Len(functors') : i \in 1..Len(functors) \/ i = Len(functors) + 1
      /\ \A i \in 1..Len(functors) : i \in 1..Len(functors')
      /\ Len(functors) + 1 \in 1..Len(functors')
  BY <1>1
<1> QED BY <1>1, <1>2 DEF Going

(* A step that serves the connection, or that touches the socket only, begins its  *)
(* closing, registers it once more, or leaves its life as it is.                   *)
LEMMA ServeLives ==
  ASSUME LoopInv, Handed, LoopInv',
         \/ conn.state \in Open /\ Serves(conn, conn')
         \/ OnlySocket(conn, conn'),
         Ending(revents') # {} => conn.reg, ~("in" \in revents' /\ "hup" \in revents'),
         Going' <=> Going, Single(functors'), UNCHANGED <<inMap, removing, stopped>>
  PROVE  Handed' /\ [Life!Next]_(Life!vars)
<1>1. /\ conn'.ups = conn.ups /\ conn'.downs = conn.downs
      /\ conn'.state = conn.state \/ (conn.state \in Open /\ conn'.state = "Disconnecting")
      /\ conn.reg => conn'.reg
      /\ conn.reg \in BOOLEAN /\ conn'.reg \in BOOLEAN
  <2>1. conn.state \in Open => "in" \in conn.events
    BY DEF LoopInv, Phases
  <2>2. Good(conn) /\ Good(conn')
    BY LoopIs DEF Serves, OnlySocket
  <2> QED BY <2>1, <2>2, GoodIs DEF Serves, OnlySocket
<1>2. conn.reg # conn'.reg => stopped /\ conn.state = "Disconnecting" /\ ~conn.reg
  <2>1. conn.reg # conn'.reg => conn.state \in Open
    BY <1>1 DEF OnlySocket
  <2>2. conn.state \in Open => conn.reg \/ stopped
    BY DEF LoopInv, Live
  <2> QED BY <1>1, <2>1, <2>2 DEF Handed, Open
<1>3. Handed'
  <2>1. conn'.state = "Connected" => conn'.reg
    BY <1>1 DEF Handed
  <2> QED BY <1>1, <2>1 DEF Handed, Ending, Single
<1>4. /\ (Pending("established") <=> conn.state = "Connecting") /\ (Pending("destroyed") <=> Going)
      /\ (Pending("established")' <=> conn'.state = "Connecting") /\ (Pending("destroyed")' <=> Going')
  BY PendingIs, PendingNext DEF Pendings
<1>5. /\ Pending("established")' = Pending("established") /\ Pending("destroyed")' = Pending("destroyed")
      /\ (removing > 0)' = (removing > 0)
  <2>1. conn.state = "Connecting" <=> conn'.state = "Connecting"
    BY <1>1 DEF Open
  <2> QED BY <1>4, <2>1 DEF Pending
<1>6. CASE conn'.state = conn.state /\ conn'.reg = conn.reg
  BY <1>1, <1>3, <1>5, <1>6 DEF Life!vars
<1>7. CASE conn'.state # conn.state
  <2>1. conn.state = "Connected" /\ conn'.state = "Disconnecting" /\ conn.reg /\ conn'.reg = conn.reg
    BY <1>1, <1>7 DEF Handed, Open
  <2>2. Life!StartClosing
    BY <1>1, <1>5, <2>1 DEF Life!StartClosing
  <2> QED BY <1>3, <2>2 DEF Life!Next
<1>8. CASE conn'.state = conn.state /\ conn'.reg # conn.reg
  <2>1. conn'.reg /\ conn.state = "Disconnecting" /\ ~conn.reg /\ stopped
    BY <1>1, <1>2, <1>8
  <2>2. Life!Reregister
    BY <1>1, <1>5, <1>8, <2>1 DEF Life!Reregister
  <2> QED BY <1>3, <2>2 DEF Life!Next
<1> QED BY <1>6, <1>7, <1>8

(* A step that closes it. *)
LEMMA CloseLives ==
  ASSUME LoopInv, Handed, LoopInv', conn' = Close(conn), removing' = removing + 1,
         \/ conn.state \in Open
         \/ stopped /\ conn.state = "Disconnected" /\ conn.reg,
         Ending(revents') = {},
         Going' <=> Going, Single(functors'), UNCHANGED <<inMap, stopped>>
  PROVE  Handed' /\ [Life!Next]_(Life!vars)
<1>1. /\ conn'.state = "Disconnected" /\ conn'.downs = conn.downs + 1 /\ conn'.ups = conn.ups
      /\ (conn'.reg <=> ~conn.reg) /\ conn.reg \in BOOLEAN /\ conn'.reg \in BOOLEAN
      /\ removing \in Nat
  <2>1. Good(conn) /\ removing \in Nat
    BY LoopIs
  <2>2. Good(conn')
    BY <2>1, CloseIs
  <2> QED BY <2>1, <2>2, CloseIs, GoodIs
<1>2. ~stopped => conn.state \in Open /\ conn.reg /\ inMap /\ removing = 0
  <2>1. ~stopped => conn.state \in Open
    OBVIOUS
  <2>2. ~stopped => conn.reg /\ inMap /\ ~(removing > 0)
    BY <2>1 DEF LoopInv, Live, Open
  <2> QED BY <1>1, <2>1, <2>2
<1>3. removing' > 0 /\ (~stopped => removing' = 1)
  BY <1>1, <1>2
<1>4. Handed'
  BY <1>1, <1>2, <1>3 DEF Handed, Ending, Single
<1>5. /\ (Pending("established") <=> conn.state = "Connecting") /\ (Pending("destroyed") <=> Going)
      /\ (Pending("established")' <=> conn'.state = "Connecting") /\ (Pending("destroyed")' <=> Going')
  BY PendingIs, PendingNext DEF Pendings
<1>6. Pending("established")' = Pending("established") /\ Pending("destroyed")' = Pending("destroyed")
      /\ (removing > 0)' = TRUE
  BY <1>1, <1>3, <1>5 DEF Open, Pending
<1>7. conn'.reg = ~conn.reg /\ (conn.reg \/ stopped)
  BY <1>1, <1>2
<1>8. Life!Close
  BY <1>1, <1>6, <1>7 DEF Life!Close, Life!Open, Open
<1> QED BY <1>4, <1>8 DEF Life!Next

-----------------------------------------------------------------------------
LEMMA IoLives ==
  ASSUME LoopInv, Handed, LoopInv', IoThread
  PROVE  Handed' /\ [Life!Next]_(Life!vars)
<1>1. /\ ConnInv /\ Good(conn) /\ TypeOK /\ conn.state \in States /\ conn.reg \in BOOLEAN
      /\ functors \in Seq(FunctorType)
  BY LoopIs
<1>2. OnlySocket(conn, conn)
  BY <1>1 DEF OnlySocket
<1>3. ASSUME functors' = functors PROVE (Going' <=> Going) /\ Single(functors')
  BY <1>3 DEF Going, Handed, Single
<1>4. ASSUME NEW op, Takes(op)
      PROVE  /\ (Going' => Going) /\ (op # "destroyed" /\ Going => Going') /\ Single(functors')
             /\ (op = "destroyed" => Going /\ ~Going')
             /\ (op = "established" <=> conn.state = "Connecting") /\ revents = {}
  BY <1>4, QueueTaken, SingleTaken DEF Handed
<1>5. revents # {} => conn.state # "Connecting"
  BY DEF LoopInv, Opening
<1>6. ASSUME NEW c, Serves(conn, c), OnlySocket(conn, c), Good(c), InOrder(c, rcvd, sent),
             AppReplies(c) \/ AppQuits(c) \/ AppForceCloses(c)
      PROVE  /\ (conn.state \in Open /\ Serves(conn, conn')) \/ OnlySocket(conn, conn')
             /\ (Going' <=> Going) /\ Single(functors')
  <2>1. Serves(c, conn') /\ (functors' = functors \/ functors' = Append(functors, Functor("forceClose", <<>>, TRUE)))
    BY <1>1, <1>6, AppIs
  <2>2. Serves(conn, conn')
    BY <1>1, <1>6, <2>1, ServesTransitive
  <2>3. (Going' <=> Going) /\ Single(functors')
    <3>1. CASE functors' = functors
      BY <1>3, <3>1
    <3>2. CASE functors' = Append(functors, Functor("forceClose", <<>>, TRUE))
      <4> DEFINE f == Functor("forceClose", <<>>, TRUE)
      <4>1. f \in FunctorType /\ f.op = "forceClose"
        BY EmptySeq DEF Functor, FunctorType
      <4> HIDE DEF f
      <4>2. functors' = Append(functors, f)
        BY <3>2 DEF f
      <4>3. Going' <=> Going
        BY <1>1, <4>1, <4>2, AppendGoing
      <4>4. Single(functors')
        BY <4>1, <4>2, SingleGrown DEF Handed
      <4> QED BY <4>3, <4>4
    <3> QED BY <2>1, <3>1, <3>2
  <2>4. conn.state \notin Open => OnlySocket(conn, conn')
    <3>1. c.state = conn.state
      BY <1>6 DEF OnlySocket
    <3>2. c.state \notin Open => conn' = c
      BY <1>6 DEF AppReplies, AppSends, AppQuits, AppForceCloses, Shutdown, Open
    <3> QED BY <1>6, <3>1, <3>2
  <2> QED BY <2>2, <2>3, <2>4
<1>7. CASE Poll
  <2>1. /\ Good(conn') /\ Same(conn, conn') /\ conn'.events = conn.events /\ conn'.reg = conn.reg
    BY <1>1, <1>7, PollIs
  <2>2. /\ conn.ready /\ revents' = Reported(conn) \ (IF "in" \in Reported(conn) THEN {"hup"} ELSE {})
        /\ UNCHANGED <<functors, inMap, removing, stopped>>
    BY <1>7 DEF Poll
  <2>3. conn.reg /\ OnlySocket(conn, conn')
    BY <1>1, <2>1, <2>2 DEF ConnInv, Agrees, Indexed, OnlySocket, Same
  <2>4. ~("in" \in revents' /\ "hup" \in revents')
    BY <2>2
  <2> QED BY <1>3, <2>2, <2>3, <2>4, ServeLives
<1>8. CASE HandleHup \/ HandleReadEof
  <2>1. /\ Ending(revents) # {} /\ Ending(revents') = {}
        /\ conn' = Close(conn) /\ removing' = removing + 1
        /\ UNCHANGED <<functors, inMap, stopped>>
    BY <1>8 DEF HandleHup, HandleReadEof, Handed, Ending
  <2>2. conn.reg /\ revents # {} /\ conn.state # "Connecting"
    BY <1>5, <2>1 DEF Handed, Ending
  <2>3. conn.state \in Open \/ (stopped /\ conn.state = "Disconnected" /\ conn.reg)
    BY <1>1, <2>2 DEF LoopInv, Live, States, Open
  <2> QED BY <1>3, <2>1, <2>3, CloseLives
<1>9. CASE HandleReadData
  <2> DEFINE c == ReadFd(conn)
  <2>1. /\ Good(c) /\ c.inq <= conn.inq /\ Stream(c) = Stream(conn)
        /\ c.fin = conn.fin /\ c.rst = conn.rst /\ c.ups = conn.ups /\ c.downs = conn.downs
        /\ c.state = conn.state /\ c.out = conn.out /\ c.wrShut = conn.wrShut
        /\ c.events = conn.events /\ c.reg = conn.reg
    BY <1>1, ReadFdIs
  <2>2. /\ AppReplies(c) \/ AppQuits(c) \/ AppForceCloses(c)
        /\ revents' \subseteq revents
        /\ UNCHANGED <<inMap, removing, stopped>>
    BY <1>9 DEF HandleReadData
  <2> HIDE DEF c
  <2>3. Serves(conn, c) /\ OnlySocket(conn, c) /\ InOrder(c, rcvd, sent)
    BY <1>1, <2>1, ConnIs DEF Serves, OnlySocket, Waits, Shut, IsWriting, InOrder
  <2>4. /\ (conn.state \in Open /\ Serves(conn, conn')) \/ OnlySocket(conn, conn')
        /\ (Going' <=> Going) /\ Single(functors')
    BY <1>6, <2>1, <2>2, <2>3
  <2>5. (Ending(revents') # {} => conn.reg) /\ ~("in" \in revents' /\ "hup" \in revents')
    BY <2>2 DEF Handed, Ending
  <2> QED BY <2>2, <2>4, <2>5, ServeLives
<1>10. CASE HandleWritable
  <2>1. /\ revents' \subseteq revents /\ revents # {} /\ conn' = HandleWrite(conn)
        /\ UNCHANGED <<functors, inMap, removing, stopped>>
    BY <1>10 DEF HandleWritable
  <2>2. (Ending(revents') # {} => conn.reg) /\ ~("in" \in revents' /\ "hup" \in revents')
    BY <2>1 DEF Handed, Ending
  <2>3. (conn.state \in Open /\ Serves(conn, conn')) \/ OnlySocket(conn, conn')
    <3>1. CASE conn.state \in Open
      BY <1>1, <2>1, <3>1, Serving
    <3>2. CASE conn.state = "Disconnected"
      <4>1. ~IsWriting(conn)
        BY <3>2 DEF LoopInv, Phases, IsWriting
      <4>2. conn' = conn
        BY <2>1, <4>1 DEF HandleWrite
      <4> QED BY <1>2, <4>2
    <3> QED BY <1>1, <1>5, <2>1, <3>1, <3>2 DEF States, Open
  <2> QED BY <1>3, <2>1, <2>2, <2>3, ServeLives
<1>11. CASE QueuedSend
  <2>1. /\ Takes("send") /\ conn' = SendInLoop(conn, Head(functors).data)
        /\ UNCHANGED <<revents, inMap, removing, stopped>>
    BY <1>11 DEF QueuedSend
  <2>2. /\ Single(functors') /\ (Going' <=> Going) /\ conn.state # "Connecting" /\ revents = {}
        /\ Head(functors).data \in Seq(Unit)
    BY <1>1, <1>4, <2>1, FunctorsTaken
  <2>3. (conn.state \in Open /\ Serves(conn, conn')) \/ OnlySocket(conn, conn')
    <3>1. CASE conn.state \in Open
      BY <1>1, <2>1, <2>2, <3>1, Serving
    <3>2. CASE conn.state = "Disconnected"
      <4>1. conn' = conn
        BY <2>1, <3>2 DEF SendInLoop, Refuses
      <4> QED BY <1>2, <4>1
    <3> QED BY <1>1, <2>2, <3>1, <3>2 DEF States, Open
  <2> QED BY <2>1, <2>2, <2>3, ServeLives DEF Ending
<1>12. CASE QueuedShutdown
  BY <1>12, QueueTaken DEF QueuedShutdown
<1>13. CASE QueuedForceClose
  <2>1. /\ Takes("forceClose")
        /\ IF StillOpen THEN conn' = Close(conn) /\ removing' = removing + 1
                        ELSE conn' = conn /\ removing' = removing
        /\ UNCHANGED <<revents, inMap, stopped>>
    BY <1>13 DEF QueuedForceClose
  <2>2. Single(functors') /\ (Going' <=> Going) /\ revents' = {}
    BY <1>4, <2>1
  <2>3. CASE StillOpen
    BY <2>1, <2>2, <2>3, CloseLives DEF StillOpen, Open, Ending
  <2>4. CASE ~StillOpen
    BY <1>2, <2>1, <2>2, <2>4, ServeLives DEF Ending
  <2> QED BY <2>3, <2>4
<1>14. /\ (Pending("established") <=> conn.state = "Connecting") /\ (Pending("destroyed") <=> Going)
       /\ (Pending("established")' <=> conn'.state = "Connecting") /\ (Pending("destroyed")' <=> Going')
  BY PendingIs, PendingNext DEF Pendings
<1>15. CASE ConnectEstablished
  <2> DEFINE c == EnableReading([conn EXCEPT !.state = "Connected", !.ups = @ + 1])
  <2>1. /\ Good(c) /\ Stream(c) = Stream(conn) /\ c.rst = conn.rst
        /\ c.ups = conn.ups + 1 /\ c.downs = conn.downs
        /\ c.state = "Connected" /\ c.out = conn.out
        /\ c.events = conn.events \cup {"in"} /\ c.reg /\ (Waits(conn) <=> Waits(c))
    BY <1>1, EstablishedIs, Zenon
  <2>2. /\ AppSends(c) \/ (conn' = c /\ UNCHANGED <<nextMsg, sent>>)
        /\ Takes("established")
        /\ UNCHANGED <<revents, inMap, removing, stopped>>
    BY <1>15 DEF ConnectEstablished
  <2> HIDE DEF c
  <2>3. conn.state = "Connecting" /\ revents = {} /\ (Going' <=> Going) /\ Single(functors')
    BY <1>4, <2>2
  <2>4. InOrder(c, rcvd, sent)
    BY <1>1, <2>1, ConnIs DEF InOrder
  <2>5. conn' = c \/ conn' = SendInLoop(c, Units(nextMsg))
    BY <2>1, <2>2 DEF AppSends
  <2>6. Serves(c, conn') /\ conn'.state = "Connected"
    <3>1. CASE conn' = c
      BY <2>1, <3>1, Serving
    <3>2. CASE AppSends(c) /\ conn' = SendInLoop(c, Units(nextMsg))
      <4>1. nextMsg \in Nat
        BY <1>1 DEF TypeOK
      <4>2. Keeps(c, SendInLoop(c, Units(nextMsg)))
        BY <2>1, <4>1, UnitsTyped, SendIs
      <4> QED BY <1>1, <2>1, <2>4, <3>2, <4>2, AppSendsIs DEF Keeps
    <3> QED BY <2>2, <2>5, <3>1, <3>2
  <2>7. conn'.reg /\ conn'.reg \in BOOLEAN /\ conn'.ups = conn.ups + 1 /\ conn'.downs = conn.downs
    BY <2>1, <2>6, GoodIs DEF Serves
  <2>8. Handed'
    BY <2>2, <2>3, <2>7 DEF Handed, Ending
  <2>9. /\ Pending("established") = TRUE /\ Pending("established")' = FALSE
        /\ Pending("destroyed")' = Pending("destroyed") /\ (removing > 0)' = (removing > 0)
    BY <1>14, <2>2, <2>3, <2>6 DEF Pending
  <2>10. Life!Establish
    BY <2>2, <2>3, <2>6, <2>7, <2>9 DEF Life!Establish
  <2> QED BY <2>8, <2>10 DEF Life!Next
<1>16. CASE ConnectDestroyed
  <2>1. /\ Takes("destroyed")
        /\ conn' = RemoveChannel(IF conn.state = "Connected" THEN Close(conn) ELSE conn)
        /\ UNCHANGED <<revents, inMap, removing, stopped>>
    BY <1>16 DEF ConnectDestroyed
  <2>2. Going /\ ~Going' /\ Single(functors') /\ conn.state # "Connecting" /\ revents = {} /\ ~inMap
    BY <1>4, <2>1 DEF Handed
  <2>3. /\ conn'.ups = conn.ups /\ ~conn'.reg /\ Good(conn')
        /\ IF conn.state = "Connected"
             THEN conn'.state = "Disconnected" /\ conn'.downs = conn.downs + 1
             ELSE conn'.state = conn.state /\ conn'.downs = conn.downs
    BY <1>1, <2>1, DestroyedIs
  <2>4. conn'.reg = FALSE /\ inMap = FALSE
    BY <1>1, <2>2, <2>3, GoodIs DEF TypeOK
  <2>5. Handed'
    BY <2>1, <2>2, <2>3 DEF Handed, Ending
  <2>6. /\ ~Pending("established") /\ Pending("established")' = Pending("established")
        /\ Pending("destroyed") = TRUE /\ Pending("destroyed")' = FALSE
        /\ (removing > 0)' = (removing > 0)
    BY <1>14, <2>1, <2>2, <2>3 DEF Pending
  <2>7. Life!Destroy
    BY <2>1, <2>2, <2>3, <2>4, <2>6 DEF Life!Destroy
  <2> QED BY <2>5, <2>7 DEF Life!Next
<1> QED BY <1>7, <1>8, <1>9, <1>10, <1>11, <1>12, <1>13, <1>15, <1>16 DEF IoThread

LEMMA OthersLive ==
  ASSUME OnlySends, LoopInv, Handed, LoopInv',
         \/ RemoveConnection \/ ServerDestructs \/ Peer
         \/ \E t \in OffLoop : Caller(t)
         \/ UNCHANGED vars
  PROVE  Handed' /\ [Life!Next]_(Life!vars)
<1>1. /\ ConnInv /\ Good(conn) /\ TypeOK /\ functors \in Seq(FunctorType) /\ removing \in Nat
      /\ inMap \in BOOLEAN /\ stopped \in BOOLEAN
  BY LoopIs DEF TypeOK
<1>2. OnlySocket(conn, conn)
  BY <1>1 DEF OnlySocket
<1>3. ASSUME functors' = functors PROVE (Going' <=> Going) /\ Single(functors')
  BY <1>3 DEF Going, Handed, Single
<1>4. ASSUME functors' = Append(functors, Functor("destroyed", <<>>, TRUE)), ~Going
      PROVE  Going' /\ Single(functors')
  <2> DEFINE f == Functor("destroyed", <<>>, TRUE)
  <2>1. f \in FunctorType /\ f.op = "destroyed"
    BY EmptySeq DEF Functor, FunctorType
  <2> HIDE DEF f
  <2>2. functors' = Append(functors, f)
    BY <1>4 DEF f
  <2> QED BY <1>1, <1>4, <2>1, <2>2, AppendGoing, SingleGrown DEF Handed
<1>5. /\ (Pending("established") <=> conn.state = "Connecting") /\ (Pending("destroyed") <=> Going)
      /\ (Pending("established")' <=> conn'.state = "Connecting") /\ (Pending("destroyed")' <=> Going')
  BY PendingIs, PendingNext DEF Pendings
<1>6. CASE RemoveConnection
  <2>1. /\ ~stopped /\ removing > 0 /\ removing' = removing - 1 /\ inMap' = FALSE
        /\ functors' = Append(functors, Functor("destroyed", <<>>, TRUE))
        /\ UNCHANGED <<conn, revents, stopped>>
    BY <1>6 DEF RemoveConnection
  <2>2. inMap /\ removing = 1 /\ ~Going /\ conn.state = "Disconnected"
    BY <2>1 DEF Handed, LoopInv, Live
  <2>3. removing' = 0 /\ ~(removing' > 0) /\ inMap = TRUE
    BY <1>1, <2>1, <2>2
  <2>4. Going' /\ Single(functors')
    BY <1>4, <2>1, <2>2
  <2>5. Handed'
    BY <2>1, <2>3, <2>4 DEF Handed, Ending
  <2>6. /\ Pending("established")' = Pending("established")
        /\ Pending("destroyed") = FALSE /\ Pending("destroyed")' = TRUE
        /\ (removing > 0) = TRUE /\ (removing > 0)' = FALSE
    <3>1. (removing > 0) = TRUE /\ (removing > 0)' = FALSE
      BY <2>1, <2>3
    <3> QED BY <1>5, <2>1, <2>2, <2>4, <3>1 DEF Pending
  <2>7. Life!Remove
    BY <2>1, <2>2, <2>3, <2>6 DEF Life!Remove
  <2> QED BY <2>5, <2>7 DEF Life!Next
<1>7. CASE ServerDestructs
  <2>1. /\ ~stopped /\ stopped' = TRUE /\ inMap' = FALSE
        /\ functors' = IF inMap THEN Append(functors, Functor("destroyed", <<>>, TRUE)) ELSE functors
        /\ UNCHANGED <<conn, revents, removing>>
    BY <1>7 DEF ServerDestructs
  <2>2. CASE inMap
    <3>1. ~Going /\ Going' /\ Single(functors')
      BY <1>4, <2>1, <2>2 DEF Handed
    <3>2. Handed'
      BY <2>1, <3>1 DEF Handed, Ending
    <3>3. /\ Pending("established")' = Pending("established") /\ (removing > 0)' = (removing > 0)
          /\ Pending("destroyed") = FALSE /\ Pending("destroyed")' = TRUE
      BY <1>5, <2>1, <3>1 DEF Pending
    <3>4. Life!Drop
      BY <2>1, <2>2, <3>3 DEF Life!Drop
    <3> QED BY <3>2, <3>4 DEF Life!Next
  <2>3. CASE ~inMap
    <3>1. (Going' <=> Going) /\ Single(functors')
      BY <1>3, <2>1, <2>3
    <3>2. Handed'
      BY <2>1, <3>1 DEF Handed, Ending
    <3>3. /\ Pending("established")' = Pending("established") /\ (removing > 0)' = (removing > 0)
          /\ Pending("destroyed")' = Pending("destroyed") /\ inMap' = inMap
      BY <1>1, <1>5, <2>1, <2>3, <3>1 DEF Pending
    <3>4. Life!Stop
      BY <2>1, <3>3 DEF Life!Stop
    <3> QED BY <3>2, <3>4 DEF Life!Next
  <2> QED BY <2>2, <2>3
<1>8. CASE Peer
  <2>1. OnlySocket(conn, conn') /\ UNCHANGED <<revents, functors, inMap, removing, stopped>>
    BY <1>1, <1>8, PeerIs
  <2> QED BY <1>3, <2>1, ServeLives DEF Handed
<1>9. CASE \E t \in OffLoop : Caller(t)
  <2>1. PICK t \in OffLoop : Caller(t)
    BY <1>9
  <2>2. OffLoopCalls \subseteq {"send"} /\ callers[t].at \in {"idle", "send"}
    BY <2>1 DEF OnlySends, LoopInv, CallersSend
  <2>3. /\ functors' = functors \/ functors' = Append(functors, Functor("send", Units(nextMsg), FALSE))
        /\ UNCHANGED <<conn, revents, inMap, removing, stopped>>
    BY <2>1, <2>2 DEF Caller, Checks, OffLoopSend, OffLoopShutdown, OffLoopForceClose
  <2>4. (Going' <=> Going) /\ Single(functors')
    <3> DEFINE f == Functor("send", Units(nextMsg), FALSE)
    <3>1. nextMsg \in Nat
      BY <1>1 DEF TypeOK
    <3>2. f \in FunctorType /\ f.op = "send"
      BY <3>1, UnitsTyped DEF Functor, FunctorType
    <3> HIDE DEF f
    <3>3. functors' = functors \/ functors' = Append(functors, f)
      BY <2>3 DEF f
    <3>4. CASE functors' = Append(functors, f)
      BY <1>1, <3>2, <3>4, AppendGoing, SingleGrown DEF Handed
    <3> QED BY <1>3, <3>3, <3>4
  <2> QED BY <1>2, <2>3, <2>4, ServeLives DEF Handed
<1>10. CASE UNCHANGED vars
  <2>1. UNCHANGED <<conn, revents, functors, inMap, removing, stopped>>
    BY <1>10 DEF vars
  <2> QED BY <1>2, <1>3, <2>1, ServeLives DEF Handed
<1> QED BY <1>6, <1>7, <1>8, <1>9, <1>10

(* While other threads at most send, the connection implements ConnectionLife: it is *)
(* established first, closed at most once until the server is destroyed, taken out    *)
(* of the map only when it is closed, and destroyed once and last, whatever the       *)
(* events of one poll, the queue and the base loop interleave                         *)
(* (tcp_connection.h:33-35, tcp_connection.cpp:111-164,211-224,                       *)
(* tcp_server.cpp:28-37,86-98).                                                       *)
THEOREM LivesInOrderCorrect == OnlySends /\ Spec => LivesInOrder
<1> SUFFICES ASSUME OnlySends PROVE Spec => LivesInOrder
  OBVIOUS
<1>1. Init => LoopInv /\ Handed /\ Life!Init
  <2> SUFFICES ASSUME Init PROVE LoopInv /\ Handed /\ Life!Init
    OBVIOUS
  <2>1. LoopInv
    BY LoopInit
  <2>2. /\ conn.state = "Connecting" /\ conn.reg = FALSE /\ conn.ups = 0 /\ conn.downs = 0
        /\ revents = {} /\ inMap = TRUE /\ removing = 0 /\ stopped = FALSE
        /\ functors = <<Functor("established", <<>>, TRUE)>>
    BY DEF Init
  <2>3. Len(functors) = 1 /\ functors[1].op = "established"
    BY <2>2 DEF Functor
  <2>4. \A i \in 1..Len(functors) : i = 1
    BY <2>3
  <2>5. ~Going /\ Single(functors)
    BY <2>3, <2>4 DEF Going, Single
  <2>6. Handed
    BY <2>2, <2>5 DEF Handed, Ending
  <2>7. Pending("established") = TRUE /\ Pending("destroyed") = FALSE
    <3>1. Pending("established") /\ ~Pending("destroyed")
      BY <2>1, <2>2, <2>5, PendingIs DEF Pendings
    <3> QED BY <3>1 DEF Pending
  <2>8. (removing > 0) = FALSE
    BY <2>2
  <2>9. Life!Init
    BY <2>2, <2>7, <2>8, Zenon DEF Life!Init
  <2> QED BY <2>1, <2>6, <2>9
<1>2. LoopInv /\ Handed /\ LoopInv' /\ [Next]_vars => Handed' /\ [Life!Next]_(Life!vars)
  BY IoLives, OthersLive DEF Next
<1> QED BY <1>1, <1>2, LoopInvariant, PTL DEF Spec, LivesInOrder, Life!Spec

-----------------------------------------------------------------------------
(* What every life promises is promised of this connection: the theorems of      *)
(* ConnectionLife_proofs, instantiated.                                         *)
LP == INSTANCE ConnectionLife_proofs WITH
            state <- conn.state, polled <- conn.reg, ups <- conn.ups, downs <- conn.downs,
            removing <- removing > 0, establishing <- Pending("established"),
            destroying <- Pending("destroyed")

LEMMA LifeIsLife == Life!Spec => LP!Spec
<1>1. Life!Init => LP!Init
  BY DEF Life!Init, LP!Init
<1>2. [Life!Next]_(Life!vars) => [LP!Next]_(LP!vars)
  <2>1. Life!Accept <=> LP!Accept
    BY Zenon DEF Life!Accept, LP!Accept
  <2>2. Life!Establish <=> LP!Establish
    BY Zenon DEF Life!Establish, LP!Establish
  <2>3. Life!StartClosing <=> LP!StartClosing
    BY Zenon DEF Life!StartClosing, LP!StartClosing
  <2>4. Life!Close <=> LP!Close
    BY Zenon DEF Life!Close, LP!Close, Life!Open, LP!Open
  <2>5. Life!Reregister <=> LP!Reregister
    BY Zenon DEF Life!Reregister, LP!Reregister
  <2>6. Life!Remove <=> LP!Remove
    BY Zenon DEF Life!Remove, LP!Remove
  <2>7. Life!Stop <=> LP!Stop
    BY Zenon DEF Life!Stop, LP!Stop
  <2>8. Life!Drop <=> LP!Drop
    BY Zenon DEF Life!Drop, LP!Drop
  <2>9. Life!Destroy <=> LP!Destroy
    BY Zenon DEF Life!Destroy, LP!Destroy
  <2> QED BY <2>1, <2>2, <2>3, <2>4, <2>5, <2>6, <2>7, <2>8, <2>9, Zenon DEF Life!Next, LP!Next, Life!vars, LP!vars
<1> QED BY <1>1, <1>2, PTL DEF Life!Spec, LP!Spec

(* A connection is never lost between its loop and the base loop: up to its end   *)
(* or its shutdown() it is in the server's map or its connectDestroyed() is       *)
(* queued, a closed one in the map has its removal queued, and it is reported up  *)
(* once and, while the base loop runs, down at most once                          *)
(* (tcp_connection.cpp:132-164,211-224, tcp_server.cpp:52-98).                    *)
THEOREM NeverLost == OnlySends /\ Spec => [](Life!ReportedDown /\ Life!HandedOn)
<1>1. LP!Spec => []LP!ReportedDown /\ []LP!HandedOn
  BY LP!ReportedDownCorrect, LP!HandedOnCorrect
<1>2. LP!ReportedDown <=> Life!ReportedDown
  BY Zenon DEF Life!ReportedDown, LP!ReportedDown
<1>3. LP!HandedOn <=> Life!HandedOn
  BY Zenon DEF Life!HandedOn, LP!HandedOn
<1>4. Life!Spec => [](Life!ReportedDown /\ Life!HandedOn)
  BY <1>1, <1>2, <1>3, LifeIsLife, PTL
<1>5. OnlySends /\ Spec => Life!Spec
  BY LivesInOrderCorrect DEF LivesInOrder
<1> QED BY <1>4, <1>5, PTL
=============================================================================

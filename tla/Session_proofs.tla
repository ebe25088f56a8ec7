--------------------------- MODULE Session_proofs ---------------------------
(***************************************************************************)
(* Proofs about Buffer and Session for every size of the buffer, every     *)
(* stream of bytes and every way of cutting it: the buffer is a queue of   *)
(* bytes, each request takes one line out of it, and none is left in it.   *)
(***************************************************************************)
EXTENDS Session, SequenceTheorems, FiniteSetTheorems, WellFoundedInduction, TLAPS

(* A suffix of a sequence, by its elements. *)
LEMMA SuffixIs ==
  ASSUME NEW t \in Seq(Bytes), NEW u \in Seq(Bytes), NEW n \in 0..Len(u)
  PROVE  t = SubSeq(u, n + 1, Len(u)) <=>
            Len(t) = Len(u) - n /\ \A i \in 1..Len(t) : t[i] = u[n + i]
<1> DEFINE v == SubSeq(u, n + 1, Len(u))
<1>1. Len(u) \in Nat /\ Len(t) \in Nat
  BY LenProperties
<1>2. /\ v \in Seq(Bytes)
      /\ Len(v) = IF n + 1 <= Len(u) THEN Len(u) - (n + 1) + 1 ELSE 0
      /\ \A i \in 1..(Len(u) - (n + 1) + 1) : v[i] = u[n + 1 + i - 1]
  <2>1. \A i \in (n + 1)..Len(u) : u[i] \in Bytes
    BY <1>1, ElementOfSeq
  <2>2. n + 1 \in Int /\ Len(u) \in Int
    BY <1>1
  <2> QED BY <2>1, <2>2, SubSeqProperties
<1>3. Len(v) = Len(u) - n /\ \A i \in 1..Len(v) : v[i] = u[n + i]
  BY <1>1, <1>2
<1> HIDE DEF v
<1>4. ASSUME Len(t) = Len(u) - n, \A i \in 1..Len(t) : t[i] = u[n + i]
      PROVE  t = v
  <2>1. Len(t) = Len(v) /\ \A i \in 1..Len(t) : t[i] = v[i]
    BY <1>3, <1>4
  <2> QED BY <1>2, <2>1, SeqEqual
<1> QED BY <1>3, <1>4 DEF v

-----------------------------------------------------------------------------
(* The bytes of a buffer, one by one. *)
LEMMA ContentIs ==
  ASSUME NEW b, IsBuffer(b)
  PROVE  /\ Content(b) \in Seq(Bytes) /\ Len(Content(b)) = b.w - b.r
         /\ \A i \in 1..(b.w - b.r) : Content(b)[i] = b.cells[b.r + i]
<1>1. b.r \in Nat /\ b.w \in Nat /\ b.r <= b.w /\ b.w <= Len(b.cells) /\ b.cells \in Seq(Bytes)
  BY DEF IsBuffer
<1>2. \A i \in (b.r + 1)..b.w : b.cells[i] \in Bytes
  BY <1>1, ElementOfSeq, LenProperties
<1> DEFINE c == b.cells
           m == b.r + 1
           n == b.w
           v == SubSeq(c, m, n)
<1>3. m \in Int /\ n \in Int /\ \A i \in m..n : c[i] \in Bytes
  BY <1>1, <1>2
<1>4. /\ v \in Seq(Bytes)
      /\ Len(v) = IF m <= n THEN n - m + 1 ELSE 0
      /\ \A i \in 1..(n - m + 1) : v[i] = c[m + i - 1]
  <2> HIDE DEF c, m, n
  <2> QED BY <1>3, SubSeqProperties
<1>5. Content(b) = v
  BY DEF Content
<1> HIDE DEF v
<1>6. Len(v) = b.w - b.r /\ n - m + 1 = b.w - b.r
  BY <1>1, <1>4
<1>7. ASSUME NEW i \in 1..(b.w - b.r) PROVE v[i] = b.cells[b.r + i]
  <2>1. i \in 1..(n - m + 1) /\ m + i - 1 = b.r + i
    BY <1>1, <1>6
  <2>2. v[i] = c[m + i - 1]
    BY <1>4, <2>1
  <2> QED BY <2>1, <2>2
<1> QED BY <1>4, <1>5, <1>6, <1>7

(* std::copy changes the cells it is given and no other. *)
LEMMA CopiedCells ==
  ASSUME NEW cells \in Seq(Bytes), NEW at \in Nat, NEW bytes \in Seq(Bytes)
  PROVE  /\ Copied(cells, at, bytes) \in Seq(Bytes)
         /\ Len(Copied(cells, at, bytes)) = Len(cells)
         /\ \A i \in 1..Len(cells) :
              Copied(cells, at, bytes)[i] =
                 IF i \in (at + 1)..(at + Len(bytes)) THEN bytes[i - at] ELSE cells[i]
<1> DEFINE e(i) == IF i \in (at + 1)..(at + Len(bytes)) THEN bytes[i - at] ELSE cells[i]
           c == Copied(cells, at, bytes)
<1>1. Len(cells) \in Nat /\ Len(bytes) \in Nat /\ DOMAIN cells = 1..Len(cells)
  BY LenProperties
<1>2. c = [i \in 1..Len(cells) |-> e(i)]
  BY <1>1 DEF Copied
<1>3. ASSUME NEW i \in 1..Len(cells) PROVE e(i) \in Bytes
  <2>1. CASE i \in (at + 1)..(at + Len(bytes))
    <3>1. i - at \in 1..Len(bytes)
      BY <1>1, <2>1
    <3> QED BY <2>1, <3>1, ElementOfSeq
  <2>2. CASE i \notin (at + 1)..(at + Len(bytes))
    BY <2>2, ElementOfSeq
  <2> QED BY <2>1, <2>2
<1>4. c \in [1..Len(cells) -> Bytes]
  BY <1>2, <1>3
<1>5. c \in Seq(Bytes)
  BY <1>1, <1>4, SeqDef
<1>6. Len(c) = Len(cells)
  BY <1>1, <1>4, <1>5, LenProperties
<1> QED BY <1>2, <1>5, <1>6

(* std::vector::resize() keeps the cells there are. *)
LEMMA ResizedCells ==
  ASSUME NEW cells \in Seq(Bytes), NEW size \in Nat
  PROVE  /\ Resized(cells, size) \in Seq(Bytes)
         /\ Len(Resized(cells, size)) = size
         /\ \A i \in 1..size : i <= Len(cells) => Resized(cells, size)[i] = cells[i]
<1> DEFINE c == Resized(cells, size)
<1>1. Len(cells) \in Nat
  BY LenProperties
<1>2. ASSUME NEW i \in 1..size, i <= Len(cells) PROVE cells[i] \in Bytes
  BY <1>1, <1>2, ElementOfSeq
<1>3. c \in [1..size -> Bytes]
  BY <1>1, <1>2, BufferAssumption DEF Resized
<1>4. c \in Seq(Bytes)
  BY <1>3, SeqDef
<1>5. Len(c) = size
  BY <1>3, <1>4, LenProperties
<1> QED BY <1>4, <1>5 DEF Resized

(* A byte vector with its indices in order. *)
LEMMA BufferTyped ==
  ASSUME NEW b, IsBuffer(b)
  PROVE  /\ b.cells \in Seq(Bytes) /\ Len(b.cells) \in Nat
         /\ b.r \in Nat /\ b.w \in Nat /\ CheapPrepend \in Nat
         /\ CheapPrepend <= b.r /\ b.r <= b.w /\ b.w <= Len(b.cells)
BY BufferAssumption, LenProperties DEF IsBuffer

(* makeSpace() leaves the content as it is, and makes the space it is asked for. *)
LEMMA SpaceMade ==
  ASSUME NEW b, IsBuffer(b), NEW n \in Nat
  PROVE  LET e == ensureWritableBytes(b, n)
         IN  IsBuffer(e) /\ Content(e) = Content(b) /\ writableBytes(e) >= n
<1>1. /\ b.cells \in Seq(Bytes) /\ Len(b.cells) \in Nat
      /\ b.r \in Nat /\ b.w \in Nat /\ CheapPrepend \in Nat
      /\ CheapPrepend <= b.r /\ b.r <= b.w /\ b.w <= Len(b.cells)
      /\ b \in [cells : Seq(Bytes), r : Nat, w : Nat]
  BY BufferTyped DEF IsBuffer
<1>2. CASE writableBytes(b) >= n
  <2>1. ensureWritableBytes(b, n) = b
    BY <1>1, <1>2 DEF ensureWritableBytes, writableBytes
  <2> QED BY <1>2, <2>1
<1>3. CASE writableBytes(b) < n /\ writableBytes(b) + prependableBytes(b) < n + CheapPrepend
  <2> DEFINE e == Grown(b, n)
  <2>1. ensureWritableBytes(b, n) = e
    BY <1>3 DEF ensureWritableBytes, makeSpace
  <2>2. /\ e \in [cells : Seq(Bytes), r : Nat, w : Nat]
        /\ e.r = b.r /\ e.w = b.w /\ Len(e.cells) = b.w + n
        /\ \A i \in 1..b.w : e.cells[i] = b.cells[i]
    <3>1. b.w + n \in Nat
      BY <1>1
    <3>2. /\ e.cells = Resized(b.cells, b.w + n) /\ e.r = b.r /\ e.w = b.w
          /\ e = [b EXCEPT !.cells = Resized(b.cells, b.w + n)]
      BY <1>1 DEF Grown
    <3>3. /\ Resized(b.cells, b.w + n) \in Seq(Bytes)
          /\ Len(Resized(b.cells, b.w + n)) = b.w + n
          /\ \A i \in 1..(b.w + n) : i <= Len(b.cells) => Resized(b.cells, b.w + n)[i] = b.cells[i]
      BY <1>1, <3>1, ResizedCells
    <3> QED BY <1>1, <3>2, <3>3
  <2> HIDE DEF e
  <2>3. IsBuffer(e)
    BY <1>1, <2>2 DEF IsBuffer
  <2>4. Content(e) = Content(b)
    <3>1. Content(e) \in Seq(Bytes) /\ Content(b) \in Seq(Bytes) /\ Len(Content(e)) = Len(Content(b))
      BY <2>2, <2>3, ContentIs
    <3>2. \A i \in 1..Len(Content(e)) : Content(e)[i] = Content(b)[i]
      <4> SUFFICES ASSUME NEW i \in 1..(b.w - b.r) PROVE Content(e)[i] = Content(b)[i]
        BY <2>2, <2>3, ContentIs
      <4>1. Content(e)[i] = e.cells[b.r + i] /\ Content(b)[i] = b.cells[b.r + i]
        BY <2>2, <2>3, ContentIs
      <4>2. b.r + i \in 1..b.w
        BY <1>1
      <4> QED BY <2>2, <4>1, <4>2
    <3> QED BY <3>1, <3>2, SeqEqual
  <2>5. writableBytes(e) >= n
    BY <1>1, <2>2 DEF writableBytes
  <2> QED BY <2>1, <2>3, <2>4, <2>5
<1>4. CASE writableBytes(b) < n /\ ~(writableBytes(b) + prependableBytes(b) < n + CheapPrepend)
  <2> DEFINE e == Moved(b)
             c == Content(b)
  <2>1. ensureWritableBytes(b, n) = e
    BY <1>4 DEF ensureWritableBytes, makeSpace
  <2>2. /\ c \in Seq(Bytes) /\ Len(c) = b.w - b.r
    BY ContentIs
  <2>3. /\ e.cells = Copied(b.cells, CheapPrepend, c)
        /\ e.r = CheapPrepend /\ e.w = CheapPrepend + (b.w - b.r)
        /\ e = [cells |-> e.cells, r |-> e.r, w |-> e.w]
    BY DEF Moved, readableBytes
  <2> HIDE DEF e, c
  <2>4. /\ e.cells \in Seq(Bytes) /\ Len(e.cells) = Len(b.cells)
        /\ \A i \in 1..Len(b.cells) :
              e.cells[i] = IF i \in (CheapPrepend + 1)..(CheapPrepend + Len(c))
                           THEN c[i - CheapPrepend] ELSE b.cells[i]
    <3>1. /\ Copied(b.cells, CheapPrepend, c) \in Seq(Bytes)
          /\ Len(Copied(b.cells, CheapPrepend, c)) = Len(b.cells)
      BY <1>1, <2>2, CopiedCells
    <3>2. \A i \in 1..Len(b.cells) :
             Copied(b.cells, CheapPrepend, c)[i] =
                IF i \in (CheapPrepend + 1)..(CheapPrepend + Len(c))
                THEN c[i - CheapPrepend] ELSE b.cells[i]
      BY <1>1, <2>2, CopiedCells
    <3> QED BY <2>3, <3>1, <3>2
  <2>5. IsBuffer(e)
    BY <1>1, <2>3, <2>4 DEF IsBuffer
  <2>6. Content(e) = c
    <3>1. Content(e) \in Seq(Bytes) /\ Len(Content(e)) = Len(c)
      BY <1>1, <2>2, <2>3, <2>5, ContentIs
    <3>2. ASSUME NEW i \in 1..Len(Content(e)) PROVE Content(e)[i] = c[i]
      <4>1. i \in 1..(e.w - e.r) /\ Content(e)[i] = e.cells[CheapPrepend + i]
        BY <1>1, <2>2, <2>3, <2>5, <3>1, ContentIs
      <4>2. /\ CheapPrepend + i \in 1..Len(b.cells)
            /\ CheapPrepend + i \in (CheapPrepend + 1)..(CheapPrepend + Len(c))
            /\ (CheapPrepend + i) - CheapPrepend = i
        BY <1>1, <2>2, <3>1
      <4> QED BY <2>4, <4>1, <4>2
    <3> QED BY <2>2, <3>1, <3>2, SeqEqual
  <2>7. writableBytes(e) >= n
    BY <1>1, <1>4, <2>3, <2>4 DEF writableBytes, prependableBytes
  <2> QED BY <2>1, <2>5, <2>6, <2>7 DEF c
<1>5. writableBytes(b) \in Int
  BY <1>1 DEF writableBytes
<1> QED BY <1>2, <1>3, <1>4, <1>5

(* Copying behind the content into space that is there appends to it. *)
LEMMA Filled ==
  ASSUME NEW b, IsBuffer(b), NEW bytes \in Seq(Bytes), Len(bytes) <= writableBytes(b)
  PROVE  LET f == [b EXCEPT !.cells = Copied(@, b.w, bytes), !.w = @ + Len(bytes)]
         IN  IsBuffer(f) /\ Content(f) = Content(b) \o bytes
<1> DEFINE f == [b EXCEPT !.cells = Copied(@, b.w, bytes), !.w = @ + Len(bytes)]
           c == Content(b)
<1>1. /\ b.cells \in Seq(Bytes) /\ Len(b.cells) \in Nat /\ Len(bytes) \in Nat
      /\ b.r \in Nat /\ b.w \in Nat /\ CheapPrepend \in Nat
      /\ CheapPrepend <= b.r /\ b.r <= b.w /\ b.w + Len(bytes) <= Len(b.cells)
      /\ b \in [cells : Seq(Bytes), r : Nat, w : Nat]
  BY BufferTyped, LenProperties DEF IsBuffer, writableBytes
<1>2. f.cells = Copied(b.cells, b.w, bytes) /\ f.r = b.r /\ f.w = b.w + Len(bytes)
  BY <1>1
<1>3. /\ f.cells \in Seq(Bytes) /\ Len(f.cells) = Len(b.cells)
      /\ f \in [cells : Seq(Bytes), r : Nat, w : Nat]
      /\ \A i \in 1..Len(b.cells) :
            f.cells[i] = IF i \in (b.w + 1)..(b.w + Len(bytes)) THEN bytes[i - b.w] ELSE b.cells[i]
  <2>1. /\ Copied(b.cells, b.w, bytes) \in Seq(Bytes)
        /\ Len(Copied(b.cells, b.w, bytes)) = Len(b.cells)
    BY <1>1, CopiedCells
  <2>2. \A i \in 1..Len(b.cells) :
           Copied(b.cells, b.w, bytes)[i] =
              IF i \in (b.w + 1)..(b.w + Len(bytes)) THEN bytes[i - b.w] ELSE b.cells[i]
    BY <1>1, CopiedCells
  <2>3. b.w + Len(bytes) \in Nat
    BY <1>1
  <2>4. f \in [cells : Seq(Bytes), r : Nat, w : Nat]
    BY <1>1, <2>1, <2>3
  <2> HIDE DEF f
  <2> QED BY <1>2, <2>1, <2>2, <2>4
<1> HIDE DEF f, c
<1>4. /\ c \in Seq(Bytes) /\ Len(c) = b.w - b.r
      /\ \A i \in 1..(b.w - b.r) : c[i] = b.cells[b.r + i]
  BY ContentIs DEF c
<1>5. IsBuffer(f)
  BY <1>1, <1>2, <1>3 DEF IsBuffer
<1>6. Content(f) = c \o bytes
  <2>1. /\ c \o bytes \in Seq(Bytes) /\ Len(c \o bytes) = Len(c) + Len(bytes)
        /\ \A i \in 1..(Len(c) + Len(bytes)) :
              (c \o bytes)[i] = IF i <= Len(c) THEN c[i] ELSE bytes[i - Len(c)]
    BY <1>4, ConcatProperties
  <2>2. /\ Content(f) \in Seq(Bytes) /\ Len(Content(f)) = Len(c) + Len(bytes)
        /\ \A i \in 1..(Len(c) + Len(bytes)) : Content(f)[i] = f.cells[b.r + i]
    <3>1. f.w - f.r = Len(c) + Len(bytes)
      BY <1>1, <1>2, <1>4
    <3> QED BY <1>2, <1>5, <3>1, ContentIs
  <2>3. ASSUME NEW i \in 1..(Len(c) + Len(bytes)) PROVE Content(f)[i] = (c \o bytes)[i]
    <3>1. b.r + i \in 1..Len(b.cells)
      BY <1>1, <1>4
    <3>2. CASE i <= Len(c)
      <4>1. i \in 1..(b.w - b.r) /\ ~(b.r + i \in (b.w + 1)..(b.w + Len(bytes)))
        BY <1>1, <1>4, <3>2
      <4> QED BY <1>3, <1>4, <2>1, <2>2, <3>1, <3>2, <4>1
    <3>3. CASE ~(i <= Len(c))
      <4>1. b.r + i \in (b.w + 1)..(b.w + Len(bytes)) /\ (b.r + i) - b.w = i - Len(c)
        <5>1. Len(c) = b.w - b.r /\ Len(c) \in Nat
          BY <1>1, <1>4
        <5> QED BY <1>1, <3>3, <5>1
      <4>2. f.cells[b.r + i] = bytes[i - Len(c)]
        BY <1>3, <3>1, <4>1
      <4>3. (c \o bytes)[i] = bytes[i - Len(c)]
        BY <2>1, <3>3
      <4> QED BY <2>2, <4>2, <4>3
    <3> QED BY <3>2, <3>3
  <2> QED BY <2>1, <2>2, <2>3, SeqEqual
<1> QED BY <1>5, <1>6 DEF f, c

-----------------------------------------------------------------------------
(* append() adds the bytes behind the content, wherever it finds the space for *)
(* them (buffer.h:98-113).                                                     *)
THEOREM AppendAppends ==
  ASSUME NEW b, IsBuffer(b), NEW bytes \in Seq(Bytes)
  PROVE  IsBuffer(append(b, bytes)) /\ Content(append(b, bytes)) = Content(b) \o bytes
<1> DEFINE e == ensureWritableBytes(b, Len(bytes))
<1>1. Len(bytes) \in Nat
  BY LenProperties
<1>2. IsBuffer(e) /\ Content(e) = Content(b) /\ writableBytes(e) >= Len(bytes)
  BY <1>1, SpaceMade
<1>3. append(b, bytes) = [e EXCEPT !.cells = Copied(@, e.w, bytes), !.w = @ + Len(bytes)]
  BY DEF append
<1> HIDE DEF e
<1>4. Len(bytes) <= writableBytes(e)
  <2>1. writableBytes(e) \in Int
    BY <1>2, BufferTyped DEF writableBytes
  <2> QED BY <1>1, <1>2, <2>1
<1> QED BY <1>2, <1>3, <1>4, Filled

(* retrieve() drops that many bytes from the front of the content              *)
(* (buffer.h:58-70).                                                           *)
THEOREM RetrieveDrops ==
  ASSUME NEW b, IsBuffer(b), NEW k \in 0..Len(Content(b))
  PROVE  /\ IsBuffer(retrieve(b, k))
         /\ Content(retrieve(b, k)) = SubSeq(Content(b), k + 1, Len(Content(b)))
<1> DEFINE f == retrieve(b, k)
           c == Content(b)
<1>1. /\ b.cells \in Seq(Bytes) /\ Len(b.cells) \in Nat
      /\ b.r \in Nat /\ b.w \in Nat /\ CheapPrepend \in Nat
      /\ CheapPrepend <= b.r /\ b.r <= b.w /\ b.w <= Len(b.cells)
      /\ b \in [cells : Seq(Bytes), r : Nat, w : Nat]
  BY BufferTyped DEF IsBuffer
<1>2. /\ c \in Seq(Bytes) /\ Len(c) = b.w - b.r
      /\ \A i \in 1..(b.w - b.r) : c[i] = b.cells[b.r + i]
  BY ContentIs
<1> HIDE DEF c
<1>3. k \in Nat /\ k <= b.w - b.r
  BY <1>1, <1>2 DEF c
<1>4. CASE k < readableBytes(b)
  <2>1. f = [b EXCEPT !.r = b.r + k]
    BY <1>1, <1>4 DEF retrieve
  <2>2. /\ f \in [cells : Seq(Bytes), r : Nat, w : Nat]
        /\ f.cells = b.cells /\ f.r = b.r + k /\ f.w = b.w
    BY <1>1, <1>3, <2>1
  <2> HIDE DEF f
  <2>3. IsBuffer(f)
    BY <1>1, <1>3, <2>2 DEF IsBuffer
  <2>4. /\ Content(f) \in Seq(Bytes) /\ Len(Content(f)) = f.w - f.r
        /\ \A i \in 1..(f.w - f.r) : Content(f)[i] = f.cells[f.r + i]
    BY <2>3, ContentIs
  <2>5. Len(Content(f)) = Len(c) - k
    BY <1>1, <1>2, <1>3, <2>2, <2>4
  <2>6. ASSUME NEW i \in 1..Len(Content(f)) PROVE Content(f)[i] = c[k + i]
    <3>1. i \in 1..(f.w - f.r) /\ k + i \in 1..(b.w - b.r) /\ b.r + (k + i) = (b.r + k) + i
      <4>1. i \in 1..(f.w - f.r) /\ f.w - f.r = b.w - (b.r + k)
        BY <2>2, <2>4
      <4> QED BY <1>1, <1>3, <4>1
    <3>2. Content(f)[i] = b.cells[(b.r + k) + i]
      <4>1. Content(f)[i] = f.cells[f.r + i]
        BY <2>4, <3>1
      <4> QED BY <2>2, <4>1
    <3>3. c[k + i] = b.cells[b.r + (k + i)]
      BY <1>2, <3>1
    <3> QED BY <3>1, <3>2, <3>3
  <2>7. k \in 0..Len(c)
    BY <1>1, <1>2, <1>3
  <2>8. Content(f) = SubSeq(c, k + 1, Len(c))
    <3>1. Content(f) \in Seq(Bytes) /\ c \in Seq(Bytes)
      BY <1>2, <2>4
    <3> QED BY <2>5, <2>6, <2>7, <3>1, SuffixIs
  <2> QED BY <2>3, <2>8 DEF f, c
<1>5. CASE ~(k < readableBytes(b))
  <2>1. f = [b EXCEPT !.r = CheapPrepend, !.w = CheapPrepend]
    BY <1>5 DEF retrieve, retrieveAll
  <2>2. /\ f \in [cells : Seq(Bytes), r : Nat, w : Nat]
        /\ f.cells = b.cells /\ f.r = CheapPrepend /\ f.w = CheapPrepend
    BY <1>1, <2>1
  <2> HIDE DEF f
  <2>3. IsBuffer(f)
    BY <1>1, <2>2 DEF IsBuffer
  <2>4. Content(f) \in Seq(Bytes) /\ Len(Content(f)) = f.w - f.r
    BY <2>3, ContentIs
  <2>5. k = b.w - b.r /\ Len(Content(f)) = 0
    BY <1>1, <1>3, <1>5, <2>2, <2>4 DEF readableBytes
  <2>6. Len(Content(f)) = Len(c) - k /\ k \in 0..Len(c)
    BY <1>1, <1>2, <1>3, <2>5
  <2>7. \A i \in 1..Len(Content(f)) : Content(f)[i] = c[k + i]
    BY <2>5
  <2>8. Content(f) = SubSeq(c, k + 1, Len(c))
    BY <1>2, <2>4, <2>6, <2>7, SuffixIs
  <2> QED BY <2>3, <2>8 DEF f, c
<1> QED BY <1>4, <1>5

(* Appending one by one or together. *)
LEMMA Regrouped ==
  ASSUME NEW s \in Seq(Bytes), NEW t \in Seq(Bytes), NEW u \in Seq(Bytes)
  PROVE  (s \o t) \o u = s \o (t \o u)
BY ConcatAssociative, SMTT(30)

(* readFd() adds what it read behind the content, also when it fills the vector *)
(* to its last byte and the rest goes through extrabuf (buffer.cpp:25-57).      *)
THEOREM ReadAppends ==
  ASSUME NEW b, IsBuffer(b), NEW bytes \in Seq(Bytes)
  PROVE  IsBuffer(readFd(b, bytes)) /\ Content(readFd(b, bytes)) = Content(b) \o bytes
<1> DEFINE room == writableBytes(b)
<1>1. /\ b.cells \in Seq(Bytes) /\ Len(b.cells) \in Nat /\ Len(bytes) \in Nat
      /\ b.w \in Nat /\ b.w <= Len(b.cells)
      /\ room \in Nat /\ b.w + room = Len(b.cells)
      /\ b \in [cells : Seq(Bytes), r : Nat, w : Nat]
  BY BufferTyped, LenProperties DEF IsBuffer, writableBytes
<1>2. CASE Len(bytes) <= room
  <2>1. readFd(b, bytes) = [b EXCEPT !.cells = Copied(@, b.w, bytes), !.w = @ + Len(bytes)]
    BY <1>2 DEF readFd
  <2> QED BY <1>2, <2>1, Filled
<1>3. CASE ~(Len(bytes) <= room)
  <2> DEFINE head == SubSeq(bytes, 1, room)
             tail == SubSeq(bytes, room + 1, Len(bytes))
             f == [b EXCEPT !.cells = Copied(@, b.w, head), !.w = Len(b.cells)]
             g == [b EXCEPT !.cells = Copied(@, b.w, head), !.w = @ + Len(head)]
  <2>1. readFd(b, bytes) = append(f, tail)
    BY <1>3 DEF readFd
  <2>2. head \in Seq(Bytes) /\ Len(head) = room /\ tail \in Seq(Bytes)
    <3> HIDE DEF room
    <3>1. \A i \in 1..Len(bytes) : bytes[i] \in Bytes
      BY ElementOfSeq
    <3>2. /\ 1 \in Int /\ room \in Int /\ room + 1 \in Int /\ Len(bytes) \in Int
          /\ \A i \in 1..room : bytes[i] \in Bytes
          /\ \A i \in (room + 1)..Len(bytes) : bytes[i] \in Bytes
      BY <1>1, <1>3, <3>1
    <3>3. head \in Seq(Bytes) /\ Len(head) = IF 1 <= room THEN room - 1 + 1 ELSE 0
      BY <3>2, SubSeqProperties
    <3>4. tail \in Seq(Bytes)
      BY <3>2, SubSeqProperties
    <3> QED BY <1>1, <3>3, <3>4
  <2>3. head \o tail = bytes
    <3> HIDE DEF room
    <3>1. 1 \in 1..(Len(bytes) + 1) /\ room \in (1 - 1)..Len(bytes) /\ Len(bytes) \in room..Len(bytes)
      BY <1>1, <1>3
    <3>2. head \o tail = SubSeq(bytes, 1, Len(bytes))
      BY <3>1, ConcatAdjacentSubSeq
    <3> QED BY <3>2, SubSeqFull
  <2> HIDE DEF head, tail
  <2>4. f = g
    BY <1>1, <2>2
  <2>5. Len(head) <= writableBytes(b)
    BY <1>1, <2>2
  <2>6. IsBuffer(g) /\ Content(g) = Content(b) \o head
    BY <2>2, <2>5, Filled
  <2> HIDE DEF f, g, room
  <2>7. IsBuffer(append(f, tail)) /\ Content(append(f, tail)) = Content(f) \o tail
    BY <2>2, <2>4, <2>6, AppendAppends
  <2>8. Content(b) \in Seq(Bytes)
    BY ContentIs
  <2>9. (Content(b) \o head) \o tail = Content(b) \o (head \o tail)
    BY <2>2, <2>8, Regrouped, Zenon
  <2> QED BY <2>1, <2>3, <2>4, <2>6, <2>7, <2>9
<1> QED BY <1>2, <1>3

(* A new buffer holds nothing. *)
LEMMA NewIsEmpty == IsBuffer(NewBuffer) /\ Content(NewBuffer) = <<>>
<1> DEFINE c == NewBuffer.cells
<1>1. /\ CheapPrepend \in Nat /\ InitialSize \in Nat /\ Zero \in Bytes
      /\ CheapPrepend + InitialSize \in Nat
  BY BufferAssumption
<1>2. /\ c = [i \in 1..(CheapPrepend + InitialSize) |-> Zero]
      /\ NewBuffer.r = CheapPrepend /\ NewBuffer.w = CheapPrepend
      /\ NewBuffer = [cells |-> c, r |-> CheapPrepend, w |-> CheapPrepend]
  BY DEF NewBuffer
<1> HIDE DEF c
<1>3. c \in [1..(CheapPrepend + InitialSize) -> Bytes]
  BY <1>1, <1>2
<1>4. c \in Seq(Bytes)
  BY <1>1, <1>3, SeqDef
<1>5. Len(c) = CheapPrepend + InitialSize
  BY <1>1, <1>3, <1>4, LenProperties
<1>6. IsBuffer(NewBuffer)
  BY <1>1, <1>2, <1>4, <1>5 DEF IsBuffer, c
<1>7. Content(NewBuffer) \in Seq(Bytes) /\ Len(Content(NewBuffer)) = 0
  BY <1>1, <1>2, <1>6, ContentIs
<1> QED BY <1>6, <1>7, EmptySeq

-----------------------------------------------------------------------------
(* A set of natural numbers has a least element. *)
LEMMA Least ==
  ASSUME NEW T, T \subseteq Nat, T # {}
  PROVE  Min(T) \in T /\ \A j \in T : Min(T) <= j
<1>1. PICK x \in T : \A y \in T : <<y, x>> \notin OpToRel(<, Nat)
  BY NatLessThanWellFounded, WFMin, Zenon
<1>2. \A y \in T : x <= y
  <2> SUFFICES ASSUME NEW y \in T, ~(x <= y) PROVE FALSE
    OBVIOUS
  <2>1. x \in Nat /\ y \in Nat
    BY <1>1
  <2>2. <<y, x>> \in Nat \X Nat /\ <<y, x>>[1] < <<y, x>>[2]
    BY <2>1
  <2>3. <<y, x>> \in OpToRel(<, Nat)
    BY <2>2 DEF OpToRel
  <2> QED BY <1>1, <2>3
<1> QED BY <1>1, <1>2 DEF Min

(* What a request takes out of the buffer ends at the first LF there. *)
LEMMA LineTaken ==
  ASSUME NEW s \in Seq(Bytes), LineEnds(s) # {}
  PROVE  /\ bytesToSkip(s) \in 1..Len(s) /\ s[bytesToSkip(s)] = LF
         /\ \A i \in 1..(bytesToSkip(s) - 1) : s[i] # LF
<1> DEFINE e == LineEnd(s)
<1>1. Len(s) \in Nat /\ CR # LF
  BY LenProperties DEF CR, LF
<1>2. LineEnds(s) \subseteq Nat
  BY <1>1 DEF LineEnds
<1>3. e \in LineEnds(s) /\ \A j \in LineEnds(s) : e <= j
  BY <1>2, Least DEF LineEnd
<1> HIDE DEF e
<1>4. /\ e \in 1..Len(s)
      /\ s[e] = LF \/ (s[e] = CR /\ e < Len(s) /\ s[e + 1] = LF)
  BY <1>3 DEF LineEnds
<1>5. ASSUME NEW i \in 1..(e - 1) PROVE s[i] # LF
  <2>1. i \in 1..Len(s) /\ ~(e <= i)
    BY <1>1, <1>4
  <2>2. i \notin LineEnds(s)
    BY <1>3, <2>1
  <2> QED BY <2>1, <2>2 DEF LineEnds
<1>6. CASE s[e] = CR
  <2>1. bytesToSkip(s) = e + 1 /\ e + 1 \in 1..Len(s) /\ s[e + 1] = LF
    BY <1>1, <1>4, <1>6 DEF bytesToSkip, e
  <2>2. \A i \in 1..((e + 1) - 1) : s[i] # LF
    BY <1>1, <1>4, <1>5, <1>6
  <2> QED BY <2>1, <2>2
<1>7. CASE s[e] # CR
  <2>1. bytesToSkip(s) = e /\ s[e] = LF
    BY <1>4, <1>7 DEF bytesToSkip, e
  <2> QED BY <1>4, <1>5, <2>1
<1> QED BY <1>6, <1>7

(* Up to the next LF there is one LF more. *)
LEMMA OneLineMore ==
  ASSUME NEW u \in Seq(Bytes), NEW n \in Nat, NEW k \in Nat, k >= 1,
         u[n + k] = LF, \A i \in (n + 1)..(n + k - 1) : u[i] # LF
  PROVE  Cardinality({i \in 1..(n + k) : u[i] = LF}) = Cardinality({i \in 1..n : u[i] = LF}) + 1
<1> DEFINE T == {i \in 1..n : u[i] = LF}
           U == {i \in 1..(n + k) : u[i] = LF}
<1>1. IsFiniteSet(T)
  <2>1. IsFiniteSet(1..n)
    BY FS_Interval
  <2>2. T \in SUBSET (1..n)
    OBVIOUS
  <2> HIDE DEF T
  <2> QED BY <2>1, <2>2, FS_Subset
<1>2. U = T \cup {n + k}
  <2>1. ASSUME NEW i \in U PROVE i \in T \cup {n + k}
    <3>1. i \in 1..(n + k) /\ u[i] = LF
      OBVIOUS
    <3>2. i \in 1..n \/ i \in (n + 1)..(n + k - 1) \/ i = n + k
      BY <3>1
    <3> QED BY <3>1, <3>2
  <2>2. ASSUME NEW i \in T PROVE i \in U
    BY <2>2
  <2>3. n + k \in U
    OBVIOUS
  <2> QED BY <2>1, <2>2, <2>3
<1>3. n + k \notin T
  OBVIOUS
<1> HIDE DEF T, U
<1>4. Cardinality(T \cup {n + k}) = Cardinality(T) + 1
  BY <1>1, <1>3, FS_AddElement
<1> QED BY <1>2, <1>4 DEF T, U

-----------------------------------------------------------------------------
(* A prefix of the stream that is n whole lines is the only one. *)
LEMMA OneEnd ==
  ASSUME NEW u \in Seq(Bytes), NEW i \in Nat, NEW j \in Nat, NEW n,
         WholeLines(u, i, n), WholeLines(u, j, n), i < j
  PROVE  FALSE
<1> DEFINE T == {a \in 1..i : u[a] = LF}
           U == {a \in 1..j : u[a] = LF}
<1>1. IsFiniteSet(U)
  <2>1. IsFiniteSet(1..j) /\ U \in SUBSET (1..j)
    BY FS_Interval
  <2> HIDE DEF U
  <2> QED BY <2>1, FS_Subset
<1>2. T \in SUBSET U
  OBVIOUS
<1>3. j \in U /\ j \notin T
  BY DEF WholeLines
<1>4. Cardinality(T) = n /\ Cardinality(U) = n
  BY DEF WholeLines
<1> HIDE DEF T, U
<1> QED BY <1>1, <1>2, <1>3, <1>4, FS_Subset

(* So it is the one that LinesEnd chooses. *)
LEMMA LinesEndIs ==
  ASSUME NEW u \in Seq(Bytes), NEW i \in 0..Len(u), NEW n, WholeLines(u, i, n)
  PROVE  LinesEnd(u, n) = i
<1>1. Len(u) \in Nat
  BY LenProperties
<1>2. PICK j \in 0..Len(u) : j = LinesEnd(u, n) /\ WholeLines(u, j, n)
  BY DEF LinesEnd
<1>3. i \in Nat /\ j \in Nat /\ ~(i < j) /\ ~(j < i)
  BY <1>1, <1>2, OneEnd
<1> QED BY <1>2, <1>3

(* What comes behind a prefix does not change the lines in it. *)
LEMMA WholeLinesKept ==
  ASSUME NEW u \in Seq(Bytes), NEW v \in Seq(Bytes), Len(u) <= Len(v),
         \A a \in 1..Len(u) : v[a] = u[a],
         NEW i \in 0..Len(u), NEW n, WholeLines(u, i, n)
  PROVE  i \in 0..Len(v) /\ WholeLines(v, i, n)
<1>1. Len(u) \in Nat /\ Len(v) \in Nat
  BY LenProperties
<1>2. \A a \in 1..i : v[a] = u[a]
  BY <1>1
<1>3. {a \in 1..i : v[a] = LF} = {a \in 1..i : u[a] = LF}
  BY <1>2
<1>4. i = 0 \/ v[i] = LF
  BY <1>1, <1>2 DEF WholeLines
<1>5. Cardinality({a \in 1..i : v[a] = LF}) = n
  BY <1>3 DEF WholeLines
<1>6. i \in 0..Len(v)
  BY <1>1
<1> QED BY <1>4, <1>5, <1>6 DEF WholeLines

(* Nor the bytes between two places in it. *)
LEMMA SamePart ==
  ASSUME NEW u \in Seq(Bytes), NEW v \in Seq(Bytes), Len(u) <= Len(v),
         \A a \in 1..Len(u) : v[a] = u[a],
         NEW b \in 1..(Len(u) + 1), NEW j \in 0..Len(u)
  PROVE  SubSeq(v, b, j - 1) = SubSeq(u, b, j - 1)
<1> DEFINE c == j - 1
<1>1. Len(u) \in Nat /\ Len(v) \in Nat /\ b \in Int /\ c \in Int
  BY LenProperties
<1>2. ASSUME NEW a \in b..c PROVE u[a] \in Bytes /\ v[a] = u[a]
  <2>1. a \in 1..Len(u)
    BY <1>1
  <2> QED BY <2>1, ElementOfSeq
<1> HIDE DEF c
<1>3. /\ SubSeq(u, b, c) \in Seq(Bytes)
      /\ Len(SubSeq(u, b, c)) = IF b <= c THEN c - b + 1 ELSE 0
      /\ \A a \in 1..(c - b + 1) : SubSeq(u, b, c)[a] = u[b + a - 1]
  <2>1. \A a \in b..c : u[a] \in Bytes
    BY <1>2
  <2> QED BY <1>1, <2>1, SubSeqProperties
<1>4. /\ SubSeq(v, b, c) \in Seq(Bytes)
      /\ Len(SubSeq(v, b, c)) = IF b <= c THEN c - b + 1 ELSE 0
      /\ \A a \in 1..(c - b + 1) : SubSeq(v, b, c)[a] = v[b + a - 1]
  <2>1. \A a \in b..c : v[a] \in Bytes
    BY <1>2
  <2> QED BY <1>1, <2>1, SubSeqProperties
<1>5. ASSUME NEW a \in 1..Len(SubSeq(u, b, c))
      PROVE  SubSeq(u, b, c)[a] = SubSeq(v, b, c)[a]
  <2>1. a \in 1..(c - b + 1) /\ b + a - 1 \in b..c
    BY <1>1, <1>3
  <2> QED BY <1>2, <1>3, <1>4, <2>1
<1>6. SubSeq(u, b, c) = SubSeq(v, b, c)
  BY <1>3, <1>4, <1>5, SeqEqual
<1> QED BY <1>6 DEF c

(* Nor its lines. *)
LEMMA TrueLineKept ==
  ASSUME NEW u \in Seq(Bytes), NEW v \in Seq(Bytes), Len(u) <= Len(v),
         \A a \in 1..Len(u) : v[a] = u[a], NEW n,
         NEW i \in 0..Len(u), WholeLines(u, i, n - 1),
         NEW j \in 0..Len(u), WholeLines(u, j, n)
  PROVE  TrueLine(v, n) = TrueLine(u, n)
<1>1. LinesEnd(u, n - 1) = i /\ LinesEnd(u, n) = j
  BY LinesEndIs
<1>2. LinesEnd(v, n - 1) = i /\ LinesEnd(v, n) = j
  BY WholeLinesKept, LinesEndIs
<1>3. SubSeq(v, i + 1, j - 1) = SubSeq(u, i + 1, j - 1)
  <2>1. i + 1 \in 1..(Len(u) + 1)
    BY LenProperties
  <2> QED BY <2>1, SamePart
<1> QED BY <1>1, <1>2, <1>3 DEF TrueLine

(* The part of a stream n bytes ahead. *)
LEMMA PartAhead ==
  ASSUME NEW u \in Seq(Bytes), NEW s \in Seq(Bytes), NEW n \in Nat, NEW k \in 1..Len(s),
         n + Len(s) <= Len(u), \A i \in 1..Len(s) : u[n + i] = s[i]
  PROVE  SubSeq(u, n + 1, n + k - 1) = SubSeq(s, 1, k - 1)
<1> DEFINE a == n + 1
           b == n + k - 1
           c == k - 1
<1>1. /\ Len(u) \in Nat /\ Len(s) \in Nat
      /\ a \in Int /\ b \in Int /\ c \in Int /\ b - a + 1 = c /\ c >= 0 /\ a = n + 1
  BY LenProperties
<1>2. (\A i \in a..b : u[i] \in Bytes) /\ (\A i \in 1..c : s[i] \in Bytes)
  <2>1. \A i \in a..b : i \in 1..Len(u)
    BY <1>1
  <2>2. \A i \in 1..c : i \in 1..Len(s)
    BY <1>1
  <2> QED BY <2>1, <2>2, ElementOfSeq
<1>3. ASSUME NEW i \in 1..c PROVE u[a + i - 1] = s[i]
  <2>1. i \in 1..Len(s) /\ a + i - 1 = n + i
    BY <1>1
  <2> QED BY <2>1
<1> HIDE DEF a, b, c
<1>4. /\ SubSeq(u, a, b) \in Seq(Bytes) /\ Len(SubSeq(u, a, b)) = c
      /\ \A i \in 1..c : SubSeq(u, a, b)[i] = u[a + i - 1]
  <2>1. /\ SubSeq(u, a, b) \in Seq(Bytes)
        /\ Len(SubSeq(u, a, b)) = IF a <= b THEN b - a + 1 ELSE 0
        /\ \A i \in 1..(b - a + 1) : SubSeq(u, a, b)[i] = u[a + i - 1]
    BY <1>1, <1>2, SubSeqProperties
  <2> QED BY <1>1, <2>1
<1>5. /\ SubSeq(s, 1, c) \in Seq(Bytes) /\ Len(SubSeq(s, 1, c)) = c
      /\ \A i \in 1..c : SubSeq(s, 1, c)[i] = s[i]
  <2>1. /\ SubSeq(s, 1, c) \in Seq(Bytes)
        /\ Len(SubSeq(s, 1, c)) = IF 1 <= c THEN c - 1 + 1 ELSE 0
        /\ \A i \in 1..(c - 1 + 1) : SubSeq(s, 1, c)[i] = s[1 + i - 1]
    <3>1. 1 \in Int /\ c \in Int /\ \A i \in 1..c : s[i] \in Bytes
      BY <1>1, <1>2
    <3> QED BY <3>1, SubSeqProperties
  <2>2. \A i \in 1..c : 1 + i - 1 = i /\ i \in 1..(c - 1 + 1)
    BY <1>1
  <2> QED BY <1>1, <2>1, <2>2
<1>6. SubSeq(u, a, b) = SubSeq(s, 1, c)
  BY <1>3, <1>4, <1>5, SeqEqual
<1> QED BY <1>6 DEF a, b, c

(* No bytes are no lines. *)
LEMMA NoLines == ASSUME NEW u PROVE WholeLines(u, 0, 0)
<1>1. {j \in 1..0 : u[j] = LF} = {}
  OBVIOUS
<1> QED BY <1>1, FS_EmptySet DEF WholeLines

(* parseRequest() finds the line in front of the first LF, whichever of the two *)
(* line ends it stops at.                                                       *)
LEMMA FirstLineIs ==
  ASSUME NEW s \in Seq(Bytes), LineEnds(s) # {}
  PROVE  FirstLine(s) = Chopped(Chopped(SubSeq(s, 1, bytesToSkip(s) - 1)))
<1> DEFINE e == LineEnd(s)
           k == bytesToSkip(s)
           raw == SubSeq(s, 1, k - 1)
<1>1. Len(s) \in Nat /\ CR # LF /\ k \in 1..Len(s) /\ s[k] = LF
  BY LenProperties, LineTaken DEF CR, LF
<1>2. e \in LineEnds(s) /\ \A j \in LineEnds(s) : e <= j
  <2>1. LineEnds(s) \subseteq Nat
    BY <1>1 DEF LineEnds
  <2> QED BY <2>1, Least DEF LineEnd
<1>3. e \in 1..Len(s) /\ (s[e] = CR => k = e + 1) /\ (s[e] # CR => k = e)
  BY <1>2 DEF LineEnds, bytesToSkip
<1>4. FirstLine(s) = Chopped(SubSeq(s, 1, e - 1))
  BY DEF FirstLine
<1> HIDE DEF e, k
<1>5. /\ raw \in Seq(Bytes) /\ Len(raw) = k - 1
      /\ \A a \in 1..(k - 1) : raw[a] = s[a]
  <2> DEFINE c == k - 1
  <2>1. 1 \in Int /\ c \in Int /\ \A a \in 1..c : s[a] \in Bytes
    <3>1. \A a \in 1..c : a \in 1..Len(s)
      BY <1>1
    <3> QED BY <1>1, <3>1, ElementOfSeq
  <2> HIDE DEF c
  <2>2. /\ SubSeq(s, 1, c) \in Seq(Bytes)
        /\ Len(SubSeq(s, 1, c)) = IF 1 <= c THEN c - 1 + 1 ELSE 0
        /\ \A a \in 1..(c - 1 + 1) : SubSeq(s, 1, c)[a] = s[1 + a - 1]
    BY <2>1, SubSeqProperties
  <2>3. \A a \in 1..c : SubSeq(s, 1, c)[a] = s[a]
    BY <2>1, <2>2
  <2> QED BY <1>1, <2>2, <2>3 DEF c
<1>6. CASE s[e] = CR
  <2>1. raw # <<>> /\ Len(raw) = e /\ raw[e] = CR
    BY <1>1, <1>3, <1>5, <1>6
  <2>2. Chopped(raw) = SubSeq(raw, 1, e - 1)
    BY <2>1 DEF Chopped, Last, Front
  <2>3. SubSeq(raw, 1, e - 1) = SubSeq(s, 1, e - 1)
    <3>1. /\ Len(raw) <= Len(s) /\ \A a \in 1..Len(raw) : s[a] = raw[a]
          /\ 1 \in 1..(Len(raw) + 1) /\ e \in 0..Len(raw)
      BY <1>1, <1>3, <1>5, <2>1
    <3> HIDE DEF raw
    <3> QED BY <1>5, <3>1, SamePart
  <2> QED BY <1>4, <2>2, <2>3 DEF k
<1>7. CASE s[e] # CR
  <2>1. FirstLine(s) = Chopped(raw) /\ k = e
    BY <1>3, <1>4, <1>7
  <2>2. raw = <<>> \/ Last(raw) # CR
    <3> SUFFICES ASSUME raw # <<>>, Last(raw) = CR PROVE FALSE
      OBVIOUS
    <3>1. Len(raw) \in Nat /\ Len(raw) >= 1
      BY <1>5, EmptySeq, LenProperties
    <3>2. k - 1 \in 1..Len(s) /\ s[k - 1] = CR /\ k - 1 < Len(s) /\ (k - 1) + 1 = k
      BY <1>1, <1>5, <3>1 DEF Last
    <3>3. k - 1 \in LineEnds(s)
      BY <1>1, <3>2 DEF LineEnds
    <3> QED BY <1>1, <1>2, <2>1, <3>2, <3>3
  <2>3. Chopped(raw) = raw
    BY <2>2 DEF Chopped
  <2> QED BY <2>1, <2>3 DEF k
<1> QED BY <1>6, <1>7

-----------------------------------------------------------------------------
(* A bounded set of natural numbers has a greatest element. *)
LEMMA Greatest ==
  ASSUME NEW n \in Nat, NEW T \in SUBSET (1..n), T # {}
  PROVE  Max(T) \in T /\ \A j \in T : Max(T) >= j
<1> DEFINE D == {n - x : x \in T}
<1>1. D \subseteq Nat /\ D # {}
  <2>1. \A x \in T : n - x \in Nat
    OBVIOUS
  <2>2. PICK x \in T : TRUE
    OBVIOUS
  <2>3. n - x \in D
    BY <2>2
  <2> QED BY <2>1, <2>3
<1>2. Min(D) \in D /\ \A j \in D : Min(D) <= j
  <2> HIDE DEF D
  <2> QED BY <1>1, Least
<1>3. PICK x \in T : \A j \in T : n - x <= n - j
  BY <1>2
<1>4. \A j \in T : x >= j
  BY <1>3
<1> QED BY <1>3, <1>4 DEF Max

(* A key holds the value of a PUT of that key, or nothing. *)
LEMMA LastWriteIsPut ==
  ASSUME NEW h, NEW n \in Nat, NEW key, LastWrite(h, n, key) # 0
  PROVE  /\ LastWrite(h, n, key) \in 1..n
         /\ h[LastWrite(h, n, key)].command = "PUT" /\ h[LastWrite(h, n, key)].key = key
<1> DEFINE T == {m \in 1..n : Changes(h[m], key)}
<1>1. T # {} /\ h[Max(T)].command = "PUT" /\ LastWrite(h, n, key) = Max(T)
  BY DEF LastWrite
<1>2. T \in SUBSET (1..n)
  OBVIOUS
<1>3. Max(T) \in T
  <2> HIDE DEF T
  <2> QED BY <1>1, <1>2, Greatest
<1>4. Max(T) \in 1..n /\ Changes(h[Max(T)], key)
  BY <1>3
<1>5. h[Max(T)].key = key
  BY <1>1, <1>4 DEF Changes
<1> QED BY <1>1, <1>4, <1>5

(* What one more request leaves under a key. *)
LEMMA LastWriteNext ==
  ASSUME NEW h, NEW n \in Nat, NEW key
  PROVE  LET q == h[n + 1]
         IN  LastWrite(h, n + 1, key) =
               IF q.command = "PUT" /\ q.key = key THEN n + 1
               ELSE IF Changes(q, key) THEN 0 ELSE LastWrite(h, n, key)
<1> DEFINE T == {m \in 1..n : Changes(h[m], key)}
           U == {m \in 1..(n + 1) : Changes(h[m], key)}
           q == h[n + 1]
<1>1. LastWrite(h, n, key) = IF T # {} /\ h[Max(T)].command = "PUT" THEN Max(T) ELSE 0
  BY DEF LastWrite
<1>2. LastWrite(h, n + 1, key) = IF U # {} /\ h[Max(U)].command = "PUT" THEN Max(U) ELSE 0
  BY DEF LastWrite
<1>3. CASE Changes(q, key)
  <2>1. U \in SUBSET (1..(n + 1)) /\ n + 1 \in U /\ n + 1 \in Nat
    BY <1>3
  <2> HIDE DEF U
  <2>2. Max(U) \in U /\ Max(U) >= n + 1
    BY <2>1, Greatest
  <2>3. Max(U) = n + 1 /\ U # {}
    <3>1. \A x \in 1..(n + 1) : x >= n + 1 => x = n + 1
      OBVIOUS
    <3> QED BY <2>1, <2>2, <3>1
  <2>4. q.command = "PUT" => q.key = key
    BY <1>3 DEF Changes
  <2> QED BY <1>2, <1>3, <2>3, <2>4
<1>4. CASE ~Changes(q, key)
  <2>1. U = T
    BY <1>4
  <2>2. ~(q.command = "PUT" /\ q.key = key)
    BY <1>4 DEF Changes
  <2> HIDE DEF U, T
  <2> QED BY <1>1, <1>2, <1>4, <2>1, <2>2
<1> QED BY <1>3, <1>4

(* Later requests do not change what the earlier ones left. *)
LEMMA LastWriteKept ==
  ASSUME NEW h, NEW g, NEW n \in Nat, \A m \in 1..n : g[m] = h[m], NEW key
  PROVE  LastWrite(g, n, key) = LastWrite(h, n, key)
<1> DEFINE T == {m \in 1..n : Changes(h[m], key)}
           U == {m \in 1..n : Changes(g[m], key)}
<1>1. U = T /\ T \in SUBSET (1..n)
  OBVIOUS
<1>2. LastWrite(h, n, key) = IF T # {} /\ h[Max(T)].command = "PUT" THEN Max(T) ELSE 0
  BY DEF LastWrite
<1>3. LastWrite(g, n, key) = IF U # {} /\ g[Max(U)].command = "PUT" THEN Max(U) ELSE 0
  BY DEF LastWrite
<1> HIDE DEF T, U
<1>4. T # {} => Max(T) \in 1..n
  BY <1>1, Greatest
<1> QED BY <1>1, <1>2, <1>3, <1>4

LEMMA WrittenIs ==
  ASSUME NEW h, NEW n \in Nat, NEW key
  PROVE  key \in Written(h, n) <=> LastWrite(h, n, key) # 0
<1>1. ASSUME LastWrite(h, n, key) # 0 PROVE key \in {h[m].key : m \in 1..n}
  BY <1>1, LastWriteIsPut
<1> QED BY <1>1 DEF Written

LEMMA WrittenKept ==
  ASSUME NEW h, NEW g, NEW n \in Nat, \A m \in 1..n : g[m] = h[m]
  PROVE  Written(g, n) = Written(h, n)
<1>1. \A key : LastWrite(g, n, key) = LastWrite(h, n, key)
  BY LastWriteKept
<1> QED BY <1>1, WrittenIs

(* Nor what the requests up to then were answered. *)
LEMMA AnswersKept ==
  ASSUME NEW h, NEW g, NEW o, NEW p, NEW n \in Nat \ {0},
         \A m \in 1..n : g[m] = h[m], p[n + 1] = o[n + 1], Answers(h, o, n)
  PROVE  Answers(g, p, n)
<1>1. n - 1 \in Nat /\ (\A m \in 1..(n - 1) : g[m] = h[m]) /\ g[n] = h[n]
  OBVIOUS
<1>2. \A key : LastWrite(g, n - 1, key) = LastWrite(h, n - 1, key)
  BY <1>1, LastWriteKept
<1>3. Written(g, n - 1) = Written(h, n - 1)
  BY <1>1, WrittenKept
<1> DEFINE w == LastWrite(h, n - 1, h[n].key)
<1>4. w # 0 => g[w] = h[w]
  <2>1. w # 0 => w \in 1..(n - 1)
    BY <1>1, LastWriteIsPut
  <2> QED BY <1>1, <2>1
<1>5. LastWrite(g, n - 1, g[n].key) = w
  BY <1>1, <1>2
<1> HIDE DEF w
<1> QED BY <1>1, <1>3, <1>4, <1>5 DEF Answers, w

(* The commands that parseLine() tells apart. *)
Commands == {"PUT", "GET", "DEL", "EXISTS", "SIZE", "CLEAR", "PING", "QUIT", "UNKNOWN"}

LEMMA ParsedCommand == ASSUME NEW line PROVE parseLine(line).command \in Commands
<1>1. /\ DOMAIN KeyCommands = {"G", "D", "E"}
      /\ \A c \in DOMAIN KeyCommands : KeyCommands[c] \in Commands
  BY DEF KeyCommands, Commands
<1>2. /\ DOMAIN PlainCommands = {"S", "C", "I", "Q"}
      /\ \A c \in DOMAIN PlainCommands : PlainCommands[c] \in Commands
  BY DEF PlainCommands, Commands
<1>3. "PUT" \in Commands /\ "UNKNOWN" \in Commands
  BY DEF Commands
<1> HIDE DEF Commands
<1> QED BY <1>1, <1>2, <1>3 DEF parseLine, Request, Unknown

-----------------------------------------------------------------------------
(* The requests handled are a sequence. *)
ExecutedSeq == \E S : executed \in Seq(S)

SessionInv == TypeOK /\ BytesKept /\ Framing /\ NothingLeft /\ ExecutedSeq

LEMMA InitInv == Init => SessionInv
<1> SUFFICES ASSUME Init PROVE SessionInv
  OBVIOUS
<1>1. sent = <<>> /\ wire = <<>> /\ executed = <<>> /\ input = NewBuffer
      /\ pc = "idle" /\ sends = 0 /\ connected = TRUE
  BY DEF Init
<1>2. <<>> \in Seq(Bytes) /\ Len(<<>>) = 0
  BY EmptySeq
<1>3. IsBuffer(input) /\ Content(input) = <<>>
  BY <1>1, NewIsEmpty
<1>4. TypeOK
  BY <1>1, <1>2, <1>3, SessionAssumption DEF TypeOK
<1>5. BytesKept
  <2>1. {i \in 1..0 : sent[i] = LF} = {}
    OBVIOUS
  <2>2. WholeLines(sent, 0, Len(executed))
    BY <1>1, <1>2, <2>1, FS_EmptySet DEF WholeLines
  <2>3. <<>> \o <<>> = <<>>
    BY <1>2, ConcatEmptySeq
  <2>4. SubSeq(sent, 0 + 1, Len(sent)) = <<>>
    BY <1>1, <1>2, SubSeqEmpty
  <2>5. 0 \in 0..Len(sent)
    BY <1>1, <1>2
  <2> QED BY <1>1, <1>3, <2>2, <2>3, <2>4, <2>5 DEF BytesKept
<1>6. NothingLeft
  <2>1. 1..Len(Content(input)) = {}
    BY <1>2, <1>3
  <2>2. LineEnds(Content(input)) = {}
    BY <2>1 DEF LineEnds
  <2> QED BY <2>2 DEF NothingLeft
<1>7. ExecutedSeq
  BY <1>1, <1>2 DEF ExecutedSeq
<1>8. Framing
  BY <1>1, <1>2 DEF Framing
<1> QED BY <1>4, <1>5, <1>6, <1>7, <1>8 DEF SessionInv

(* The state that the lemmas below start from, taken apart. *)
LEMMA State ==
  ASSUME SessionInv
  PROVE  /\ IsBuffer(input) /\ Content(input) \in Seq(Bytes)
         /\ sent \in Seq(Bytes) /\ wire \in Seq(Bytes)
         /\ Len(sent) \in Nat /\ Len(wire) \in Nat /\ Len(Content(input)) \in Nat
         /\ sends \in 0..MaxLines /\ MaxLines \in Nat
         /\ pc \in {"idle", "message"} /\ connected \in BOOLEAN
BY ContentIs, LenProperties, SessionAssumption DEF SessionInv, TypeOK

(* The lines handled so far stay as they were, whatever follows them. *)
LEMMA FramingKept ==
  ASSUME SessionInv, NEW v \in Seq(Bytes), Len(sent) <= Len(v),
         \A a \in 1..Len(sent) : v[a] = sent[a], NEW n \in 1..Len(executed)
  PROVE  /\ \E i \in 0..Len(v) : WholeLines(v, i, n)
         /\ executed[n] = parseLine(TrueLine(v, n))
<1>1. sent \in Seq(Bytes) /\ Len(executed) \in Nat
  BY State, LenProperties DEF SessionInv, ExecutedSeq
<1>2. PICK j \in 0..Len(sent) : WholeLines(sent, j, n)
  BY DEF SessionInv, Framing
<1>3. PICK i \in 0..Len(sent) : WholeLines(sent, i, n - 1)
  <2>1. CASE n = 1
    <3>1. 0 \in 0..Len(sent) /\ n - 1 = 0
      BY <1>1, <2>1, LenProperties
    <3> QED BY <3>1, NoLines
  <2>2. CASE n # 1
    <3>1. n - 1 \in 1..Len(executed)
      BY <1>1, <2>2
    <3> QED BY <3>1 DEF SessionInv, Framing
  <2> QED BY <2>1, <2>2
<1>4. j \in 0..Len(v) /\ WholeLines(v, j, n)
  BY <1>1, <1>2, WholeLinesKept
<1>5. TrueLine(v, n) = TrueLine(sent, n)
  BY <1>1, <1>2, <1>3, TrueLineKept
<1>6. executed[n] = parseLine(TrueLine(sent, n))
  BY DEF SessionInv, Framing
<1> QED BY <1>4, <1>5, <1>6

(* What the client sends goes behind what is on its way. *)
LEMMA SendInv ==
  ASSUME SessionInv, NEW line \in Lines, Send(line)
  PROVE  SessionInv'
<1>1. line \in Seq(Bytes) /\ Len(line) \in Nat
  BY SessionAssumption, LenProperties
<1>2. /\ sent' = sent \o line /\ wire' = wire \o line /\ sends' = sends + 1 /\ sends < MaxLines
      /\ input' = input /\ pc' = pc /\ connected' = connected /\ executed' = executed
  BY DEF Send
<1> DEFINE c == Content(input)
<1>3. /\ c \in Seq(Bytes) /\ sent \in Seq(Bytes) /\ wire \in Seq(Bytes)
      /\ Len(sent) \in Nat
  BY State
<1>4. PICK n \in 0..Len(sent) : WholeLines(sent, n, Len(executed)) /\ c \o wire = SubSeq(sent, n + 1, Len(sent))
  BY DEF SessionInv, BytesKept
<1>5. Content(input') = c
  BY <1>2
<1>6. TypeOK'
  <2>1. sent \o line \in Seq(Bytes) /\ wire \o line \in Seq(Bytes)
    BY <1>1, <1>3, ConcatProperties
  <2>2. sends + 1 \in 0..MaxLines
    BY <1>2, State
  <2> QED BY <1>2, <2>1, <2>2, State DEF TypeOK
<1>7. BytesKept'
  <2>1. PICK old \in Seq(Bytes) : old = sent
    BY <1>3
  <2>2. PICK new \in Seq(Bytes) : new = sent'
    BY <1>1, <1>2, <1>3, ConcatProperties
  <2>3. /\ Len(new) = Len(old) + Len(line) /\ Len(old) \in Nat
        /\ \A i \in 1..(Len(old) + Len(line)) :
              new[i] = IF i <= Len(old) THEN old[i] ELSE line[i - Len(old)]
    BY <1>1, <1>2, <2>1, <2>2, ConcatProperties, LenProperties
  <2>4. n \in 0..Len(old) /\ n \in 0..Len(new)
    BY <1>1, <2>1, <2>3
  <2>5. PICK rest \in Seq(Bytes) : rest = c \o wire
    BY <1>3, ConcatProperties
  <2>6. Len(rest) = Len(old) - n /\ \A i \in 1..Len(rest) : rest[i] = old[n + i]
    BY <1>4, <2>1, <2>4, <2>5, SuffixIs
  <2>7. /\ rest \o line \in Seq(Bytes) /\ Len(rest \o line) = Len(rest) + Len(line)
        /\ \A i \in 1..(Len(rest) + Len(line)) :
              (rest \o line)[i] = IF i <= Len(rest) THEN rest[i] ELSE line[i - Len(rest)]
    BY <1>1, ConcatProperties
  <2>8. Len(rest \o line) = Len(new) - n
    BY <1>1, <2>3, <2>4, <2>6, <2>7
  <2>9. ASSUME NEW i \in 1..Len(rest \o line) PROVE (rest \o line)[i] = new[n + i]
    <3>1. n + i \in 1..(Len(old) + Len(line)) /\ i \in 1..(Len(rest) + Len(line))
      BY <1>1, <2>3, <2>4, <2>6, <2>7
    <3>2. CASE i <= Len(rest)
      BY <2>3, <2>4, <2>6, <2>7, <3>1, <3>2
    <3>3. CASE ~(i <= Len(rest))
      <4>1. ~(n + i <= Len(old)) /\ (n + i) - Len(old) = i - Len(rest)
        BY <2>3, <2>4, <2>6, <3>3
      <4> QED BY <2>3, <2>7, <3>1, <3>3, <4>1
    <3> QED BY <3>2, <3>3
  <2>10. rest \o line = SubSeq(new, n + 1, Len(new))
    BY <2>4, <2>7, <2>8, <2>9, SuffixIs
  <2>11. c \o (wire \o line) = rest \o line
    <3>1. (c \o wire) \o line = c \o (wire \o line)
      <4>1. PICK d \in Seq(Bytes) : d = c
        BY <1>3
      <4>2. (d \o wire) \o line = d \o (wire \o line)
        <5>1. wire \in Seq(Bytes) /\ line \in Seq(Bytes)
          BY <1>1, <1>3
        <5> QED BY <5>1, Regrouped, Zenon
      <4> QED BY <4>1, <4>2
    <3> QED BY <2>5, <3>1
  <2>12. WholeLines(sent, n, Len(executed))'
    <3>1. \A i \in 1..n : new[i] = old[i]
      BY <1>1, <2>3, <2>4
    <3>2. {i \in 1..n : new[i] = LF} = {i \in 1..n : old[i] = LF}
      BY <3>1
    <3>3. n = 0 \/ new[n] = LF
      BY <1>4, <2>1, <2>4, <3>1 DEF WholeLines
    <3> QED BY <1>2, <1>4, <2>1, <2>2, <3>2, <3>3 DEF WholeLines
  <2>13. Content(input)' \o wire' = SubSeq(sent', n + 1, Len(sent'))
    BY <1>2, <1>5, <2>2, <2>10, <2>11
  <2>14. n \in 0..Len(sent')
    BY <2>2, <2>4
  <2> QED BY <2>12, <2>13, <2>14 DEF BytesKept
<1>8. NothingLeft' /\ ExecutedSeq'
  BY <1>2 DEF SessionInv, NothingLeft, ExecutedSeq
<1>9. Framing'
  <2>1. PICK v \in Seq(Bytes) : v = sent'
    BY <1>1, <1>2, <1>3, ConcatProperties
  <2>2. Len(sent) <= Len(v) /\ \A a \in 1..Len(sent) : v[a] = sent[a]
    BY <1>1, <1>2, <1>3, <2>1, ConcatProperties
  <2> QED BY <1>2, <2>1, <2>2, FramingKept DEF Framing
<1> QED BY <1>6, <1>7, <1>8, <1>9 DEF SessionInv

(* What is read moves from the stream to the end of the buffer. *)
LEMMA ReadInv ==
  ASSUME SessionInv, NEW k \in 1..Len(wire), Read(k)
  PROVE  SessionInv'
<1> DEFINE c == Content(input)
           head == SubSeq(wire, 1, k)
           tail == SubSeq(wire, k + 1, Len(wire))
<1>1. /\ input' = readFd(input, head) /\ wire' = tail /\ pc' = "message"
      /\ sent' = sent /\ sends' = sends /\ connected' = connected /\ executed' = executed
  BY DEF Read
<1>2. /\ IsBuffer(input) /\ c \in Seq(Bytes)
      /\ sent \in Seq(Bytes) /\ wire \in Seq(Bytes) /\ Len(wire) \in Nat
  BY State
<1>3. head \in Seq(Bytes) /\ tail \in Seq(Bytes)
  <2>1. \A i \in 1..Len(wire) : wire[i] \in Bytes
    BY <1>2, ElementOfSeq
  <2>2. /\ 1 \in Int /\ k \in Int /\ k + 1 \in Int /\ Len(wire) \in Int
        /\ \A i \in 1..k : wire[i] \in Bytes
        /\ \A i \in (k + 1)..Len(wire) : wire[i] \in Bytes
    BY <1>2, <2>1
  <2> QED BY <2>2, SubSeqProperties
<1>4. head \o tail = wire
  <2>1. 1 \in 1..(Len(wire) + 1) /\ k \in (1 - 1)..Len(wire) /\ Len(wire) \in k..Len(wire)
    BY <1>2
  <2>2. head \o tail = SubSeq(wire, 1, Len(wire))
    BY <1>2, <2>1, ConcatAdjacentSubSeq
  <2> QED BY <1>2, <2>2, SubSeqFull
<1> HIDE DEF c, head, tail
<1>5. IsBuffer(readFd(input, head)) /\ Content(readFd(input, head)) = c \o head
  BY <1>2, <1>3, ReadAppends DEF c
<1>6. TypeOK'
  BY <1>1, <1>3, <1>5 DEF SessionInv, TypeOK
<1>7. BytesKept'
  <2>1. PICK n \in 0..Len(sent) : WholeLines(sent, n, Len(executed)) /\ c \o wire = SubSeq(sent, n + 1, Len(sent))
    BY DEF SessionInv, BytesKept, c
  <2>2. (c \o head) \o tail = c \o (head \o tail)
    <3>1. c \in Seq(Bytes) /\ head \in Seq(Bytes) /\ tail \in Seq(Bytes)
      BY <1>2, <1>3
    <3> QED BY <3>1, Regrouped, Zenon
  <2>3. Content(input)' \o wire' = SubSeq(sent', n + 1, Len(sent'))
    BY <1>1, <1>4, <1>5, <2>1, <2>2
  <2>4. WholeLines(sent, n, Len(executed))' /\ n \in 0..Len(sent')
    BY <1>1, <2>1 DEF WholeLines
  <2> QED BY <2>3, <2>4 DEF BytesKept
<1>8. Framing' /\ NothingLeft' /\ ExecutedSeq'
  BY <1>1 DEF SessionInv, Framing, NothingLeft, ExecutedSeq
<1> QED BY <1>6, <1>7, <1>8 DEF SessionInv

(* A request takes its line from the front of the buffer, and the loop goes on *)
(* unless it was QUIT.                                                         *)
LEMMA HandleInv ==
  ASSUME SessionInv, HandleRequest
  PROVE  SessionInv'
<1> DEFINE s == Content(input)
           k == bytesToSkip(s)
           q == parseLine(FirstLine(s))
<1>1. /\ LineEnds(s) # {}
      /\ input' = retrieve(input, k) /\ executed' = Append(executed, q)
      /\ connected' = (connected /\ q.command # "QUIT")
      /\ pc' = After(q)
      /\ sent' = sent /\ sends' = sends /\ wire' = wire
  BY DEF HandleRequest
<1>2. /\ IsBuffer(input) /\ s \in Seq(Bytes) /\ Len(s) \in Nat
      /\ sent \in Seq(Bytes) /\ wire \in Seq(Bytes) /\ Len(sent) \in Nat /\ Len(wire) \in Nat
  BY State
<1> HIDE DEF s, q
<1>3. k \in 1..Len(s) /\ s[k] = LF /\ \A i \in 1..(k - 1) : s[i] # LF
  BY <1>1, <1>2, LineTaken
<1> HIDE DEF k
<1>4. /\ IsBuffer(retrieve(input, k))
      /\ Content(retrieve(input, k)) = SubSeq(s, k + 1, Len(s))
  <2>1. k \in 0..Len(Content(input))
    BY <1>2, <1>3 DEF s
  <2> QED BY <1>2, <2>1, RetrieveDrops DEF s
<1>5. After(q) \in {"idle", "message"} /\ (After(q) = "idle" => q.command = "QUIT")
  BY DEF After
<1>6. PICK S : executed \in Seq(S)
  BY DEF SessionInv, ExecutedSeq
<1>7. /\ executed' \in Seq(S \cup {q}) /\ executed' # <<>>
      /\ Len(executed') = Len(executed) + 1 /\ executed'[Len(executed) + 1] = q
  <2>1. executed \in Seq(S \cup {q}) /\ q \in S \cup {q}
    BY <1>6, SeqMonotonic
  <2> QED BY <1>1, <2>1, AppendProperties
<1>8. TypeOK'
  BY <1>1, <1>2, <1>4, <1>5, State DEF TypeOK
<1>9. BytesKept' /\ Framing'
  <2>1. PICK n \in 0..Len(sent) : WholeLines(sent, n, Len(executed)) /\ s \o wire = SubSeq(sent, n + 1, Len(sent))
    BY DEF SessionInv, BytesKept, s
  <2> DEFINE u == s \o wire
             t == SubSeq(s, k + 1, Len(s))
  <2>2. /\ u \in Seq(Bytes) /\ Len(u) = Len(s) + Len(wire)
        /\ \A i \in 1..(Len(s) + Len(wire)) : u[i] = IF i <= Len(s) THEN s[i] ELSE wire[i - Len(s)]
    BY <1>2, ConcatProperties
  <2>3. t \in Seq(Bytes)
    BY <1>4, ContentIs
  <2> HIDE DEF u, t
  <2>4. Len(t) = Len(s) - k /\ \A i \in 1..Len(t) : t[i] = s[k + i]
    <3>1. k \in 0..Len(s)
      BY <1>2, <1>3
    <3> QED BY <1>2, <2>3, <3>1, SuffixIs DEF t
  <2>5. Len(u) = Len(sent) - n /\ \A i \in 1..Len(u) : u[i] = sent[n + i]
    BY <1>2, <2>1, <2>2, SuffixIs DEF u
  <2>6. /\ t \o wire \in Seq(Bytes) /\ Len(t \o wire) = Len(t) + Len(wire)
        /\ \A i \in 1..(Len(t) + Len(wire)) :
              (t \o wire)[i] = IF i <= Len(t) THEN t[i] ELSE wire[i - Len(t)]
    BY <1>2, <2>3, ConcatProperties
  <2>7. n \in Nat /\ k \in Nat /\ k >= 1 /\ k <= Len(s) /\ n + k \in 0..Len(sent)
    BY <1>2, <1>3, <2>1, <2>2, <2>5
  <2>8. Len(t \o wire) = Len(sent) - (n + k)
    <3>1. Len(t \o wire) = (Len(s) - k) + Len(wire) /\ Len(s) + Len(wire) = Len(sent) - n
      BY <2>2, <2>4, <2>5, <2>6
    <3> QED BY <1>2, <2>7, <3>1
  <2>9. ASSUME NEW i \in 1..Len(t \o wire) PROVE (t \o wire)[i] = sent[(n + k) + i]
    <3>1. /\ i \in 1..(Len(t) + Len(wire)) /\ k + i \in 1..(Len(s) + Len(wire)) /\ k + i \in 1..Len(u)
          /\ n + (k + i) = (n + k) + i
      BY <1>2, <2>2, <2>4, <2>6, <2>7
    <3>2. u[k + i] = sent[(n + k) + i]
      BY <2>5, <3>1
    <3>3. CASE i <= Len(t)
      <4>1. i \in 1..Len(t) /\ k + i <= Len(s)
        BY <1>2, <2>4, <2>7, <3>1, <3>3
      <4> QED BY <2>2, <2>4, <2>6, <3>1, <3>2, <3>3, <4>1
    <3>4. CASE ~(i <= Len(t))
      <4>1. ~(k + i <= Len(s)) /\ (k + i) - Len(s) = i - Len(t)
        BY <1>2, <2>4, <2>7, <3>1, <3>4
      <4> QED BY <2>2, <2>6, <3>1, <3>2, <3>4, <4>1
    <3> QED BY <3>3, <3>4
  <2>10. t \o wire = SubSeq(sent, (n + k) + 1, Len(sent))
    BY <1>2, <2>6, <2>7, <2>8, <2>9, SuffixIs
  <2>11. PICK m \in Nat : m = n + k
    BY <2>7
  <2>12. WholeLines(sent, m, Len(executed))'
    <3>1. sent[m] = LF
      <4>1. k \in 1..Len(u) /\ k \in 1..(Len(s) + Len(wire))
        BY <1>2, <2>2, <2>7
      <4> QED BY <1>3, <2>2, <2>5, <2>7, <2>11, <4>1
    <3>2. ASSUME NEW i \in (n + 1)..(n + k - 1) PROVE sent[i] # LF
      <4>1. /\ i - n \in 1..(k - 1) /\ i - n \in 1..Len(u) /\ i - n \in 1..(Len(s) + Len(wire))
            /\ i - n <= Len(s) /\ n + (i - n) = i
        BY <1>2, <2>2, <2>7
      <4> QED BY <1>3, <2>2, <2>5, <4>1
    <3>3. Cardinality({i \in 1..m : sent[i] = LF}) = Cardinality({i \in 1..n : sent[i] = LF}) + 1
      <4>1. sent[n + k] = LF
        BY <2>11, <3>1
      <4>2. Cardinality({i \in 1..(n + k) : sent[i] = LF})
               = Cardinality({i \in 1..n : sent[i] = LF}) + 1
        BY <1>2, <2>7, <3>2, <4>1, OneLineMore
      <4> QED BY <2>11, <4>2
    <3>4. Cardinality({i \in 1..m : sent[i] = LF}) = Len(executed) + 1
      BY <2>1, <3>3 DEF WholeLines
    <3>5. {i \in 1..m : sent'[i] = LF} = {i \in 1..m : sent[i] = LF} /\ sent'[m] = LF
      BY <1>1, <3>1
    <3> QED BY <1>7, <3>4, <3>5 DEF WholeLines
  <2>13. Content(input)' \o wire' = SubSeq(sent', m + 1, Len(sent'))
    BY <1>1, <1>4, <2>10, <2>11 DEF t
  <2>14. m \in 0..Len(sent')
    BY <1>1, <2>7, <2>11
  <2>15. q = parseLine(TrueLine(sent, Len(executed) + 1))
    <3>1. WholeLines(sent, m, Len(executed) + 1)
      BY <1>1, <1>7, <2>12
    <3>2. LinesEnd(sent, (Len(executed) + 1) - 1) = n
      <4>1. (Len(executed) + 1) - 1 = Len(executed)
        BY <1>6, LenProperties
      <4> QED BY <1>2, <2>1, <4>1, LinesEndIs
    <3>3. LinesEnd(sent, Len(executed) + 1) = m
      BY <1>1, <1>2, <2>14, <3>1, LinesEndIs
    <3>4. SubSeq(sent, n + 1, m - 1) = SubSeq(s, 1, k - 1)
      <4>1. n + Len(s) <= Len(sent)
        BY <1>2, <2>1, <2>2, <2>5
      <4>2. ASSUME NEW i \in 1..Len(s) PROVE sent[n + i] = s[i]
        <5>1. i \in 1..(Len(s) + Len(wire)) /\ i \in 1..Len(u) /\ i <= Len(s)
          BY <1>2, <2>2
        <5> QED BY <2>2, <2>5, <5>1
      <4>3. SubSeq(sent, n + 1, n + k - 1) = SubSeq(s, 1, k - 1)
        BY <1>2, <1>3, <2>7, <4>1, <4>2, PartAhead
      <4>4. m - 1 = n + k - 1
        BY <2>7, <2>11
      <4> QED BY <4>3, <4>4
    <3>5. FirstLine(s) = Chopped(Chopped(SubSeq(s, 1, k - 1)))
      BY <1>1, <1>2, FirstLineIs DEF k
    <3> QED BY <3>2, <3>3, <3>4, <3>5 DEF TrueLine, q
  <2>16. ASSUME NEW a \in 1..Len(executed')
         PROVE  (\E i \in 0..Len(sent') : WholeLines(sent', i, a))
                /\ executed'[a] = parseLine(TrueLine(sent', a))
    <3>1. CASE a = Len(executed) + 1
      BY <1>1, <1>7, <2>12, <2>14, <2>15, <3>1
    <3>2. CASE a # Len(executed) + 1
      <4>1. a \in 1..Len(executed) /\ executed'[a] = executed[a]
        BY <1>1, <1>6, <1>7, <3>2, AppendProperties, LenProperties
      <4> QED BY <1>1, <4>1 DEF SessionInv, Framing
    <3> QED BY <3>1, <3>2
  <2> QED BY <2>12, <2>13, <2>14, <2>16 DEF BytesKept, Framing
<1>10. NothingLeft'
  <2>1. Last(executed') = q
    BY <1>7 DEF Last
  <2> QED BY <1>1, <1>5, <1>7, <2>1 DEF NothingLeft
<1>11. ExecutedSeq'
  BY <1>7 DEF ExecutedSeq
<1> QED BY <1>8, <1>9, <1>10, <1>11 DEF SessionInv

(* The invariant, from which the theorems below follow. *)
LEMMA InvCorrect == Spec => []SessionInv
<1>1. SessionInv /\ [Next]_vars => SessionInv'
  <2> SUFFICES ASSUME SessionInv, [Next]_vars PROVE SessionInv'
    OBVIOUS
  <2>1. CASE \E line \in Lines : Send(line)
    BY <2>1, SendInv
  <2>2. CASE \E n \in 1..Len(wire) : Read(n)
    BY <2>2, ReadInv
  <2>3. CASE HandleRequest
    BY <2>3, HandleInv
  <2>4. CASE MessageDone
    BY <2>4 DEF MessageDone, SessionInv, TypeOK, BytesKept, Framing, NothingLeft, ExecutedSeq
  <2>5. CASE UNCHANGED vars
    BY <2>5 DEF vars, SessionInv, TypeOK, BytesKept, Framing, NothingLeft, ExecutedSeq
  <2> QED BY <2>1, <2>2, <2>3, <2>4, <2>5 DEF Next
<1> QED BY <1>1, InitInv, PTL DEF Spec

-----------------------------------------------------------------------------
(* What handleRequest() answers, for each command. *)
LEMMA HandledIs ==
  ASSUME NEW q, q.command \in Commands
  PROVE  LET r == Handled(q)
         IN  /\ q.command = "QUIT" <=> r.status = "BYE"
             /\ q.command = "UNKNOWN" <=> r.status = "ERROR"
             /\ q.command = "PUT" => (r.message = <<"CREATED">> <=> ~Holds(q.key))
             /\ q.command \in {"GET", "DEL"} => (r.status = "NOT_FOUND" <=> ~Holds(q.key))
             /\ q.command = "GET" /\ Holds(q.key) => r.message = ValueAt(q.key)
             /\ q.command = "EXISTS" => (r.message = Number(0) <=> ~Holds(q.key))
             /\ q.command = "SIZE" => r.message = Number(StoreSize)
<1> DEFINE r == Handled(q)
           has == Holds(q.key)
<1>1. CASE q.command = "PUT"
  <2>1. r = OK(IF has THEN <<"UPDATED">> ELSE <<"CREATED">>)
    BY <1>1 DEF Handled
  <2>2. <<"UPDATED">> # <<"CREATED">>
    <3>1. <<"UPDATED">>[1] # <<"CREATED">>[1]
      OBVIOUS
    <3> QED BY <3>1
  <2>3. r.status = "OK" /\ r.message = IF has THEN <<"UPDATED">> ELSE <<"CREATED">>
    BY <2>1 DEF OK, Response
  <2> QED BY <1>1, <2>2, <2>3
<1>2. CASE q.command = "GET"
  <2>1. r = IF has THEN OK(ValueAt(q.key)) ELSE NotFound
    BY <1>2 DEF Handled
  <2>2. has => r.status = "OK" /\ r.message = ValueAt(q.key)
    BY <2>1 DEF OK, Response
  <2>3. ~has => r.status = "NOT_FOUND"
    BY <2>1 DEF NotFound, Response
  <2> QED BY <1>2, <2>2, <2>3
<1>3. CASE q.command = "DEL"
  <2>1. r = IF has THEN OK(<<"DELETED">>) ELSE NotFound
    BY <1>3 DEF Handled
  <2>2. has => r.status = "OK"
    BY <2>1 DEF OK, Response
  <2>3. ~has => r.status = "NOT_FOUND"
    BY <2>1 DEF NotFound, Response
  <2> QED BY <1>3, <2>2, <2>3
<1>4. CASE q.command = "EXISTS"
  <2>1. r = OK(Number(IF has THEN 1 ELSE 0))
    BY <1>4 DEF Handled
  <2>2. r.status = "OK" /\ r.message = Number(IF has THEN 1 ELSE 0)
    BY <2>1 DEF OK, Response
  <2> QED BY <1>4, <2>2, NumberAssumption
<1>5. CASE q.command = "SIZE"
  <2>1. r = OK(Number(StoreSize))
    BY <1>5 DEF Handled
  <2>2. r.status = "OK" /\ r.message = Number(StoreSize)
    BY <2>1 DEF OK, Response
  <2> QED BY <1>5, <2>2
<1>6. CASE q.command \in {"CLEAR", "PING", "QUIT", "UNKNOWN"}
  <2>1. CASE q.command = "CLEAR"
    <3>1. r = OK(<<"CLEARED">>)
      BY <2>1 DEF Handled
    <3> QED BY <2>1, <3>1 DEF OK, Response
  <2>2. CASE q.command = "PING"
    <3>1. r = Response("PONG", <<>>)
      BY <2>2 DEF Handled
    <3> QED BY <2>2, <3>1 DEF Response
  <2>3. CASE q.command = "QUIT"
    <3>1. r = Response("BYE", <<>>)
      BY <2>3 DEF Handled
    <3> QED BY <2>3, <3>1 DEF Response
  <2>4. CASE q.command = "UNKNOWN"
    <3>1. r = Response("ERROR", <<"Unknown command">>)
      BY <2>4 DEF Handled
    <3>2. PICK message : r = Response("ERROR", message)
      BY <3>1
    <3> QED BY <2>4, <3>2 DEF Response
  <2> QED BY <1>6, <2>1, <2>2, <2>3, <2>4
<1> QED BY <1>1, <1>2, <1>3, <1>4, <1>5, <1>6 DEF Commands

(* What it leaves in the store. *)
LEMMA StoredIs ==
  ASSUME NEW q, NEW key
  PROVE  LET puts == q.command = "PUT" /\ q.key = key
         IN  /\ key \in DOMAIN Stored(q) <=>
                  puts \/ (~Changes(q, key) /\ key \in DOMAIN store)
             /\ puts => Stored(q)[key] = q.value
             /\ ~puts /\ key \in DOMAIN Stored(q) => Stored(q)[key] = store[key]
<1>1. CASE q.command = "PUT"
  <2>1. Stored(q) = [k \in DOMAIN store \cup {q.key} |-> IF k = q.key THEN q.value ELSE store[k]]
    BY <1>1 DEF Stored
  <2> QED BY <1>1, <2>1 DEF Changes
<1>2. CASE q.command = "DEL"
  <2>1. Stored(q) = [k \in DOMAIN store \ {q.key} |-> store[k]]
    BY <1>2 DEF Stored
  <2> QED BY <1>2, <2>1 DEF Changes
<1>3. CASE q.command = "CLEAR"
  <2>1. Stored(q) = <<>> /\ DOMAIN <<>> = {}
    BY <1>3 DEF Stored
  <2> QED BY <1>3, <2>1 DEF Changes
<1>4. CASE q.command \notin {"PUT", "DEL", "CLEAR"}
  <2>1. Stored(q) = store
    BY <1>4 DEF Stored
  <2> QED BY <1>4, <2>1 DEF Changes
<1> QED BY <1>1, <1>2, <1>3, <1>4

(* The store holds what the requests so far have left, and the answers so far *)
(* are the ones that they determine.                                          *)
StoreIsLeft ==
    \A key : LET w == LastWrite(executed, Len(executed), key)
             IN  /\ key \in DOMAIN store <=> w # 0
                 /\ key \in DOMAIN store => store[key] = executed[w].value

AnswerInv ==
    /\ ExecutedSeq
    /\ \E S : out \in Seq(S)
    /\ connected = (Quits(executed) = {})
    /\ StoreIsLeft
    /\ Replies

LEMMA InitAnswers == Init => AnswerInv
<1> SUFFICES ASSUME Init PROVE AnswerInv
  OBVIOUS
<1>1. executed = <<>> /\ store = <<>> /\ connected = TRUE /\ out = <<Welcome>>
  BY DEF Init
<1>2. <<>> \in Seq({}) /\ Len(<<>>) = 0 /\ DOMAIN <<>> = {}
  BY EmptySeq
<1>3. out \in Seq({Welcome}) /\ Len(out) = 1
  BY <1>1
<1>4. Quits(executed) = {} /\ Answerable(executed) = 0
  BY <1>1, <1>2 DEF Quits, Answerable
<1>5. \A key : LastWrite(executed, 0, key) = 0
  BY LastWriteIsPut
<1>6. StoreIsLeft
  BY <1>1, <1>2, <1>5 DEF StoreIsLeft
<1>7. Replies
  BY <1>3, <1>4 DEF Replies
<1> QED BY <1>1, <1>2, <1>3, <1>4, <1>6, <1>7 DEF AnswerInv, ExecutedSeq

(* The store follows the requests. *)
LEMMA StoreInv ==
  ASSUME AnswerInv, HandleRequest
  PROVE  StoreIsLeft'
<1> DEFINE q == parseLine(FirstLine(Content(input)))
           n == Len(executed)
<1>1. store' = Stored(q) /\ executed' = Append(executed, q)
  BY DEF HandleRequest
<1> HIDE DEF q
<1>2. PICK S : executed \in Seq(S)
  BY DEF AnswerInv, ExecutedSeq
<1>3. PICK h : h = executed'
  OBVIOUS
<1>4. /\ n \in Nat /\ Len(h) = n + 1 /\ h[n + 1] = q
      /\ \A m \in 1..n : h[m] = executed[m]
  BY <1>1, <1>2, <1>3, AppendProperties, LenProperties
<1> HIDE DEF n
<1>5. ASSUME NEW key
      PROVE  LET w == LastWrite(h, n + 1, key)
             IN  /\ key \in DOMAIN Stored(q) <=> w # 0
                 /\ key \in DOMAIN Stored(q) => Stored(q)[key] = h[w].value
  <2> DEFINE w == LastWrite(h, n + 1, key)
             v == LastWrite(executed, n, key)
             puts == q.command = "PUT" /\ q.key = key
  <2>1. w = IF puts THEN n + 1 ELSE IF Changes(q, key) THEN 0 ELSE v
    <3>1. LastWrite(h, n, key) = v
      BY <1>4, LastWriteKept
    <3> QED BY <1>4, <3>1, LastWriteNext
  <2>2. /\ key \in DOMAIN store <=> v # 0
        /\ key \in DOMAIN store => store[key] = executed[v].value
    BY DEF AnswerInv, StoreIsLeft, n
  <2>3. v # 0 => h[v] = executed[v]
    <3>1. v # 0 => v \in 1..n
      BY <1>4, LastWriteIsPut
    <3> QED BY <1>4, <3>1
  <2>4. /\ key \in DOMAIN Stored(q) <=> puts \/ (~Changes(q, key) /\ key \in DOMAIN store)
        /\ puts => Stored(q)[key] = q.value
        /\ ~puts /\ key \in DOMAIN Stored(q) => Stored(q)[key] = store[key]
    BY StoredIs
  <2>5. n + 1 # 0
    BY <1>4
  <2> HIDE DEF w, v, puts
  <2>6. CASE puts
    BY <1>4, <2>1, <2>4, <2>5, <2>6 DEF w
  <2>7. CASE ~puts
    BY <2>1, <2>2, <2>3, <2>4, <2>7 DEF w
  <2> QED BY <2>6, <2>7 DEF w
<1> QED BY <1>1, <1>3, <1>4, <1>5 DEF StoreIsLeft

(* The answer to a request is the one that the requests before it determine. *)
LEMMA AnswerNext ==
  ASSUME AnswerInv, HandleRequest, connected = TRUE
  PROVE  Answers(executed', out', Len(executed) + 1)
<1> DEFINE q == parseLine(FirstLine(Content(input)))
           n == Len(executed)
           r == Handled(q)
           w == LastWrite(executed, n, q.key)
<1>1. executed' = Append(executed, q) /\ out' = Append(out, r)
  BY DEF HandleRequest, Sent
<1>2. q.command \in Commands
  BY ParsedCommand
<1> HIDE DEF q
<1>3. PICK S : executed \in Seq(S)
  BY DEF AnswerInv, ExecutedSeq
<1>4. PICK T : out \in Seq(T)
  BY DEF AnswerInv
<1>5. PICK h : h = executed'
  OBVIOUS
<1>6. /\ n \in Nat /\ h[n + 1] = q /\ (n + 1) - 1 = n
      /\ \A m \in 1..n : h[m] = executed[m]
  BY <1>1, <1>3, <1>5, AppendProperties, LenProperties
<1>7. out'[(n + 1) + 1] = r
  <2>1. Len(out) = n + 1
    <3>1. Answerable(executed) = n /\ Len(out) = 1 + Answerable(executed)
      BY DEF AnswerInv, Replies, Answerable
    <3> QED BY <1>6, <3>1
  <2>2. out'[Len(out) + 1] = r
    BY <1>1, <1>4, AppendProperties
  <2> QED BY <2>1, <2>2
<1>8. /\ Holds(q.key) <=> w # 0
      /\ Holds(q.key) => ValueAt(q.key) = executed[w].value
  BY DEF AnswerInv, StoreIsLeft, Holds, ValueAt
<1>9. StoreSize = Cardinality(Written(executed, n))
  <2>1. \A key : key \in DOMAIN store <=> LastWrite(executed, n, key) # 0
    BY DEF AnswerInv, StoreIsLeft
  <2>2. \A key : key \in Written(executed, n) <=> LastWrite(executed, n, key) # 0
    BY <1>6, WrittenIs
  <2>3. DOMAIN store = Written(executed, n)
    BY <2>1, <2>2
  <2> QED BY <2>3 DEF StoreSize
<1>10. LastWrite(h, n, q.key) = w /\ Written(h, n) = Written(executed, n)
  BY <1>6, LastWriteKept, WrittenKept
<1>11. w # 0 => h[w] = executed[w]
  <2>1. w # 0 => w \in 1..n
    BY <1>6, LastWriteIsPut
  <2> QED BY <1>6, <2>1
<1>12. /\ q.command = "QUIT" <=> r.status = "BYE"
       /\ q.command = "UNKNOWN" <=> r.status = "ERROR"
       /\ q.command = "PUT" => (r.message = <<"CREATED">> <=> ~Holds(q.key))
       /\ q.command \in {"GET", "DEL"} => (r.status = "NOT_FOUND" <=> ~Holds(q.key))
       /\ q.command = "GET" /\ Holds(q.key) => r.message = ValueAt(q.key)
       /\ q.command = "EXISTS" => (r.message = Number(0) <=> ~Holds(q.key))
       /\ q.command = "SIZE" => r.message = Number(StoreSize)
  BY <1>2, HandledIs
<1> HIDE DEF n, r, w
<1>13. /\ q.command = "PUT" => (r.message = <<"CREATED">> <=> w = 0)
       /\ q.command \in {"GET", "DEL"} => (r.status = "NOT_FOUND" <=> w = 0)
       /\ q.command = "GET" /\ w # 0 => r.message = h[w].value
       /\ q.command = "EXISTS" => (r.message = Number(0) <=> w = 0)
       /\ q.command = "SIZE" => r.message = Number(Cardinality(Written(h, n)))
  BY <1>8, <1>9, <1>10, <1>11, <1>12
<1>14. PICK o : o = out'
  OBVIOUS
<1>15. Answers(h, o, n + 1)
  BY <1>6, <1>7, <1>10, <1>12, <1>13, <1>14 DEF Answers
<1> QED BY <1>5, <1>14, <1>15 DEF n

(* Of a history with a QUIT, more requests do not change what is answered. *)
LEMMA QuitsNext ==
  ASSUME NEW S, NEW h \in Seq(S), NEW q
  PROVE  /\ q.command # "QUIT" => Quits(Append(h, q)) = Quits(h)
         /\ q.command = "QUIT" => Quits(Append(h, q)) = Quits(h) \cup {Len(h) + 1}
         /\ Quits(h) = {} => Answerable(Append(h, q)) = Len(h) + 1
         /\ Quits(h) # {} => /\ Answerable(Append(h, q)) = Answerable(h)
                             /\ Answerable(h) \in 1..Len(h)
<1> DEFINE g == Append(h, q)
           n == Len(h)
<1>1. /\ n \in Nat /\ Len(g) = n + 1 /\ g[n + 1] = q
      /\ \A m \in 1..n : g[m] = h[m]
  <2>1. h \in Seq(S \cup {q}) /\ q \in S \cup {q}
    BY SeqMonotonic
  <2> QED BY <2>1, AppendProperties, LenProperties
<1> HIDE DEF g
<1>2. q.command # "QUIT" => Quits(g) = Quits(h)
  BY <1>1 DEF Quits
<1>3. q.command = "QUIT" => Quits(g) = Quits(h) \cup {n + 1}
  BY <1>1 DEF Quits
<1>4. Quits(h) = {} => Answerable(g) = n + 1
  <2>1. CASE q.command = "QUIT" /\ Quits(h) = {}
    <3>1. Quits(g) = {n + 1} /\ {n + 1} \subseteq Nat /\ {n + 1} # {}
      BY <1>1, <1>3, <2>1
    <3>2. Min({n + 1}) = n + 1
      BY <3>1, Least
    <3> QED BY <3>1, <3>2 DEF Answerable
  <2>2. CASE q.command # "QUIT" /\ Quits(h) = {}
    BY <1>1, <1>2, <2>2 DEF Answerable
  <2> QED BY <2>1, <2>2
<1>5. ASSUME Quits(h) # {}
      PROVE  Answerable(g) = Answerable(h) /\ Answerable(h) \in 1..n
  <2>1. /\ Quits(h) \subseteq 1..n /\ Quits(h) \subseteq Nat
        /\ Quits(g) \subseteq Nat /\ Quits(g) # {}
        /\ Quits(h) \subseteq Quits(g) /\ Quits(g) \subseteq Quits(h) \cup {n + 1}
    BY <1>1, <1>5 DEF Quits
  <2>2. Min(Quits(h)) \in Quits(h) /\ \A j \in Quits(h) : Min(Quits(h)) <= j
    BY <1>5, <2>1, Least
  <2>3. Min(Quits(g)) \in Quits(g) /\ \A j \in Quits(g) : Min(Quits(g)) <= j
    BY <2>1, Least
  <2> DEFINE a == Min(Quits(h))
             b == Min(Quits(g))
  <2>4. a \in 1..n /\ a \in Quits(g) /\ (b \in Quits(h) \/ b = n + 1) /\ b \in Nat
    BY <2>1, <2>2, <2>3
  <2>5. b <= a /\ (b \in Quits(h) => a <= b)
    BY <2>2, <2>3, <2>4
  <2>6. a = b
    <3> HIDE DEF a, b
    <3> QED BY <1>1, <2>4, <2>5
  <2> QED BY <1>5, <2>1, <2>4, <2>6 DEF Answerable
<1> QED BY <1>2, <1>3, <1>4, <1>5 DEF g

(* A request keeps the invariant. *)
LEMMA HandleAnswers ==
  ASSUME AnswerInv, HandleRequest
  PROVE  AnswerInv'
<1> DEFINE q == parseLine(FirstLine(Content(input)))
           n == Len(executed)
<1>1. /\ executed' = Append(executed, q) /\ out' = Sent(Handled(q))
      /\ connected' = (connected /\ q.command # "QUIT")
  BY DEF HandleRequest
<1> HIDE DEF q
<1>2. PICK S : executed \in Seq(S)
  BY DEF AnswerInv, ExecutedSeq
<1>3. PICK T : out \in Seq(T)
  BY DEF AnswerInv
<1>4. PICK h : h = executed' /\ h = Append(executed, q)
  BY <1>1
<1>5. PICK o : o = out' /\ o = Sent(Handled(q))
  BY <1>1
<1>6. /\ h \in Seq(S \cup {q}) /\ n \in Nat /\ Len(h) = n + 1
      /\ \A m \in 1..n : h[m] = executed[m]
  <2>1. executed \in Seq(S \cup {q}) /\ q \in S \cup {q}
    BY <1>2, SeqMonotonic
  <2> QED BY <1>4, <2>1, AppendProperties, LenProperties
<1>7. /\ q.command # "QUIT" => Quits(h) = Quits(executed)
      /\ q.command = "QUIT" => Quits(h) = Quits(executed) \cup {n + 1}
      /\ Quits(executed) = {} => Answerable(h) = n + 1
      /\ Quits(executed) # {} => Answerable(h) = Answerable(executed) /\ Answerable(executed) \in 1..n
  BY <1>2, <1>4, QuitsNext
<1>8. connected' = (Quits(h) = {})
  BY <1>1, <1>7 DEF AnswerInv
<1>9. Len(out) = 1 + Answerable(executed) /\ \A m \in 1..Answerable(executed) : Answers(executed, out, m)
  BY DEF AnswerInv, Replies
<1>10. CASE connected = TRUE
  <2>1. Quits(executed) = {} /\ Answerable(executed) = n /\ Answerable(h) = n + 1
    BY <1>7, <1>10 DEF AnswerInv, Answerable
  <2>2. o = Append(out, Handled(q))
    BY <1>5, <1>10 DEF Sent
  <2>3. out \in Seq(T \cup {Handled(q)}) /\ Handled(q) \in T \cup {Handled(q)}
    BY <1>3, SeqMonotonic
  <2>4. /\ o \in Seq(T \cup {Handled(q)}) /\ Len(o) = Len(out) + 1
        /\ \A m \in 1..Len(out) : o[m] = out[m]
    BY <2>2, <2>3, AppendProperties
  <2>5. Len(o) = 1 + Answerable(h)
    BY <1>6, <1>9, <2>1, <2>4
  <2>6. ASSUME NEW m \in 1..Answerable(h) PROVE Answers(h, o, m)
    <3>1. CASE m = n + 1
      <4>1. Answers(executed', out', n + 1)
        BY <1>10, AnswerNext
      <4> QED BY <1>4, <1>5, <3>1, <4>1
    <3>2. CASE m # n + 1
      <4>1. m \in 1..n /\ m \in Nat \ {0} /\ m + 1 \in 1..Len(out)
        BY <1>6, <1>9, <2>1, <2>6, <3>2
      <4>2. o[m + 1] = out[m + 1] /\ \A a \in 1..m : h[a] = executed[a]
        BY <1>6, <2>4, <4>1
      <4>3. Answers(executed, out, m)
        BY <1>9, <2>1, <4>1
      <4> QED BY <4>1, <4>2, <4>3, AnswersKept
    <3> QED BY <3>1, <3>2
  <2>7. Replies'
    BY <1>4, <1>5, <2>5, <2>6 DEF Replies
  <2> QED BY <1>4, <1>5, <1>6, <1>8, <2>4, <2>7, StoreInv DEF AnswerInv, ExecutedSeq
<1>11. CASE connected # TRUE
  <2>1. Quits(executed) # {}
    BY <1>11 DEF AnswerInv
  <2>2. /\ Answerable(h) = Answerable(executed) /\ Answerable(executed) \in 1..n
        /\ connected = FALSE
    BY <1>7, <2>1 DEF AnswerInv
  <2>3. o = out
    BY <1>5, <2>2 DEF Sent
  <2>4. ASSUME NEW m \in 1..Answerable(h) PROVE Answers(h, o, m)
    <3>1. m \in Nat \ {0} /\ Answers(executed, out, m) /\ \A a \in 1..m : h[a] = executed[a]
      BY <1>6, <1>9, <2>2
    <3> QED BY <2>3, <3>1, AnswersKept
  <2>5. Replies'
    BY <1>4, <1>5, <1>9, <2>2, <2>3, <2>4 DEF Replies
  <2> QED BY <1>3, <1>4, <1>5, <1>6, <1>8, <2>3, <2>5, StoreInv DEF AnswerInv, ExecutedSeq
<1> QED BY <1>10, <1>11

LEMMA AnswersCorrect == Spec => []AnswerInv
<1>1. AnswerInv /\ [Next]_vars => AnswerInv'
  <2> SUFFICES ASSUME AnswerInv, [Next]_vars PROVE AnswerInv'
    OBVIOUS
  <2>1. CASE UNCHANGED <<connected, store, executed, out>>
    BY <2>1 DEF AnswerInv, ExecutedSeq, StoreIsLeft, Replies
  <2>2. CASE HandleRequest
    BY <2>2, HandleAnswers
  <2>3. ASSUME NEW line \in Lines, Send(line) PROVE AnswerInv'
    BY <2>1, <2>3 DEF Send
  <2>4. ASSUME NEW n \in 1..Len(wire), Read(n) PROVE AnswerInv'
    BY <2>1, <2>4 DEF Read
  <2>5. CASE MessageDone
    BY <2>1, <2>5 DEF MessageDone
  <2>6. CASE UNCHANGED vars
    BY <2>1, <2>6 DEF vars
  <2> QED BY <2>2, <2>3, <2>4, <2>5, <2>6 DEF Next
<1> QED BY <1>1, InitAnswers, PTL DEF Spec

-----------------------------------------------------------------------------
(* A part of a line, byte by byte. *)
LEMMA PartIs ==
  ASSUME NEW u \in Seq(Bytes), NEW a \in 1..(Len(u) + 1), NEW b \in 0..Len(u)
  PROVE  /\ SubSeq(u, a, b) \in Seq(Bytes)
         /\ Len(SubSeq(u, a, b)) = IF a <= b THEN b - a + 1 ELSE 0
         /\ \A i \in 1..(b - a + 1) : SubSeq(u, a, b)[i] = u[a + i - 1]
<1>1. Len(u) \in Nat /\ a \in Int /\ b \in Int
  BY LenProperties
<1>2. \A i \in a..b : u[i] \in Bytes
  <2> SUFFICES ASSUME NEW i \in a..b PROVE u[i] \in Bytes
    OBVIOUS
  <2>1. i \in 1..Len(u)
    BY <1>1
  <2> QED BY <2>1, ElementOfSeq
<1> QED BY <1>1, <1>2, SubSeqProperties

(* The member of a set that has n members up to it is the n-th. *)
LEMMA NthIs ==
  ASSUME NEW S, S \subseteq Nat, IsFiniteSet(S), NEW x \in S, NEW n,
         Cardinality({y \in S : y <= x}) = n
  PROVE  Nth(S, n) = x
<1> DEFINE U(z) == {y \in S : y <= z}
<1>0. \A y \in S : y \in Nat
  OBVIOUS
<1>1. ASSUME NEW v \in S, NEW w \in S, v < w PROVE Cardinality(U(v)) # Cardinality(U(w))
  <2>1. /\ U(v) \in SUBSET U(w) /\ w \in U(w) /\ w \notin U(v)
        /\ U(w) \in SUBSET S
    <3>1. v \in Nat /\ w \in Nat /\ (\A y \in S : y <= v => y <= w)
          /\ w <= w /\ ~(w <= v)
      BY <1>0, <1>1
    <3> QED BY <1>1, <3>1
  <2> HIDE DEF U
  <2>2. IsFiniteSet(U(w))
    BY <2>1, FS_Subset
  <2> QED BY <2>1, <2>2, FS_Subset
<1>2. PICK z \in S : z = Nth(S, n) /\ Cardinality(U(z)) = n
  BY DEF Nth
<1>3. Cardinality(U(x)) = n
  OBVIOUS
<1> HIDE DEF U
<1>4. ~(z < x) /\ ~(x < z)
  BY <1>1, <1>2, <1>3
<1>5. z \in Nat /\ x \in Nat
  OBVIOUS
<1> QED BY <1>2, <1>4, <1>5

(* Two members are the first and the second. *)
LEMMA OnlyTwo ==
  ASSUME NEW a \in Nat, NEW b \in Nat, a < b
  PROVE  Cardinality({a, b}) = 2 /\ Nth({a, b}, 1) = a /\ Nth({a, b}, 2) = b
<1>1. IsFiniteSet({a}) /\ Cardinality({a}) = 1
  BY FS_Singleton
<1>2. IsFiniteSet({a, b}) /\ Cardinality({a, b}) = 2
  <2>1. b \notin {a} /\ {a, b} = {a} \cup {b}
    OBVIOUS
  <2>2. IsFiniteSet({a} \cup {b}) /\ Cardinality({a} \cup {b}) = Cardinality({a}) + 1
    <3>1. Cardinality({a} \cup {b}) = IF b \in {a} THEN Cardinality({a}) ELSE Cardinality({a}) + 1
      BY <1>1, FS_AddElement, Zenon
    <3>2. IsFiniteSet({a} \cup {b})
      BY <1>1, FS_AddElement, Zenon
    <3> QED BY <2>1, <3>1, <3>2
  <2> QED BY <1>1, <2>1, <2>2
<1>3. {y \in {a, b} : y <= a} = {a} /\ {y \in {a, b} : y <= b} = {a, b}
  OBVIOUS
<1>4. {a, b} \subseteq Nat
  OBVIOUS
<1> QED BY <1>1, <1>2, <1>3, <1>4, NthIs

(* The first two members of a set, and the third. *)
LEMMA FirstTwo ==
  ASSUME NEW S, S \subseteq Nat, IsFiniteSet(S), Cardinality(S) >= 2
  PROVE  \E a, b \in S : /\ a < b /\ Nth(S, 1) = a /\ Nth(S, 2) = b
                         /\ \A y \in S : y = a \/ y = b \/ y > b
                         /\ Cardinality(S) >= 3 => \E y \in S : y > b
<1>1. Cardinality(S) \in Nat /\ S # {}
  BY FS_CardinalityType, FS_EmptySet
<1> DEFINE a == Min(S)
           R == S \ {a}
           b == Min(R)
<1>2. a \in S /\ \A y \in S : a <= y
  BY <1>1, Least
<1>3. IsFiniteSet(R) /\ Cardinality(R) = Cardinality(S) - 1
  BY <1>2, FS_RemoveElement
<1>4. R # {} /\ R \subseteq Nat
  <2>1. Cardinality(R) # 0
    BY <1>1, <1>3
  <2> QED BY <1>3, <2>1, FS_EmptySet
<1> HIDE DEF a
<1>5. b \in R /\ \A y \in R : b <= y
  <2> HIDE DEF R
  <2> QED BY <1>4, Least
<1> HIDE DEF b
<1>6. /\ a \in S /\ b \in S /\ a \in Nat /\ b \in Nat /\ a < b
      /\ \A y \in S : y = a \/ y = b \/ y > b
  BY <1>2, <1>5
<1>7. Nth(S, 1) = a
  <2>1. {y \in S : y <= a} = {a}
    <3>1. \A y \in S : y <= a <=> y = a
      BY <1>6
    <3> QED BY <1>6, <3>1
  <2> QED BY <1>6, <2>1, FS_Singleton, NthIs
<1>8. Nth(S, 2) = b
  <2>1. {y \in S : y <= b} = {a} \cup {b}
    <3>1. \A y \in S : y <= b <=> y = a \/ y = b
      BY <1>6
    <3> QED BY <1>6, <3>1
  <2>2. Cardinality({a} \cup {b}) = 2
    <3>1. {a} \cup {b} = {a, b}
      OBVIOUS
    <3> QED BY <1>6, <3>1, OnlyTwo
  <2> QED BY <1>6, <2>1, <2>2, NthIs
<1>9. ASSUME Cardinality(S) >= 3 PROVE \E y \in S : y > b
  <2>1. IsFiniteSet(R \ {b}) /\ Cardinality(R \ {b}) = Cardinality(R) - 1
    BY <1>3, <1>5, FS_RemoveElement
  <2>2. Cardinality(R \ {b}) # 0
    BY <1>1, <1>3, <1>9, <2>1
  <2>3. R \ {b} # {}
    BY <2>1, <2>2, FS_EmptySet
  <2>4. PICK y \in R \ {b} : TRUE
    BY <2>3
  <2>5. y \in S /\ y # a /\ y # b
    BY <2>4
  <2> QED BY <1>6, <2>5
<1> QED BY <1>6, <1>7, <1>8, <1>9

(* A word: no space from its start to its end, and a space or the line's end *)
(* behind it.                                                                 *)
LEMMA WordIs ==
  ASSUME NEW u \in Seq(Bytes), NEW i \in Starts(u)
  PROVE  LET e == Min(Ends(u, i))
         IN  /\ i \in 1..Len(u) /\ e \in i..Len(u)
             /\ \A j \in i..e : ~Space(u[j])
             /\ e = Len(u) \/ Space(u[e + 1])
             /\ \A j \in Ends(u, i) : e <= j
<1> DEFINE e == Min(Ends(u, i))
<1>1. Len(u) \in Nat /\ i \in 1..Len(u) /\ ~Space(u[i])
  BY LenProperties DEF Starts
<1>2. Ends(u, i) \subseteq Nat /\ Len(u) \in Ends(u, i)
  BY <1>1 DEF Ends
<1>3. e \in Ends(u, i) /\ \A j \in Ends(u, i) : e <= j
  BY <1>2, Least
<1> HIDE DEF e
<1>4. e \in i..Len(u) /\ (e = Len(u) \/ Space(u[e + 1]))
  BY <1>3 DEF Ends
<1> DEFINE T == {j \in i..e : Space(u[j])}
<1>5. T = {}
  <2> SUFFICES ASSUME T # {} PROVE FALSE
    OBVIOUS
  <2>1. T \subseteq Nat
    BY <1>1, <1>4
  <2>2. Min(T) \in T /\ \A j \in T : Min(T) <= j
    <3> HIDE DEF T
    <3> QED BY <2>1, Least
  <2>3. PICK j \in i..e : j = Min(T) /\ Space(u[j])
    BY <2>2
  <2>4. j # i /\ j - 1 \in i..Len(u) /\ (j - 1) + 1 = j /\ j - 1 < e
    <3>1. j # i
      BY <1>1, <2>3
    <3> QED BY <1>1, <1>4, <3>1
  <2>5. j - 1 \in Ends(u, i)
    BY <2>3, <2>4 DEF Ends
  <2> QED BY <1>1, <1>3, <1>4, <2>3, <2>4, <2>5
<1> QED BY <1>1, <1>3, <1>4, <1>5 DEF e

(* Behind a byte that is no space a word does not start. *)
LEMMA StartsAre ==
  ASSUME NEW u \in Seq(Bytes), NEW i \in 1..Len(u), ~Space(u[i])
  PROVE  \E s \in Starts(u) : s <= i /\ \A j \in s..i : ~Space(u[j])
<1>1. Len(u) \in Nat
  BY LenProperties
<1> DEFINE T == {j \in 1..i : Space(u[j])}
<1>2. CASE T = {}
  <2>1. 1 \in 1..Len(u) /\ 1 <= i /\ 1 \in 1..i
    BY <1>1
  <2>2. ~Space(u[1]) /\ \A j \in 1..i : ~Space(u[j])
    BY <1>2, <2>1
  <2>3. 1 \in Starts(u)
    BY <2>1, <2>2 DEF Starts
  <2> QED BY <2>1, <2>2, <2>3
<1>3. CASE T # {}
  <2>1. i \in Nat /\ T \in SUBSET (1..i)
    BY <1>1
  <2>2. Max(T) \in T /\ \A j \in T : Max(T) >= j
    <3> HIDE DEF T
    <3> QED BY <1>3, <2>1, Greatest
  <2>3. PICK m \in 1..i : m = Max(T) /\ Space(u[m])
    BY <2>2
  <2>4. m # i /\ m + 1 \in 1..Len(u) /\ m + 1 \in 1..i /\ (m + 1) - 1 = m /\ m + 1 <= i
    BY <1>1, <2>3
  <2>5. \A j \in (m + 1)..i : ~Space(u[j])
    <3> SUFFICES ASSUME NEW j \in (m + 1)..i, Space(u[j]) PROVE FALSE
      OBVIOUS
    <3>1. j \in T /\ ~(m >= j)
      BY <1>1, <2>4
    <3> QED BY <2>2, <2>3, <3>1
  <2>6. m + 1 \in Starts(u)
    BY <2>3, <2>4, <2>5 DEF Starts
  <2> QED BY <2>4, <2>5, <2>6
<1> QED BY <1>2, <1>3

(* A sequence of one, by its element. *)
LEMMA OneIs == ASSUME NEW w \in Seq(Bytes), Len(w) = 1 PROVE w = <<w[1]>>
<1>1. 1 \in 1..Len(w)
  OBVIOUS
<1>2. w[1] \in Bytes
  BY <1>1, ElementOfSeq
<1>3. <<w[1]>> \in Seq(Bytes) /\ Len(<<w[1]>>) = 1 /\ <<w[1]>>[1] = w[1]
  BY <1>2
<1>4. \A i \in 1..Len(w) : w[i] = <<w[1]>>[i]
  <2> SUFFICES ASSUME NEW i \in 1..Len(w) PROVE w[i] = <<w[1]>>[i]
    OBVIOUS
  <2>1. i = 1
    OBVIOUS
  <2> QED BY <1>3, <2>1
<1> QED BY <1>3, <1>4, SeqEqual

(* A sequence of two, by its elements. *)
LEMMA TwoIs == ASSUME NEW w, w = [n \in 1..2 |-> w[n]] PROVE w = <<w[1], w[2]>>
OBVIOUS

(* A line cut behind its second word, where only spaces are left, has these *)
(* two words.                                                               *)
LEMMA CutLine ==
  ASSUME NEW u \in Seq(Bytes), NEW a \in Starts(u), NEW b \in Starts(u), a < b,
         \A y \in Starts(u) : y = a \/ y = b \/ y > b,
         NEW v \in 1..Len(u), Min(Ends(u, b)) + 1 < v,
         \A i \in (Min(Ends(u, b)) + 1)..(v - 1) : Space(u[i])
  PROVE  split(SubSeq(u, 1, v - 1)) =
            <<SubSeq(u, a, Min(Ends(u, a))), SubSeq(u, b, Min(Ends(u, b)))>>
<1> DEFINE p == SubSeq(u, 1, v - 1)
           d == Min(Ends(u, a))
           e == Min(Ends(u, b))
<1>1. /\ Len(u) \in Nat /\ a \in 1..Len(u) /\ b \in 1..Len(u)
      /\ d \in a..Len(u) /\ e \in b..Len(u)
      /\ \A j \in a..d : ~Space(u[j])
      /\ \A j \in b..e : ~Space(u[j])
      /\ d = Len(u) \/ Space(u[d + 1])
      /\ e = Len(u) \/ Space(u[e + 1])
      /\ \A j \in Ends(u, a) : d <= j
      /\ \A j \in Ends(u, b) : e <= j
  BY WordIs, LenProperties
<1>2. v \in 1..Len(u) /\ e + 1 < v /\ \A i \in (e + 1)..(v - 1) : Space(u[i])
  OBVIOUS
<1> HIDE DEF d, e
<1>3. /\ p \in Seq(Bytes) /\ Len(p) = v - 1
      /\ \A i \in 1..(v - 1) : p[i] = u[i]
  <2>1. 1 \in 1..(Len(u) + 1) /\ v - 1 \in 0..Len(u) /\ 1 <= v - 1
    BY <1>1, <1>2
  <2>2. /\ p \in Seq(Bytes) /\ Len(p) = (v - 1) - 1 + 1
        /\ \A i \in 1..((v - 1) - 1 + 1) : p[i] = u[1 + i - 1]
    BY <2>1, PartIs
  <2>3. (v - 1) - 1 + 1 = v - 1 /\ \A i \in 1..(v - 1) : 1 + i - 1 = i
    BY <1>1
  <2> QED BY <2>2, <2>3
<1> HIDE DEF p
<1>4. d < b
  <2>1. b # a /\ b - 1 \in 1..Len(u) /\ Space(u[b - 1])
    <3>1. b # 1 /\ b \in 1..Len(u)
      BY <1>1
    <3> QED BY <1>1, <3>1 DEF Starts
  <2>2. b - 1 \notin a..d
    BY <1>1, <2>1
  <2> QED BY <1>1, <2>2
<1>5. Starts(p) = {a, b}
  <2>1. ASSUME NEW i \in Starts(p) PROVE i \in {a, b}
    <3>1. i \in 1..(v - 1) /\ ~Space(p[i]) /\ (i = 1 \/ Space(p[i - 1]))
      BY <1>3 DEF Starts
    <3>2. i \in 1..Len(u) /\ p[i] = u[i] /\ (i # 1 => p[i - 1] = u[i - 1])
      BY <1>1, <1>3, <3>1
    <3>3. i \in Starts(u)
      BY <3>1, <3>2 DEF Starts
    <3>4. i <= e
      <4>1. i \notin (e + 1)..(v - 1)
        BY <1>2, <3>1, <3>2
      <4> QED BY <1>1, <3>1, <4>1
    <3>5. ~(i > b)
      <4> SUFFICES ASSUME i > b PROVE FALSE
        OBVIOUS
      <4>1. i # 1 /\ i - 1 \in b..e
        BY <1>1, <3>1, <3>4
      <4> QED BY <1>1, <3>1, <3>2, <4>1
    <3> QED BY <3>3, <3>5
  <2>2. ASSUME NEW i \in {a, b} PROVE i \in Starts(p)
    <3>1. i \in 1..(v - 1) /\ i \in 1..Len(u)
      BY <1>1, <1>2
    <3>2. ~Space(u[i]) /\ (i = 1 \/ Space(u[i - 1]))
      BY DEF Starts
    <3>3. p[i] = u[i] /\ (i # 1 => p[i - 1] = u[i - 1])
      BY <1>1, <1>3, <3>1
    <3> QED BY <1>3, <3>1, <3>2, <3>3 DEF Starts
  <2> QED BY <2>1, <2>2
<1>6. ASSUME NEW i \in {a, b}, NEW f, f \in i..e, f < v - 1,
             f = Len(u) \/ Space(u[f + 1]), \A j \in Ends(u, i) : f <= j
      PROVE  Min(Ends(p, i)) = f /\ SubSeq(p, i, f) = SubSeq(u, i, f)
  <2>1. f \in 1..(v - 1) /\ f + 1 \in 1..(v - 1) /\ i \in 1..(v - 1) /\ f # Len(u)
    BY <1>1, <1>2, <1>6
  <2>2. p[f + 1] = u[f + 1]
    BY <1>3, <2>1
  <2>3. f \in Ends(p, i)
    BY <1>1, <1>3, <1>6, <2>1, <2>2 DEF Ends
  <2>4. ASSUME NEW j \in Ends(p, i) PROVE f <= j
    <3>1. j \in i..(v - 1) /\ (j = v - 1 \/ Space(p[j + 1]))
      BY <1>3 DEF Ends
    <3>2. CASE j = v - 1
      BY <1>6, <3>2
    <3>3. CASE j # v - 1
      <4>1. j + 1 \in 1..(v - 1) /\ j \in i..Len(u)
        BY <1>1, <1>2, <2>1, <3>1, <3>3
      <4>2. Space(u[j + 1])
        BY <1>3, <3>1, <3>3, <4>1
      <4>3. j \in Ends(u, i)
        BY <4>1, <4>2 DEF Ends
      <4> QED BY <1>6, <4>3
    <3> QED BY <3>2, <3>3
  <2>5. Ends(p, i) \subseteq Nat
    BY <1>1, <1>3 DEF Ends
  <2>6. Min(Ends(p, i)) \in Ends(p, i) /\ \A j \in Ends(p, i) : Min(Ends(p, i)) <= j
    BY <2>3, <2>5, Least
  <2>7. Min(Ends(p, i)) = f
    <3>1. Min(Ends(p, i)) \in Nat /\ f \in Nat /\ Min(Ends(p, i)) <= f /\ f <= Min(Ends(p, i))
      BY <1>1, <2>1, <2>3, <2>4, <2>5, <2>6
    <3> QED BY <3>1
  <2>8. SubSeq(p, i, f) = SubSeq(u, i, f)
    <3>1. /\ i \in 1..(Len(p) + 1) /\ f + 1 \in 0..Len(p) /\ (f + 1) - 1 = f
          /\ Len(p) <= Len(u) /\ \A j \in 1..Len(p) : u[j] = p[j]
      BY <1>1, <1>3, <2>1
    <3>2. SubSeq(u, i, (f + 1) - 1) = SubSeq(p, i, (f + 1) - 1)
      BY <1>3, <3>1, SamePart
    <3> QED BY <3>1, <3>2
  <2> QED BY <2>7, <2>8
<1>7. Cardinality({a, b}) = 2 /\ Nth({a, b}, 1) = a /\ Nth({a, b}, 2) = b
  <2>1. a \in Nat /\ b \in Nat
    BY <1>1
  <2> QED BY <2>1, OnlyTwo
<1>8. Word(p, 1) = SubSeq(u, a, d)
  <2>1. d \in a..e /\ d < v - 1
    BY <1>1, <1>2, <1>4
  <2> QED BY <1>1, <1>5, <1>6, <1>7, <2>1 DEF Word
<1>9. Word(p, 2) = SubSeq(u, b, e)
  <2>1. e \in b..e /\ e < v - 1
    BY <1>1, <1>2
  <2> QED BY <1>1, <1>5, <1>6, <1>7, <2>1 DEF Word
<1>10. split(p) = [n \in 1..2 |-> Word(p, n)]
  BY <1>5, <1>7 DEF split
<1>11. split(p) = <<SubSeq(u, a, d), SubSeq(u, b, e)>>
  <2> DEFINE w == split(p)
  <2>1. w = [n \in 1..2 |-> w[n]] /\ w[1] = SubSeq(u, a, d) /\ w[2] = SubSeq(u, b, e)
    BY <1>8, <1>9, <1>10
  <2> HIDE DEF w
  <2>2. w = <<w[1], w[2]>>
    BY <2>1, TwoIs
  <2> QED BY <2>1, <2>2 DEF w
<1> QED BY <1>11 DEF p, d, e

(* The only place before the second word that is no space is the first word, *)
(* when that is a single byte.                                               *)
LEMMA BeforeSecond ==
  ASSUME NEW u \in Seq(Bytes), NEW a \in Starts(u), NEW b \in Starts(u),
         \A y \in Starts(u) : y = a \/ y >= b, Min(Ends(u, a)) = a,
         NEW i \in 1..Len(u), i < b, ~Space(u[i])
  PROVE  i = a
<1>1. /\ Len(u) \in Nat /\ a \in 1..Len(u) /\ b \in 1..Len(u)
      /\ a = Len(u) \/ Space(u[a + 1])
  BY WordIs, LenProperties
<1>2. PICK s \in Starts(u) : s <= i /\ \A j \in s..i : ~Space(u[j])
  BY StartsAre
<1>3. s = a
  <2>1. s \in Nat
    BY <1>1 DEF Starts
  <2> QED BY <1>1, <1>2, <2>1
<1>4. ~(a + 1 <= i)
  <2> SUFFICES ASSUME a + 1 <= i PROVE FALSE
    OBVIOUS
  <2>1. a + 1 \in s..i /\ a # Len(u)
    BY <1>1, <1>3
  <2> QED BY <1>1, <1>2, <2>1
<1> QED BY <1>1, <1>2, <1>3, <1>4

(* The rest of a sequence from some place on is a suffix of it. *)
LEMMA SuffixOf ==
  ASSUME NEW u \in Seq(Bytes), NEW t \in Seq(Bytes), NEW v \in 1..Len(u),
         Len(t) = Len(u) - v + 1, \A i \in 1..(Len(u) - v + 1) : t[i] = u[v + i - 1]
  PROVE  IsSuffix(t, u)
<1> DEFINE r == Reverse(t)
           s == Reverse(u)
<1>1. Len(u) \in Nat /\ Len(t) \in Nat /\ v \in Nat
  BY LenProperties
<1>2. ASSUME NEW z \in Seq(Bytes)
      PROVE  /\ Reverse(z) \in Seq(Bytes) /\ Len(Reverse(z)) = Len(z)
             /\ \A i \in 1..Len(z) : Reverse(z)[i] = z[Len(z) - i + 1]
  <2>1. Len(z) \in Nat
    BY LenProperties
  <2>2. \A i \in 1..Len(z) : z[Len(z) - i + 1] \in Bytes
    <3> SUFFICES ASSUME NEW i \in 1..Len(z) PROVE z[Len(z) - i + 1] \in Bytes
      OBVIOUS
    <3>1. Len(z) - i + 1 \in 1..Len(z)
      BY <2>1
    <3> QED BY <3>1, ElementOfSeq
  <2>3. Reverse(z) \in [1..Len(z) -> Bytes]
    BY <2>2 DEF Reverse
  <2>4. Reverse(z) \in Seq(Bytes)
    BY <2>1, <2>3, SeqDef
  <2>5. Len(Reverse(z)) = Len(z)
    BY <2>1, <2>3, <2>4, LenProperties
  <2> QED BY <2>4, <2>5 DEF Reverse
<1>3. /\ r \in Seq(Bytes) /\ Len(r) = Len(t) /\ s \in Seq(Bytes) /\ Len(s) = Len(u)
      /\ \A i \in 1..Len(t) : r[i] = t[Len(t) - i + 1]
      /\ \A i \in 1..Len(u) : s[i] = u[Len(u) - i + 1]
  BY <1>2
<1> HIDE DEF r, s
<1>4. Len(r) <= Len(s)
  BY <1>1, <1>3
<1>5. ASSUME NEW i \in 1..Len(r) PROVE s[i] = r[i]
  <2>1. /\ i \in 1..Len(t) /\ i \in 1..Len(u)
        /\ Len(t) - i + 1 \in 1..(Len(u) - v + 1)
        /\ v + (Len(t) - i + 1) - 1 = Len(u) - i + 1
    BY <1>1, <1>3, <1>4
  <2> QED BY <1>3, <2>1
<1>6. SubSeq(s, 1, Len(r)) = SubSeq(r, 1, Len(r))
  <2>1. 1 \in 1..(Len(r) + 1) /\ Len(r) \in Nat /\ Len(r) \in 0..Len(r) /\ Len(r) \in 0..Len(s)
        /\ 1 \in 1..(Len(s) + 1)
    BY <1>1, <1>3, <1>4
  <2>2. /\ SubSeq(s, 1, Len(r)) \in Seq(Bytes) /\ SubSeq(r, 1, Len(r)) \in Seq(Bytes)
        /\ Len(SubSeq(s, 1, Len(r))) = Len(r) /\ Len(SubSeq(r, 1, Len(r))) = Len(r)
        /\ \A i \in 1..Len(r) : SubSeq(s, 1, Len(r))[i] = s[i] /\ SubSeq(r, 1, Len(r))[i] = r[i]
    <3>1. \A i \in 1..Len(r) : s[i] \in Bytes /\ r[i] \in Bytes
      BY <1>3, <1>5, ElementOfSeq
    <3> QED BY <1>3, <2>1, <3>1, SubSeqProperties
  <2> QED BY <1>5, <2>2, SeqEqual
<1>7. IsPrefix(r, s)
  BY <1>4, <1>6 DEF IsPrefix
<1> QED BY <1>7 DEF IsSuffix, r, s

(* What parseLine() takes for a PUT. *)
LEMMA ParsedPut ==
  ASSUME NEW u, parseLine(u).command = "PUT"
  PROVE  LET w == split(u)
         IN  /\ w # <<>> /\ Len(w[1]) = 1 /\ w[1][1] = "P" /\ Len(w) >= 3
             /\ parseLine(u) = Request("PUT", w[2], SubSeq(u, valueStart(u, w[2]), Len(u)))
<1> DEFINE w == split(u)
           c == IF w # <<>> /\ Len(w[1]) = 1 THEN w[1][1] ELSE SP
<1>1. /\ "P" \notin {"G", "D", "E"} /\ "P" \notin {"S", "C", "I", "Q"}
      /\ DOMAIN KeyCommands = {"G", "D", "E"} /\ DOMAIN PlainCommands = {"S", "C", "I", "Q"}
      /\ \A k \in DOMAIN KeyCommands : KeyCommands[k] # "PUT"
      /\ \A k \in DOMAIN PlainCommands : PlainCommands[k] # "PUT"
  BY DEF KeyCommands, PlainCommands
<1>2. SP # "P"
  BY DEF SP
<1>3. parseLine(u) =
        CASE c = "P" /\ Len(w) >= 3 ->
               Request("PUT", w[2], SubSeq(u, valueStart(u, w[2]), Len(u)))
          [] c \in DOMAIN KeyCommands /\ Len(w) >= 2 -> Request(KeyCommands[c], w[2], <<>>)
          [] c \in DOMAIN PlainCommands -> Request(PlainCommands[c], <<>>, <<>>)
          [] OTHER -> Unknown
  BY DEF parseLine
<1>4. Unknown.command # "PUT"
  BY DEF Unknown, Request
<1> HIDE DEF w
<1>5. c = "P" /\ Len(w) >= 3
  BY <1>1, <1>3, <1>4 DEF Request
<1>6. w # <<>> /\ Len(w[1]) = 1 /\ w[1][1] = "P"
  BY <1>2, <1>5
<1>7. parseLine(u) = Request("PUT", w[2], SubSeq(u, valueStart(u, w[2]), Len(u)))
  BY <1>1, <1>3, <1>5
<1> QED BY <1>5, <1>6, <1>7 DEF w

(* The value of a PUT: the rest of its line, behind the key. *)
LEMMA PutIs ==
  ASSUME NEW u \in Seq(Bytes), parseLine(u).command = "PUT", parseLine(u).key # <<"P">>
  PROVE  LET q == parseLine(u)
         IN  /\ IsSuffix(q.value, u) /\ ~Space(Head(q.value))
             /\ split(SubSeq(u, 1, Len(u) - Len(q.value))) = <<<<"P">>, q.key>>
<1> DEFINE w == split(u)
           key == w[2]
           v == valueStart(u, key)
           q == parseLine(u)
<1>1. /\ Len(w[1]) = 1 /\ w[1][1] = "P" /\ Len(w) >= 3
      /\ q = Request("PUT", key, SubSeq(u, v, Len(u)))
  BY ParsedPut
<1> HIDE DEF q, v, w
<1>2. q.key = key /\ q.value = SubSeq(u, v, Len(u)) /\ key # <<"P">>
  <2> HIDE DEF key
  <2>1. q.key = key /\ q.value = SubSeq(u, v, Len(u))
    BY <1>1 DEF Request
  <2>2. q.key # <<"P">>
    BY DEF q
  <2> QED BY <2>1, <2>2
<1>3. Starts(u) \subseteq Nat /\ IsFiniteSet(Starts(u)) /\ Len(u) \in Nat
  <2>1. Len(u) \in Nat /\ Starts(u) \in SUBSET (1..Len(u))
    BY LenProperties DEF Starts
  <2>2. IsFiniteSet(1..Len(u))
    BY <2>1, FS_Interval
  <2> QED BY <2>1, <2>2, FS_Subset
<1>4. Cardinality(Starts(u)) \in Nat /\ Len(w) = Cardinality(Starts(u))
  <2>1. Cardinality(Starts(u)) \in Nat
    BY <1>3, FS_CardinalityType
  <2>2. w = [n \in 1..Cardinality(Starts(u)) |-> Word(u, n)]
    BY DEF split, w
  <2> QED BY <2>1, <2>2
<1>5. PICK a \in Starts(u), b \in Starts(u) :
         /\ a < b /\ Nth(Starts(u), 1) = a /\ Nth(Starts(u), 2) = b
         /\ \A y \in Starts(u) : y = a \/ y = b \/ y > b
         /\ \E y \in Starts(u) : y > b
  <2>1. Cardinality(Starts(u)) >= 2 /\ Cardinality(Starts(u)) >= 3
    BY <1>1, <1>4
  <2> QED BY <1>3, <2>1, FirstTwo
<1> DEFINE d == Min(Ends(u, a))
           e == Min(Ends(u, b))
<1>6. w[1] = SubSeq(u, a, d) /\ key = SubSeq(u, b, e)
  <2>1. w = [n \in 1..Cardinality(Starts(u)) |-> Word(u, n)]
    BY DEF split, w
  <2>2. 1 \in 1..Cardinality(Starts(u)) /\ 2 \in 1..Cardinality(Starts(u))
    BY <1>1, <1>4
  <2>3. w[1] = Word(u, 1) /\ w[2] = Word(u, 2)
    BY <2>1, <2>2
  <2> QED BY <1>5, <2>3 DEF Word
<1>7. /\ a \in 1..Len(u) /\ b \in 1..Len(u) /\ d \in a..Len(u) /\ e \in b..Len(u)
      /\ \A j \in b..e : ~Space(u[j])
      /\ e = Len(u) \/ Space(u[e + 1])
      /\ a \in Nat /\ b \in Nat /\ d \in Nat /\ e \in Nat
  <2>1. /\ a \in 1..Len(u) /\ b \in 1..Len(u) /\ d \in a..Len(u) /\ e \in b..Len(u)
        /\ \A j \in b..e : ~Space(u[j])
        /\ e = Len(u) \/ Space(u[e + 1])
    BY WordIs
  <2> HIDE DEF d, e
  <2> QED BY <1>3, <2>1
<1> HIDE DEF d, e, key
<1>8. /\ Len(w[1]) = d - a + 1 /\ w[1][1] = u[a]
      /\ key \in Seq(Bytes) /\ Len(key) = e - b + 1
      /\ \A i \in 1..(e - b + 1) : key[i] = u[b + i - 1]
  <2>1. /\ a \in 1..(Len(u) + 1) /\ d \in 0..Len(u) /\ b \in 1..(Len(u) + 1) /\ e \in 0..Len(u)
        /\ a <= d /\ b <= e /\ 1 \in 1..(d - a + 1) /\ a + 1 - 1 = a
    BY <1>3, <1>7
  <2>2. Len(w[1]) = d - a + 1 /\ \A i \in 1..(d - a + 1) : w[1][i] = u[a + i - 1]
    BY <1>6, <2>1, PartIs
  <2>3. w[1][1] = u[a]
    BY <2>1, <2>2
  <2> QED BY <1>6, <2>1, <2>2, <2>3, PartIs
<1>9. d = a /\ u[a] = "P" /\ w[1] = <<"P">>
  <2> DEFINE k == Len(w[1])
  <2>1. d = a /\ u[a] = "P"
    <3>1. k = 1 /\ k = d - a + 1 /\ u[a] = "P"
      BY <1>1, <1>8
    <3> HIDE DEF k
    <3> QED BY <1>7, <3>1
  <2>2. w[1] \in Seq(Bytes) /\ Len(w[1]) = 1
    <3>1. a \in 1..(Len(u) + 1) /\ d \in 0..Len(u)
      BY <1>3, <1>7
    <3> QED BY <1>1, <1>6, <3>1, PartIs
  <2> QED BY <1>1, <2>1, <2>2, OneIs
<1>10. find(u, key) = b
  <2> DEFINE F == {i \in 1..Len(u) : SubSeq(u, i, i + Len(key) - 1) = key}
  <2>1. b + Len(key) - 1 = e /\ Len(key) \in Nat /\ Len(key) >= 1
    BY <1>3, <1>7, <1>8
  <2>2. b \in F
    BY <1>6, <1>7, <2>1
  <2>3. ASSUME NEW i \in F, i < b PROVE FALSE
    <3> DEFINE f == i + Len(key) - 1
    <3>1. i \in 1..Len(u) /\ SubSeq(u, i, f) = key
      OBVIOUS
    <3>2. f \in i..Len(u)
      <4>1. i \in Nat /\ i <= f /\ f < e /\ f \in Nat
        <5> DEFINE k == Len(key)
        <5>1. k \in Nat /\ k >= 1 /\ b + k - 1 = e /\ i \in Nat
          BY <1>3, <2>1, <3>1
        <5> HIDE DEF k
        <5>2. i <= i + k - 1 /\ i + k - 1 < e /\ i + k - 1 \in Nat
          BY <1>7, <2>3, <5>1
        <5> QED BY <5>1, <5>2 DEF k
      <4> HIDE DEF f
      <4> QED BY <1>3, <1>7, <4>1
    <3>3. \A j \in 1..Len(key) : key[j] = u[i + j - 1]
      <4>1. i \in 1..(Len(u) + 1) /\ f \in 0..Len(u) /\ f - i + 1 = Len(key)
        BY <1>3, <2>1, <3>1, <3>2
      <4> HIDE DEF f
      <4> QED BY <3>1, <4>1, PartIs
    <3>4. \A j \in 1..Len(key) : ~Space(key[j])
      <4> SUFFICES ASSUME NEW j \in 1..Len(key) PROVE ~Space(key[j])
        OBVIOUS
      <4>1. j \in 1..(e - b + 1) /\ b + j - 1 \in b..e
        BY <1>3, <1>7, <1>8, <2>1
      <4> QED BY <1>7, <1>8, <4>1
    <3>5. u[i] = key[1] /\ ~Space(u[i])
      <4>1. 1 \in 1..Len(key) /\ i + 1 - 1 = i
        BY <2>1, <3>1
      <4>2. u[i] = key[1]
        BY <3>3, <4>1
      <4> QED BY <3>4, <4>1, <4>2
    <3>6. i = a
      <4>1. \A y \in Starts(u) : y = a \/ y >= b
        <5>1. \A y \in Starts(u) : y \in Nat
          BY <1>3
        <5>2. b \in Nat
          BY <1>7
        <5> SUFFICES ASSUME NEW y \in Starts(u), y # a PROVE y >= b
          OBVIOUS
        <5>3. (y = b \/ y > b) /\ y \in Nat
          BY <1>5, <5>1
        <5> QED BY <5>2, <5>3
      <4> QED BY <1>9, <2>3, <3>1, <3>5, <4>1, BeforeSecond DEF d
    <3>7. CASE Len(key) = 1
      <4>1. key = <<key[1]>>
        BY <1>8, <3>7, OneIs
      <4> QED BY <1>2, <1>9, <3>5, <3>6, <4>1
    <3>8. CASE Len(key) # 1
      <4>1. 2 \in 1..Len(key) /\ i + 2 - 1 = a + 1 /\ a # Len(u)
        <5>1. Len(key) \in Nat /\ Len(key) >= 2
          BY <2>1, <3>8
        <5>2. f \in a..Len(u) /\ f # a
          BY <1>7, <3>2, <3>6, <5>1
        <5> HIDE DEF f
        <5> QED BY <1>3, <1>7, <3>6, <5>1, <5>2
      <4>2. ~Space(u[a + 1])
        BY <3>3, <3>4, <4>1
      <4>3. d = Len(u) \/ Space(u[d + 1])
        BY WordIs DEF d
      <4> QED BY <1>9, <4>1, <4>2, <4>3
    <3> QED BY <3>7, <3>8
  <2>4. F \subseteq Nat
    OBVIOUS
  <2>5. find(u, key) = Min(F)
    BY DEF find
  <2> HIDE DEF F
  <2>6. Min(F) \in F /\ Min(F) <= b
    BY <2>2, <2>4, Least
  <2>7. Min(F) \in Nat /\ b \in Nat /\ ~(Min(F) < b)
    BY <1>7, <2>3, <2>4, <2>6
  <2> QED BY <2>5, <2>6, <2>7
<1> DEFINE V == {i \in (e + 1)..Len(u) : ~Space(u[i])}
<1>11. v = Min(V)
  <2>1. find(u, key) + Len(key) = e + 1
    BY <1>3, <1>7, <1>8, <1>10
  <2> QED BY <2>1 DEF valueStart, v
<1>12. V # {} /\ V \subseteq Nat
  <2>1. PICK y \in Starts(u) : y > b
    BY <1>5
  <2>2. y \in 1..Len(u) /\ ~Space(u[y]) /\ (y = 1 \/ Space(u[y - 1]))
    BY DEF Starts
  <2>3. y > e
    <3> SUFFICES ASSUME y <= e PROVE FALSE
      BY <1>3, <1>7, <2>2
    <3>1. y - 1 \in b..e /\ y # 1
      BY <1>3, <1>7, <2>1, <2>2
    <3> QED BY <1>7, <2>2, <3>1
  <2>4. y \in V
    BY <1>3, <1>7, <2>2, <2>3
  <2>5. V \subseteq Nat
    BY <1>3, <1>7
  <2> QED BY <2>4, <2>5
<1>13. v \in V /\ \A i \in V : v <= i
  <2> HIDE DEF V, v
  <2> QED BY <1>11, <1>12, Least
<1> HIDE DEF v
<1>14. /\ v \in 1..Len(u) /\ e + 1 < v /\ ~Space(u[v])
       /\ \A i \in (e + 1)..(v - 1) : Space(u[i])
  <2>1. v \in (e + 1)..Len(u) /\ ~Space(u[v])
    BY <1>13
  <2>2. v # e + 1 /\ v \in 1..Len(u)
    <3>1. e # Len(u)
      BY <1>3, <1>7, <2>1
    <3> QED BY <1>3, <1>7, <2>1, <3>1
  <2>3. ASSUME NEW i \in (e + 1)..(v - 1) PROVE Space(u[i])
    <3>1. i \in (e + 1)..Len(u) /\ ~(v <= i)
      BY <1>3, <1>7, <2>1
    <3> QED BY <1>13, <3>1
  <2> QED BY <1>3, <1>7, <2>1, <2>2, <2>3
<1>15. /\ q.value \in Seq(Bytes) /\ Len(q.value) = Len(u) - v + 1
       /\ \A i \in 1..(Len(u) - v + 1) : q.value[i] = u[v + i - 1]
  <2>1. v \in 1..(Len(u) + 1) /\ Len(u) \in 0..Len(u) /\ v <= Len(u)
    BY <1>3, <1>14
  <2> QED BY <1>2, <2>1, PartIs
<1>16. ~Space(Head(q.value))
  <2>1. 1 \in 1..(Len(u) - v + 1) /\ v + 1 - 1 = v /\ q.value # <<>>
    BY <1>3, <1>14, <1>15
  <2>2. Head(q.value) = q.value[1]
    BY <1>15, <2>1, HeadTailProperties
  <2> QED BY <1>14, <1>15, <2>1, <2>2
<1>17. split(SubSeq(u, 1, Len(u) - Len(q.value))) = <<<<"P">>, q.key>>
  <2>1. Len(u) - Len(q.value) = v - 1
    BY <1>3, <1>14, <1>15
  <2>2. split(SubSeq(u, 1, v - 1)) = <<SubSeq(u, a, d), SubSeq(u, b, e)>>
    BY <1>5, <1>14, CutLine DEF d, e
  <2> QED BY <1>2, <1>6, <1>9, <2>1, <2>2
<1>18. IsSuffix(q.value, u)
  BY <1>3, <1>14, <1>15, SuffixOf
<1> QED BY <1>16, <1>17, <1>18 DEF q

(* A line of the stream is a sequence of bytes. *)
LEMMA TrueLineTyped ==
  ASSUME NEW u \in Seq(Bytes), NEW n,
         NEW i \in 0..Len(u), WholeLines(u, i, n - 1),
         NEW j \in 0..Len(u), WholeLines(u, j, n)
  PROVE  TrueLine(u, n) \in Seq(Bytes)
<1>1. ASSUME NEW s \in Seq(Bytes) PROVE Chopped(s) \in Seq(Bytes)
  <2>1. CASE s = <<>>
    BY <2>1 DEF Chopped
  <2>2. CASE s # <<>>
    <3>1. Len(s) \in Nat /\ Len(s) # 0
      BY <2>2, LenProperties, EmptySeq
    <3>2. 1 \in 1..(Len(s) + 1) /\ Len(s) - 1 \in 0..Len(s)
      BY <3>1
    <3>3. Front(s) \in Seq(Bytes)
      BY <3>2, PartIs DEF Front
    <3> QED BY <3>3 DEF Chopped
  <2> QED BY <2>1, <2>2
<1>2. LinesEnd(u, n - 1) = i /\ LinesEnd(u, n) = j
  BY LinesEndIs
<1>3. SubSeq(u, i + 1, j - 1) \in Seq(Bytes)
  <2>1. Len(u) \in Nat
    BY LenProperties
  <2>2. i + 1 \in Int /\ j - 1 \in Int /\ \A a \in (i + 1)..(j - 1) : a \in 1..Len(u)
    BY <2>1
  <2>3. \A a \in (i + 1)..(j - 1) : u[a] \in Bytes
    BY <2>2, ElementOfSeq
  <2> QED BY <2>2, <2>3, SubSeqProperties
<1> QED BY <1>1, <1>2, <1>3 DEF TrueLine

(* The requests handled so far are parsed from such lines. *)
LEMMA ValueIs == SessionInv => ValueIsRest
<1> SUFFICES ASSUME SessionInv, NEW n \in 1..Len(executed),
                    executed[n].command = "PUT", executed[n].key # <<"P">>
             PROVE  LET q == executed[n]
                        line == TrueLine(sent, n)
                    IN  /\ IsSuffix(q.value, line) /\ ~Space(Head(q.value))
                        /\ split(SubSeq(line, 1, Len(line) - Len(q.value))) = <<<<"P">>, q.key>>
  BY DEF ValueIsRest
<1>1. sent \in Seq(Bytes) /\ Len(executed) \in Nat
  BY State, LenProperties DEF SessionInv, ExecutedSeq
<1>2. PICK j \in 0..Len(sent) : WholeLines(sent, j, n)
  BY DEF SessionInv, Framing
<1>3. PICK i \in 0..Len(sent) : WholeLines(sent, i, n - 1)
  <2>1. CASE n = 1
    <3>1. 0 \in 0..Len(sent) /\ n - 1 = 0
      BY <1>1, <2>1, LenProperties
    <3> QED BY <3>1, NoLines
  <2>2. CASE n # 1
    <3>1. n - 1 \in 1..Len(executed)
      BY <1>1, <2>2
    <3> QED BY <3>1 DEF SessionInv, Framing
  <2> QED BY <2>1, <2>2
<1>4. TrueLine(sent, n) \in Seq(Bytes)
  BY <1>1, <1>2, <1>3, TrueLineTyped
<1>5. executed[n] = parseLine(TrueLine(sent, n))
  BY DEF SessionInv, Framing
<1> QED BY <1>4, <1>5, PutIs

-----------------------------------------------------------------------------
(* The indices of the input buffer stay in order and within the vector, however *)
(* many bytes arrive at a time (buffer.h:163-175, buffer.cpp:25-57).            *)
THEOREM TypeCorrect == Spec => []TypeOK
<1>1. SessionInv => TypeOK
  BY DEF SessionInv
<1> QED BY <1>1, InvCorrect, PTL

(* The buffer and the stream behind it are the bytes that the client sent after *)
(* the lines of the requests handled: none is lost, repeated or reordered.      *)
THEOREM BytesKeptCorrect == Spec => []BytesKept
<1>1. SessionInv => BytesKept
  BY DEF SessionInv
<1> QED BY <1>1, InvCorrect, PTL

(* The requests handled are the lines that the client sent, one by one and in  *)
(* order, wherever TCP cut the stream, be it between CR and LF (codec.h:67-112). *)
THEOREM FramingCorrect == Spec => []Framing
<1>1. SessionInv => Framing
  BY DEF SessionInv
<1> QED BY <1>1, InvCorrect, PTL

(* onMessage() leaves no complete request in the buffer, except behind a QUIT   *)
(* (kv_server.cpp:51-72).                                                       *)
THEOREM NothingLeftCorrect == Spec => []NothingLeft
<1>1. SessionInv => NothingLeft
  BY DEF SessionInv
<1> QED BY <1>1, InvCorrect, PTL

(* Every request up to the first QUIT is answered exactly once and in order,    *)
(* none after it, with the answer that the requests before it determine         *)
(* (kv_server.cpp:51-133, tcp_connection.cpp:38-49).                            *)
THEOREM RepliesCorrect == Spec => []Replies
<1>1. AnswerInv => Replies
  BY DEF AnswerInv
<1> QED BY <1>1, AnswersCorrect, PTL

(* The value of a PUT is the rest of its line behind the key, inner spaces      *)
(* included, unless the key occurs in the command word (codec.h:114-139).       *)
THEOREM ValueIsRestCorrect == Spec => []ValueIsRest
BY ValueIs, InvCorrect, PTL
=============================================================================

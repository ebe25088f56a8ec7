--------------------------- MODULE KVServer_proofs ---------------------------
(***************************************************************************)
(* Proofs about KVServer for every ordered set of keys, all values and any *)
(* number of writes, starts and crashes: what the data file holds, and     *)
(* what a start makes of it.                                               *)
(***************************************************************************)
EXTENDS KVServer, SequenceTheorems, WellFoundedInduction, TLAPS

N    == Len(KeyOrder)
Text == Seq(Chars)
StoreType == [Keys -> Text \cup {NoValue}]

(* The keys and their positions. *)
LEMMA KeyFacts ==
  /\ N \in Nat /\ DOMAIN KeyOrder = 1..N
  /\ \A i \in 1..N : KeyOrder[i] \in Keys
  /\ \A k \in Keys : k \in Text /\ Len(k) \in Nat /\ Len(k) >= 1
  /\ \A k \in Keys : \E i \in 1..N : KeyOrder[i] = k
  /\ \A i, j \in 1..N : KeyOrder[i] = KeyOrder[j] => i = j
<1>1. KeyOrder \in Seq(Seq(Chars) \ {<<>>})
  BY KVServerAssumption
<1>2. N \in Nat /\ DOMAIN KeyOrder = 1..N /\ \A i \in 1..N : KeyOrder[i] \in Seq(Chars) \ {<<>>}
  BY <1>1, LenProperties, ElementOfSeq DEF N
<1>3. \A k \in Seq(Chars) \ {<<>>} : k \in Text /\ Len(k) \in Nat /\ Len(k) >= 1
  <2> SUFFICES ASSUME NEW k \in Seq(Chars), k # <<>> PROVE Len(k) \in Nat /\ Len(k) >= 1
    BY DEF Text
  <2>1. Len(k) \in Nat \ {0}
    BY EmptySeq
  <2> QED BY <2>1
<1> QED BY <1>2, <1>3, KVServerAssumption DEF Keys

(* What is sought as text differs from NoValue. *)
LEMMA TextIsValue == NoValue \notin Text
BY KVServerAssumption DEF Text

(* Two texts joined, character by character. *)
LEMMA Joined ==
  ASSUME NEW s \in Text, NEW t \in Text
  PROVE  /\ s \o t \in Text /\ Len(s \o t) = Len(s) + Len(t)
         /\ \A i \in 1..(Len(s) + Len(t)) :
              (s \o t)[i] = IF i <= Len(s) THEN s[i] ELSE t[i - Len(s)]
<1>1. s \in Seq(Chars) /\ t \in Seq(Chars)
  BY DEF Text
<1> QED BY ONLY <1>1, ConcatProperties, Zenon DEF Text

(* A line, character by character. *)
LEMMA LineIs ==
  ASSUME NEW k \in Text, NEW v \in Text
  PROVE  /\ Line(k, v) \in Text
         /\ Len(Line(k, v)) = Len(k) + 1 + Len(v) /\ Len(k) \in Nat /\ Len(v) \in Nat
         /\ \A i \in 1..Len(k) : Line(k, v)[i] = k[i]
         /\ Line(k, v)[Len(k) + 1] = Delimiter
         /\ \A i \in 1..Len(v) : Line(k, v)[Len(k) + 1 + i] = v[i]
<1> DEFINE d == <<Delimiter>>
           h == k \o d
<1>1. d \in Text /\ Len(d) = 1 /\ d[1] = Delimiter
  BY KVServerAssumption DEF Text
<1>2. Len(k) \in Nat /\ Len(v) \in Nat
  BY LenProperties DEF Text
<1> HIDE DEF d
<1>3. /\ h \in Text /\ Len(h) = Len(k) + 1
      /\ \A i \in 1..(Len(k) + 1) : h[i] = IF i <= Len(k) THEN k[i] ELSE d[i - Len(k)]
  <2>1. Len(k) + Len(d) = Len(k) + 1
    BY <1>1
  <2>2. /\ h \in Text /\ Len(h) = Len(k) + Len(d)
        /\ \A i \in 1..(Len(k) + Len(d)) : h[i] = IF i <= Len(k) THEN k[i] ELSE d[i - Len(k)]
    BY <1>1, Joined
  <2> HIDE DEF h
  <2> QED BY ONLY <2>1, <2>2
<1> HIDE DEF h
<1>4. /\ h \o v \in Text /\ Len(h \o v) = Len(h) + Len(v)
      /\ \A i \in 1..(Len(h) + Len(v)) : (h \o v)[i] = IF i <= Len(h) THEN h[i] ELSE v[i - Len(h)]
  BY <1>3, Joined
<1>5. Line(k, v) = h \o v
  BY DEF Line, h, d
<1> DEFINE w == h \o v
<1> HIDE DEF w
<1>6. w \in Text /\ Len(w) = Len(k) + 1 + Len(v)
  BY <1>2, <1>3, <1>4 DEF w
<1>7. \A i \in 1..(Len(k) + 1) : w[i] = h[i]
  BY <1>2, <1>3, <1>4 DEF w
<1>8. ASSUME NEW i \in 1..Len(v) PROVE w[Len(k) + 1 + i] = v[i]
  <2>1. Len(k) + 1 + i \in 1..(Len(h) + Len(v)) /\ ~(Len(k) + 1 + i <= Len(h))
        /\ Len(k) + 1 + i - Len(h) = i
    BY <1>2, <1>3
  <2> QED BY <1>4, <2>1 DEF w
<1>9. (\A i \in 1..Len(k) : w[i] = k[i]) /\ w[Len(k) + 1] = Delimiter
  <2>1. ASSUME NEW i \in 1..Len(k) PROVE w[i] = k[i]
    <3>1. i \in 1..(Len(k) + 1) /\ i <= Len(k)
      BY <1>2
    <3> QED BY <1>3, <1>7, <3>1
  <2>2. Len(k) + 1 \in 1..(Len(k) + 1) /\ ~(Len(k) + 1 <= Len(k)) /\ Len(k) + 1 - Len(k) = 1
    BY <1>2
  <2>3. h[Len(k) + 1] = d[1]
    BY <1>3, <2>2
  <2> QED BY <1>1, <1>7, <2>1, <2>2, <2>3
<1> QED BY <1>2, <1>5, <1>6, <1>8, <1>9 DEF w

(* A part of a text is a text. *)
LEMMA PartIs ==
  ASSUME NEW t \in Text, NEW m \in 1..(Len(t) + 1), NEW n \in 0..Len(t)
  PROVE  /\ SubSeq(t, m, n) \in Text
         /\ Len(SubSeq(t, m, n)) = IF m <= n THEN n - m + 1 ELSE 0
         /\ \A i \in 1..(n - m + 1) : SubSeq(t, m, n)[i] = t[m + i - 1]
<1>1. Len(t) \in Nat
  BY LenProperties DEF Text
<1>2. \A i \in m..n : t[i] \in Chars
  BY <1>1, ElementOfSeq DEF Text
<1>3. m \in Int /\ n \in Int
  BY <1>1
<1> QED BY <1>2, <1>3, SubSeqProperties DEF Text

(* Texts are equal when their characters are. *)
LEMMA SameText ==
  ASSUME NEW s \in Text, NEW t \in Text, Len(s) = Len(t), \A i \in 1..Len(s) : s[i] = t[i]
  PROVE  s = t
BY SeqEqual DEF Text

-----------------------------------------------------------------------------
(* A set of natural numbers has a least element. *)
LEMMA Least ==
  ASSUME NEW T, T \subseteq Nat, T # {}
  PROVE  \E x \in T : \A y \in T : x <= y
<1>1. PICK x \in T : \A y \in T : <<y, x>> \notin OpToRel(<, Nat)
  BY NatLessThanWellFounded, WFMin, Zenon
<1>2. \A y \in T : x <= y
  <2> SUFFICES ASSUME NEW y \in T, ~(x <= y) PROVE FALSE
    OBVIOUS
  <2>1. x \in Nat /\ y \in Nat
    BY <1>1
  <2>2. <<y, x>> \in Nat \X Nat /\ <<y, x>>[1] < <<y, x>>[2]
    BY <2>1
  <2>3. <<y, x>> \in OpToRel(<, Nat)
    BY <2>2 DEF OpToRel
  <2> QED BY <1>1, <2>3
<1> QED BY <1>1, <1>2

(* find() returns the first delimiter. *)
LEMMA FirstIs ==
  ASSUME NEW t \in Text, DelimiterAt(t) # {}
  PROVE  /\ FirstDelimiter(t) \in 1..Len(t)
         /\ FirstDelimiter(t) \in DelimiterAt(t)
         /\ \A j \in DelimiterAt(t) : FirstDelimiter(t) <= j
<1>1. Len(t) \in Nat /\ DOMAIN t = 1..Len(t)
  BY LenProperties DEF Text
<1>2. DelimiterAt(t) \subseteq 1..Len(t)
  BY <1>1 DEF DelimiterAt
<1>3. \E i \in DelimiterAt(t) : \A j \in DelimiterAt(t) : i <= j
  BY <1>1, <1>2, Least
<1>4. FirstDelimiter(t) \in DelimiterAt(t) /\ \A j \in DelimiterAt(t) : FirstDelimiter(t) <= j
  BY <1>3, Zenon DEF FirstDelimiter
<1> QED BY <1>2, <1>4

LEMMA FirstAt ==
  ASSUME NEW t \in Text, NEW n \in 1..Len(t), t[n] = Delimiter,
         \A i \in 1..(n - 1) : t[i] # Delimiter
  PROVE  DelimiterAt(t) # {} /\ FirstDelimiter(t) = n
<1>1. Len(t) \in Nat /\ DOMAIN t = 1..Len(t)
  BY LenProperties DEF Text
<1>2. n \in DelimiterAt(t)
  BY <1>1 DEF DelimiterAt
<1> DEFINE f == FirstDelimiter(t)
<1>3. f \in 1..Len(t) /\ f \in DelimiterAt(t) /\ f <= n
  BY <1>2, FirstIs
<1>4. t[f] = Delimiter
  BY <1>3 DEF DelimiterAt
<1> HIDE DEF f
<1>5. f = n
  <2> SUFFICES ASSUME f # n PROVE FALSE
    OBVIOUS
  <2>1. f \in 1..(n - 1)
    BY <1>1, <1>3
  <2> QED BY <1>4, <2>1
<1> QED BY <1>2, <1>5 DEF f

(* What the first cut characters of a line say, for a key without a delimiter. *)
LEMMA CutLine ==
  ASSUME NEW k \in Text, Len(k) >= 1, DelimiterAt(k) = {}, NEW v \in Text,
         NEW cut \in 1..(Len(k) + 1 + Len(v))
  PROVE  LET t == SubSeq(Line(k, v), 1, cut)
         IN  /\ cut <= Len(k) => ~Parses(t)
             /\ cut > Len(k) => /\ Parses(t) /\ KeyOf(t) = k
                                /\ ValueOf(t) = SubSeq(v, 1, cut - Len(k) - 1)
                                /\ cut - Len(k) - 1 \in 0..Len(v)
<1> DEFINE l == Line(k, v)
           t == SubSeq(l, 1, cut)
<1>1. /\ l \in Text /\ Len(l) = Len(k) + 1 + Len(v) /\ Len(k) \in Nat /\ Len(v) \in Nat
      /\ \A i \in 1..Len(k) : l[i] = k[i]
      /\ l[Len(k) + 1] = Delimiter
      /\ \A i \in 1..Len(v) : l[Len(k) + 1 + i] = v[i]
  BY LineIs
<1> HIDE DEF l
<1>2. t \in Text /\ Len(t) = cut /\ \A i \in 1..cut : t[i] = l[i]
  <2>1. 1 \in 1..(Len(l) + 1) /\ cut \in 0..Len(l) /\ 1 <= cut /\ cut - 1 + 1 = cut
    BY <1>1
  <2>2. t \in Text /\ Len(t) = cut - 1 + 1 /\ \A i \in 1..(cut - 1 + 1) : t[i] = l[1 + i - 1]
    BY <1>1, <2>1, PartIs
  <2>3. \A i \in 1..cut : 1 + i - 1 = i
    OBVIOUS
  <2> HIDE DEF t
  <2> QED BY <2>1, <2>2, <2>3
<1> HIDE DEF t
<1>3. \A i \in 1..Len(k) : i <= cut => t[i] = k[i] /\ t[i] # Delimiter
  <2> SUFFICES ASSUME NEW i \in 1..Len(k), i <= cut PROVE t[i] = k[i] /\ t[i] # Delimiter
    OBVIOUS
  <2>1. i \in 1..cut /\ t[i] = k[i]
    BY <1>1, <1>2
  <2>2. i \in DOMAIN k
    BY LenProperties DEF Text
  <2> QED BY <2>1, <2>2 DEF DelimiterAt
<1>4. DOMAIN t = 1..cut
  BY <1>2, LenProperties DEF Text
<1>5. ASSUME cut <= Len(k) PROVE ~Parses(t)
  <2>1. \A i \in 1..cut : i \in 1..Len(k) /\ i <= cut
    BY <1>1, <1>5
  <2>2. DelimiterAt(t) = {}
    BY <1>3, <1>4, <2>1 DEF DelimiterAt
  <2> QED BY <2>2 DEF Parses
<1>6. ASSUME cut > Len(k)
      PROVE  /\ Parses(t) /\ KeyOf(t) = k /\ ValueOf(t) = SubSeq(v, 1, cut - Len(k) - 1)
             /\ cut - Len(k) - 1 \in 0..Len(v)
  <2>0. cut \in Nat /\ cut >= Len(k) + 1
    BY <1>1, <1>6
  <2>1. DelimiterAt(t) # {} /\ FirstDelimiter(t) = Len(k) + 1
    <3>1. Len(k) + 1 \in 1..Len(t) /\ Len(k) + 1 \in 1..cut
      BY <1>1, <1>2, <2>0
    <3>2. t[Len(k) + 1] = Delimiter
      BY <1>1, <1>2, <3>1
    <3>3. \A i \in 1..(Len(k) + 1 - 1) : t[i] # Delimiter
      BY <1>1, <1>3, <2>0
    <3> QED BY <1>2, <3>1, <3>2, <3>3, FirstAt
  <2>2. Parses(t)
    BY <1>1, <2>1 DEF Parses
  <2>3. KeyOf(t) = k
    <3>1. KeyOf(t) = SubSeq(t, 1, Len(k))
      BY <1>1, <2>1 DEF KeyOf
    <3> DEFINE h == SubSeq(t, 1, Len(k))
    <3>2. 1 \in 1..(Len(t) + 1) /\ Len(k) \in 0..Len(t) /\ 1 <= Len(k)
      BY <1>1, <1>2, <2>0
    <3>3. /\ h \in Text /\ Len(h) = Len(k) - 1 + 1
          /\ \A i \in 1..(Len(k) - 1 + 1) : h[i] = t[1 + i - 1]
      BY <1>2, <3>2, PartIs
    <3> HIDE DEF h
    <3>4. ASSUME NEW i \in 1..Len(k) PROVE h[i] = k[i]
      <4>1. i \in 1..(Len(k) - 1 + 1) /\ 1 + i - 1 = i /\ i <= cut
        BY <1>1, <2>0
      <4> QED BY <1>3, <3>3, <4>1
    <3>5. Len(h) = Len(k) /\ \A i \in 1..Len(h) : h[i] = k[i]
      BY <1>1, <3>3, <3>4
    <3>6. h = k
      <4>1. k \in Text /\ h \in Text
        BY <3>3
      <4> QED BY ONLY <4>1, <3>5, SameText
    <3> QED BY <3>1, <3>6 DEF h
  <2>4. cut - Len(k) - 1 \in 0..Len(v)
    BY <1>1, <2>0
  <2>5. ValueOf(t) = SubSeq(v, 1, cut - Len(k) - 1)
    <3> DEFINE n == cut - Len(k) - 1
               a == SubSeq(t, Len(k) + 2, cut)
               b == SubSeq(v, 1, n)
    <3>1. ValueOf(t) = a
      <4>1. Len(k) + 1 + 1 = Len(k) + 2
        BY <1>1
      <4> QED BY <1>2, <2>1, <4>1 DEF ValueOf
    <3>2. Len(k) + 2 \in 1..(Len(t) + 1) /\ cut \in 0..Len(t)
      BY <1>1, <1>2, <2>0
    <3>3. /\ a \in Text /\ Len(a) = IF Len(k) + 2 <= cut THEN cut - (Len(k) + 2) + 1 ELSE 0
          /\ \A i \in 1..(cut - (Len(k) + 2) + 1) : a[i] = t[Len(k) + 2 + i - 1]
      BY <1>2, <3>2, PartIs
    <3>4. 1 \in 1..(Len(v) + 1)
      BY <1>1
    <3>5. b \in Text /\ Len(b) = (IF 1 <= n THEN n - 1 + 1 ELSE 0)
          /\ \A i \in 1..(n - 1 + 1) : b[i] = v[1 + i - 1]
      BY <2>4, <3>4, PartIs
    <3> HIDE DEF a, b
    <3>6. Len(a) = n /\ Len(b) = n
      BY <1>1, <2>0, <2>4, <3>3, <3>5
    <3>7. ASSUME NEW i \in 1..n PROVE a[i] = b[i]
      <4>1. /\ i \in 1..(cut - (Len(k) + 2) + 1) /\ i \in 1..(n - 1 + 1) /\ 1 + i - 1 = i
            /\ Len(k) + 2 + i - 1 = Len(k) + 1 + i /\ Len(k) + 1 + i \in 1..cut
            /\ i \in 1..Len(v)
        BY <1>1, <2>0, <2>4
      <4>2. a[i] = t[Len(k) + 1 + i] /\ b[i] = v[i]
        BY <3>3, <3>5, <4>1
      <4>3. t[Len(k) + 1 + i] = l[Len(k) + 1 + i]
        BY <1>2, <4>1
      <4> QED BY <1>1, <4>1, <4>2, <4>3
    <3>8. Len(a) = Len(b) /\ \A i \in 1..Len(a) : a[i] = b[i]
      BY <3>6, <3>7
    <3>9. a = b
      <4>1. a \in Text /\ b \in Text
        BY <3>3, <3>5
      <4> QED BY ONLY <4>1, <3>8, SameText
    <3> QED BY <3>1, <3>9 DEF b
  <2> QED BY <2>2, <2>3, <2>4, <2>5
<1> QED BY <1>5, <1>6 DEF t, l

(* What loadFile() makes of any file is a store. *)
LEMMA LoadedTyped ==
  ASSUME NEW lines \in Seq(Text)
  PROVE  Loaded(lines) \in StoreType
<1> SUFFICES ASSUME NEW k \in Keys, LastLineOf(lines, k) # {}
             PROVE  ValueOf(lines[CHOOSE i \in LastLineOf(lines, k) : TRUE]) \in Text
  BY DEF Loaded, StoreType
<1> DEFINE i == CHOOSE i \in LastLineOf(lines, k) : TRUE
           t == lines[i]
<1>1. i \in LastLineOf(lines, k)
  OBVIOUS
<1>2. i \in DOMAIN lines /\ Parses(t)
  BY <1>1 DEF LastLineOf
<1>3. t \in Text
  BY <1>2, ElementOfSeq, LenProperties
<1> HIDE DEF t
<1>4. FirstDelimiter(t) \in 1..Len(t) /\ Len(t) \in Nat
  BY <1>2, <1>3, FirstIs, LenProperties DEF Parses, Text
<1>5. FirstDelimiter(t) + 1 \in 1..(Len(t) + 1) /\ Len(t) \in 0..Len(t)
  BY <1>4
<1> QED BY <1>3, <1>5, PartIs DEF ValueOf, t

-----------------------------------------------------------------------------
(* A way through the keys of a store, and the lines it gives. *)
LEMMA WalkIs ==
  ASSUME NEW s, NEW p \in 0..N, NEW q \in Walks(s, p)
  PROVE  /\ q \in Seq(Held(s, p)) /\ Len(q) \in 0..p /\ DOMAIN q = 1..Len(q)
         /\ \A i \in 1..Len(q) : q[i] \in Held(s, p) /\ q[i] \in 1..p
         /\ \A i, j \in 1..Len(q) : i < j => q[i] < q[j]
         /\ \A x \in Held(s, p) : \E i \in 1..Len(q) : q[i] = x
<1>1. PICK n \in 0..p : q \in [1..n -> Held(s, p)]
  BY DEF Walks
<1>2. n \in Nat
  BY <1>1, KeyFacts
<1>3. q \in Seq(Held(s, p))
  BY <1>1, <1>2, SeqDef
<1>4. Len(q) = n /\ DOMAIN q = 1..n
  <2>1. DOMAIN q = 1..n /\ DOMAIN q = 1..Len(q) /\ Len(q) \in Nat
    BY <1>1, <1>3, LenProperties
  <2> QED BY <1>2, <2>1
<1>5. Held(s, p) \subseteq 1..p
  BY DEF Held
<1>6. \A i \in 1..n : q[i] \in Held(s, p) /\ q[i] \in 1..p
  BY <1>1, <1>5
<1> QED BY <1>1, <1>3, <1>4, <1>6 DEF Walks

LEMMA LinesAre ==
  ASSUME NEW s \in StoreType, NEW p \in 0..N, NEW q \in Walks(s, p)
  PROVE  /\ LinesOf(s, q) \in Seq(Text) /\ Len(LinesOf(s, q)) = Len(q)
         /\ \A i \in 1..Len(q) :
              /\ q[i] \in 1..N
              /\ KeyOrder[q[i]] \in Keys /\ s[KeyOrder[q[i]]] \in Text
              /\ LinesOf(s, q)[i] = Line(KeyOrder[q[i]], s[KeyOrder[q[i]]])
              /\ LinesOf(s, q)[i] \in Text /\ Len(LinesOf(s, q)[i]) >= 1
<1> DEFINE l == LinesOf(s, q)
<1>1. Len(q) \in Nat /\ DOMAIN q = 1..Len(q)
  BY WalkIs, KeyFacts
<1>2. ASSUME NEW i \in 1..Len(q)
      PROVE  /\ q[i] \in 1..N
             /\ KeyOrder[q[i]] \in Keys /\ s[KeyOrder[q[i]]] \in Text
             /\ LineOf(s, q[i]) = Line(KeyOrder[q[i]], s[KeyOrder[q[i]]])
             /\ LineOf(s, q[i]) \in Text /\ Len(LineOf(s, q[i])) >= 1
  <2>1. q[i] \in 1..N /\ s[KeyOrder[q[i]]] # NoValue
    <3>1. q[i] \in Held(s, p) /\ q[i] \in 1..p
      BY WalkIs
    <3> QED BY <3>1, KeyFacts DEF Held
  <2>2. KeyOrder[q[i]] \in Keys
    BY <2>1, KeyFacts
  <2>3. s[KeyOrder[q[i]]] \in Text
    BY <2>1, <2>2 DEF StoreType
  <2>4. KeyOrder[q[i]] \in Text
    BY <2>2, KeyFacts
  <2> DEFINE k == KeyOrder[q[i]]
             v == s[KeyOrder[q[i]]]
  <2>5. Line(k, v) \in Text /\ Len(Line(k, v)) = Len(k) + 1 + Len(v) /\ Len(k) \in Nat /\ Len(v) \in Nat
    <3> HIDE DEF k, v
    <3>1. k \in Text /\ v \in Text
      BY <2>3, <2>4 DEF k, v
    <3> QED BY <3>1, LineIs
  <2>6. LineOf(s, q[i]) = Line(k, v)
    BY DEF LineOf
  <2> DEFINE w == Line(k, v)
  <2> HIDE DEF w
  <2>7. w \in Text /\ Len(w) >= 1
    <3>1. w \in Text /\ Len(w) = Len(k) + 1 + Len(v)
      BY <2>5 DEF w
    <3> DEFINE a == Len(k)
               b == Len(v)
    <3> HIDE DEF a, b, k, v
    <3>2. a \in Nat /\ b \in Nat /\ Len(w) = a + 1 + b
      BY <2>5, <3>1 DEF a, b
    <3> QED BY <3>1, <3>2
  <2> QED BY <2>1, <2>2, <2>3, <2>6, <2>7 DEF w
<1>3. l = [i \in 1..Len(q) |-> LineOf(s, q[i])]
  BY <1>1 DEF LinesOf
<1>4. l \in [1..Len(q) -> Text]
  BY <1>2, <1>3
<1>5. l \in Seq(Text)
  BY <1>1, <1>4, SeqDef
<1>6. Len(l) = Len(q)
  <2>1. DOMAIN l = 1..Len(q) /\ DOMAIN l = 1..Len(l) /\ Len(l) \in Nat
    BY <1>4, <1>5, LenProperties
  <2> QED BY <1>1, <2>1
<1>7. \A i \in 1..Len(q) : l[i] = LineOf(s, q[i])
  BY <1>3
<1> HIDE DEF l
<1> QED BY <1>2, <1>5, <1>6, <1>7 DEF l

(* The dump begins with nothing, and an empty store is nothing. *)
LEMMA WalkNone ==
  ASSUME NEW s, NEW p \in 0..N, Held(s, p) = {}
  PROVE  <<>> \in Walks(s, p) /\ LinesOf(s, <<>>) = <<>>
<1>1. <<>> \in [1..0 -> Held(s, p)] /\ 0 \in 0..p /\ DOMAIN <<>> = {}
  BY KeyFacts
<1>2. <<>> \in Walks(s, p)
  BY <1>1 DEF Walks
<1>3. LinesOf(s, <<>>) = <<>>
  BY <1>1 DEF LinesOf
<1> QED BY <1>2, <1>3

(* The next key goes behind the ones there are. *)
LEMMA WalkOn ==
  ASSUME NEW s \in StoreType, NEW p \in 0..N, NEW q \in Walks(s, p),
         NEW i \in Held(s, N), p < i, \A j \in Held(s, N) : j > p => i <= j
  PROVE  /\ i \in 0..N /\ Append(q, i) \in Walks(s, i)
         /\ LinesOf(s, Append(q, i)) = Append(LinesOf(s, q), LineOf(s, i))
<1> DEFINE r == Append(q, i)
           n == Len(q)
<1>1. N \in Nat /\ i \in 1..N /\ p \in Nat /\ i >= p + 1
  BY KeyFacts DEF Held
<1>2. /\ q \in Seq(Held(s, p)) /\ n \in 0..p /\ DOMAIN q = 1..n
      /\ \A x \in 1..n : q[x] \in Held(s, p) /\ q[x] \in 1..p
      /\ \A x, y \in 1..n : x < y => q[x] < q[y]
      /\ \A x \in Held(s, p) : \E y \in 1..n : q[y] = x
  BY WalkIs
<1>3. Held(s, i) = Held(s, p) \cup {i}
  <2>1. ASSUME NEW x \in Held(s, i) PROVE x \in Held(s, p) \cup {i}
    <3>1. x \in Held(s, N) /\ x \in Int /\ x <= i /\ x >= 1
      BY <1>1 DEF Held
    <3>2. CASE x > p
      <4>1. i <= x
        BY <3>1, <3>2
      <4> QED BY <1>1, <3>1, <4>1
    <3>3. CASE ~(x > p)
      <4>1. x \in 1..p
        BY <1>1, <3>1, <3>3
      <4> QED BY <4>1 DEF Held
    <3> QED BY <3>2, <3>3
  <2>2. i \in Held(s, i)
    BY <1>1 DEF Held
  <2>3. Held(s, p) \subseteq Held(s, i)
    <3>1. \A x \in 1..p : x \in 1..i
      BY <1>1
    <3> QED BY <3>1 DEF Held
  <2> QED BY <2>1, <2>2, <2>3
<1>4. q \in Seq(Held(s, i))
  BY <1>2, <1>3, SeqMonotonic
<1>5. /\ r \in Seq(Held(s, i)) /\ Len(r) = n + 1
      /\ \A x \in 1..n : r[x] = q[x]
      /\ r[n + 1] = i
  BY <1>3, <1>4, AppendProperties
<1> HIDE DEF r, n
<1>6. n \in Nat /\ n + 1 \in 0..i
  BY <1>1, <1>2
<1>7. r \in [1..(n + 1) -> Held(s, i)] /\ DOMAIN r = 1..(n + 1)
  BY <1>5, LenProperties
<1>8. ASSUME NEW x \in 1..(n + 1), NEW y \in 1..(n + 1), x < y
      PROVE  r[x] < r[y]
  <2>1. x \in 1..n
    BY <1>6, <1>8
  <2>2. CASE y = n + 1
    BY <1>1, <1>2, <1>5, <2>1, <2>2
  <2>3. CASE y # n + 1
    <3>1. y \in 1..n
      BY <1>6, <2>3
    <3> QED BY <1>2, <1>5, <1>8, <2>1, <3>1
  <2> QED BY <2>2, <2>3
<1>9. ASSUME NEW x \in Held(s, i) PROVE \E y \in 1..(n + 1) : r[y] = x
  <2>1. CASE x = i
    <3>1. n + 1 \in 1..(n + 1)
      BY <1>6
    <3> QED BY <1>5, <2>1, <3>1
  <2>2. CASE x # i
    <3>1. PICK y \in 1..n : q[y] = x
      BY <1>2, <1>3, <2>2
    <3>2. y \in 1..(n + 1)
      BY <1>6
    <3> QED BY <1>5, <3>1, <3>2
  <2> QED BY <2>1, <2>2
<1>10. r \in Walks(s, i)
  <2>1. r \in UNION {[1..m -> Held(s, i)] : m \in 0..i}
    BY <1>6, <1>7
  <2> QED BY <1>7, <1>8, <1>9, <2>1 DEF Walks
<1>11. i \in 0..N
  BY <1>1
<1>12. LinesOf(s, r) = Append(LinesOf(s, q), LineOf(s, i))
  <2> DEFINE a == LinesOf(s, r)
             b == LinesOf(s, q)
             e == LineOf(s, i)
  <2>1. a \in Seq(Text) /\ Len(a) = n + 1 /\ \A x \in 1..(n + 1) : a[x] \in Text
    BY <1>5, <1>10, <1>11, LinesAre
  <2>2. b \in Seq(Text) /\ Len(b) = n
    BY LinesAre DEF n
  <2>3. \A x \in 1..(n + 1) : a[x] = LineOf(s, r[x])
    BY <1>7 DEF LinesOf
  <2>4. \A x \in 1..n : b[x] = LineOf(s, q[x])
    BY <1>2 DEF LinesOf
  <2>5. a[n + 1] = e /\ n + 1 \in 1..(n + 1)
    BY <1>5, <1>6, <2>3
  <2>6. e \in Text
    BY <2>1, <2>5
  <2>7. ASSUME NEW x \in 1..n PROVE a[x] = b[x]
    <3>1. x \in 1..(n + 1)
      BY <1>6
    <3> QED BY <1>5, <2>3, <2>4, <3>1
  <2> HIDE DEF a, b, e
  <2>8. /\ Append(b, e) \in Seq(Text) /\ Len(Append(b, e)) = n + 1
        /\ \A x \in 1..n : Append(b, e)[x] = b[x]
        /\ Append(b, e)[n + 1] = e
    BY <2>2, <2>6, AppendProperties
  <2>9. ASSUME NEW x \in 1..(n + 1) PROVE a[x] = Append(b, e)[x]
    <3>1. CASE x = n + 1
      BY <2>5, <2>8, <3>1
    <3>2. CASE x # n + 1
      <4>1. x \in 1..n
        BY <1>6, <3>2
      <4> QED BY <2>7, <2>8, <4>1
    <3> QED BY <3>1, <3>2
  <2>10. a = Append(b, e)
    <3>1. Len(a) = Len(Append(b, e)) /\ \A x \in 1..Len(a) : a[x] = Append(b, e)[x]
      BY <2>1, <2>8, <2>9
    <3> QED BY <2>1, <2>8, <3>1, SeqEqual
  <2> QED BY <2>10 DEF a, b, e
<1> QED BY <1>10, <1>11, <1>12 DEF r

(* A way that has met every key is a way through all of them. *)
LEMMA WalkAll ==
  ASSUME NEW s, NEW p \in 0..N, NEW q \in Walks(s, p), Held(s, N) \subseteq 1..p
  PROVE  N \in 0..N /\ q \in Walks(s, N)
<1>1. Held(s, p) = Held(s, N)
  <2>1. \A x \in 1..p : x \in 1..N
    BY KeyFacts
  <2> QED BY <2>1 DEF Held
<1>2. N \in 0..N /\ \A n \in 0..p : n \in 0..N
  BY KeyFacts
<1>3. q \in UNION {[1..n -> Held(s, p)] : n \in 0..p}
  BY DEF Walks
<1>4. q \in UNION {[1..n -> Held(s, N)] : n \in 0..N}
  BY <1>1, <1>2, <1>3
<1> QED BY <1>1, <1>2, <1>4 DEF Walks

-----------------------------------------------------------------------------
(* What may be left of lines that were written, line by line: all but the last is *)
(* whole, and the last is not empty.                                              *)
Whole(lines) == \A i \in 1..Len(lines) : lines[i] # <<>>

Starts(x, lines) ==
    /\ x \in Seq(Text) /\ Len(x) <= Len(lines)
    /\ \A i \in 1..Len(x) : i < Len(x) => x[i] = lines[i]
    /\ Len(x) > 0 => \E cut \in 1..Len(lines[Len(x)]) :
                        x[Len(x)] = SubSeq(lines[Len(x)], 1, cut)

LEMMA HeadLines ==
  ASSUME NEW lines \in Seq(Text), NEW n \in 0..Len(lines)
  PROVE  /\ SubSeq(lines, 1, n) \in Seq(Text) /\ Len(SubSeq(lines, 1, n)) = n
         /\ \A i \in 1..n : SubSeq(lines, 1, n)[i] = lines[i]
<1> DEFINE h == SubSeq(lines, 1, n)
<1>1. Len(lines) \in Nat /\ n \in Nat
  BY LenProperties
<1>2. \A i \in 1..n : lines[i] \in Text
  BY <1>1, ElementOfSeq
<1>3. 1 \in Int /\ n \in Int
  BY <1>1
<1>4. /\ h \in Seq(Text) /\ Len(h) = IF 1 <= n THEN n - 1 + 1 ELSE 0
      /\ \A i \in 1..(n - 1 + 1) : h[i] = lines[1 + i - 1]
  BY <1>2, <1>3, SubSeqProperties
<1> HIDE DEF h
<1>5. \A i \in 1..n : i \in 1..(n - 1 + 1) /\ 1 + i - 1 = i
  BY <1>1
<1> QED BY <1>1, <1>4, <1>5 DEF h

LEMMA WholeText ==
  ASSUME NEW t \in Text
  PROVE  /\ Len(t) \in Nat /\ (t # <<>> <=> Len(t) >= 1)
         /\ SubSeq(t, 1, Len(t)) = t
         /\ \A cut \in 1..Len(t) : SubSeq(t, 1, cut) \in Text /\ Len(SubSeq(t, 1, cut)) = cut
                                   /\ \A i \in 1..cut : SubSeq(t, 1, cut)[i] = t[i]
<1>1. Len(t) \in Nat
  BY LenProperties DEF Text
<1>2. t # <<>> <=> Len(t) >= 1
  <2>1. Len(<<>>) = 0 /\ (t # <<>> => Len(t) \in Nat \ {0})
    BY EmptySeq DEF Text
  <2> QED BY <1>1, <2>1
<1>3. SubSeq(t, 1, Len(t)) = t
  BY SubSeqFull DEF Text
<1>4. ASSUME NEW cut \in 1..Len(t)
      PROVE  SubSeq(t, 1, cut) \in Text /\ Len(SubSeq(t, 1, cut)) = cut
             /\ \A i \in 1..cut : SubSeq(t, 1, cut)[i] = t[i]
  <2> DEFINE h == SubSeq(t, 1, cut)
  <2>1. 1 \in 1..(Len(t) + 1) /\ cut \in 0..Len(t) /\ 1 <= cut
    BY <1>1
  <2>2. h \in Text /\ Len(h) = cut - 1 + 1 /\ \A i \in 1..(cut - 1 + 1) : h[i] = t[1 + i - 1]
    BY <2>1, PartIs
  <2> HIDE DEF h
  <2>3. \A i \in 1..cut : i \in 1..(cut - 1 + 1) /\ 1 + i - 1 = i
    BY <1>1
  <2> QED BY <1>1, <2>2, <2>3 DEF h
<1> QED BY <1>1, <1>2, <1>3, <1>4

LEMMA PrefixStarts ==
  ASSUME NEW lines \in Seq(Text), Whole(lines), NEW x \in Prefixes(lines)
  PROVE  Starts(x, lines) /\ Whole(x)
<1>1. Len(lines) \in Nat /\ DOMAIN lines = 1..Len(lines)
      /\ \A i \in 1..Len(lines) : lines[i] \in Text /\ Len(lines[i]) \in Nat /\ Len(lines[i]) >= 1
  <2>1. \A i \in 1..Len(lines) : lines[i] \in Text /\ lines[i] # <<>>
    BY ElementOfSeq DEF Whole
  <2> QED BY <2>1, LenProperties, WholeText
<1>2. ASSUME NEW n \in 0..Len(lines), x = SubSeq(lines, 1, n)
      PROVE  Starts(x, lines) /\ Whole(x)
  <2>1. x \in Seq(Text) /\ Len(x) = n /\ \A i \in 1..n : x[i] = lines[i]
    BY <1>2, HeadLines
  <2>2. ASSUME n > 0
        PROVE  \E cut \in 1..Len(lines[n]) : x[n] = SubSeq(lines[n], 1, cut)
    <3>1. n \in 1..Len(lines) /\ n \in 1..n
      BY <1>1, <2>2
    <3>2. lines[n] = SubSeq(lines[n], 1, Len(lines[n])) /\ Len(lines[n]) \in 1..Len(lines[n])
      <4>1. lines[n] \in Text /\ Len(lines[n]) \in Nat /\ Len(lines[n]) >= 1
        BY <1>1, <3>1
      <4> QED BY <4>1, WholeText
    <3> QED BY <2>1, <3>1, <3>2
  <2>3. Whole(x)
    <3>1. \A i \in 1..n : i \in 1..Len(lines)
      BY <1>1
    <3> QED BY <2>1, <3>1 DEF Whole
  <2>4. n <= Len(lines)
    BY <1>1
  <2> QED BY <2>1, <2>2, <2>3, <2>4 DEF Starts
<1>3. ASSUME NEW n \in 1..Len(lines), NEW cut \in 1..Len(lines[n]),
             x = Append(SubSeq(lines, 1, n - 1), SubSeq(lines[n], 1, cut))
      PROVE  Starts(x, lines) /\ Whole(x)
  <2> DEFINE h == SubSeq(lines, 1, n - 1)
             e == SubSeq(lines[n], 1, cut)
  <2>1. n - 1 \in 0..Len(lines) /\ n \in Nat /\ n <= Len(lines)
    BY <1>1
  <2>2. h \in Seq(Text) /\ Len(h) = n - 1 /\ \A i \in 1..(n - 1) : h[i] = lines[i]
    BY <2>1, HeadLines
  <2>3. e \in Text /\ Len(e) = cut
    <3>1. lines[n] \in Text
      BY <1>1
    <3> QED BY <3>1, WholeText
  <2>4. e # <<>>
    <3>1. Len(lines[n]) \in Nat
      BY <1>1
    <3>2. Len(e) >= 1
      BY <2>3, <3>1
    <3> QED BY <2>3, <3>2, WholeText
  <2>5. e = SubSeq(lines[n], 1, cut)
    OBVIOUS
  <2> HIDE DEF h, e
  <2>6. x = Append(h, e)
    BY <1>3 DEF h, e
  <2>7. /\ x \in Seq(Text) /\ Len(x) = n /\ x[n] = e
        /\ \A i \in 1..(n - 1) : x[i] = lines[i]
    <3>1. /\ Append(h, e) \in Seq(Text) /\ Len(Append(h, e)) = Len(h) + 1
          /\ \A i \in 1..Len(h) : Append(h, e)[i] = h[i]
          /\ Append(h, e)[Len(h) + 1] = e
      BY <2>2, <2>3, AppendProperties
    <3>2. n - 1 + 1 = n
      BY <2>1
    <3> QED BY <2>2, <2>6, <3>1, <3>2
  <2>8. Whole(x)
    <3> SUFFICES ASSUME NEW i \in 1..n PROVE x[i] # <<>>
      BY <2>7 DEF Whole
    <3>1. CASE i = n
      BY <2>4, <2>7, <3>1
    <3>2. CASE i # n
      <4>1. i \in 1..(n - 1) /\ i \in 1..Len(lines)
        BY <2>1, <3>2
      <4> QED BY <2>7, <4>1 DEF Whole
    <3> QED BY <3>1, <3>2
  <2>9. \A i \in 1..Len(x) : i < Len(x) => x[i] = lines[i]
    <3>1. \A i \in 1..n : i < n => i \in 1..(n - 1)
      BY <2>1
    <3> QED BY <2>7, <3>1
  <2> QED BY <2>1, <2>5, <2>7, <2>8, <2>9 DEF Starts
<1>4. \/ \E n \in 0..Len(lines) : x = SubSeq(lines, 1, n)
      \/ \E n \in 1..Len(lines) : \E cut \in 1..Len(lines[n]) :
            x = Append(SubSeq(lines, 1, n - 1), SubSeq(lines[n], 1, cut))
  BY <1>1 DEF Prefixes
<1> QED BY <1>2, <1>3, <1>4

LEMMA StartsPrefix ==
  ASSUME NEW lines \in Seq(Text), NEW x, Starts(x, lines)
  PROVE  x \in Prefixes(lines)
<1>1. Len(lines) \in Nat /\ DOMAIN lines = 1..Len(lines) /\ x \in Seq(Text)
      /\ Len(x) \in Nat /\ Len(x) <= Len(lines)
  BY LenProperties DEF Starts
<1>2. CASE Len(x) = 0
  <2>1. x = <<>>
    BY <1>1, <1>2, EmptySeq
  <2>2. SubSeq(lines, 1, 0) = <<>> /\ 0 \in 0..Len(lines)
    BY <1>1, SubSeqEmpty
  <2> QED BY <2>1, <2>2 DEF Prefixes
<1>3. CASE Len(x) # 0
  <2> DEFINE n == Len(x)
             h == SubSeq(lines, 1, n - 1)
  <2>1. n \in 1..Len(lines) /\ n - 1 \in 0..Len(lines) /\ n \in Nat
    BY <1>1, <1>3
  <2>2. PICK cut \in 1..Len(lines[n]) : x[n] = SubSeq(lines[n], 1, cut)
    BY <2>1 DEF Starts
  <2> DEFINE e == SubSeq(lines[n], 1, cut)
             y == Append(h, e)
  <2>3. h \in Seq(Text) /\ Len(h) = n - 1 /\ \A i \in 1..(n - 1) : h[i] = lines[i]
    BY <2>1, HeadLines
  <2>4. e \in Text
    <3>1. n \in 1..Len(x)
      BY <2>1
    <3>2. x[n] \in Text
      BY <1>1, <3>1, ElementOfSeq
    <3> QED BY <2>2, <3>2
  <2>5. \A i \in 1..n : i < n => x[i] = lines[i]
    BY DEF Starts
  <2> HIDE DEF h, e
  <2>6. /\ y \in Seq(Text) /\ Len(y) = Len(h) + 1
        /\ \A i \in 1..Len(h) : y[i] = h[i]
        /\ y[Len(h) + 1] = e
    BY <2>3, <2>4, AppendProperties
  <2> HIDE DEF y
  <2>7. ASSUME NEW i \in 1..n PROVE x[i] = y[i]
    <3>1. CASE i = n
      <4>1. Len(h) + 1 = n
        BY <2>1, <2>3
      <4> QED BY <2>2, <2>6, <3>1, <4>1 DEF e
    <3>2. CASE i # n
      <4>1. i \in 1..(n - 1) /\ i < n
        BY <2>1, <3>2
      <4>2. y[i] = h[i] /\ h[i] = lines[i]
        BY <2>3, <2>6, <4>1
      <4> QED BY <2>5, <4>1, <4>2
    <3> QED BY <3>1, <3>2
  <2>8. Len(y) = n
    BY <2>1, <2>3, <2>6
  <2>9. x = y
    BY <1>1, <2>6, <2>7, <2>8, SeqEqual
  <2>10. x = Append(SubSeq(lines, 1, n - 1), SubSeq(lines[n], 1, cut))
    BY <2>9 DEF y, h, e
  <2>11. n \in DOMAIN lines
    BY <1>1, <2>1
  <2> HIDE DEF n
  <2> QED BY <2>2, <2>10, <2>11 DEF Prefixes
<1> QED BY <1>2, <1>3

(* Everything that was written may be left, and what is left of what was left. *)
LEMMA PrefixSelf ==
  ASSUME NEW lines \in Seq(Text)
  PROVE  lines \in Prefixes(lines)
<1>1. SubSeq(lines, 1, Len(lines)) = lines /\ Len(lines) \in 0..Len(lines)
  BY SubSeqFull, LenProperties
<1> QED BY <1>1 DEF Prefixes

LEMMA PrefixAgain ==
  ASSUME NEW lines \in Seq(Text), Whole(lines), NEW x \in Prefixes(lines), NEW y \in Prefixes(x)
  PROVE  y \in Prefixes(lines)
<1>1. Starts(x, lines) /\ Whole(x) /\ x \in Seq(Text)
  BY PrefixStarts DEF Starts
<1>2. Starts(y, x)
  BY <1>1, PrefixStarts
<1>3. /\ y \in Seq(Text) /\ Len(y) \in Nat /\ Len(x) \in Nat /\ Len(lines) \in Nat
      /\ Len(y) <= Len(x) /\ Len(x) <= Len(lines)
  BY <1>1, <1>2, LenProperties DEF Starts
<1>4. ASSUME NEW i \in 1..Len(y), i < Len(y) PROVE y[i] = lines[i]
  <2>1. i \in 1..Len(x) /\ i < Len(x)
    BY <1>3, <1>4
  <2> QED BY <1>1, <1>2, <1>4, <2>1 DEF Starts
<1>5. ASSUME Len(y) > 0
      PROVE  \E cut \in 1..Len(lines[Len(y)]) : y[Len(y)] = SubSeq(lines[Len(y)], 1, cut)
  <2> DEFINE n == Len(y)
             t == lines[n]
  <2>1. n \in 1..Len(x) /\ n \in 1..Len(lines) /\ n <= Len(x)
    BY <1>3, <1>5
  <2>2. PICK cut \in 1..Len(x[n]) : y[n] = SubSeq(x[n], 1, cut)
    BY <1>2, <1>5 DEF Starts
  <2>3. t \in Text /\ Len(t) \in Nat
    BY <2>1, ElementOfSeq, WholeText
  <2>4. CASE n < Len(x)
    <3>1. x[n] = t
      BY <1>1, <2>1, <2>4 DEF Starts
    <3> QED BY <2>2, <3>1
  <2>5. CASE n = Len(x)
    <3>1. PICK cut2 \in 1..Len(t) : x[n] = SubSeq(t, 1, cut2)
      BY <1>1, <1>5, <2>5 DEF Starts
    <3> DEFINE u == SubSeq(t, 1, cut2)
               a == SubSeq(u, 1, cut)
               b == SubSeq(t, 1, cut)
    <3>2. u \in Text /\ Len(u) = cut2 /\ \A i \in 1..cut2 : u[i] = t[i]
      BY <2>3, WholeText
    <3>3. x[n] = u /\ Len(x[n]) = cut2
      BY <3>1, <3>2
    <3> HIDE DEF u
    <3>4. cut \in 1..Len(u) /\ cut \in 1..Len(t) /\ cut2 \in Nat
      BY <2>2, <2>3, <3>2, <3>3
    <3>5. a \in Text /\ Len(a) = cut /\ \A i \in 1..cut : a[i] = u[i]
      BY <3>2, <3>4, WholeText
    <3>6. b \in Text /\ Len(b) = cut /\ \A i \in 1..cut : b[i] = t[i]
      BY <2>3, <3>4, WholeText
    <3>7. y[n] = a
      BY <2>2, <3>3
    <3> HIDE DEF a, b, t
    <3>8. \A i \in 1..cut : i \in 1..cut2
      BY <3>2, <3>4
    <3>9. Len(a) = Len(b) /\ \A i \in 1..Len(a) : a[i] = b[i]
      BY <3>2, <3>5, <3>6, <3>8
    <3>10. a = b
      <4>1. a \in Text /\ b \in Text
        BY <3>5, <3>6
      <4> QED BY ONLY <4>1, <3>9, SameText
    <3> QED BY <3>4, <3>7, <3>10 DEF b, t
  <2> QED BY <1>3, <2>1, <2>4, <2>5
<1>6. Starts(y, lines)
  BY <1>3, <1>4, <1>5 DEF Starts
<1> QED BY <1>6, StartsPrefix

-----------------------------------------------------------------------------
(* What loading a dump that may have been cut restores, when no key it was made of *)
(* contains the delimiter: line i is that of the key at q[i].                      *)
Plain(s) == \A k \in Keys : s[k] # NoValue => DelimiterAt(k) = {}

At(q, i) == KeyOrder[q[i]]

LEMMA LineSays ==
  ASSUME NEW s \in StoreType, Plain(s), NEW p \in 0..N, NEW q \in Walks(s, p),
         NEW x, Starts(x, LinesOf(s, q)), NEW i \in 1..Len(x)
  PROVE  /\ i \in 1..Len(q) /\ At(q, i) \in Keys /\ s[At(q, i)] \in Text
         /\ Parses(x[i]) => /\ KeyOf(x[i]) = At(q, i)
                            /\ \E cut \in 0..Len(s[At(q, i)]) :
                                 ValueOf(x[i]) = SubSeq(s[At(q, i)], 1, cut)
         /\ x[i] = LinesOf(s, q)[i] => Parses(x[i]) /\ ValueOf(x[i]) = s[At(q, i)]
<1> DEFINE l == LinesOf(s, q)
           k == At(q, i)
           v == s[At(q, i)]
<1>1. l \in Seq(Text) /\ Len(l) = Len(q) /\ Len(l) \in Nat /\ Len(x) <= Len(l)
      /\ Len(x) \in Nat
  BY LinesAre, LenProperties DEF Starts
<1>2. i \in 1..Len(q)
  BY <1>1
<1>3. k \in Keys /\ v \in Text /\ l[i] = Line(k, v) /\ l[i] \in Text
  BY <1>2, LinesAre DEF At
<1>4. k \in Text /\ Len(k) \in Nat /\ Len(k) >= 1 /\ DelimiterAt(k) = {} /\ v # NoValue
  BY <1>3, KeyFacts, TextIsValue DEF Plain
<1> HIDE DEF k, v, l
<1>5. Len(l[i]) = Len(k) + 1 + Len(v) /\ Len(v) \in Nat
  BY <1>3, <1>4, LineIs
<1>6. PICK cut \in 1..Len(l[i]) : x[i] = SubSeq(l[i], 1, cut)
  <2>1. CASE i < Len(x)
    <3>1. x[i] = l[i]
      BY <2>1 DEF Starts, l
    <3>2. l[i] = SubSeq(l[i], 1, Len(l[i])) /\ Len(l[i]) \in 1..Len(l[i])
      BY <1>3, <1>4, <1>5, WholeText
    <3> QED BY <3>1, <3>2
  <2>2. CASE ~(i < Len(x))
    <3>1. i = Len(x) /\ Len(x) > 0
      BY <1>1, <2>2
    <3> QED BY <3>1 DEF Starts, l
  <2> QED BY <2>1, <2>2
<1>7. /\ cut <= Len(k) => ~Parses(x[i])
      /\ cut > Len(k) => /\ Parses(x[i]) /\ KeyOf(x[i]) = k
                         /\ ValueOf(x[i]) = SubSeq(v, 1, cut - Len(k) - 1)
                         /\ cut - Len(k) - 1 \in 0..Len(v)
  <2>1. cut \in 1..(Len(k) + 1 + Len(v))
    BY <1>5
  <2>2. x[i] = SubSeq(Line(k, v), 1, cut)
    BY <1>3, <1>6
  <2> HIDE DEF Parses, KeyOf, ValueOf
  <2> QED BY <1>3, <1>4, <2>1, <2>2, CutLine
<1>8. cut \in Nat
  BY <1>5
<1>9. Parses(x[i]) => KeyOf(x[i]) = k /\ \E c \in 0..Len(v) : ValueOf(x[i]) = SubSeq(v, 1, c)
  BY <1>4, <1>7, <1>8
<1>10. ASSUME x[i] = l[i] PROVE Parses(x[i]) /\ ValueOf(x[i]) = v
  <2>1. Len(SubSeq(l[i], 1, cut)) = cut
    BY <1>3, <1>6, WholeText
  <2>2. cut = Len(k) + 1 + Len(v)
    BY <1>5, <1>6, <1>10, <2>1
  <2>3. cut > Len(k) /\ cut - Len(k) - 1 = Len(v)
    BY <1>4, <1>5, <2>2
  <2>4. SubSeq(v, 1, Len(v)) = v
    BY <1>3, WholeText
  <2> QED BY <1>7, <2>3, <2>4
<1> QED BY <1>2, <1>3, <1>9, <1>10 DEF k, v, l

LEMMA LoadedIs ==
  ASSUME NEW s \in StoreType, Plain(s), NEW p \in 0..N, NEW q \in Walks(s, p),
         NEW x, Starts(x, LinesOf(s, q))
  PROVE  /\ \A i \in 1..Len(x) : Loaded(x)[At(q, i)] = IF Parses(x[i]) THEN ValueOf(x[i]) ELSE NoValue
         /\ \A j \in 1..N : (\A i \in 1..Len(x) : q[i] # j) => Loaded(x)[KeyOrder[j]] = NoValue
<1>1. DOMAIN x = 1..Len(x) /\ Len(x) \in Nat
  BY LenProperties DEF Starts
<1>2. \A i \in 1..Len(x) : /\ i \in 1..Len(q) /\ q[i] \in 1..N /\ At(q, i) \in Keys
                           /\ Parses(x[i]) => KeyOf(x[i]) = At(q, i)
  <2> SUFFICES ASSUME NEW i \in 1..Len(x)
               PROVE  /\ i \in 1..Len(q) /\ q[i] \in 1..N /\ At(q, i) \in Keys
                      /\ Parses(x[i]) => KeyOf(x[i]) = At(q, i)
    OBVIOUS
  <2>1. i \in 1..Len(q) /\ At(q, i) \in Keys /\ (Parses(x[i]) => KeyOf(x[i]) = At(q, i))
    BY LineSays
  <2> QED BY <2>1, LinesAre
<1>3. \A i, j \in 1..Len(x) : At(q, i) = At(q, j) => i = j
  <2> SUFFICES ASSUME NEW i \in 1..Len(x), NEW j \in 1..Len(x), At(q, i) = At(q, j), i # j
               PROVE  FALSE
    OBVIOUS
  <2>1. q[i] = q[j]
    BY <1>2, KeyFacts DEF At
  <2>2. q[i] \in Int /\ (i < j => q[i] < q[j]) /\ (j < i => q[j] < q[i])
    <3>1. i \in 1..Len(q) /\ j \in 1..Len(q) /\ q[i] \in 1..N
      BY <1>2
    <3>2. \A a, b \in 1..Len(q) : a < b => q[a] < q[b]
      BY WalkIs
    <3>3. N \in Nat
      BY KeyFacts
    <3> QED BY <3>1, <3>2, <3>3
  <2>3. i < j \/ j < i
    BY <1>1
  <2> QED BY <2>1, <2>2, <2>3
<1>4. ASSUME NEW k \in Keys, LastLineOf(x, k) = {} PROVE Loaded(x)[k] = NoValue
  BY <1>4 DEF Loaded
<1>5. ASSUME NEW i \in 1..Len(x), Parses(x[i]) PROVE Loaded(x)[At(q, i)] = ValueOf(x[i])
  <2>1. \A j \in 1..Len(x) : Parses(x[j]) /\ KeyOf(x[j]) = At(q, i) => j = i
    BY <1>2, <1>3
  <2>2. i \in LastLineOf(x, At(q, i))
    <3>1. \A j \in DOMAIN x : Parses(x[j]) /\ KeyOf(x[j]) = At(q, i) => j <= i
      BY <1>1, <2>1
    <3> QED BY <1>1, <1>2, <1>5, <3>1 DEF LastLineOf
  <2>3. \A j \in LastLineOf(x, At(q, i)) : j = i
    BY <1>1, <2>1 DEF LastLineOf
  <2> DEFINE S == LastLineOf(x, At(q, i))
  <2> HIDE DEF S
  <2>4. (CHOOSE j \in S : TRUE) = i /\ S # {}
    BY <2>2, <2>3 DEF S
  <2>5. Loaded(x)[At(q, i)] = ValueOf(x[CHOOSE j \in S : TRUE])
    BY <1>2, <2>4 DEF Loaded, S
  <2> QED BY <2>4, <2>5
<1>6. ASSUME NEW i \in 1..Len(x), ~Parses(x[i]) PROVE Loaded(x)[At(q, i)] = NoValue
  <2>1. \A j \in 1..Len(x) : ~(Parses(x[j]) /\ KeyOf(x[j]) = At(q, i))
    BY <1>2, <1>3, <1>6
  <2>2. LastLineOf(x, At(q, i)) = {}
    BY <1>1, <2>1 DEF LastLineOf
  <2> QED BY <1>2, <1>4, <2>2
<1>7. ASSUME NEW j \in 1..N, \A i \in 1..Len(x) : q[i] # j PROVE Loaded(x)[KeyOrder[j]] = NoValue
  <2>1. \A i \in 1..Len(x) : At(q, i) # KeyOrder[j]
    BY <1>2, <1>7, KeyFacts DEF At
  <2>2. LastLineOf(x, KeyOrder[j]) = {}
    BY <1>1, <1>2, <2>1 DEF LastLineOf
  <2>3. KeyOrder[j] \in Keys
    BY KeyFacts
  <2> QED BY <1>4, <2>2, <2>3
<1> QED BY <1>5, <1>6, <1>7

(* A whole dump restores the store it was made of. *)
LEMMA LoadedWhole ==
  ASSUME NEW s \in StoreType, Plain(s), NEW q \in Walks(s, N)
  PROVE  Loaded(LinesOf(s, q)) = s
<1> DEFINE x == LinesOf(s, q)
<1>1. N \in 0..N /\ N \in Nat
  BY KeyFacts
<1>2. /\ x \in Seq(Text) /\ Len(x) = Len(q) /\ Len(q) \in Nat
      /\ \A i \in 1..Len(x) : x[i] \in Text /\ Len(x[i]) >= 1
  BY <1>1, LinesAre, WalkIs
<1>3. Starts(x, x)
  <2>1. Whole(x)
    BY <1>2, WholeText DEF Whole
  <2> QED BY <1>2, <2>1, PrefixSelf, PrefixStarts
<1>4. /\ \A i \in 1..Len(x) : Loaded(x)[At(q, i)] = IF Parses(x[i]) THEN ValueOf(x[i]) ELSE NoValue
      /\ \A j \in 1..N : (\A i \in 1..Len(x) : q[i] # j) => Loaded(x)[KeyOrder[j]] = NoValue
  BY <1>1, <1>3, LoadedIs
<1>5. \A i \in 1..Len(x) : Loaded(x)[At(q, i)] = s[At(q, i)]
  <2>1. \A i \in 1..Len(x) : Parses(x[i]) /\ ValueOf(x[i]) = s[At(q, i)]
    BY <1>1, <1>3, LineSays
  <2> QED BY <1>4, <2>1
<1>6. \A i \in 1..Len(q) : q[i] \in Held(s, N)
  BY <1>1, WalkIs
<1>7. \A j \in Held(s, N) : \E i \in 1..Len(q) : q[i] = j
  BY <1>1, WalkIs
<1> HIDE DEF x
<1>8. ASSUME NEW k \in Keys PROVE Loaded(x)[k] = s[k]
  <2>1. PICK j \in 1..N : KeyOrder[j] = k
    BY KeyFacts
  <2>2. CASE s[k] = NoValue
    <3>1. \A i \in 1..Len(x) : q[i] # j
      BY <1>2, <1>6, <2>1, <2>2 DEF Held
    <3> QED BY <1>4, <2>1, <2>2, <3>1
  <2>3. CASE s[k] # NoValue
    <3>1. j \in Held(s, N)
      BY <2>1, <2>3 DEF Held
    <3>2. PICK i \in 1..Len(q) : q[i] = j
      BY <1>7, <3>1
    <3>3. At(q, i) = k
      BY <2>1, <3>2 DEF At
    <3> QED BY <1>2, <1>5, <3>2, <3>3
  <2> QED BY <2>2, <2>3
<1>9. \E f : Loaded(x) = [k \in Keys |-> f[k]]
  <2>1. Loaded(x) = [k \in Keys |-> Loaded(x)[k]]
    BY DEF Loaded
  <2> QED BY <2>1
<1>10. s = [k \in Keys |-> s[k]]
  BY DEF StoreType
<1> QED BY <1>8, <1>9, <1>10 DEF x

(* A dump that was cut restores the keys before the cut. *)
PartOf(t, s, i) == \/ t[KeyOrder[i]] = NoValue
                   \/ \E cut \in 0..Len(s[KeyOrder[i]]) :
                        t[KeyOrder[i]] = SubSeq(s[KeyOrder[i]], 1, cut)

CutAfter(t, s, n) == \A i \in 1..N : /\ i <= n => t[KeyOrder[i]] = s[KeyOrder[i]]
                                     /\ i = n + 1 => PartOf(t, s, i)
                                     /\ i > n + 1 => t[KeyOrder[i]] = NoValue

LEMMA LoadedCut ==
  ASSUME NEW s \in StoreType, Plain(s), NEW p \in 0..N, NEW q \in Walks(s, p),
         NEW x, Starts(x, LinesOf(s, q))
  PROVE  \E n \in 0..N : CutAfter(Loaded(x), s, n)
<1> DEFINE m == Len(x)
           r(i) == Loaded(x)[KeyOrder[i]]
<1>1. /\ N \in Nat /\ p \in Nat /\ p <= N /\ m \in Nat /\ m <= Len(q)
  BY KeyFacts, LinesAre, LenProperties DEF Starts
<1>2. /\ Len(q) \in Nat
      /\ \A i \in 1..Len(q) : q[i] \in Held(s, p) /\ q[i] \in 1..p
      /\ \A i, j \in 1..Len(q) : i < j => q[i] < q[j]
      /\ \A j \in Held(s, p) : \E i \in 1..Len(q) : q[i] = j
  BY <1>1, WalkIs
<1>3. \A i \in 1..m : i \in 1..Len(q)
  BY <1>1, <1>2
<1>4. /\ \A i \in 1..m : r(q[i]) = IF Parses(x[i]) THEN ValueOf(x[i]) ELSE NoValue
      /\ \A j \in 1..N : (\A i \in 1..m : q[i] # j) => r(j) = NoValue
  BY LoadedIs DEF At
<1>5. \A i \in 1..m : /\ Parses(x[i]) => \E cut \in 0..Len(s[KeyOrder[q[i]]]) :
                                            ValueOf(x[i]) = SubSeq(s[KeyOrder[q[i]]], 1, cut)
                      /\ x[i] = LinesOf(s, q)[i] => Parses(x[i]) /\ ValueOf(x[i]) = s[KeyOrder[q[i]]]
  BY LineSays DEF At
<1> HIDE DEF r, m
<1>6. CASE m = 0
  <2>1. \A j \in 1..N : r(j) = NoValue
    BY <1>4, <1>6
  <2>2. 0 \in 0..N /\ \A i \in 1..N : ~(i <= 0)
    BY <1>1
  <2>3. CutAfter(Loaded(x), s, 0)
    BY <1>1, <2>1 DEF r, CutAfter, PartOf
  <2> QED BY <2>2, <2>3
<1>7. CASE m # 0
  <2> DEFINE n == q[m] - 1
  <2>1. m \in 1..m /\ m \in 1..Len(q) /\ q[m] \in 1..p /\ q[m] \in Int
    BY <1>1, <1>2, <1>3, <1>7
  <2>2. n \in 0..N /\ n + 1 = q[m]
    BY <1>1, <2>1
  <2> HIDE DEF n
  <2>3. ASSUME NEW i \in 1..N, i <= n PROVE r(i) = s[KeyOrder[i]]
    <3>1. CASE s[KeyOrder[i]] = NoValue
      <4>1. \A j \in 1..m : q[j] # i
        BY <1>2, <1>3, <3>1 DEF Held
      <4> QED BY <1>4, <3>1, <4>1
    <3>2. CASE s[KeyOrder[i]] # NoValue
      <4>1. i \in 1..p /\ i < q[m]
        BY <1>1, <2>1, <2>2, <2>3
      <4>2. i \in Held(s, p)
        BY <3>2, <4>1 DEF Held
      <4>3. PICK j \in 1..Len(q) : q[j] = i
        BY <1>2, <4>2
      <4>4. j < m
        <5> SUFFICES ASSUME ~(j < m) PROVE FALSE
          OBVIOUS
        <5>1. j = m \/ m < j
          BY <1>1, <1>2
        <5>2. q[m] <= q[j]
          BY <1>2, <2>1, <5>1
        <5> QED BY <4>1, <4>3, <5>2, <2>1
      <4>5. j \in 1..m
        BY <1>1, <4>4
      <4>6. x[j] = LinesOf(s, q)[j]
        BY <4>4, <4>5 DEF Starts, m
      <4> QED BY <1>4, <1>5, <4>3, <4>5, <4>6
    <3> QED BY <3>1, <3>2
  <2>4. ASSUME NEW i \in 1..N, i = n + 1
        PROVE  r(i) = NoValue \/ \E cut \in 0..Len(s[KeyOrder[i]]) : r(i) = SubSeq(s[KeyOrder[i]], 1, cut)
    <3>1. q[m] = i
      BY <2>2, <2>4
    <3>2. r(i) = IF Parses(x[m]) THEN ValueOf(x[m]) ELSE NoValue
      BY <1>4, <2>1, <3>1
    <3>3. Parses(x[m]) => \E cut \in 0..Len(s[KeyOrder[i]]) : ValueOf(x[m]) = SubSeq(s[KeyOrder[i]], 1, cut)
      BY <1>5, <2>1, <3>1
    <3> QED BY <3>2, <3>3
  <2>5. ASSUME NEW i \in 1..N, i = n + 1 PROVE PartOf(Loaded(x), s, i)
    BY <2>4, <2>5 DEF PartOf, r
  <2>6. ASSUME NEW i \in 1..N, i > n + 1 PROVE r(i) = NoValue
    <3>1. ASSUME NEW j \in 1..m PROVE q[j] # i
      <4>1. j = m \/ j < m
        BY <1>1
      <4>2. q[j] <= q[m]
        BY <1>2, <1>3, <2>1, <4>1
      <4> QED BY <2>1, <2>2, <2>6, <4>2
    <3> QED BY <1>4, <3>1
  <2>7. CutAfter(Loaded(x), s, n)
    BY <2>3, <2>5, <2>6 DEF CutAfter, r
  <2> QED BY <2>2, <2>7
<1> QED BY <1>6, <1>7

-----------------------------------------------------------------------------
(* The inductive invariant.  While a dump runs the store stays what it was when the *)
(* dump took the mutex, and until its stream fails the file holds the lines of the  *)
(* keys that are not in todo.                                                       *)
Written(p, q) == file = LinesOf(snapshot, q) /\ todo = {i \in Held(snapshot, N) : i > p}

DumpInv == Dumping =>
    /\ snapshot = store /\ ~intact
    /\ ~failed => \E p \in 0..N : \E q \in Walks(snapshot, p) : Written(p, q)

FileInv == /\ TypeOK
           /\ snapshot \in StoreType
           /\ Dumping \/ todo = {}
           /\ DumpInv
           /\ FileFromSnapshot
           /\ phase = "loaded" => store = Loaded(file)
           /\ phase = "unread" => \E n \in 0..Len(file) : store = Loaded(SubSeq(file, 1, n))

(* The file is whole lines, but for the end of the last one. *)
LEMMA FileWhole ==
  ASSUME snapshot \in StoreType, NEW p \in 0..N, NEW q \in Walks(snapshot, p)
  PROVE  LinesOf(snapshot, q) \in Seq(Text) /\ Whole(LinesOf(snapshot, q))
<1>1. /\ LinesOf(snapshot, q) \in Seq(Text) /\ Len(LinesOf(snapshot, q)) = Len(q)
      /\ \A i \in 1..Len(q) : LinesOf(snapshot, q)[i] \in Text /\ Len(LinesOf(snapshot, q)[i]) >= 1
  BY LinesAre
<1> QED BY <1>1, WholeText DEF Whole

LEMMA FileIs == FileFromSnapshot <=>
    \E p \in 0..N : \E q \in Walks(snapshot, p) :
        /\ file \in Prefixes(LinesOf(snapshot, q))
        /\ intact => p = N /\ file = LinesOf(snapshot, q)
BY DEF FileFromSnapshot, N

(* What is cut off the file leaves a file of the same dump. *)
LEMMA CutAgain ==
  ASSUME FileInv, Dumping, file' \in Prefixes(file), snapshot' = snapshot, intact' = FALSE
  PROVE  file' \in Seq(Text) /\ FileFromSnapshot'
<1>1. PICK p \in 0..N : \E q \in Walks(snapshot, p) : file \in Prefixes(LinesOf(snapshot, q))
  BY FileIs DEF FileInv
<1>2. PICK q \in Walks(snapshot, p) : file \in Prefixes(LinesOf(snapshot, q))
  BY <1>1
<1> DEFINE l == LinesOf(snapshot, q)
<1>3. l \in Seq(Text) /\ Whole(l)
  BY FileWhole DEF FileInv
<1>4. file' \in Prefixes(l)
  <2> HIDE DEF l
  <2>1. file \in Prefixes(l)
    BY <1>2 DEF l
  <2> QED BY <1>3, <2>1, PrefixAgain
<1>5. file' \in Seq(Text)
  <2> HIDE DEF l
  <2> QED BY <1>3, <1>4, PrefixStarts DEF Starts
<1>6. FileFromSnapshot'
  <2>1. LinesOf(snapshot, q)' = l /\ Walks(snapshot, p)' = Walks(snapshot, p)
    BY DEF LinesOf, LineOf, Walks, Held
  <2>2. \E pp \in 0..N : \E qq \in Walks(snapshot', pp) :
           file' \in Prefixes(LinesOf(snapshot', qq)) /\ (intact' => pp = N /\ file' = LinesOf(snapshot', qq))
    BY <1>4
  <2> QED BY <2>2 DEF FileFromSnapshot, N
<1> QED BY <1>5, <1>6

(* Where IO threads can be. *)
LEMMA ThreadMoves ==
  /\ NoThreads \in [Threads -> Places] /\ [t \in Threads |-> "ready"] \in [Threads -> Places]
  /\ io \in [Threads -> Places] =>
       \A t \in Threads, p \in Places : [io EXCEPT ![t] = p] \in [Threads -> Places]
  /\ {"none", "ready", "looping", "told", "ended"} = Places
BY DEF NoThreads, Places

(* The first lines of a file are a cut of it. *)
LEMMA FirstLines ==
  ASSUME NEW lines \in Seq(Text), NEW n \in 0..Len(lines)
  PROVE  SubSeq(lines, 1, n) \in Seq(Text) /\ SubSeq(lines, 1, n) \in Prefixes(lines)
<1>1. Len(lines) \in Nat /\ \A i \in 1..n : lines[i] \in Text
  BY LenProperties, ElementOfSeq
<1>2. SubSeq(lines, 1, n) \in Seq(Text)
  BY <1>1, SubSeqProperties
<1> QED BY <1>2 DEF Prefixes

LEMMA FileInit == Init => FileInv
<1> SUFFICES ASSUME Init PROVE FileInv
  OBVIOUS
<1>1. Empty \in StoreType
  BY DEF Empty, StoreType
<1>2. Held(Empty, N) = {}
  <2>1. \A i \in 1..N : Empty[KeyOrder[i]] = NoValue
    BY KeyFacts DEF Empty
  <2> QED BY <2>1 DEF Held
<1>3. N \in 0..N
  BY KeyFacts
<1>4. <<>> \in Walks(Empty, N) /\ LinesOf(Empty, <<>>) = <<>>
  BY <1>2, <1>3, WalkNone
<1>5. <<>> \in Prefixes(<<>>) /\ <<>> \in Seq(Text)
  <2>1. <<>> \in Seq(Text)
    BY EmptySeq
  <2> QED BY <2>1, PrefixSelf
<1>6. FileFromSnapshot
  <2>1. snapshot = Empty /\ file = <<>> /\ intact = TRUE
    BY DEF Init
  <2>2. \E q \in Walks(snapshot, N) : file \in Prefixes(LinesOf(snapshot, q)) /\ file = LinesOf(snapshot, q)
    BY <1>4, <1>5, <2>1
  <2> QED BY <1>3, <2>2, FileIs
<1>7. TypeOK
  <2>1. store \in [Keys -> Seq(Chars) \cup {NoValue}] /\ file \in Seq(Seq(Chars))
    BY <1>1, <1>5 DEF Init, StoreType, Text
  <2>2. writes \in 0..MaxWrites /\ starts \in 0..MaxStarts
    BY KVServerAssumption DEF Init
  <2>3. phase \in Phases /\ {quit, failed, intact} \subseteq BOOLEAN /\ todo = {}
    BY DEF Init, Phases
  <2>4. io \in [Threads -> Places]
    BY ThreadMoves DEF Init
  <2> QED BY <2>1, <2>2, <2>3, <2>4 DEF TypeOK
<1> QED BY <1>1, <1>6, <1>7 DEF Init, FileInv, DumpInv, Dumping

(* A step that leaves the dump, its snapshot and the file alone. *)
LEMMA FileKept ==
  ASSUME FileInv, UNCHANGED <<todo, file, snapshot, intact>>, ~Dumping, ~Dumping',
         phase' \in Phases, quit' \in BOOLEAN, failed' \in BOOLEAN, io' \in [Threads -> Places],
         store' \in StoreType, writes' \in 0..MaxWrites, starts' \in 0..MaxStarts,
         phase' = "loaded" => store' = Loaded(file),
         phase' = "unread" => \E n \in 0..Len(file) : store' = Loaded(SubSeq(file, 1, n))
  PROVE  FileInv'
<1>1. todo = {}
  BY DEF FileInv
<1>0. file' = file /\ snapshot' = snapshot /\ intact' = intact /\ todo' = todo
  OBVIOUS
<1>2. FileFromSnapshot'
  <2>1. FileFromSnapshot
    BY DEF FileInv
  <2> QED BY <1>0, <2>1 DEF FileFromSnapshot
<1>3. TypeOK'
  <2>1. file \in Seq(Seq(Chars)) /\ intact \in BOOLEAN
    BY DEF FileInv, TypeOK
  <2> QED BY <1>1, <2>1 DEF TypeOK, StoreType, Text
<1>4. snapshot' \in StoreType /\ todo' = {} /\ DumpInv'
  BY <1>1 DEF FileInv, DumpInv
<1>5. /\ Loaded(file)' = Loaded(file)
      /\ phase' = "unread" => \E n \in 0..Len(file') : store' = Loaded(SubSeq(file', 1, n))
  BY <1>0
<1> QED BY <1>0, <1>2, <1>3, <1>4, <1>5 DEF FileInv

LEMMA FileSame ==
  ASSUME FileInv, quit' \in BOOLEAN, io' \in [Threads -> Places],
         UNCHANGED <<phase, store, todo, file, failed, writes, starts, snapshot, intact>>
  PROVE  FileInv'
<1>1. /\ phase' = phase /\ store' = store /\ todo' = todo /\ file' = file /\ failed' = failed
      /\ writes' = writes /\ starts' = starts /\ snapshot' = snapshot /\ intact' = intact
  OBVIOUS
<1>2. TypeOK'
  BY <1>1 DEF FileInv, TypeOK
<1>3. FileFromSnapshot'
  <2>1. FileFromSnapshot
    BY DEF FileInv
  <2> QED BY <1>1, <2>1 DEF FileFromSnapshot
<1>4. DumpInv'
  <2>1. DumpInv
    BY DEF FileInv
  <2> QED BY <1>1, <2>1 DEF DumpInv, Dumping, Written
<1> QED BY <1>1, <1>2, <1>3, <1>4 DEF FileInv, Dumping

(* A step of an IO thread, or of the main thread at one. *)
LEMMA FileOfThreads ==
  ASSUME FileInv, ~Dumping, io' \in [Threads -> Places], phase' \in {phase, "ending", "joining", "down"},
         UNCHANGED <<quit, store, todo, file, failed, writes, starts, snapshot, intact>>
  PROVE  FileInv'
<1>1. /\ phase \in Phases /\ quit' \in BOOLEAN /\ failed' \in BOOLEAN /\ store' \in StoreType
      /\ writes' \in 0..MaxWrites /\ starts' \in 0..MaxStarts
      /\ phase = "loaded" => store = Loaded(file)
      /\ phase = "unread" => \E n \in 0..Len(file) : store = Loaded(SubSeq(file, 1, n))
  BY DEF FileInv, TypeOK, StoreType, Text
<1>2. /\ phase' \in Phases /\ ~Dumping'
      /\ phase' \in {"loaded", "unread"} => phase' = phase
  BY <1>1 DEF Dumping, Phases
<1>3. /\ phase' = "loaded" => store' = Loaded(file)
      /\ phase' = "unread" => \E n \in 0..Len(file) : store' = Loaded(SubSeq(file, 1, n))
  BY <1>1, <1>2
<1>4. UNCHANGED <<todo, file, snapshot, intact>>
  OBVIOUS
<1> QED BY <1>1, <1>2, <1>3, <1>4, FileKept

(* The main thread outside the dumps, requests, and a crash outside the dumps. *)
LEMMA OutsideDumps ==
  ASSUME FileInv,
         Boot \/ Load \/ ReadFails \/ Serve \/ LoopReturns \/ CannotOpen \/ DestroyStore
           \/ StopThread \/ Join \/ Exit \/ Put \/ Del \/ Clear \/ (Crash /\ ~Dumping)
  PROVE  FileInv'
<1>1. /\ phase \in Phases /\ quit \in BOOLEAN /\ failed \in BOOLEAN /\ store \in StoreType
      /\ file \in Seq(Text) /\ writes \in 0..MaxWrites /\ starts \in 0..MaxStarts
      /\ phase = "loaded" => store = Loaded(file)
      /\ ~Dumping => todo = {}
      /\ io \in [Threads -> Places]
  BY DEF FileInv, TypeOK, StoreType, Text
<1>2. Empty \in StoreType /\ MaxWrites \in Nat /\ MaxStarts \in Nat
  BY KVServerAssumption DEF Empty, StoreType
<1>3. CASE Boot
  <2>1. starts' \in 0..MaxStarts
    BY <1>1, <1>2, <1>3 DEF Boot
  <2> QED BY <1>1, <1>2, <1>3, <2>1, FileKept DEF Boot, Dumping, Phases
<1>4. CASE Load
  <2>1. Loaded(file) \in StoreType
    BY <1>1, LoadedTyped
  <2> QED BY <1>1, <1>4, <2>1, FileKept DEF Load, Dumping, Phases
<1>14. CASE ReadFails
  <2>1. PICK n \in 0..Len(file) : store' = Loaded(SubSeq(file, 1, n))
    BY <1>14 DEF ReadFails
  <2>2. store' \in StoreType
    BY <1>1, <2>1, FirstLines, LoadedTyped
  <2> QED BY <1>1, <1>14, <2>1, <2>2, FileKept DEF ReadFails, Dumping, Phases
<1>5. CASE Serve
  BY <1>1, <1>5, ThreadMoves, FileKept DEF Serve, Dumping, Phases
<1>6. CASE LoopReturns
  BY <1>1, <1>6, FileKept DEF LoopReturns, Dumping, Phases
<1>7. CASE CannotOpen
  <2>1. phase' \in {"saved1", "saved2"} /\ phase \in {"returned", "saved1"}
    BY <1>7 DEF CannotOpen
  <2> QED BY <1>1, <1>7, <2>1, FileKept DEF CannotOpen, Dumping, Phases
<1>8. CASE DestroyStore
  BY <1>1, <1>2, <1>8, FileKept DEF DestroyStore, Dumping, Phases
<1>15. CASE StopThread
  <2>1. io' \in [Threads -> Places]
    BY <1>1, <1>15, ThreadMoves DEF StopThread
  <2> QED BY <1>15, <2>1, FileOfThreads DEF StopThread, Dumping
<1>16. CASE Join
  <2>1. io' \in [Threads -> Places]
    BY <1>1, <1>16, ThreadMoves DEF Join
  <2> QED BY <1>16, <2>1, FileOfThreads DEF Join, Dumping
<1>17. CASE Exit
  <2>1. io' \in [Threads -> Places]
    BY <1>1, <1>17 DEF Exit
  <2> QED BY <1>17, <2>1, FileOfThreads DEF Exit, Dumping
<1>9. ASSUME NEW result \in StoreType, Executes(result) PROVE FileInv'
  <2>1. writes' \in 0..MaxWrites /\ store' = result
    BY <1>1, <1>2, <1>9 DEF Executes
  <2>2. phase' = phase /\ ~Dumping /\ phase # "loaded" /\ phase # "unread"
    BY <1>9 DEF Executes, Accepting, Dumping
  <2> QED BY <1>1, <1>9, <2>1, <2>2, FileKept DEF Executes, Dumping
<1>10. CASE Put
  <2>1. PICK k \in Keys, v \in Values : Executes([store EXCEPT ![k] = v])
    BY <1>10 DEF Put
  <2>2. v \in Text
    BY KVServerAssumption DEF Text
  <2>3. [store EXCEPT ![k] = v] \in StoreType
    BY <1>1, <2>2 DEF StoreType
  <2> QED BY <1>9, <2>1, <2>3
<1>11. CASE Del
  <2>1. PICK k \in Keys : Executes([store EXCEPT ![k] = NoValue])
    BY <1>11 DEF Del
  <2>2. [store EXCEPT ![k] = NoValue] \in StoreType
    BY <1>1 DEF StoreType
  <2> QED BY <1>9, <2>1, <2>2
<1>12. CASE Clear
  BY <1>2, <1>9, <1>12 DEF Clear
<1>13. CASE Crash /\ ~Dumping
  BY <1>1, <1>2, <1>13, ThreadMoves, FileKept DEF Crash, Dumping, Phases
<1> QED BY <1>3, <1>4, <1>5, <1>6, <1>7, <1>8, <1>10, <1>11, <1>12, <1>13, <1>14, <1>15, <1>16, <1>17

(* dumpFile() takes the mutex and truncates the file. *)
LEMMA OpenKeeps == ASSUME FileInv, OpenFile PROVE FileInv'
<1>1. /\ phase' \in {"dumping1", "dumping2"} /\ phase' \in Phases
      /\ todo' = Held(store, N) /\ file' = <<>> /\ failed' = FALSE /\ snapshot' = store
      /\ intact' = FALSE /\ quit' = quit /\ io' = io
      /\ store' = store /\ writes' = writes /\ starts' = starts
  BY DEF OpenFile, ToDump, Opened, Phases, N
<1>2. /\ store \in StoreType /\ quit \in BOOLEAN /\ writes \in 0..MaxWrites /\ starts \in 0..MaxStarts
      /\ io \in [Threads -> Places]
  BY DEF FileInv, TypeOK, StoreType, Text
<1>3. 0 \in 0..N /\ N \in Nat
  BY KeyFacts
<1>4. Held(store, 0) = {}
  BY DEF Held
<1>5. <<>> \in Walks(store, 0) /\ LinesOf(store, <<>>) = <<>>
  BY <1>3, <1>4, WalkNone
<1>6. {i \in Held(store, N) : i > 0} = Held(store, N)
  BY <1>3 DEF Held
<1>7. <<>> \in Seq(Text) /\ <<>> \in Prefixes(<<>>)
  <2>1. <<>> \in Seq(Text)
    BY EmptySeq
  <2> QED BY <2>1, PrefixSelf
<1>8. TypeOK'
  BY <1>1, <1>2, <1>7 DEF TypeOK, StoreType, Text, N
<1>9. FileFromSnapshot'
  <2>1. \E p \in 0..N : \E q \in Walks(store, p) : <<>> \in Prefixes(LinesOf(store, q))
    BY <1>3, <1>5, <1>7
  <2> QED BY <1>1, <2>1 DEF FileFromSnapshot, N
<1>10. DumpInv'
  <2>1. \E p \in 0..N : \E q \in Walks(store, p) :
           <<>> = LinesOf(store, q) /\ Held(store, N) = {i \in Held(store, N) : i > p}
    BY <1>3, <1>5, <1>6
  <2> QED BY <1>1, <2>1 DEF DumpInv, Written
<1> QED BY <1>1, <1>2, <1>8, <1>9, <1>10 DEF FileInv, Dumping

(* A line for the next key, or nothing once the stream has failed. *)
LEMMA WriteKeeps == ASSUME FileInv, WriteLine PROVE FileInv'
<1>1. PICK i \in todo : /\ \A j \in todo : i <= j
                        /\ todo' = todo \ {i}
                        /\ file' = IF failed THEN file ELSE Append(file, LineOf(store, i))
  BY DEF WriteLine
<1>2. /\ Dumping /\ phase' = phase /\ quit' = quit /\ io' = io /\ store' = store /\ failed' = failed
      /\ writes' = writes /\ starts' = starts /\ snapshot' = snapshot /\ intact' = intact
  BY DEF WriteLine
<1>3. /\ store \in StoreType /\ snapshot = store /\ ~intact /\ TypeOK
      /\ phase # "loaded" /\ phase # "unread" /\ todo \subseteq Held(store, N)
  BY <1>2 DEF FileInv, DumpInv, Dumping, TypeOK, StoreType, Text, N
<1>4. ASSUME file' \in Seq(Text), FileFromSnapshot', DumpInv' PROVE FileInv'
  <2>1. TypeOK'
    BY <1>1, <1>2, <1>3, <1>4 DEF TypeOK, StoreType, Text, N
  <2> QED BY <1>2, <1>3, <1>4, <2>1 DEF FileInv, Dumping
<1>5. CASE failed
  <2>1. file' = file /\ file \in Seq(Text)
    BY <1>1, <1>3, <1>5 DEF TypeOK, Text
  <2>2. FileFromSnapshot'
    <3>1. FileFromSnapshot
      BY DEF FileInv
    <3> QED BY <1>2, <2>1, <3>1 DEF FileFromSnapshot
  <2>3. DumpInv'
    BY <1>2, <1>3, <1>5 DEF DumpInv
  <2> QED BY <1>4, <2>1, <2>2, <2>3
<1>6. CASE ~failed
  <2>0. PICK p \in 0..N : \E q \in Walks(store, p) :
           file = LinesOf(store, q) /\ todo = {j \in Held(store, N) : j > p}
    BY <1>2, <1>3, <1>6 DEF FileInv, DumpInv, Written
  <2>1. PICK q \in Walks(store, p) :
           file = LinesOf(store, q) /\ todo = {j \in Held(store, N) : j > p}
    BY <2>0
  <2>2. i \in Held(store, N) /\ p < i /\ \A j \in Held(store, N) : j > p => i <= j
    <3>1. i > p /\ N \in Nat
      BY <2>1, KeyFacts
    <3>2. i \in Held(store, N) /\ \A j \in Held(store, N) : j > p => i <= j
      BY <1>1, <2>1
    <3>3. p \in Int /\ i \in Int
      BY <3>1, <3>2 DEF Held
    <3> QED BY <3>1, <3>2, <3>3
  <2> DEFINE r == Append(q, i)
  <2>3. /\ i \in 0..N /\ r \in Walks(store, i)
        /\ LinesOf(store, r) = Append(LinesOf(store, q), LineOf(store, i))
    BY <1>3, <2>2, WalkOn
  <2> HIDE DEF r
  <2>4. file' = LinesOf(store, r)
    BY <1>1, <1>6, <2>1, <2>3
  <2>5. file' \in Seq(Text) /\ file' \in Prefixes(LinesOf(store, r))
    <3>1. LinesOf(store, r) \in Seq(Text)
      BY <1>3, <2>3, LinesAre
    <3> QED BY <2>4, <3>1, PrefixSelf
  <2>6. todo' = {j \in Held(store, N) : j > i}
    <3>1. p \in Int /\ i \in Int /\ N \in Nat /\ \A j \in Held(store, N) : j \in Int
      BY <2>3, KeyFacts DEF Held
    <3>2. \A j \in Held(store, N) : (j > p /\ j # i) <=> j > i
      BY <2>2, <3>1
    <3> QED BY <1>1, <2>1, <3>2
  <2>7. FileFromSnapshot'
    <3>1. \E p2 \in 0..N : \E q2 \in Walks(store, p2) : file' \in Prefixes(LinesOf(store, q2))
      BY <2>3, <2>5
    <3> QED BY <1>2, <1>3, <3>1 DEF FileFromSnapshot, N
  <2>8. DumpInv'
    <3>1. \E p2 \in 0..N : \E q2 \in Walks(store, p2) :
             file' = LinesOf(store, q2) /\ todo' = {j \in Held(store, N) : j > p2}
      BY <2>3, <2>4, <2>6
    <3> QED BY <1>2, <1>3, <3>1 DEF DumpInv, Written
  <2> QED BY <1>4, <2>5, <2>7, <2>8
<1> QED BY <1>5, <1>6

(* The disk is full. *)
LEMMA FailKeeps == ASSUME FileInv, StreamFails PROVE FileInv'
<1>1. /\ Dumping /\ failed' = TRUE /\ file' \in Prefixes(file)
      /\ phase' = phase /\ quit' = quit /\ io' = io /\ store' = store /\ todo' = todo
      /\ writes' = writes /\ starts' = starts /\ snapshot' = snapshot /\ intact' = intact
  BY DEF StreamFails
<1>2. snapshot = store /\ ~intact /\ TypeOK /\ snapshot \in StoreType /\ phase # "loaded" /\ phase # "unread"
  BY <1>1 DEF FileInv, DumpInv, Dumping
<1>3. intact' = FALSE
  BY <1>1, <1>2 DEF TypeOK
<1>4. file' \in Seq(Text) /\ FileFromSnapshot'
  BY <1>1, <1>3, CutAgain
<1>5. TypeOK'
  BY <1>1, <1>2, <1>4 DEF TypeOK, Text
<1>6. DumpInv'
  BY <1>1, <1>2 DEF DumpInv
<1> QED BY <1>1, <1>2, <1>4, <1>5, <1>6 DEF FileInv, Dumping

(* The process dies in a dump. *)
LEMMA CrashKeeps == ASSUME FileInv, Crash, Dumping PROVE FileInv'
<1>1. /\ phase' = "down" /\ store' = Empty /\ todo' = {} /\ file' \in Prefixes(file)
      /\ io' = NoThreads /\ quit' = quit /\ failed' = failed
      /\ writes' = writes /\ starts' = starts /\ snapshot' = snapshot /\ intact' = intact
  BY DEF Crash
<1>2. ~intact /\ TypeOK /\ snapshot \in StoreType
  BY DEF FileInv, DumpInv
<1>3. intact' = FALSE
  BY <1>1, <1>2 DEF TypeOK
<1>4. file' \in Seq(Text) /\ FileFromSnapshot'
  BY <1>1, <1>3, CutAgain
<1>5. Empty \in StoreType
  BY DEF Empty, StoreType
<1>6. TypeOK'
  BY <1>1, <1>2, <1>4, <1>5, ThreadMoves DEF TypeOK, Text, StoreType, Phases
<1> QED BY <1>1, <1>2, <1>4, <1>6 DEF FileInv, DumpInv, Dumping

(* The dump is complete unless its stream has failed. *)
LEMMA CloseKeeps == ASSUME FileInv, CloseFile PROVE FileInv'
<1>1. /\ Dumping /\ todo = {} /\ phase' \in {"saved1", "saved2"} /\ intact' = ~failed
      /\ quit' = quit /\ io' = io /\ store' = store /\ todo' = todo /\ file' = file /\ failed' = failed
      /\ writes' = writes /\ starts' = starts /\ snapshot' = snapshot
  BY DEF CloseFile
<1>2. snapshot = store /\ TypeOK /\ snapshot \in StoreType /\ ~intact
  BY <1>1 DEF FileInv, DumpInv
<1>3. TypeOK'
  BY <1>1, <1>2 DEF TypeOK, Phases
<1>4. FileFromSnapshot'
  <2>1. CASE failed
    <3>1. \E p \in 0..N : \E q \in Walks(snapshot, p) : file \in Prefixes(LinesOf(snapshot, q))
      BY FileIs DEF FileInv
    <3> QED BY <1>1, <2>1, <3>1 DEF FileFromSnapshot, N
  <2>2. CASE ~failed
    <3>0. PICK p \in 0..N : \E q \in Walks(snapshot, p) :
             file = LinesOf(snapshot, q) /\ todo = {j \in Held(snapshot, N) : j > p}
      BY <1>1, <2>2 DEF FileInv, DumpInv, Written
    <3>1. PICK q \in Walks(snapshot, p) :
             file = LinesOf(snapshot, q) /\ todo = {j \in Held(snapshot, N) : j > p}
      BY <3>0
    <3>2. Held(snapshot, N) \subseteq 1..p
      <4>1. \A j \in Held(snapshot, N) : ~(j > p)
        BY <1>1, <3>1
      <4>2. p \in Int /\ \A j \in Held(snapshot, N) : j \in Int /\ j >= 1
        BY KeyFacts DEF Held
      <4> QED BY <4>1, <4>2
    <3>3. N \in 0..N /\ q \in Walks(snapshot, N)
      BY <3>2, WalkAll
    <3>4. file \in Prefixes(file)
      BY <1>2, PrefixSelf DEF TypeOK, Text
    <3>5. \E p2 \in 0..N : \E q2 \in Walks(snapshot, p2) :
             /\ file \in Prefixes(LinesOf(snapshot, q2))
             /\ p2 = N /\ file = LinesOf(snapshot, q2)
      BY <3>1, <3>3, <3>4
    <3> QED BY <1>1, <3>5 DEF FileFromSnapshot, N
  <2> QED BY <2>1, <2>2
<1> QED BY <1>1, <1>2, <1>3, <1>4 DEF FileInv, DumpInv, Dumping

LEMMA FileInvariant == Spec => []FileInv
<1>1. FileInv /\ [Next]_vars => FileInv'
  <2> SUFFICES ASSUME FileInv, [Next]_vars PROVE FileInv'
    OBVIOUS
  <2>1. CASE Boot \/ Load \/ ReadFails \/ Serve \/ LoopReturns \/ CannotOpen \/ DestroyStore
               \/ StopThread \/ Join \/ Exit \/ Put \/ Del \/ Clear \/ (Crash /\ ~Dumping)
    BY <2>1, OutsideDumps
  <2>2. CASE OpenFile
    BY <2>2, OpenKeeps
  <2>3. CASE WriteLine
    BY <2>3, WriteKeeps
  <2>4. CASE StreamFails
    BY <2>4, FailKeeps
  <2>5. CASE CloseFile
    BY <2>5, CloseKeeps
  <2>6. CASE Crash /\ Dumping
    BY <2>6, CrashKeeps
  <2>0. quit \in BOOLEAN /\ io \in [Threads -> Places]
    BY DEF FileInv, TypeOK
  <2>7. CASE Signal
    BY <2>0, <2>7, FileSame DEF Signal
  <2>8. CASE \E t \in Threads : Runs(t)
    <3>1. PICK t \in Threads : EnterLoop(t) \/ EndThread(t)
      BY <2>8 DEF Runs
    <3>2. /\ io' \in [Threads -> Places] /\ quit' = quit
          /\ UNCHANGED <<phase, store, todo, file, failed, writes, starts, snapshot, intact>>
      BY <2>0, <3>1, ThreadMoves DEF EnterLoop, EndThread
    <3> QED BY <2>0, <3>2, FileSame
  <2>9. CASE UNCHANGED vars
    BY <2>0, <2>9, FileSame DEF vars
  <2> QED BY <2>1, <2>2, <2>3, <2>4, <2>5, <2>6, <2>7, <2>8, <2>9 DEF Next, Main
<1> QED BY <1>1, FileInit, PTL DEF Spec

(* The types of the state: whatever file a start loads, the store it makes is one. *)
(* (kvstore.cpp:75-91, skiplist.h:380-431).                                        *)
THEOREM TypeCorrect == Spec => []TypeOK
<1>1. FileInv => TypeOK
  BY DEF FileInv
<1> QED BY <1>1, FileInvariant, PTL

(* Whatever requests run beside a dump and wherever a crash or a full disk cuts it, *)
(* the file holds the first bytes of the map as it was when the dump took the       *)
(* mutex, and all of it after a close without failure (skiplist.h:358-378).         *)
THEOREM FileFromSnapshotCorrect == Spec => []FileFromSnapshot
<1>1. FileInv => FileFromSnapshot
  BY DEF FileInv
<1> QED BY <1>1, FileInvariant, PTL

(* A start after a complete dump, if it can open the file and read it to its end,   *)
(* has the map that was dumped, for every set of keys without the delimiter and all *)
(* values (skiplist.h:358-431).                                                     *)
THEOREM RestartRestoresCorrect == Spec => []RestartRestores
<1>1. FileInv => RestartRestores
  <2> SUFFICES ASSUME FileInv, phase = "loaded", intact, PlainKeys PROVE store = snapshot
    BY DEF RestartRestores
  <2>1. store = Loaded(file) /\ snapshot \in StoreType /\ Plain(snapshot)
    BY DEF FileInv, PlainKeys, Plain
  <2>2. PICK p \in 0..N : \E q \in Walks(snapshot, p) : p = N /\ file = LinesOf(snapshot, q)
    BY FileIs DEF FileInv
  <2>3. PICK q \in Walks(snapshot, N) : file = LinesOf(snapshot, q)
    BY <2>2
  <2>4. Loaded(LinesOf(snapshot, q)) = snapshot
    BY <2>1, LoadedWhole
  <2> QED BY <2>1, <2>3, <2>4
<1> QED BY <1>1, FileInvariant, PTL

(* A start after a dump that was cut, or one that cannot read all of the file, has *)
(* every key before the cut with its value, no key behind it, and between them at  *)
(* most one whose value is cut short (skiplist.h:358-431).                         *)
THEOREM CutRestoreCorrect == Spec => []CutRestore
<1>1. FileInv => CutRestore
  <2> SUFFICES ASSUME FileInv, phase \in {"loaded", "unread"}, PlainKeys
               PROVE  \E n \in 0..N : \A i \in 1..N :
                        CASE i <= n    -> store[KeyOrder[i]] = snapshot[KeyOrder[i]]
                          [] i = n + 1 -> \/ store[KeyOrder[i]] = NoValue
                                          \/ \E cut \in 0..Len(snapshot[KeyOrder[i]]) :
                                               store[KeyOrder[i]] = SubSeq(snapshot[KeyOrder[i]], 1, cut)
                          [] OTHER     -> store[KeyOrder[i]] = NoValue
    BY KeyFacts DEF CutRestore, N
  <2>1. snapshot \in StoreType /\ file \in Seq(Text) /\ Plain(snapshot)
    BY DEF FileInv, PlainKeys, Plain, TypeOK, Text
  <2>6. PICK x \in Prefixes(file) : store = Loaded(x)
    <3>1. CASE phase = "loaded"
      BY <2>1, <3>1, PrefixSelf DEF FileInv
    <3>2. CASE phase = "unread"
      BY <2>1, <3>2, FirstLines DEF FileInv
    <3> QED BY <3>1, <3>2
  <2>0. PICK p \in 0..N : \E q \in Walks(snapshot, p) : file \in Prefixes(LinesOf(snapshot, q))
    BY FileIs DEF FileInv
  <2>2. PICK q \in Walks(snapshot, p) : file \in Prefixes(LinesOf(snapshot, q))
    BY <2>0
  <2>3. Starts(x, LinesOf(snapshot, q))
    <3>1. LinesOf(snapshot, q) \in Seq(Text) /\ Whole(LinesOf(snapshot, q))
      BY <2>1, FileWhole
    <3>2. x \in Prefixes(LinesOf(snapshot, q))
      BY <2>2, <2>6, <3>1, PrefixAgain
    <3> QED BY <3>1, <3>2, PrefixStarts
  <2>4. PICK n \in 0..N : CutAfter(store, snapshot, n)
    BY <2>1, <2>3, <2>6, LoadedCut
  <2>5. ASSUME NEW i \in 1..N
        PROVE  CASE i <= n    -> store[KeyOrder[i]] = snapshot[KeyOrder[i]]
                 [] i = n + 1 -> PartOf(store, snapshot, i)
                 [] OTHER     -> store[KeyOrder[i]] = NoValue
    <3>1. N \in Nat /\ n \in Nat /\ i \in Nat
      BY KeyFacts
    <3>2. CASE i <= n
      BY <2>4, <3>1, <3>2 DEF CutAfter
    <3>3. CASE i = n + 1
      BY <2>4, <3>1, <3>3 DEF CutAfter
    <3>4. CASE i > n + 1
      BY <2>4, <3>1, <3>4 DEF CutAfter
    <3> QED BY <3>1, <3>2, <3>3, <3>4
  <2> QED BY <2>5 DEF PartOf
<1> QED BY <1>1, FileInvariant, PTL

=============================================================================

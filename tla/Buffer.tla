------------------------------- MODULE Buffer -------------------------------
(***************************************************************************)
(* net/buffer.h and Buffer::readFd (net/buffer.cpp): a byte vector with a  *)
(* read and a write index.  A buffer is a record: cells is buffer_, r is   *)
(* readerIndex_ and w is writerIndex_; the cell at index i (from 0) is     *)
(* cells[i + 1].                                                           *)
(***************************************************************************)
EXTENDS Integers, Sequences

CONSTANTS CheapPrepend,  \* kCheapPrepend
          InitialSize,   \* kInitialSize
          ExtraSize,     \* sizeof(extrabuf) in readFd()
          Bytes,         \* what a cell may hold
          Zero           \* what a new cell holds

ASSUME BufferAssumption ==
    /\ CheapPrepend \in Nat /\ InitialSize \in Nat /\ ExtraSize \in Nat
    /\ Zero \in Bytes

NewBuffer == [cells |-> [i \in 1..(CheapPrepend + InitialSize) |-> Zero],
              r |-> CheapPrepend, w |-> CheapPrepend]

readableBytes(b)    == b.w - b.r
writableBytes(b)    == Len(b.cells) - b.w
prependableBytes(b) == b.r

\* The bytes between the indices, first to last.
Content(b) == SubSeq(b.cells, b.r + 1, b.w)

\* std::copy of bytes to the cells from index at on.
Copied(cells, at, bytes) ==
    [i \in DOMAIN cells |-> IF i \in (at + 1)..(at + Len(bytes)) THEN bytes[i - at] ELSE cells[i]]

\* std::vector::resize() to a greater size.
Resized(cells, size) ==
    [i \in 1..size |-> IF i <= Len(cells) THEN cells[i] ELSE Zero]

-----------------------------------------------------------------------------
GrownTight(b, n) == [b EXCEPT !.cells = Resized(@, readableBytes(b) + n)]  \* mutant
Grown(b, n) == [b EXCEPT !.cells = Resized(@, b.w + n)]

MovedIndices(b) == [b EXCEPT !.r = CheapPrepend,  \* mutant: the bytes stay where they are
                             !.w = CheapPrepend + readableBytes(b)]
Moved(b) == [cells |-> Copied(b.cells, CheapPrepend, Content(b)),
             r     |-> CheapPrepend,
             w     |-> CheapPrepend + readableBytes(b)]

makeSpace(b, n) ==
    IF writableBytes(b) + prependableBytes(b) < n + CheapPrepend THEN Grown(b, n) ELSE Moved(b)

ensureWritableBytes(b, n) == IF writableBytes(b) < n THEN makeSpace(b, n) ELSE b

append(b, bytes) ==
    LET e == ensureWritableBytes(b, Len(bytes))
    IN  [e EXCEPT !.cells = Copied(@, e.w, bytes), !.w = @ + Len(bytes)]

retrieveAll(b) == [b EXCEPT !.r = CheapPrepend, !.w = CheapPrepend]

retrieve(b, n) == IF n < readableBytes(b) THEN [b EXCEPT !.r = @ + n] ELSE retrieveAll(b)

\* The most that one readv() can return.
ReadCapacity(b) ==
    writableBytes(b) + (IF writableBytes(b) < ExtraSize THEN ExtraSize ELSE 0)

\* readFd() that read bytes: what does not fit goes through extrabuf.
readFd(b, bytes) ==
    LET room == writableBytes(b)
    IN  IF Len(bytes) <= room
          THEN [b EXCEPT !.cells = Copied(@, b.w, bytes), !.w = @ + Len(bytes)]
          ELSE append([b EXCEPT !.cells = Copied(@, b.w, SubSeq(bytes, 1, room)),
                                !.w = Len(b.cells)],
                      SubSeq(bytes, room + 1, Len(bytes)))

-----------------------------------------------------------------------------
\* The indices in order and within the vector; nothing is ever prepended.
IsBuffer(b) == /\ b \in [cells : Seq(Bytes), r : Nat, w : Nat]
               /\ CheapPrepend <= b.r /\ b.r <= b.w /\ b.w <= Len(b.cells)
=============================================================================

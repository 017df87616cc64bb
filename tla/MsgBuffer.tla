------------------------------ MODULE MsgBuffer -----------------------------
(***************************************************************************)
(* cooper/util/MsgBuffer.cpp: a vector of bytes with the readable ones at  *)
(* head_..tail_-1 and kBufferOffset bytes kept free in front.              *)
(*                                                                         *)
(* A buffer is a record [head, tail, init, mem]; mem[i + 1] is buffer_[i]. *)
(* An operation is an operator from buffer to buffer.                      *)
(***************************************************************************)
EXTENDS Naturals, Sequences

Seqs == INSTANCE SequencesExt

CONSTANTS
    Base,                \* values of a byte
    kBufferOffset,
    ExtLen,              \* sizeof extBuffer in readFd
    InitLens,            \* lengths buffers are constructed with
    MaxData,             \* bound: bytes written by one call
    MaxReadable,         \* bound: readable bytes
    Widths,              \* bytes of the integers
    None                 \* NULL

ASSUME BufferAssumption ==
    /\ Base \in Nat \ {0, 1} /\ kBufferOffset \in Nat
    /\ ExtLen \in Nat /\ MaxData \in Nat /\ MaxReadable \in Nat
    /\ InitLens \subseteq Nat
    /\ \A w \in Widths : w \in Nat \ {0}

\* What powers are, as far as they are used: the provers know nothing of them.
ASSUME PowerAssumption ==
    \A w \in Widths :
        Base ^ 0 = 1 /\ \A n \in 0..(w - 1) : Base ^ (n + 1) = Base * (Base ^ n)

VARIABLES
    buf,                 \* the buffer
    call                 \* history: the last call, its argument and result

bufferVars == <<buf, call>>

Bytes == 0..(Base - 1)
Data == UNION {[1..n -> Bytes] : n \in 0..MaxData}
Lens == 0..(MaxReadable + 1)
Operations == {"new", "append", "addInFront", "appendInt", "addInFrontInt", "readInt",
               "retrieve", "read", "unwrite", "readFd", "swap", "find"}

BufferTypeOK ==
    /\ buf \in [head : Nat, tail : Nat, init : Nat, mem : Seq(Bytes)]
    /\ call[1] \in Operations

-----------------------------------------------------------------------------
(* Room *)

\* MsgBuffer(len)
New(len) == [head |-> kBufferOffset, tail |-> kBufferOffset, init |-> len,
             mem |-> [i \in 1..(len + kBufferOffset) |-> 0]]

ReadableBytes(b) == b.tail - b.head
WritableBytes(b) == Len(b.mem) - b.tail
Peek(b, n) == SubSeq(b.mem, b.head + 1, b.head + n)
Readable(b) == Peek(b, ReadableBytes(b))

\* memcpy to buffer_[pos].
Copy(b, pos, d) ==
    [b EXCEPT !.mem = [i \in 1..Len(@) |-> IF pos < i /\ i <= pos + Len(d)
                                           THEN d[i - pos] ELSE @[i]]]

\* memcpy to the end of the readable bytes.
CopyBack(b, d) == [Copy(b, b.tail, d) EXCEPT !.tail = @ + Len(d)]

MoveBytes(b) ==
    [Copy(b, kBufferOffset, Readable(b)) EXCEPT
        !.tail = kBufferOffset + ReadableBytes(b), !.head = kBufferOffset]

\* A larger buffer takes over; swap exchanges initCap_ too.
Grow(b, len) ==
    LET need == kBufferOffset + ReadableBytes(b) + len
        twice == 2 * Len(b.mem) IN
    CopyBack(New(IF twice > need THEN twice ELSE need), Readable(b))

\* Mutant: the bytes kept free in front are forgotten.
EnsureWithoutOffset(b, len) ==
    CASE WritableBytes(b) >= len -> b
      [] WritableBytes(b) < len /\ b.head + WritableBytes(b) >= len -> MoveBytes(b)
      [] OTHER -> Grow(b, len)

EnsureWritableBytes(b, len) ==
    CASE WritableBytes(b) >= len -> b
      [] WritableBytes(b) < len /\ b.head + WritableBytes(b) >= len + kBufferOffset ->
            MoveBytes(b)
      [] OTHER -> Grow(b, len)

-----------------------------------------------------------------------------
(* Reading and writing *)

AppendTo(b, d) == CopyBack(EnsureWritableBytes(b, Len(d)), d)

\* Room in front, room behind, or a new buffer.  The copy behind overlaps; for
\* bytes std::copy is a memmove.
AddInFrontOf(b, d) ==
    LET n == Len(d)
        all == n + ReadableBytes(b) IN
    CASE b.head >= n -> [Copy(b, b.head - n, d) EXCEPT !.head = @ - n]
      [] b.head < n /\ n <= WritableBytes(b) ->
            [Copy(Copy(b, b.head + n, Readable(b)), b.head, d) EXCEPT !.tail = @ + n]
      [] OTHER ->
            AppendTo(AppendTo(New(IF all < b.init THEN b.init ELSE all), d), Readable(b))

\* resize() cuts the vector; the bytes that stay keep their values.  The indices
\* are put behind the bytes in front even when the vector is shorter than those.
RetrieveAll(b) ==
    [b EXCEPT !.mem = IF Len(@) > 2 * b.init THEN SubSeq(@, 1, b.init) ELSE @,
              !.head = kBufferOffset, !.tail = kBufferOffset]

RetrieveFrom(b, len) ==
    IF len >= ReadableBytes(b) THEN RetrieveAll(b) ELSE [b EXCEPT !.head = @ + len]

\* Mutant: the bytes that went into the buffer itself are not counted.
ReadFdShort(b, d) ==
    LET w == WritableBytes(b) IN
    IF Len(d) <= w THEN CopyBack(b, d)
    ELSE AppendTo(b, SubSeq(d, w + 1, Len(d)))

\* readv fills the room behind, then extBuffer.
ReadFdInto(b, d) ==
    LET w == WritableBytes(b) IN
    IF Len(d) <= w THEN CopyBack(b, d)
    ELSE AppendTo(CopyBack(b, SubSeq(d, 1, w)), SubSeq(d, w + 1, Len(d)))

-----------------------------------------------------------------------------
(* Integers: the host is little-endian and htons, htonl, hton64 turn the   *)
(* bytes round.                                                            *)

\* The bytes of an integer, and the integer that bytes are.
Store(v, w) == [i \in 1..w |-> (v \div (Base ^ (i - 1))) % Base]
Load(s) == CHOOSE v \in 0..(Base ^ Len(s) - 1) : Store(v, Len(s)) = s
HostToNet(v, w) == Load(Seqs!Reverse(Store(v, w)))
PeekInt(b, w) == HostToNet(Load(Peek(b, w)), w)

\* std::search in the readable bytes; the end of them stands for "not found".
Search(b, d) ==
    LET hits == {k \in b.head..(b.tail - Len(d)) : SubSeq(b.mem, k + 1, k + Len(d)) = d}
        first == CHOOSE k \in hits : \A j \in hits : k <= j IN
    IF hits = {} \/ first = b.tail THEN None ELSE first - b.head

-----------------------------------------------------------------------------
(* The calls of a program *)

BufferInit ==
    /\ \E n \in InitLens : buf = New(n)
    /\ call = <<"new", 0, 0>>

\* The indices do not point behind the vector.
Inside(b) == b.tail <= Len(b.mem)

\* With indices behind the vector writableBytes() wraps around and every copy is
\* undefined: the model goes no further than another retrieveAll, which touches
\* no byte.
Does(op, arg, result, b) ==
    /\ Inside(buf) \/ op = "retrieve"
    /\ ReadableBytes(b) <= MaxReadable                                \* bound
    /\ buf' = b /\ call' = <<op, arg, result>>

\* append of a string, of another buffer, or of bytes written in place after
\* ensureWritableBytes and counted by hasWritten.
Append_(d) == Does("append", d, 0, AppendTo(buf, d))
AddInFront(d) == Does("addInFront", d, 0, AddInFrontOf(buf, d))

AppendInt(v, w) ==
    Does("appendInt", <<v, w>>, 0, AppendTo(buf, Store(HostToNet(v, w), w)))
AddInFrontInt(v, w) ==
    Does("addInFrontInt", <<v, w>>, 0, AddInFrontOf(buf, Store(HostToNet(v, w), w)))

\* peekInt asserts that the bytes are there.
ReadInt(w) ==
    /\ ReadableBytes(buf) >= w
    /\ Does("readInt", w, PeekInt(buf, w), RetrieveFrom(buf, w))

\* retrieve, retrieveAll and retrieveUntil.
Retrieve(n) == Does("retrieve", n, 0, RetrieveFrom(buf, n))

\* read and readUntil.
Read(n) ==
    LET len == IF n > ReadableBytes(buf) THEN ReadableBytes(buf) ELSE n IN
    Does("read", n, Peek(buf, len), RetrieveFrom(buf, len))

Unwrite(n) ==
    /\ ReadableBytes(buf) >= n
    /\ Does("unwrite", n, 0, [buf EXCEPT !.tail = @ - n])

\* readv has d; it asks for extBuffer only when the room behind is smaller.
ReadFd(d) ==
    /\ Len(d) <= WritableBytes(buf)
             + (IF WritableBytes(buf) < ExtLen THEN ExtLen ELSE 0)
    /\ Does("readFd", d, Len(d), ReadFdInto(buf, d))

\* swap with another buffer that holds d; the other one then has our bytes.
Swap(len, d) == Does("swap", d, Readable(buf), AppendTo(New(len), d))

Find(d) == d # <<>> /\ Does("find", d, Search(buf, d), buf)

BufferNext ==
    \/ \E d \in Data : Append_(d) \/ AddInFront(d) \/ ReadFd(d) \/ Find(d)
    \/ \E d \in Data, n \in InitLens : Swap(n, d)
    \/ \E w \in Widths : ReadInt(w) \/ \E v \in 0..(Base ^ w - 1) :
          AppendInt(v, w) \/ AddInFrontInt(v, w)
    \/ \E n \in Lens : Retrieve(n) \/ Read(n) \/ Unwrite(n)

BufferSpec == BufferInit /\ [][BufferNext]_bufferVars

-----------------------------------------------------------------------------
(* Properties *)

String == INSTANCE ByteString WITH bytes <- Readable(buf)

\* initCap_ is always the length the vector was made with, although every new
\* buffer brings its own, and the indices are inside the vector.
Whole(b) ==
    /\ Len(b.mem) = b.init + kBufferOffset
    /\ b.head <= b.tail /\ Inside(b)

\* A buffer made with fewer than kBufferOffset bytes, emptied and cut: both
\* indices are behind its end.
CutShort(b) ==
    /\ b.init < kBufferOffset /\ Len(b.mem) = b.init
    /\ b.head = kBufferOffset /\ b.tail = kBufferOffset

\* In whatever mixture of moves, growth, new buffers and swaps, the indices stay
\* inside the vector, so that every copy does, and the vector is never cut; except
\* that the call that empties a buffer made with fewer than kBufferOffset bytes
\* cuts it under its own indices.  The constructor takes every length
\* (MsgBuffer.hpp:30) and retrieveAll (MsgBuffer.cpp:105-110) looks at none.
IndicesSane ==
    /\ BufferTypeOK
    /\ \/ Whole(buf)
       \/ CutShort(buf) /\ call[1] \in {"retrieve", "read", "readInt"}

\* Whatever mixture of moves, new buffers, growth in front and cuts a sequence of
\* calls leads to, the readable bytes are the string the calls describe, and
\* the integers, strings and positions returned are those of that string.
ImplementsByteString == String!Spec

=============================================================================

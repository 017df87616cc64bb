----------------------------- MODULE ByteString -----------------------------
(***************************************************************************)
(* What a MsgBuffer promises: a string of bytes that grows at both ends    *)
(* and is read from the front.  call is the operation last called, with    *)
(* its argument and what it returned.                                      *)
(***************************************************************************)
EXTENDS Naturals, Sequences, FiniteSets

CONSTANTS
    Bytes,               \* 0..Base-1
    Base,                \* values of a byte
    Data,                \* the strings of bytes programs write
    Lens,                \* the lengths they ask for
    Widths,              \* bytes of the integers they read and write
    None                 \* the NULL of find

VARIABLES bytes, call

vars == <<bytes, call>>

Init == bytes = <<>> /\ call = <<"new", 0, 0>>

Does(op, arg, result, after) == call' = <<op, arg, result>> /\ bytes' = after

FirstOf(n) == SubSeq(bytes, 1, n)
From(n) == SubSeq(bytes, n + 1, Len(bytes))
Least(n) == IF n < Len(bytes) THEN n ELSE Len(bytes)

\* Integers are big-endian in the string.
BigEndian(v, w) == [i \in 1..w |-> (v \div (Base ^ (w - i))) % Base]
IsValue(v, w) == v < Base ^ w /\ BigEndian(v, w) = FirstOf(w)

Append_(d) == Does("append", d, 0, bytes \o d)
AddInFront(d) == Does("addInFront", d, 0, d \o bytes)
AppendInt(v, w) == Does("appendInt", <<v, w>>, 0, bytes \o BigEndian(v, w))
AddInFrontInt(v, w) == Does("addInFrontInt", <<v, w>>, 0, BigEndian(v, w) \o bytes)
ReadInt(v, w) == w <= Len(bytes) /\ IsValue(v, w) /\ Does("readInt", w, v, From(w))
Retrieve(n) == Does("retrieve", n, 0, From(Least(n)))
Read(n) == Does("read", n, FirstOf(Least(n)), From(Least(n)))
Unwrite(n) == n <= Len(bytes) /\ Does("unwrite", n, 0, FirstOf(Len(bytes) - n))
ReadFd(d) == Does("readFd", d, Len(d), bytes \o d)
Swap(d) == Does("swap", d, bytes, d)

\* d begins after the first k bytes.
OccursAt(d, k) == k + Len(d) <= Len(bytes) /\ SubSeq(bytes, k + 1, k + Len(d)) = d

Find(d, r) ==
    /\ \/ r \in Nat /\ OccursAt(d, r) /\ \A k \in 0..Len(bytes) : OccursAt(d, k) => r <= k
       \/ r = None /\ \A k \in 0..Len(bytes) : ~OccursAt(d, k)
    /\ Does("find", d, r, bytes)

Next ==
    \/ \E d \in Data : Append_(d) \/ AddInFront(d) \/ ReadFd(d) \/ Swap(d)
    \/ \E d \in Data, r \in (0..Len(bytes)) \cup {None} : Find(d, r)
    \/ \E w \in Widths : \E v \in 0..(Base ^ w - 1) :
          AppendInt(v, w) \/ AddInFrontInt(v, w) \/ ReadInt(v, w)
    \/ \E n \in Lens : Retrieve(n) \/ Read(n) \/ Unwrite(n)

Spec == Init /\ [][Next]_vars

=============================================================================

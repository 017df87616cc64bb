------------------------- MODULE TcpConnectionProofs ------------------------
(***************************************************************************)
(* Proofs about TcpConnection, for any number and length of messages, any  *)
(* size of the socket's buffer and any mix of threads: what is sent leaves *)
(* in order, the assertions of the write list hold, and the FIN leaves     *)
(* after the data.                                                         *)
(***************************************************************************)
EXTENDS TcpConnection, SequenceTheorems, TLAPS

-----------------------------------------------------------------------------
(* Chunks, nodes and sequences *)

LEMMA ChunkParts ==
    /\ \A x \in Chunk : x[1] \in Nat /\ x[2] \in Nat /\ x[1] \in Msgs
    /\ \A m \in Msgs : m \in Nat /\ \A k \in 1..MsgLen : <<m, k>> \in Chunk
BY ConnAssumption DEF Chunk, Msgs

\* The chunks of a message, from the first to the last.
LEMMA MessageFacts ==
    ASSUME NEW m \in Msgs
    PROVE  /\ ChunksOf(m) \in Seq(Chunk) /\ Len(ChunksOf(m)) = MsgLen
           /\ ChunksOf(m) # <<>>
           /\ \A k \in 1..MsgLen : ChunksOf(m)[k] = <<m, k>>
           /\ ChunksOf(m)[1] = <<m, 1>> /\ Last(ChunksOf(m)) = <<m, MsgLen>>
           /\ InRow(ChunksOf(m))
<1>1. \A k \in 1..MsgLen : <<m, k>> \in Chunk BY ChunkParts
<1>2. MsgLen \in Nat \ {0} BY ConnAssumption
<1>3. ChunksOf(m) \in Seq(Chunk) /\ Len(ChunksOf(m)) = MsgLen
      /\ \A k \in 1..MsgLen : ChunksOf(m)[k] = <<m, k>>
    BY <1>1, <1>2 DEF ChunksOf
<1>4. InRow(ChunksOf(m))
  <2> SUFFICES ASSUME NEW i \in 1..(MsgLen - 1)
               PROVE  Follows(ChunksOf(m)[i], ChunksOf(m)[i + 1])
      BY <1>3 DEF InRow
  <2>1. i \in 1..MsgLen /\ i + 1 \in 1..MsgLen BY <1>2
  <2>2. ChunksOf(m)[i] = <<m, i>> /\ ChunksOf(m)[i + 1] = <<m, i + 1>> BY <1>3, <2>1
  <2> QED BY <2>2 DEF Follows
<1>5. ChunksOf(m)[1] = <<m, 1>> /\ Last(ChunksOf(m)) = <<m, MsgLen>>
    BY <1>2, <1>3 DEF Last
<1> QED BY <1>2, <1>3, <1>4, <1>5

LEMMA NodeParts ==
    /\ \A x \in Node : x.kind \in {"mem", "file", "stream"} /\ x.chunks \in Seq(Chunk)
    /\ \A k \in {"mem", "file", "stream"}, s \in Seq(Chunk) :
          /\ [kind |-> k, chunks |-> s] \in Node
          /\ [kind |-> k, chunks |-> s].chunks = s /\ [kind |-> k, chunks |-> s].kind = k
BY DEF Node

LEMMA NodeEqual ==
    ASSUME NEW x \in Node, NEW y \in Node, x.kind = y.kind, x.chunks = y.chunks
    PROVE  x = y
BY DEF Node

\* Replacing the chunks of one node.
LEMMA NodePut ==
    ASSUME NEW l \in Seq(Node), NEW i \in DOMAIN l, NEW s \in Seq(Chunk)
    PROVE  LET p == [l EXCEPT ![i].chunks = s] IN
           /\ p \in Seq(Node) /\ Len(p) = Len(l) /\ DOMAIN p = DOMAIN l
           /\ p[i].chunks = s /\ p[i].kind = l[i].kind
           /\ \A j \in DOMAIN l : j # i => p[j] = l[j]
<1> DEFINE n == [l[i] EXCEPT !.chunks = s]
           p == [l EXCEPT ![i].chunks = s]
<1>1. l[i] \in Node /\ i \in 1..Len(l) OBVIOUS
<1>2. n \in Node /\ n.chunks = s /\ n.kind = l[i].kind BY <1>1 DEF Node
<1>3. p = [l EXCEPT ![i] = n] OBVIOUS
<1> HIDE DEF n, p
<1>4. p \in Seq(Node) /\ Len(p) = Len(l)
      /\ \A j \in 1..Len(l) : p[j] = IF j = i THEN n ELSE l[j]
    BY <1>1, <1>2, <1>3, ExceptSeq
<1>5. DOMAIN p = 1..Len(l) /\ DOMAIN l = 1..Len(l) BY <1>4
<1>6. /\ p[i].chunks = s /\ p[i].kind = l[i].kind
      /\ \A j \in DOMAIN l : j # i => p[j] = l[j]
    BY <1>1, <1>2, <1>4, <1>5
<1> QED BY <1>4, <1>5, <1>6 DEF p

\* Splitting a sequence of chunks after n.
LEMMA Split ==
    ASSUME NEW f \in Seq(Chunk), NEW n \in 0..Len(f), NEW w \in Seq(Chunk)
    PROVE  /\ SubSeq(f, 1, n) \in Seq(Chunk) /\ Len(SubSeq(f, 1, n)) = n
           /\ SubSeq(f, n + 1, Len(f)) \in Seq(Chunk)
           /\ Len(SubSeq(f, n + 1, Len(f))) = Len(f) - n
           /\ \A j \in 1..(Len(f) - n) : SubSeq(f, n + 1, Len(f))[j] = f[n + j]
           /\ w \o SubSeq(f, 1, n) \in Seq(Chunk)
           /\ Len(w \o SubSeq(f, 1, n)) = Len(w) + n
           /\ \A j \in 1..Len(w) : (w \o SubSeq(f, 1, n))[j] = w[j]
           /\ \A j \in 1..n : (w \o SubSeq(f, 1, n))[Len(w) + j] = f[j]
<1> DEFINE a == SubSeq(f, 1, n)
           b == SubSeq(f, n + 1, Len(f))
<1>1. a \in Seq(Chunk) /\ Len(a) = n /\ \A j \in 1..n : a[j] = f[j] OBVIOUS
<1>2. b \in Seq(Chunk) /\ Len(b) = Len(f) - n /\ \A j \in 1..(Len(f) - n) : b[j] = f[n + j]
    OBVIOUS
<1> HIDE DEF a, b
<1>3. w \o a \in Seq(Chunk) /\ Len(w \o a) = Len(w) + n BY <1>1, ConcatProperties
<1>4. \A j \in 1..Len(w) : (w \o a)[j] = w[j] BY <1>1
<1>5. \A j \in 1..n : (w \o a)[Len(w) + j] = f[j] BY <1>1
<1> QED BY <1>1, <1>2, <1>3, <1>4, <1>5 DEF a, b
-----------------------------------------------------------------------------
(* Order: how the list and the wire change *)

\* A wire in order, in words that do not mention the connection.
WireSane(w) == InRow(w) /\ (w # <<>> => w[1][2] = 1)

\* The first chunk of a later message may follow what a complete one ends with.
LEMMA NextMessage ==
    ASSUME NEW m \in Msgs, NEW x \in Chunk, x[1] < m, x[2] = MsgLen
    PROVE  Follows(x, <<m, 1>>)
BY DEF Follows

\* Chunks leave the front of the list for the wire.
LEMMA Move ==
    ASSUME NEW w \in Seq(Chunk), NEW l \in Seq(Node), NEW top, Ordered(w, l, top), WireSane(w),
           l # <<>>, NEW n \in 0..Len(l[1].chunks)
    PROVE  LET f == l[1].chunks
               v == w \o SubSeq(f, 1, n)
               p == [l EXCEPT ![1].chunks = SubSeq(f, n + 1, Len(f))] IN
           Ordered(v, p, top) /\ WireSane(v)
<1> DEFINE f == l[1].chunks
           v == w \o SubSeq(f, 1, n)
           g == SubSeq(f, n + 1, Len(f))
           p == [l EXCEPT ![1].chunks = g]
<1>1. 1 \in DOMAIN l /\ Len(l) \in Nat /\ DOMAIN l = 1..Len(l) OBVIOUS
<1>2. f \in Seq(Chunk) BY <1>1, NodeParts
<1>3. Len(f) \in Nat /\ n \in Nat /\ n <= Len(f) /\ Len(w) \in Nat BY <1>2
<1>4. /\ g \in Seq(Chunk) /\ Len(g) = Len(f) - n
      /\ \A j \in 1..(Len(f) - n) : g[j] = f[n + j]
      /\ v \in Seq(Chunk) /\ Len(v) = Len(w) + n
      /\ \A j \in 1..Len(w) : v[j] = w[j]
      /\ \A j \in 1..n : v[Len(w) + j] = f[j]
    BY <1>2, Split
<1> HIDE DEF v, g
<1>5. /\ p \in Seq(Node) /\ Len(p) = Len(l) /\ DOMAIN p = DOMAIN l
      /\ p[1].chunks = g /\ p[1].kind = l[1].kind
      /\ \A j \in DOMAIN l : j # 1 => p[j] = l[j]
    BY <1>1, <1>4, NodePut
<1> HIDE DEF p
<1>6. /\ InRow(f) /\ \A j \in DOMAIN f : f[j][1] <= top
      /\ f # <<>> => MayFollow(w, f[1])
      /\ Len(l) = 1 /\ f # <<>> => Last(f)[2] = MsgLen
    BY <1>1 DEF Ordered
<1> HIDE DEF f
<1>7. CASE n = 0
  <2>1. g = f BY <1>2, <1>3, <1>4, <1>7, SeqEqual
  <2>2. v = w BY <1>3, <1>4, <1>7, SeqEqual
  <2>3. \A j \in DOMAIN l : p[j].chunks = l[j].chunks BY <1>5, <2>1 DEF f
  <2>4. p = l
    <3>1. p[1] = l[1] BY <1>1, <1>5, <2>3, NodeEqual
    <3> QED BY <1>1, <1>5, <3>1, SeqEqual
  <2> QED BY <2>2, <2>4 DEF v, p, f, g
<1>8. CASE n > 0
  <2>1. v # <<>> /\ Last(v) = f[n]
    <3>1. n \in 1..n /\ Len(v) > 0 BY <1>3, <1>4, <1>8
    <3>2. v[Len(w) + n] = f[n] BY <1>4, <3>1
    <3>3. v # <<>> BY <3>1
    <3> QED BY <1>4, <3>2, <3>3 DEF Last
  <2>2. f # <<>> BY <1>3, <1>8
  <2>3. \A i \in DOMAIN v : v[i][1] <= top
    <3> TAKE i \in DOMAIN v
    <3>1. CASE i <= Len(w)
      <4>1. i \in DOMAIN w /\ i \in 1..Len(w) BY <1>4, <3>1
      <4> QED BY <1>4, <4>1 DEF Ordered
    <3>2. CASE i > Len(w)
      <4>1. i - Len(w) \in 1..n /\ Len(w) + (i - Len(w)) = i BY <1>3, <1>4, <3>2
      <4>2. v[i] = f[i - Len(w)] BY <1>4, <4>1
      <4>3. i - Len(w) \in DOMAIN f BY <1>2, <1>3, <4>1
      <4> QED BY <1>6, <4>2, <4>3
    <3> QED BY <1>3, <1>4, <3>1, <3>2
  <2>4. InRow(g)
    <3> SUFFICES ASSUME NEW j \in 1..(Len(g) - 1) PROVE Follows(g[j], g[j + 1]) BY DEF InRow
    <3>1. /\ j \in 1..(Len(f) - n) /\ j + 1 \in 1..(Len(f) - n)
          /\ n + j \in 1..(Len(f) - 1) /\ n + (j + 1) = (n + j) + 1
        BY <1>3, <1>4
    <3>2. g[j] = f[n + j] /\ g[j + 1] = f[n + (j + 1)] BY <1>4, <3>1
    <3>3. g[j + 1] = f[(n + j) + 1] BY <3>1, <3>2
    <3> QED BY <1>6, <3>1, <3>2, <3>3 DEF InRow
  <2>5. \A j \in DOMAIN g : g[j][1] <= top
    <3> TAKE j \in DOMAIN g
    <3>1. j \in 1..(Len(f) - n) /\ n + j \in DOMAIN f BY <1>2, <1>3, <1>4
    <3> QED BY <1>4, <1>6, <3>1
  <2>6. g # <<>> => Last(g) = Last(f)
    <3> SUFFICES ASSUME g # <<>> PROVE Last(g) = Last(f) OBVIOUS
    <3>1. Len(f) - n \in 1..(Len(f) - n) /\ n + (Len(f) - n) = Len(f) BY <1>3, <1>4
    <3> QED BY <1>4, <3>1 DEF Last
  <2>7. g # <<>> => MayFollow(v, g[1])
    <3> SUFFICES ASSUME g # <<>> PROVE MayFollow(v, g[1]) OBVIOUS
    <3>1. 1 \in 1..(Len(f) - n) /\ n \in 1..(Len(f) - 1) BY <1>3, <1>4, <1>8
    <3>2. g[1] = f[n + 1] /\ Follows(f[n], f[n + 1]) BY <1>4, <1>6, <3>1 DEF InRow
    <3> QED BY <2>1, <3>2 DEF MayFollow
  <2>8. g = <<>> => n = Len(f) /\ Last(v) = Last(f)
    <3> SUFFICES ASSUME g = <<>> PROVE n = Len(f) BY <2>1 DEF Last
    <3> QED BY <1>3, <1>4
  <2>9. WireSane(v)
    <3>1. v[1][2] = 1
      <4>1. CASE w = <<>>
        <5>1. 1 \in 1..n /\ Len(w) + 1 = 1 BY <1>3, <1>8, <4>1
        <5>2. v[1] = f[1] BY <1>4, <5>1
        <5> QED BY <1>6, <2>2, <4>1, <5>2 DEF MayFollow
      <4>2. CASE w # <<>>
        <5>1. 1 \in 1..Len(w) BY <1>3, <4>2
        <5> QED BY <1>4, <4>2, <5>1 DEF WireSane
      <4> QED BY <4>1, <4>2
    <3>2. InRow(v)
      <4> SUFFICES ASSUME NEW i \in 1..(Len(v) - 1) PROVE Follows(v[i], v[i + 1]) BY DEF InRow
      <4>1. CASE i < Len(w)
        <5>1. i \in 1..Len(w) /\ i + 1 \in 1..Len(w) /\ i \in 1..(Len(w) - 1) BY <1>3, <4>1
        <5> QED BY <1>4, <5>1 DEF WireSane, InRow
      <4>2. CASE i = Len(w)
        <5>1. i \in 1..Len(w) /\ 1 \in 1..n /\ w # <<>> BY <1>3, <1>8, <4>2
        <5>2. v[i] = Last(w) /\ v[i + 1] = f[1] BY <1>4, <4>2, <5>1 DEF Last
        <5> QED BY <1>6, <2>2, <5>1, <5>2 DEF MayFollow
      <4>3. CASE i > Len(w)
        <5> DEFINE j == i - Len(w)
        <5>1. /\ j \in 1..n /\ j + 1 \in 1..n /\ j \in 1..(Len(f) - 1)
              /\ Len(w) + j = i /\ Len(w) + (j + 1) = i + 1
            BY <1>3, <1>4, <4>3
        <5> HIDE DEF j
        <5>2. v[i] = f[j] /\ v[i + 1] = f[j + 1] BY <1>4, <5>1
        <5> QED BY <1>6, <5>1, <5>2 DEF InRow
      <4> QED BY <1>3, <4>1, <4>2, <4>3
    <3> QED BY <3>1, <3>2 DEF WireSane
  <2>10. Ordered(v, p, top)
    <3>1. ASSUME NEW i \in DOMAIN p, i = 1
          PROVE  /\ InRow(p[i].chunks)
                 /\ \A j \in DOMAIN p[i].chunks : p[i].chunks[j][1] <= top
                 /\ p[1].chunks # <<>> => MayFollow(v, p[i].chunks[1])
                 /\ i = Len(p) /\ p[i].chunks # <<>> => Last(p[i].chunks)[2] = MsgLen
        BY <1>5, <1>6, <2>2, <2>4, <2>5, <2>6, <2>7, <3>1
    <3>2. ASSUME NEW i \in DOMAIN p, i > 1
          PROVE  /\ InRow(p[i].chunks)
                 /\ \A j \in DOMAIN p[i].chunks : p[i].chunks[j][1] <= top
                 /\ p[i].chunks # <<>>
                 /\ p[i - 1].chunks # <<>> =>
                       Follows(Last(p[i - 1].chunks), p[i].chunks[1])
                 /\ i = 2 /\ p[1].chunks = <<>> => MayFollow(v, p[i].chunks[1])
                 /\ i = Len(p) /\ p[i].chunks # <<>> => Last(p[i].chunks)[2] = MsgLen
      <4>1. i \in DOMAIN l /\ i # 1 /\ i - 1 \in DOMAIN l /\ p[i] = l[i]
          BY <1>1, <1>5, <3>2
      <4>2. CASE i = 2
        <5>1. l[i - 1].chunks = f /\ p[i - 1].chunks = g BY <1>5, <4>2 DEF f
        <5>2. Follows(Last(f), l[i].chunks[1]) BY <2>2, <3>2, <4>1, <5>1 DEF Ordered
        <5>3. p[1].chunks = <<>> => MayFollow(v, p[i].chunks[1])
            BY <1>5, <2>1, <2>8, <4>1, <5>2 DEF MayFollow
        <5> QED BY <1>5, <2>6, <3>2, <4>1, <5>1, <5>2, <5>3 DEF Ordered
      <4>3. CASE i # 2
        <5>1. i - 1 # 1 BY <1>1, <4>1, <4>3
        <5>2. p[i - 1] = l[i - 1] BY <1>5, <4>1, <5>1
        <5> QED BY <1>5, <3>2, <4>1, <4>3, <5>2 DEF Ordered
      <4> QED BY <4>2, <4>3
    <3>3. (\A i \in DOMAIN p : p[i].chunks = <<>>) => Last(v)[2] = MsgLen
      <4> SUFFICES ASSUME \A i \in DOMAIN p : p[i].chunks = <<>> PROVE Last(v)[2] = MsgLen
          OBVIOUS
      <4>1. g = <<>> BY <1>1, <1>5
      <4>2. Len(l) = 1
        <5>1. 2 \notin DOMAIN p BY <3>2
        <5> QED BY <1>1, <1>5, <5>1
      <4> QED BY <1>6, <2>2, <2>8, <4>1, <4>2
    <3>4. \A i \in DOMAIN p : i = 1 \/ i > 1 BY <1>1, <1>5
    <3> QED BY <2>3, <3>1, <3>2, <3>3, <3>4 DEF Ordered
  <2> QED BY <2>9, <2>10 DEF v, p, f, g
<1> QED BY <1>3, <1>7, <1>8
\* A finished node leaves the front of the list.
LEMMA DropFront ==
    ASSUME NEW w \in Seq(Chunk), NEW l \in Seq(Node), NEW top, Ordered(w, l, top),
           l # <<>>, l[1].chunks = <<>>
    PROVE  Ordered(w, Tail(l), top)
<1> DEFINE p == Tail(l)
<1>1. p \in Seq(Node) /\ Len(p) = Len(l) - 1 /\ DOMAIN p = 1..(Len(l) - 1)
      /\ DOMAIN l = 1..Len(l) /\ Len(l) \in Nat
    OBVIOUS
<1>2. \A i \in DOMAIN p : i + 1 \in DOMAIN l /\ p[i] = l[i + 1] /\ i \in Nat OBVIOUS
<1> HIDE DEF p
<1>3. ASSUME NEW i \in DOMAIN p
      PROVE  /\ InRow(p[i].chunks)
             /\ \A j \in DOMAIN p[i].chunks : p[i].chunks[j][1] <= top
             /\ p[i].chunks # <<>>
             /\ i > 1 => Follows(Last(p[i - 1].chunks), p[i].chunks[1])
             /\ i = 1 => MayFollow(w, p[i].chunks[1])
             /\ i = Len(p) => Last(p[i].chunks)[2] = MsgLen
  <2>1. i + 1 \in DOMAIN l /\ p[i] = l[i + 1] /\ i + 1 > 1 /\ (i + 1) - 1 = i BY <1>2
  <2>2. l[i + 1].chunks # <<>> BY <2>1 DEF Ordered
  <2>3. i = 1 => MayFollow(w, p[i].chunks[1])
    <3> SUFFICES ASSUME i = 1 PROVE MayFollow(w, p[i].chunks[1]) OBVIOUS
    <3>1. i + 1 = 2 OBVIOUS
    <3> QED BY <2>1, <3>1 DEF Ordered
  <2>4. i > 1 => Follows(Last(p[i - 1].chunks), p[i].chunks[1])
    <3> SUFFICES ASSUME i > 1 PROVE Follows(Last(p[i - 1].chunks), p[i].chunks[1]) OBVIOUS
    <3>1. i - 1 \in DOMAIN p /\ (i - 1) + 1 = i BY <1>1
    <3>2. p[i - 1] = l[i] /\ i \in DOMAIN l BY <1>2, <3>1
    <3>3. l[i].chunks # <<>> BY <3>2 DEF Ordered
    <3>4. l[(i + 1) - 1].chunks # <<>> BY <2>1, <3>3
    <3>5. Follows(Last(l[(i + 1) - 1].chunks), l[i + 1].chunks[1])
        BY <2>1, <3>4 DEF Ordered
    <3> QED BY <2>1, <3>2, <3>5
  <2>5. i = Len(p) => Last(p[i].chunks)[2] = MsgLen
    <3> SUFFICES ASSUME i = Len(p) PROVE Last(p[i].chunks)[2] = MsgLen OBVIOUS
    <3>1. i + 1 = Len(l) BY <1>1
    <3> QED BY <2>1, <2>2, <3>1 DEF Ordered
  <2>6. InRow(p[i].chunks) /\ \A j \in DOMAIN p[i].chunks : p[i].chunks[j][1] <= top
      BY <2>1 DEF Ordered
  <2> QED BY <2>1, <2>2, <2>3, <2>4, <2>5, <2>6
<1>4. (\A i \in DOMAIN p : p[i].chunks = <<>>) /\ w # <<>> => Last(w)[2] = MsgLen
  <2> SUFFICES ASSUME \A i \in DOMAIN p : p[i].chunks = <<>>, w # <<>>
               PROVE  Last(w)[2] = MsgLen
      OBVIOUS
  <2>1. DOMAIN p = {} BY <1>3
  <2>2. Len(l) = 1 BY <1>1, <2>1
  <2>3. \A i \in DOMAIN l : l[i].chunks = <<>> BY <1>1, <2>2
  <2> QED BY <2>3 DEF Ordered
<1>5. \A i \in DOMAIN w : w[i][1] <= top BY DEF Ordered
<1>6. ASSUME NEW i \in DOMAIN p, i = 2, p[1].chunks = <<>> PROVE FALSE
    BY <1>1, <1>3, <1>6
<1>7. Ordered(w, p, top) BY <1>3, <1>4, <1>5, <1>6 DEF Ordered
<1> QED BY <1>7 DEF p

\* What the next message comes after.
LEMMA EndOfList ==
    ASSUME NEW w \in Seq(Chunk), NEW l \in Seq(Node), NEW top \in Nat, Ordered(w, l, top),
           NEW m \in Msgs, top < m
    PROVE  /\ (\A i \in DOMAIN l : l[i].chunks = <<>>) => MayFollow(w, <<m, 1>>)
           /\ l # <<>> /\ l[Len(l)].chunks # <<>> =>
                 Follows(Last(l[Len(l)].chunks), <<m, 1>>)
<1>1. ASSUME \A i \in DOMAIN l : l[i].chunks = <<>> PROVE MayFollow(w, <<m, 1>>)
  <2>1. CASE w = <<>> BY <2>1 DEF MayFollow
  <2>2. CASE w # <<>>
    <3>1. Len(w) \in DOMAIN w BY <2>2
    <3>2. Last(w) \in Chunk /\ Last(w)[1] <= top /\ Last(w)[2] = MsgLen
        BY <1>1, <2>2, <3>1 DEF Ordered, Last
    <3>3. Last(w)[1] < m BY <3>2, ChunkParts
    <3> QED BY <2>2, <3>2, <3>3, NextMessage DEF MayFollow
  <2> QED BY <2>1, <2>2
<1>2. ASSUME l # <<>>, l[Len(l)].chunks # <<>>
      PROVE  Follows(Last(l[Len(l)].chunks), <<m, 1>>)
  <2> DEFINE f == l[Len(l)].chunks
  <2>1. Len(l) \in DOMAIN l BY <1>2
  <2>2. f \in Seq(Chunk) BY <2>1, NodeParts
  <2>3. (\A j \in DOMAIN f : f[j][1] <= top) /\ Last(f)[2] = MsgLen
      BY <1>2, <2>1 DEF Ordered
  <2>4. f # <<>> BY <1>2
  <2> HIDE DEF f
  <2>5. Len(f) \in DOMAIN f BY <2>2, <2>4
  <2>6. Last(f) \in Chunk /\ Last(f)[1] <= top BY <2>2, <2>3, <2>5 DEF Last
  <2>7. Last(f)[1] < m BY <2>6, ChunkParts
  <2>8. Follows(Last(f), <<m, 1>>) BY <2>3, <2>6, <2>7, NextMessage
  <2> QED BY <2>8 DEF f
<1> QED BY <1>1, <1>2

\* Messages that are dropped change nothing.
LEMMA Raise ==
    ASSUME NEW w \in Seq(Chunk), NEW l \in Seq(Node), NEW top \in Nat, Ordered(w, l, top),
           NEW m \in Nat, top <= m
    PROVE  Ordered(w, l, m)
<1>1. \A i \in DOMAIN w : w[i] \in Chunk OBVIOUS
<1>2. \A i \in DOMAIN w : w[i][1] <= m BY <1>1, ChunkParts DEF Ordered
<1>3. ASSUME NEW i \in DOMAIN l, NEW j \in DOMAIN l[i].chunks PROVE l[i].chunks[j][1] <= m
  <2>1. l[i].chunks \in Seq(Chunk) BY NodeParts
  <2>2. l[i].chunks[j] \in Chunk BY <2>1
  <2> QED BY <2>2, ChunkParts DEF Ordered
<1> QED BY <1>2, <1>3 DEF Ordered

\* A message gets a node of its own.
LEMMA AppendNode ==
    ASSUME NEW w \in Seq(Chunk), NEW l \in Seq(Node), NEW top \in Nat, Ordered(w, l, top),
           NEW m \in Msgs, top < m, NEW n \in Node, n.chunks = ChunksOf(m)
    PROVE  Ordered(w, Append(l, n), m)
<1> DEFINE p == Append(l, n)
           z == Len(l) + 1
<1>1. Ordered(w, l, m) BY Raise, ChunkParts
<1>2. /\ p \in Seq(Node) /\ DOMAIN p = DOMAIN l \cup {z} /\ p[z] = n /\ Len(p) = z
      /\ \A i \in DOMAIN l : p[i] = l[i] /\ i # z /\ i \in Nat /\ i <= Len(l)
      /\ z \in Nat /\ z >= 1 /\ z - 1 = Len(l) /\ DOMAIN l = 1..Len(l)
    OBVIOUS
<1> HIDE DEF p, z
<1>3. ASSUME NEW i \in DOMAIN l
      PROVE  /\ InRow(p[i].chunks)
             /\ \A j \in DOMAIN p[i].chunks : p[i].chunks[j][1] <= m
             /\ i > 1 => p[i].chunks # <<>>
             /\ i > 1 /\ p[i - 1].chunks # <<>> =>
                   Follows(Last(p[i - 1].chunks), p[i].chunks[1])
             /\ (i = 1 /\ p[1].chunks # <<>>) \/ (i = 2 /\ p[1].chunks = <<>>) =>
                   MayFollow(w, p[i].chunks[1])
             /\ i # Len(p)
  <2>1. p[i] = l[i] /\ i # Len(p) BY <1>2
  <2>2. i > 1 => i - 1 \in DOMAIN l /\ p[i - 1] = l[i - 1] BY <1>2
  <2>3. 1 \in DOMAIN l /\ p[1] = l[1] BY <1>2
  <2> QED BY <1>1, <2>1, <2>2, <2>3 DEF Ordered
<1>4. /\ InRow(n.chunks) /\ n.chunks # <<>> /\ Last(n.chunks)[2] = MsgLen
      /\ n.chunks[1] = <<m, 1>>
    BY MessageFacts
<1>5. \A j \in DOMAIN n.chunks : n.chunks[j][1] <= m
  <2> TAKE j \in DOMAIN n.chunks
  <2>1. j \in 1..MsgLen BY MessageFacts
  <2>2. n.chunks[j] = <<m, j>> BY <2>1, MessageFacts
  <2> QED BY <2>2, ChunkParts
<1>6. z > 1 /\ p[z - 1].chunks # <<>> => Follows(Last(p[z - 1].chunks), n.chunks[1])
  <2> SUFFICES ASSUME z > 1, p[z - 1].chunks # <<>>
               PROVE  Follows(Last(p[z - 1].chunks), n.chunks[1])
      OBVIOUS
  <2>1. Len(l) \in DOMAIN l /\ z - 1 = Len(l) /\ l # <<>>
    <3>1. Len(l) \in Nat /\ z = Len(l) + 1 BY DEF z
    <3>2. Len(l) > 0 BY <3>1
    <3>3. Len(l) \in 1..Len(l) /\ z - 1 = Len(l) BY <3>1, <3>2
    <3>4. l # <<>> BY <3>2
    <3> QED BY <1>2, <3>3, <3>4
  <2>2. p[z - 1] = l[Len(l)] BY <1>2, <2>1
  <2> QED BY <1>4, <2>1, <2>2, EndOfList
<1>7. (z = 1 /\ p[1].chunks # <<>>) \/ (z = 2 /\ p[1].chunks = <<>>) => MayFollow(w, n.chunks[1])
  <2> SUFFICES ASSUME z = 1 \/ (z = 2 /\ p[1].chunks = <<>>)
               PROVE  \A i \in DOMAIN l : l[i].chunks = <<>>
      BY <1>4, EndOfList
  <2> QED BY <1>2
<1>8. ~(\A i \in DOMAIN p : p[i].chunks = <<>>) BY <1>2, <1>4
<1>9. \A i \in DOMAIN w : w[i][1] <= m BY <1>1, Zenon DEF Ordered
<1>10. ASSUME NEW i \in DOMAIN p, i = z
       PROVE  /\ InRow(p[i].chunks)
              /\ \A j \in DOMAIN p[i].chunks : p[i].chunks[j][1] <= m
              /\ i > 1 => p[i].chunks # <<>>
              /\ i > 1 /\ p[i - 1].chunks # <<>> =>
                    Follows(Last(p[i - 1].chunks), p[i].chunks[1])
              /\ (i = 1 /\ p[1].chunks # <<>>) \/ (i = 2 /\ p[1].chunks = <<>>) =>
                    MayFollow(w, p[i].chunks[1])
              /\ Last(p[i].chunks)[2] = MsgLen
  <2>1. p[i] = n BY <1>2, <1>10
  <2>2. InRow(p[i].chunks) /\ p[i].chunks # <<>> /\ Last(p[i].chunks)[2] = MsgLen
      BY <1>4, <2>1, Zenon
  <2>3. \A j \in DOMAIN p[i].chunks : p[i].chunks[j][1] <= m BY <1>5, <2>1, Zenon
  <2>4. i > 1 /\ p[i - 1].chunks # <<>> => Follows(Last(p[i - 1].chunks), p[i].chunks[1])
      BY <1>6, <1>10, <2>1, Zenon
  <2>5. (i = 1 /\ p[1].chunks # <<>>) \/ (i = 2 /\ p[1].chunks = <<>>) =>
            MayFollow(w, p[i].chunks[1])
      BY <1>7, <1>10, <2>1, Zenon
  <2> QED BY <2>2, <2>3, <2>4, <2>5
<1>11. Ordered(w, p, m) BY <1>2, <1>3, <1>8, <1>9, <1>10 DEF Ordered
<1> QED BY <1>11 DEF p
\* A message joins the last node.
LEMMA ExtendLast ==
    ASSUME NEW w \in Seq(Chunk), NEW l \in Seq(Node), NEW top \in Nat, Ordered(w, l, top),
           NEW m \in Msgs, top < m, l # <<>>
    PROVE  Ordered(w, [l EXCEPT ![Len(l)].chunks = l[Len(l)].chunks \o ChunksOf(m)], m)
<1> DEFINE z == Len(l)
           f == l[z].chunks
           a == ChunksOf(m)
           g == f \o a
           p == [l EXCEPT ![z].chunks = g]
<1>1. Ordered(w, l, m) BY Raise, ChunkParts
<1>2. z \in DOMAIN l /\ DOMAIN l = 1..z /\ z \in Nat /\ z >= 1 OBVIOUS
<1>3. f \in Seq(Chunk) /\ Len(f) \in Nat BY <1>2, NodeParts
<1>4. /\ a \in Seq(Chunk) /\ Len(a) = MsgLen /\ InRow(a) /\ a[1] = <<m, 1>>
      /\ Last(a)[2] = MsgLen /\ \A k \in 1..MsgLen : a[k] = <<m, k>>
    BY MessageFacts
<1>5. MsgLen \in Nat /\ MsgLen >= 1 BY ConnAssumption
<1> HIDE DEF a, f, z
<1>6. /\ g \in Seq(Chunk) /\ Len(g) = Len(f) + MsgLen
      /\ \A j \in 1..Len(f) : g[j] = f[j]
      /\ \A j \in 1..MsgLen : g[Len(f) + j] = a[j]
  <2>1. g \in Seq(Chunk) /\ Len(g) = Len(f) + MsgLen
    <3>1. a \in Seq(Chunk) /\ Len(a) = MsgLen BY <1>4
    <3>2. g \in Seq(Chunk) BY <1>3, <3>1
    <3>3. Len(g) = Len(f) + Len(a) BY <1>3, <3>1, ConcatProperties
    <3> QED BY <3>1, <3>2, <3>3
  <2>2. \A j \in 1..Len(f) : g[j] = f[j] BY <1>3, <1>4
  <2>3. \A j \in 1..MsgLen : g[Len(f) + j] = a[j] BY <1>3, <1>4, <1>5
  <2> QED BY <2>1, <2>2, <2>3
<1> HIDE DEF g
<1>7. /\ p \in Seq(Node) /\ Len(p) = z /\ DOMAIN p = DOMAIN l
      /\ p[z].chunks = g /\ \A j \in DOMAIN l : j # z => p[j] = l[j]
    BY <1>2, <1>6, NodePut DEF z
<1> HIDE DEF p
<1>8. /\ InRow(f) /\ \A j \in DOMAIN f : f[j][1] <= m
      /\ z > 1 => f # <<>>
      /\ z > 1 /\ l[z - 1].chunks # <<>> => Follows(Last(l[z - 1].chunks), f[1])
      /\ (z = 1 /\ l[1].chunks # <<>>) \/ (z = 2 /\ l[1].chunks = <<>>) => MayFollow(w, f[1])
    BY <1>1, <1>2 DEF Ordered, f
<1>9. g # <<>> /\ Last(g)[2] = MsgLen
  <2>1. MsgLen \in 1..MsgLen /\ Len(g) > 0 BY <1>3, <1>5, <1>6
  <2>2. g[Len(f) + MsgLen] = a[MsgLen] BY <1>6, <2>1
  <2>3. Last(g) = Last(a) BY <1>4, <1>6, <2>2 DEF Last
  <2> QED BY <1>4, <2>1, <2>3
<1>10. f # <<>> => g[1] = f[1] BY <1>3, <1>6
<1>11. f = <<>> => g[1] = <<m, 1>>
  <2> SUFFICES ASSUME f = <<>> PROVE g[1] = <<m, 1>> OBVIOUS
  <2>1. 1 \in 1..MsgLen /\ Len(f) + 1 = 1 BY <1>5
  <2>2. g[Len(f) + 1] = a[1] BY <1>6, <2>1
  <2> QED BY <1>4, <2>1, <2>2
<1>12. f # <<>> => Follows(Last(f), <<m, 1>>) BY EndOfList DEF f, z
<1>13. InRow(g)
  <2> SUFFICES ASSUME NEW i \in 1..(Len(g) - 1) PROVE Follows(g[i], g[i + 1]) BY DEF InRow
  <2>1. CASE i < Len(f)
    <3>1. i \in 1..Len(f) /\ i + 1 \in 1..Len(f) /\ i \in 1..(Len(f) - 1) BY <1>3, <2>1
    <3> QED BY <1>6, <1>8, <3>1 DEF InRow
  <2>2. CASE i = Len(f)
    <3>1. i \in 1..Len(f) /\ f # <<>> /\ 1 \in 1..MsgLen BY <1>3, <1>5, <2>2
    <3>2. g[i] = Last(f) BY <1>6, <2>2, <3>1 DEF Last
    <3>3. g[i + 1] = a[1] BY <1>6, <2>2, <3>1
    <3> QED BY <1>4, <1>12, <3>1, <3>2, <3>3
  <2>3. CASE i > Len(f)
    <3> DEFINE j == i - Len(f)
    <3>1. /\ j \in 1..MsgLen /\ j + 1 \in 1..MsgLen /\ j \in 1..(Len(a) - 1)
          /\ Len(f) + j = i /\ Len(f) + (j + 1) = i + 1
        BY <1>3, <1>4, <1>5, <1>6, <2>3
    <3> HIDE DEF j
    <3>2. g[i] = a[j] /\ g[i + 1] = a[j + 1] BY <1>6, <3>1
    <3> QED BY <1>4, <3>1, <3>2 DEF InRow
  <2> QED BY <1>3, <2>1, <2>2, <2>3
<1>14. \A j \in DOMAIN g : g[j][1] <= m
  <2> TAKE j \in DOMAIN g
  <2>1. CASE j <= Len(f)
    <3>1. j \in 1..Len(f) /\ j \in DOMAIN f BY <1>3, <1>6, <2>1
    <3> QED BY <1>6, <1>8, <3>1
  <2>2. CASE j > Len(f)
    <3>1. j - Len(f) \in 1..MsgLen /\ Len(f) + (j - Len(f)) = j BY <1>3, <1>5, <1>6, <2>2
    <3>2. g[j] = <<m, j - Len(f)>> BY <1>4, <1>6, <3>1
    <3> QED BY <3>2, ChunkParts
  <2> QED BY <1>3, <1>6, <2>1, <2>2
<1>15. (z = 1 /\ g # <<>>) \/ (z = 2 /\ l[1].chunks = <<>>) => MayFollow(w, g[1])
  <2> SUFFICES ASSUME z = 1 \/ (z = 2 /\ l[1].chunks = <<>>) PROVE MayFollow(w, g[1])
      OBVIOUS
  <2>1. CASE f = <<>>
    <3>1. \A i \in DOMAIN l : l[i].chunks = <<>> BY <1>2, <2>1 DEF f
    <3> QED BY <1>11, <2>1, <3>1, EndOfList
  <2>2. CASE f # <<>>
    <3>1. z = 1 => l[1].chunks # <<>> BY <2>2 DEF f
    <3> QED BY <1>8, <1>10, <2>2, <3>1
  <2> QED BY <2>1, <2>2
<1>16. ASSUME NEW i \in DOMAIN p, i = z
       PROVE  /\ InRow(p[i].chunks)
              /\ \A j \in DOMAIN p[i].chunks : p[i].chunks[j][1] <= m
              /\ i > 1 => p[i].chunks # <<>>
              /\ i > 1 /\ p[i - 1].chunks # <<>> =>
                    Follows(Last(p[i - 1].chunks), p[i].chunks[1])
              /\ (i = 1 /\ p[1].chunks # <<>>) \/ (i = 2 /\ p[1].chunks = <<>>) =>
                    MayFollow(w, p[i].chunks[1])
              /\ Last(p[i].chunks)[2] = MsgLen
  <2>1. z > 1 => z - 1 \in DOMAIN l /\ p[z - 1] = l[z - 1] /\ p[1] = l[1]
      BY <1>2, <1>7
  <2> QED BY <1>7, <1>8, <1>9, <1>10, <1>13, <1>14, <1>15, <1>16, <2>1
<1>17. ASSUME NEW i \in DOMAIN p, i # z
       PROVE  /\ InRow(p[i].chunks)
              /\ \A j \in DOMAIN p[i].chunks : p[i].chunks[j][1] <= m
              /\ i > 1 => p[i].chunks # <<>>
              /\ i > 1 /\ p[i - 1].chunks # <<>> =>
                    Follows(Last(p[i - 1].chunks), p[i].chunks[1])
              /\ (i = 1 /\ p[1].chunks # <<>>) \/ (i = 2 /\ p[1].chunks = <<>>) =>
                    MayFollow(w, p[i].chunks[1])
              /\ i # Len(p)
  <2>1. i \in DOMAIN l /\ p[i] = l[i] /\ i # Len(p) BY <1>7, <1>17
  <2>2. i > 1 => i - 1 \in DOMAIN l /\ p[i - 1] = l[i - 1] BY <1>2, <1>7, <1>17, <2>1
  <2>3. 1 \in DOMAIN l /\ p[1] = l[1] BY <1>2, <1>7, <1>17, <2>1
  <2> QED BY <1>1, <2>1, <2>2, <2>3 DEF Ordered
<1>18. ~(\A i \in DOMAIN p : p[i].chunks = <<>>) BY <1>2, <1>7, <1>9
<1>19. \A i \in DOMAIN w : w[i][1] <= m BY <1>1 DEF Ordered
<1>20. Ordered(w, p, m) BY <1>7, <1>16, <1>17, <1>18, <1>19 DEF Ordered
<1> QED BY <1>20 DEF p, g, f, a, z
-----------------------------------------------------------------------------
(* Nothing is lost on the way from the list to the wire *)

LEMMA MoveHolds ==
    ASSUME NEW w \in Seq(Chunk), NEW l \in Seq(Node), l # <<>>, NEW n \in 0..Len(l[1].chunks)
    PROVE  LET f == l[1].chunks
               v == w \o SubSeq(f, 1, n)
               p == [l EXCEPT ![1].chunks = SubSeq(f, n + 1, Len(f))] IN
           Range(w) \subseteq Range(v) /\ Held(w, l) \subseteq Held(v, p)
<1> DEFINE f == l[1].chunks
           v == w \o SubSeq(f, 1, n)
           g == SubSeq(f, n + 1, Len(f))
           p == [l EXCEPT ![1].chunks = g]
<1>1. 1 \in DOMAIN l /\ f \in Seq(Chunk) BY NodeParts
<1>2. Len(f) \in Nat /\ n \in Nat /\ n <= Len(f) /\ Len(w) \in Nat BY <1>1
<1>3. /\ g \in Seq(Chunk) /\ Len(g) = Len(f) - n
      /\ \A j \in 1..(Len(f) - n) : g[j] = f[n + j]
      /\ v \in Seq(Chunk) /\ Len(v) = Len(w) + n
      /\ \A j \in 1..Len(w) : v[j] = w[j]
      /\ \A j \in 1..n : v[Len(w) + j] = f[j]
    BY <1>1, Split
<1> HIDE DEF v, g
<1>4. /\ DOMAIN p = DOMAIN l /\ p[1].chunks = g
      /\ \A j \in DOMAIN l : j # 1 => p[j] = l[j]
    BY <1>1, <1>3, NodePut
<1>5. DOMAIN v = 1..(Len(w) + n) /\ DOMAIN w = 1..Len(w) /\ DOMAIN g = 1..(Len(f) - n)
      /\ DOMAIN f = 1..Len(f)
    BY <1>1, <1>3
<1> HIDE DEF p, f
<1>6. Range(w) \subseteq Range(v)
  <2>1. \A j \in DOMAIN w : j \in DOMAIN v /\ v[j] = w[j] BY <1>2, <1>3, <1>5
  <2> QED BY <2>1 DEF Range
<1>7. \A j \in DOMAIN f : f[j] \in Range(v) \cup Range(g)
  <2> TAKE j \in DOMAIN f
  <2>1. CASE j <= n
    <3>1. j \in 1..n /\ Len(w) + j \in DOMAIN v BY <1>2, <1>5, <2>1
    <3> QED BY <1>3, <3>1 DEF Range
  <2>2. CASE j > n
    <3>1. j - n \in 1..(Len(f) - n) /\ n + (j - n) = j BY <1>2, <1>5, <2>2
    <3>2. g[j - n] = f[j] BY <1>3, <3>1
    <3> QED BY <1>5, <3>1, <3>2 DEF Range
  <2> QED BY <1>2, <1>5, <2>1, <2>2
<1>8. ASSUME NEW i \in DOMAIN l, NEW x \in Range(l[i].chunks) PROVE x \in Held(v, p)
  <2>1. CASE i = 1
    <3>1. x \in Range(v) \cup Range(p[1].chunks) BY <1>4, <1>7, <1>8, <2>1 DEF Range, f
    <3> QED BY <1>1, <1>4, <3>1 DEF Held
  <2>2. CASE i # 1 BY <1>4, <1>8, <2>2 DEF Held
  <2> QED BY <2>1, <2>2
<1>9. Held(w, l) \subseteq Held(v, p) BY <1>6, <1>8 DEF Held
<1> QED BY <1>6, <1>9 DEF v, p, g, f

LEMMA DropHolds ==
    ASSUME NEW w, NEW l \in Seq(Node), l # <<>>, l[1].chunks = <<>>
    PROVE  Held(w, l) \subseteq Held(w, Tail(l))
<1> DEFINE p == Tail(l)
<1>1. \A i \in DOMAIN l : i # 1 => i - 1 \in DOMAIN p /\ p[i - 1] = l[i] OBVIOUS
<1>2. Range(l[1].chunks) = {} BY DEF Range
<1> HIDE DEF p
<1>3. \A i \in DOMAIN l : Range(l[i].chunks) \subseteq Held(w, p) BY <1>1, <1>2 DEF Held
<1>4. Held(w, l) \subseteq Held(w, p) BY <1>3 DEF Held
<1> QED BY <1>4 DEF p

LEMMA AppendHolds ==
    ASSUME NEW w, NEW l \in Seq(Node), NEW n \in Node
    PROVE  Held(w, l) \cup Range(n.chunks) \subseteq Held(w, Append(l, n))
<1> DEFINE p == Append(l, n)
<1>1. \A i \in DOMAIN l : i \in DOMAIN p /\ p[i] = l[i] OBVIOUS
<1>2. Len(l) + 1 \in DOMAIN p /\ p[Len(l) + 1] = n OBVIOUS
<1> HIDE DEF p
<1>3. Held(w, l) \subseteq Held(w, p) BY <1>1 DEF Held
<1>4. Range(n.chunks) \subseteq Held(w, p) BY <1>2 DEF Held
<1> QED BY <1>3, <1>4 DEF p

LEMMA ExtendHolds ==
    ASSUME NEW w, NEW l \in Seq(Node), l # <<>>, NEW a \in Seq(Chunk)
    PROVE  Held(w, l) \cup Range(a)
              \subseteq Held(w, [l EXCEPT ![Len(l)].chunks = l[Len(l)].chunks \o a])
<1> DEFINE z == Len(l)
           f == l[z].chunks
           g == f \o a
           p == [l EXCEPT ![z].chunks = g]
<1>1. z \in DOMAIN l OBVIOUS
<1>2. f \in Seq(Chunk) /\ Len(f) \in Nat /\ Len(a) \in Nat BY <1>1, NodeParts
<1> HIDE DEF f, z
<1>3. g \in Seq(Chunk) /\ Len(g) = Len(f) + Len(a) BY <1>2, ConcatProperties
<1>4. \A j \in DOMAIN f : j \in DOMAIN g /\ g[j] = f[j] BY <1>2, <1>3
<1>5. \A j \in DOMAIN a : Len(f) + j \in DOMAIN g /\ g[Len(f) + j] = a[j] BY <1>2, <1>3
<1> HIDE DEF g
<1>6. /\ DOMAIN p = DOMAIN l /\ p[z].chunks = g
      /\ \A j \in DOMAIN l : j # z => p[j] = l[j]
    BY <1>1, <1>3, NodePut
<1> HIDE DEF p
<1>7. Range(f) \subseteq Range(g) /\ Range(a) \subseteq Range(g) BY <1>4, <1>5 DEF Range
<1>8. Range(g) \subseteq Held(w, p) BY <1>1, <1>6 DEF Held
<1>9. \A i \in DOMAIN l : Range(l[i].chunks) \subseteq Held(w, p)
  <2> TAKE i \in DOMAIN l
  <2>1. CASE i = z BY <1>7, <1>8, <2>1 DEF f
  <2>2. CASE i # z BY <1>6, <2>2 DEF Held
  <2> QED BY <2>1, <2>2
<1>10. Held(w, l) \subseteq Held(w, p) BY <1>9 DEF Held
<1> QED BY <1>7, <1>8, <1>10 DEF p, g, f, z

-----------------------------------------------------------------------------
(* The handlers *)

\* The parts of the invariant that speak of the connection alone.
ListSane(c) ==
    /\ c.writing => c.list # <<>>
    /\ \A i \in 1..(Len(c.list) - 1) : c.list[i].kind = "mem" => c.list[i + 1].kind # "mem"

Fine(c, top) ==
    /\ c \in ConnType /\ ListSane(c) /\ WireSane(c.wire)
    /\ ~Broken(c) => Ordered(c.wire, c.list, top)

\* What writing does not touch, and what it may not lose.
SameStatus(c, d) ==
    /\ d.status = c.status /\ d.reading = c.reading /\ d.closeOnEmpty = c.closeOnEmpty
    /\ d.fin = c.fin /\ d.reset = c.reset /\ d.closed = c.closed
    /\ d.pushedLate = c.pushedLate

Writes(c, d) ==
    /\ SameStatus(c, d)
    /\ Range(c.wire) \subseteq Range(d.wire)
    /\ ~Broken(c) => Held(c.wire, c.list) \subseteq Held(d.wire, d.list)

LEMMA ConnParts ==
    ASSUME NEW c \in ConnType
    PROVE  /\ c.status \in {"Connecting", "Connected", "Disconnecting", "Disconnected"}
           /\ c.list \in Seq(Node) /\ c.wire \in Seq(Chunk) /\ c.room \in 0..Cap
           /\ c.reading \in BOOLEAN /\ c.writing \in BOOLEAN /\ c.closeOnEmpty \in BOOLEAN
           /\ c.fin \in BOOLEAN /\ c.reset \in BOOLEAN /\ c.pushedLate \in BOOLEAN
           /\ c.closed \in Nat
BY DEF ConnType

\* A connection with another wire, room, list and writing.
WithData(c, w, r, l, b) == [c EXCEPT !.wire = w, !.room = r, !.list = l, !.writing = b]

\* What is written last counts.
LEMMA WithDataTwice ==
    ASSUME NEW c, NEW w0, NEW r0, NEW l0, NEW b0, NEW w, NEW r, NEW l, NEW b
    PROVE  WithData(WithData(c, w0, r0, l0, b0), w, r, l, b) = WithData(c, w, r, l, b)
BY DEF WithData

LEMMA Written ==
    ASSUME NEW c \in ConnType, NEW w \in Seq(Chunk), NEW r \in 0..Cap, NEW l \in Seq(Node),
           NEW b \in BOOLEAN
    PROVE  LET d == WithData(c, w, r, l, b) IN
           /\ d \in ConnType /\ SameStatus(c, d)
           /\ d.wire = w /\ d.room = r /\ d.list = l /\ d.writing = b
BY DEF ConnType, SameStatus, WithData

\* What fits of the node in front goes to the wire, and the rest stays.
AfterWrite(c, b) ==
    LET f == c.list[1].chunks
        n == Fits(c, f) IN
    WithData(c, c.wire \o SubSeq(f, 1, n), c.room - n,
             [c.list EXCEPT ![1].chunks = SubSeq(f, n + 1, Len(f))], b)

LEMMA Transfer ==
    ASSUME NEW c \in ConnType, c.list # <<>>, NEW b \in BOOLEAN
    PROVE  /\ [Put(c, c.list[1].chunks) EXCEPT !.writing = b, !.list[1].chunks = Rest(c, @)]
                 = AfterWrite(c, b)
           /\ [Put(c, c.list[1].chunks) EXCEPT !.list[1].chunks = Rest(c, @)]
                 = AfterWrite(c, c.writing)
BY DEF Put, Rest, ConnType, AfterWrite, WithData

LEMMA FitsType ==
    ASSUME NEW c \in ConnType, NEW f \in Seq(Chunk)
    PROVE  Fits(c, f) \in 0..Len(f) /\ c.room - Fits(c, f) \in 0..Cap
<1>1. c.room \in 0..Cap /\ Cap \in Nat /\ Len(f) \in Nat BY ConnParts, ConnAssumption
<1> QED BY <1>1 DEF Fits

\* The nodes keep their kinds when chunks leave the front.
LEMMA FrontKinds ==
    ASSUME NEW l \in Seq(Node), l # <<>>, NEW s \in Seq(Chunk)
    PROVE  LET p == [l EXCEPT ![1].chunks = s] IN
           /\ p \in Seq(Node) /\ p # <<>> /\ Len(p) = Len(l)
           /\ \A i \in DOMAIN l : p[i].kind = l[i].kind
<1> DEFINE p == [l EXCEPT ![1].chunks = s]
<1>1. 1 \in DOMAIN l OBVIOUS
<1>2. /\ p \in Seq(Node) /\ Len(p) = Len(l) /\ p[1].kind = l[1].kind
      /\ \A j \in DOMAIN l : j # 1 => p[j] = l[j]
    BY <1>1, NodePut
<1> HIDE DEF p
<1>3. p # <<>> BY <1>2
<1> QED BY <1>2, <1>3 DEF p

\* The successful write of what fits from the node in front.
LEMMA TransferFine ==
    ASSUME NEW c, NEW top, Fine(c, top), c.list # <<>>, NEW b \in BOOLEAN,
           ~Broken(c) \/ c.list[1].chunks = <<>>
    PROVE  LET d == AfterWrite(c, b) IN
           /\ Fine(d, top) /\ Writes(c, d)
           /\ d.list # <<>> /\ Len(d.list) = Len(c.list)
<1> DEFINE f == c.list[1].chunks
           n == Fits(c, f)
           w == c.wire \o SubSeq(f, 1, n)
           g == SubSeq(f, n + 1, Len(f))
           l == [c.list EXCEPT ![1].chunks = g]
           r == c.room - n
           d == WithData(c, w, r, l, b)
<1>1. c \in ConnType /\ c.list \in Seq(Node) /\ c.wire \in Seq(Chunk) /\ f \in Seq(Chunk)
      /\ ListSane(c) /\ WireSane(c.wire) /\ (~Broken(c) => Ordered(c.wire, c.list, top))
    BY ConnParts, NodeParts DEF Fine
<1>2. n \in 0..Len(f) /\ r \in 0..Cap BY <1>1, FitsType
<1>3. g \in Seq(Chunk) /\ w \in Seq(Chunk) BY <1>1, <1>2, Split
<1>4. /\ l \in Seq(Node) /\ l # <<>> /\ Len(l) = Len(c.list)
      /\ \A i \in DOMAIN c.list : l[i].kind = c.list[i].kind
  <2> HIDE DEF g
  <2> QED BY <1>1, <1>3, FrontKinds
<1>5. WireSane(w) /\ (~Broken(c) => Ordered(w, l, top))
  <2>1. CASE ~Broken(c) BY <1>1, <1>2, <2>1, Move
  <2>2. CASE Broken(c)
    <3>1. f = <<>> /\ n = 0 BY <1>2, <2>2
    <3>2. w = c.wire BY <1>1, <3>1
    <3> QED BY <1>1, <2>2, <3>2
  <2> QED BY <2>1, <2>2
<1>6. Range(c.wire) \subseteq Range(w) /\ Held(c.wire, c.list) \subseteq Held(w, l)
    BY <1>1, <1>2, MoveHolds
<1> HIDE DEF w, l, r, n, f, g
<1>7. /\ d \in ConnType /\ SameStatus(c, d)
      /\ d.wire = w /\ d.list = l /\ d.writing = b
  <2>1. c \in ConnType /\ w \in Seq(Chunk) /\ r \in 0..Cap /\ l \in Seq(Node)
      BY <1>1, <1>2, <1>3, <1>4
  <2> QED BY <2>1, Written
<1> HIDE DEF d
<1>8. ListSane(d)
  <2>1. \A i \in 1..(Len(c.list) - 1) : i \in DOMAIN c.list /\ i + 1 \in DOMAIN c.list BY <1>1
  <2> QED BY <1>1, <1>4, <1>7, <2>1 DEF ListSane
<1>9. Broken(d) <=> Broken(c) BY <1>7 DEF SameStatus, Broken
<1>10. Fine(d, top) BY <1>5, <1>7, <1>8, <1>9 DEF Fine
<1>11. Writes(c, d) BY <1>6, <1>7 DEF Writes
<1>12. d.list # <<>> /\ Len(d.list) = Len(c.list) BY <1>4, <1>7
<1> QED BY <1>10, <1>11, <1>12 DEF AfterWrite, d, w, l, r, n, f, g

\* write() of the memory node in front.
LEMMA WriteFrontFine ==
    ASSUME NEW c, NEW top, Fine(c, top), c.list # <<>>
    PROVE  Fine(WriteFront(c), top) /\ Writes(c, WriteFront(c))
<1>1. CASE Broken(c)
  <2>1. WriteFront(c) = c BY <1>1 DEF WriteFront
  <2> QED BY <2>1 DEF Writes, SameStatus
<1>2. CASE ~Broken(c)
  <2>1. c \in ConnType /\ c.writing \in BOOLEAN BY ConnParts DEF Fine
  <2>2. WriteFront(c) = [Put(c, c.list[1].chunks) EXCEPT !.list[1].chunks = Rest(c, @)]
      BY <1>2 DEF WriteFront
  <2>3. WriteFront(c) = AfterWrite(c, c.writing) BY <2>1, <2>2, Transfer, Zenon
  <2> QED BY <1>2, <2>1, <2>3, TransferFine
<1> QED BY <1>1, <1>2

\* sendfile of the node in front.
LEMMA SendFileKernelFine ==
    ASSUME NEW c, NEW top, Fine(c, top), c.list # <<>>
    PROVE  Fine(SendFileKernel(c), top) /\ Writes(c, SendFileKernel(c))
<1>1. c \in ConnType /\ c.writing \in BOOLEAN /\ c.room \in 0..Cap BY ConnParts DEF Fine
<1>2. CASE Broken(c)
  <2> DEFINE b == FALSE
             d == [c EXCEPT !.writing = b]
  <2>1. SendFileKernel(c) = d BY <1>2 DEF SendFileKernel
  <2>2. b \in BOOLEAN /\ ~b OBVIOUS
  <2> HIDE DEF b
  <2>3. /\ d \in ConnType /\ SameStatus(c, d) /\ d.writing = b
        /\ d.wire = c.wire /\ d.list = c.list
      BY <1>1, <2>2 DEF ConnType, SameStatus
  <2> HIDE DEF d
  <2>4. Fine(d, top) /\ Writes(c, d)
      BY <1>2, <2>2, <2>3 DEF Fine, Writes, ListSane, Broken, SameStatus
  <2> QED BY <2>1, <2>4
<1>3. CASE ~Broken(c) /\ c.room = 0
  <2>1. SendFileKernel(c) = c BY <1>3 DEF SendFileKernel
  <2> QED BY <2>1 DEF Writes, SameStatus
<1>4. CASE ~Broken(c) /\ c.room > 0
  <2> DEFINE b == TRUE
  <2>1. SendFileKernel(c)
           = [Put(c, c.list[1].chunks) EXCEPT !.writing = b, !.list[1].chunks = Rest(c, @)]
      BY <1>1, <1>4 DEF SendFileKernel
  <2>2. b \in BOOLEAN OBVIOUS
  <2> HIDE DEF b
  <2>3. SendFileKernel(c) = AfterWrite(c, b) BY <1>1, <2>1, <2>2, Transfer, Zenon
  <2> QED BY <1>4, <2>2, <2>3, TransferFine
<1> QED BY <1>1, <1>2, <1>3, <1>4, ConnAssumption

\* The loop that feeds a stream to the socket.
LEMMA SendStreamFine ==
    ASSUME NEW c, NEW top, Fine(c, top), c.list # <<>>
    PROVE  Fine(SendStream(c), top) /\ Writes(c, SendStream(c))
<1>1. c \in ConnType /\ c.list \in Seq(Node) BY ConnParts DEF Fine
<1>2. CASE Broken(c) /\ c.list[1].chunks # <<>>
  <2> DEFINE l == [c.list EXCEPT ![1].chunks = <<>>]
             d == [c EXCEPT !.list = l]
  <2>1. SendStream(c) = d BY <1>1, <1>2 DEF SendStream, ConnType
  <2>2. /\ l \in Seq(Node) /\ l # <<>> /\ Len(l) = Len(c.list)
        /\ \A i \in DOMAIN c.list : l[i].kind = c.list[i].kind
    <3>1. <<>> \in Seq(Chunk) OBVIOUS
    <3> QED BY <1>1, <3>1, FrontKinds, Zenon
  <2> HIDE DEF l
  <2>3. /\ d \in ConnType /\ SameStatus(c, d) /\ d.writing = c.writing
        /\ d.wire = c.wire /\ d.list = l
      BY <1>1, <2>2 DEF ConnType, SameStatus
  <2> HIDE DEF d
  <2>4. ListSane(d)
    <3>1. \A i \in 1..(Len(c.list) - 1) : i \in DOMAIN c.list /\ i + 1 \in DOMAIN c.list
        BY <1>1
    <3> QED BY <2>2, <2>3, <3>1 DEF Fine, ListSane
  <2>5. Fine(d, top) /\ Writes(c, d)
      BY <1>2, <2>3, <2>4 DEF Fine, Writes, Broken, SameStatus
  <2> QED BY <2>1, <2>5
<1>3. CASE ~(Broken(c) /\ c.list[1].chunks # <<>>)
  <2> DEFINE b == TRUE
  <2>1. SendStream(c)
           = [Put(c, c.list[1].chunks) EXCEPT !.writing = b, !.list[1].chunks = Rest(c, @)]
      BY <1>3 DEF SendStream
  <2>2. b \in BOOLEAN OBVIOUS
  <2> HIDE DEF b
  <2>3. SendStream(c) = AfterWrite(c, b) BY <1>1, <2>1, <2>2, Transfer, Zenon
  <2> QED BY <1>3, <2>2, <2>3, TransferFine
<1> QED BY <1>2, <1>3

LEMMA SendFileInLoopFine ==
    ASSUME NEW c, NEW top, Fine(c, top), c.list # <<>>
    PROVE  Fine(SendFileInLoop(c), top) /\ Writes(c, SendFileInLoop(c))
BY SendFileKernelFine, SendStreamFine DEF SendFileInLoop

\* What a write does after another is a write.
LEMMA WritesTwice ==
    ASSUME NEW c, NEW d, NEW e, Writes(c, d), Writes(d, e)
    PROVE  Writes(c, e)
BY DEF Writes, SameStatus, Broken

\* The finished node in front is dropped, and the channel may be silenced.
LEMMA DropFine ==
    ASSUME NEW c, NEW top, Fine(c, top), c.list # <<>>, c.list[1].chunks = <<>>,
           NEW b \in BOOLEAN, b => Tail(c.list) # <<>>
    PROVE  LET d == WithData(c, c.wire, c.room, Tail(c.list), b) IN
           Fine(d, top) /\ Writes(c, d) /\ d.list = Tail(c.list)
<1> DEFINE l == Tail(c.list)
           d == WithData(c, c.wire, c.room, l, b)
<1>1. c \in ConnType /\ c.list \in Seq(Node) /\ c.wire \in Seq(Chunk) /\ c.room \in 0..Cap
      /\ ListSane(c) /\ WireSane(c.wire) /\ (~Broken(c) => Ordered(c.wire, c.list, top))
    BY ConnParts DEF Fine
<1>2. /\ l \in Seq(Node) /\ Len(l) = Len(c.list) - 1
      /\ \A i \in 1..Len(l) : l[i] = c.list[i + 1]
    BY <1>1
<1>3. ~Broken(c) => Ordered(c.wire, l, top) BY <1>1, DropFront
<1>4. Held(c.wire, c.list) \subseteq Held(c.wire, l) BY <1>1, DropHolds
<1> HIDE DEF l
<1>5. /\ d \in ConnType /\ SameStatus(c, d)
      /\ d.wire = c.wire /\ d.list = l /\ d.writing = b
    BY <1>1, <1>2, Written
<1> HIDE DEF d
<1>6. ListSane(d)
  <2>1. b => l # <<>> BY DEF l
  <2>2. ASSUME NEW i \in 1..(Len(l) - 1), l[i].kind = "mem" PROVE l[i + 1].kind # "mem"
    <3>1. i \in 1..Len(l) /\ i + 1 \in 1..Len(l) /\ i + 1 \in 1..(Len(c.list) - 1)
        BY <1>1, <1>2
    <3>2. l[i] = c.list[i + 1] /\ l[i + 1] = c.list[(i + 1) + 1] BY <1>2, <3>1
    <3> QED BY <1>1, <2>2, <3>1, <3>2 DEF ListSane
  <2> QED BY <1>5, <2>1, <2>2 DEF ListSane
<1>7. Broken(d) <=> Broken(c) BY <1>5 DEF SameStatus, Broken
<1>8. Fine(d, top) BY <1>1, <1>3, <1>5, <1>6, <1>7 DEF Fine
<1>9. Writes(c, d) BY <1>4, <1>5 DEF Writes
<1> QED BY <1>5, <1>8, <1>9 DEF d, l

\* The step of writeCallback to the next node.
LEMMA NextNodeFine ==
    ASSUME NEW c, NEW top, Fine(c, top), c.list # <<>>, c.list[1].chunks = <<>>
    PROVE  Fine(NextNode(c), top) /\ Writes(c, NextNode(c))
<1>1. c \in ConnType /\ c.list \in Seq(Node) /\ c.writing \in BOOLEAN BY ConnParts DEF Fine
<1>2. CASE Tail(c.list) = <<>>
  <2> DEFINE b == FALSE
  <2>1. NextNode(c) = [[c EXCEPT !.list = Tail(@)] EXCEPT !.writing = b]
      BY <1>1, <1>2 DEF NextNode, ConnType
  <2>2. b \in BOOLEAN /\ ~b OBVIOUS
  <2> HIDE DEF b
  <2>3. [[c EXCEPT !.list = Tail(@)] EXCEPT !.writing = b]
           = WithData(c, c.wire, c.room, Tail(c.list), b)
      BY <1>1 DEF WithData, ConnType
  <2>4. NextNode(c) = WithData(c, c.wire, c.room, Tail(c.list), b) BY <2>1, <2>3
  <2> QED BY <2>2, <2>4, DropFine
<1>3. CASE Tail(c.list) # <<>>
  <2> DEFINE d == [c EXCEPT !.list = Tail(@)]
  <2>1. d = WithData(c, c.wire, c.room, Tail(c.list), c.writing) /\ d.list = Tail(c.list)
      BY <1>1 DEF WithData, ConnType
  <2>2. NextNode(c) = SendFileInLoop(d) \/ NextNode(c) = WriteFront(d)
      BY <1>3, <2>1 DEF NextNode
  <2> HIDE DEF d
  <2>3. Fine(d, top) /\ Writes(c, d) BY <1>1, <1>3, <2>1, DropFine
  <2>4. d.list # <<>> BY <1>3, <2>1
  <2> QED BY <2>2, <2>3, <2>4, SendFileInLoopFine, WriteFrontFine, WritesTwice
<1> QED BY <1>2, <1>3

LEMMA WriteCallbackFine ==
    ASSUME NEW c, NEW top, Fine(c, top), c.list # <<>>
    PROVE  Fine(WriteCallback(c), top) /\ Writes(c, WriteCallback(c))
<1>1. CASE c.list[1].chunks = <<>>
  <2>1. WriteCallback(c) = NextNode(c) BY <1>1 DEF WriteCallback
  <2> QED BY <1>1, <2>1, NextNodeFine
<1>2. CASE c.list[1].chunks # <<>>
  <2>1. WriteCallback(c) = SendFileInLoop(c) \/ WriteCallback(c) = WriteFront(c)
      BY <1>2 DEF WriteCallback
  <2> QED BY <2>1, SendFileInLoopFine, WriteFrontFine
<1> QED BY <1>1, <1>2

-----------------------------------------------------------------------------
(* Sending *)

\* A message gets a node of its own at the end of the list.
LEMMA AppendFine ==
    ASSUME NEW c, NEW top \in Nat, Fine(c, top), NEW m \in Msgs, top < m,
           NEW b \in BOOLEAN, NEW n \in Node, n.chunks = ChunksOf(m),
           n.kind = "mem" => c.list = <<>> \/ c.list[Len(c.list)].kind # "mem",
           NEW d, d = WithData(c, c.wire, c.room, Append(c.list, n), b)
    PROVE  /\ Fine(d, m) /\ Writes(c, d) /\ d.list = Append(c.list, n)
           /\ Range(ChunksOf(m)) \subseteq Held(d.wire, d.list)
<1> DEFINE l == Append(c.list, n)
<1>1. c \in ConnType /\ c.list \in Seq(Node) /\ c.wire \in Seq(Chunk) /\ c.room \in 0..Cap
      /\ ListSane(c) /\ WireSane(c.wire) /\ (~Broken(c) => Ordered(c.wire, c.list, top))
    BY ConnParts DEF Fine
<1>2. n \in Node /\ n.chunks = ChunksOf(m) OBVIOUS
<1>3. /\ l \in Seq(Node) /\ Len(l) = Len(c.list) + 1 /\ l # <<>>
      /\ \A i \in 1..Len(c.list) : l[i] = c.list[i]
      /\ l[Len(c.list) + 1] = n
    BY <1>1, <1>2
<1>4. ~Broken(c) => Ordered(c.wire, l, m) BY <1>1, <1>2, AppendNode
<1>5. Held(c.wire, c.list) \cup Range(ChunksOf(m)) \subseteq Held(c.wire, l)
    BY <1>1, <1>2, AppendHolds
<1> HIDE DEF l
<1>6. /\ d \in ConnType /\ SameStatus(c, d)
      /\ d.wire = c.wire /\ d.list = l /\ d.writing = b
  <2>1. d = WithData(c, c.wire, c.room, l, b) BY DEF l
  <2> QED BY <1>1, <1>3, <2>1, Written
<1>7. ListSane(d)
  <2>1. ASSUME NEW i \in 1..(Len(l) - 1), l[i].kind = "mem" PROVE l[i + 1].kind # "mem"
    <3>1. Len(c.list) \in Nat BY <1>1
    <3>2. CASE i < Len(c.list)
      <4>1. i \in 1..Len(c.list) /\ i + 1 \in 1..Len(c.list) /\ i \in 1..(Len(c.list) - 1)
          BY <3>1, <3>2
      <4> QED BY <1>1, <1>3, <2>1, <4>1 DEF ListSane
    <3>3. CASE i = Len(c.list)
      <4>1. i \in 1..Len(c.list) /\ c.list # <<>> BY <1>1, <3>1, <3>3
      <4> QED BY <1>2, <1>3, <2>1, <3>3, <4>1
    <3> QED BY <1>3, <3>1, <3>2, <3>3
  <2> QED BY <1>3, <1>6, <2>1 DEF ListSane
<1>8. Broken(d) <=> Broken(c) BY <1>6 DEF SameStatus, Broken
<1>9. Fine(d, m) BY <1>1, <1>4, <1>6, <1>7, <1>8 DEF Fine
<1>10. Writes(c, d) /\ Range(ChunksOf(m)) \subseteq Held(d.wire, d.list)
    BY <1>5, <1>6 DEF Writes
<1> QED BY <1>6, <1>9, <1>10 DEF l

\* A message joins the memory node at the end of the list.
LEMMA ExtendFine ==
    ASSUME NEW c, NEW top \in Nat, Fine(c, top), NEW m \in Msgs, top < m,
           c.list # <<>>, NEW b \in BOOLEAN
    PROVE  LET k == Len(c.list)
               l == [c.list EXCEPT ![k].chunks = c.list[k].chunks \o ChunksOf(m)]
               d == WithData(c, c.wire, c.room, l, b) IN
           /\ Fine(d, m) /\ Writes(c, d)
           /\ Range(ChunksOf(m)) \subseteq Held(d.wire, d.list)
<1> DEFINE k == Len(c.list)
           s == c.list[k].chunks \o ChunksOf(m)
           l == [c.list EXCEPT ![k].chunks = s]
           d == WithData(c, c.wire, c.room, l, b)
<1>1. c \in ConnType /\ c.list \in Seq(Node) /\ c.wire \in Seq(Chunk) /\ c.room \in 0..Cap
      /\ ListSane(c) /\ WireSane(c.wire) /\ (~Broken(c) => Ordered(c.wire, c.list, top))
    BY ConnParts DEF Fine
<1>2. k \in DOMAIN c.list BY <1>1
<1>3. ChunksOf(m) \in Seq(Chunk) BY MessageFacts
<1>4. s \in Seq(Chunk)
  <2>1. c.list[k].chunks \in Seq(Chunk) BY <1>1, <1>2, NodeParts
  <2> QED BY <1>3, <2>1
<1>5. ~Broken(c) => Ordered(c.wire, l, m) BY <1>1, ExtendLast
<1>6. Held(c.wire, c.list) \cup Range(ChunksOf(m)) \subseteq Held(c.wire, l)
    BY <1>1, <1>3, ExtendHolds
<1> HIDE DEF s, k
<1>7. /\ l \in Seq(Node) /\ Len(l) = Len(c.list) /\ DOMAIN l = DOMAIN c.list
      /\ l[k].kind = c.list[k].kind /\ \A j \in DOMAIN c.list : j # k => l[j] = c.list[j]
    BY <1>1, <1>2, <1>4, NodePut
<1> HIDE DEF l
<1>8. /\ d \in ConnType /\ SameStatus(c, d)
      /\ d.wire = c.wire /\ d.list = l /\ d.writing = b
    BY <1>1, <1>7, Written
<1> HIDE DEF d
<1>9. ListSane(d)
  <2>1. \A j \in DOMAIN c.list : l[j].kind = c.list[j].kind BY <1>7
  <2>2. \A i \in 1..(Len(c.list) - 1) : i \in DOMAIN c.list /\ i + 1 \in DOMAIN c.list BY <1>1
  <2>3. l # <<>> BY <1>1, <1>2, <1>7
  <2> QED BY <1>1, <1>7, <1>8, <2>1, <2>2, <2>3 DEF ListSane
<1>10. Broken(d) <=> Broken(c) BY <1>8 DEF SameStatus, Broken
<1>11. Fine(d, m) BY <1>1, <1>5, <1>8, <1>9, <1>10 DEF Fine
<1>12. Writes(c, d) /\ Range(ChunksOf(m)) \subseteq Held(d.wire, d.list)
    BY <1>6, <1>8 DEF Writes
<1> QED BY <1>11, <1>12 DEF d, l, s, k

\* One node with the chunks s.
MemNode(s) == [kind |-> "mem", chunks |-> s]

LEMMA OneNode ==
    ASSUME NEW s \in Seq(Chunk), NEW t \in Seq(Chunk)
    PROVE  /\ Append(<<>>, MemNode(s)) \in Seq(Node) /\ Append(<<>>, MemNode(s)) # <<>>
           /\ Append(<<>>, MemNode(s))[1].chunks = s
           /\ [Append(<<>>, MemNode(s)) EXCEPT ![1].chunks = t] = Append(<<>>, MemNode(t))
           /\ Tail(Append(<<>>, MemNode(s))) = <<>>
<1> DEFINE l == Append(<<>>, MemNode(s))
           p == [l EXCEPT ![1].chunks = t]
           q == Append(<<>>, MemNode(t))
<1>1. /\ MemNode(s) \in Node /\ MemNode(s).chunks = s /\ MemNode(s).kind = "mem"
      /\ MemNode(t) \in Node /\ MemNode(t).chunks = t /\ MemNode(t).kind = "mem"
    BY NodeParts DEF MemNode
<1>2. l \in Seq(Node) /\ l # <<>> /\ l[1] = MemNode(s) /\ Len(l) = 1 /\ Tail(l) = <<>> BY <1>1
<1>3. q \in Seq(Node) /\ q[1] = MemNode(t) /\ Len(q) = 1 BY <1>1
<1>4. 1 \in DOMAIN l BY <1>2
<1> HIDE DEF l, q
<1>5. p \in Seq(Node) /\ Len(p) = 1 /\ p[1].chunks = t /\ p[1].kind = "mem"
    BY <1>1, <1>2, <1>4, NodePut
<1> HIDE DEF p
<1>6. p[1] = q[1]
  <2>1. p[1] \in Node
    <3>1. 1 \in 1..Len(p) BY <1>5
    <3> QED BY <1>5, <3>1, ElementOfSeq
  <2> QED BY <1>1, <1>3, <1>5, <2>1, NodeEqual
<1>7. p = q
  <2>1. \A i \in 1..Len(p) : p[i] = q[i] BY <1>5, <1>6
  <2>2. Len(p) = Len(q) BY <1>3, <1>5
  <2> QED BY <1>3, <1>5, <2>1, <2>2, SeqEqual
<1> QED BY <1>1, <1>2, <1>7 DEF l, p, q

\* A send that goes to the socket at once: what fits is on the wire, and the
\* rest is the only node of the list.
AfterSend(c, a, b) ==
    LET n == Fits(c, a) IN
    WithData(c, c.wire \o SubSeq(a, 1, n), c.room - n,
             Append(<<>>, MemNode(SubSeq(a, n + 1, Len(a)))), b)

LEMMA DirectFine ==
    ASSUME NEW c, NEW top \in Nat, Fine(c, top), NEW m \in Msgs, top < m,
           c.list = <<>>, ~Broken(c), NEW b \in BOOLEAN
    PROVE  LET d == AfterSend(c, ChunksOf(m), b) IN
           /\ Fine(d, m) /\ Writes(c, d)
           /\ d.list = Append(<<>>, MemNode(Rest(c, ChunksOf(m))))
           /\ Range(ChunksOf(m)) \subseteq Held(d.wire, d.list)
<1> DEFINE a == ChunksOf(m)
           n == Fits(c, a)
           l == Append(<<>>, MemNode(a))
           w == c.wire \o SubSeq(a, 1, n)
           t == SubSeq(a, n + 1, Len(a))
           p == Append(<<>>, MemNode(t))
           e == WithData(c, c.wire, c.room, l, b)
           d == WithData(c, w, c.room - n, p, b)
<1>1. c \in ConnType /\ c.wire \in Seq(Chunk) /\ c.room \in 0..Cap /\ a \in Seq(Chunk)
    BY ConnParts, MessageFacts DEF Fine
<1>2. n \in 0..Len(a) /\ c.room - n \in 0..Cap BY <1>1, FitsType
<1>3. t \in Seq(Chunk) /\ w \in Seq(Chunk) BY <1>1, <1>2, Split
<1>4. /\ Fine(e, m) /\ Writes(c, e) /\ Range(a) \subseteq Held(e.wire, e.list)
  <2> DEFINE x == MemNode(a)
  <2>1. x \in Node /\ x.chunks = a BY <1>1, NodeParts DEF MemNode
  <2>2. e = WithData(c, c.wire, c.room, Append(c.list, x), b) OBVIOUS
  <2> HIDE DEF e, a, x
  <2>3. x.chunks = ChunksOf(m) BY <2>1 DEF a
  <2>4. Fine(e, m) /\ Writes(c, e) /\ Range(ChunksOf(m)) \subseteq Held(e.wire, e.list)
      BY <2>1, <2>2, <2>3, AppendFine
  <2> QED BY <2>4 DEF a
<1>5. l \in Seq(Node) /\ l # <<>> /\ l[1].chunks = a /\ [l EXCEPT ![1].chunks = t] = p
      /\ p \in Seq(Node)
  <2> HIDE DEF a, t
  <2> QED BY <1>1, <1>3, OneNode
<1> HIDE DEF l, p
<1>6. /\ e \in ConnType /\ SameStatus(c, e) /\ e.wire = c.wire /\ e.room = c.room
      /\ e.list = l /\ e.writing = b
  <2> HIDE DEF a
  <2> QED BY <1>1, <1>5, Written
<1>7. AfterWrite(e, b) = d
  <2>1. Fits(e, a) = n BY <1>6 DEF Fits
  <2> HIDE DEF a, n
  <2>2. e.wire \o SubSeq(a, 1, n) = w /\ e.room - n = c.room - n
        /\ [e.list EXCEPT ![1].chunks = SubSeq(a, n + 1, Len(a))] = p
      BY <1>5, <1>6
  <2>3. AfterWrite(e, b) = WithData(e, w, c.room - n, p, b)
      BY <1>5, <1>6, <2>1, <2>2 DEF AfterWrite
  <2>4. WithData(e, w, c.room - n, p, b) = d
    <3> DEFINE r == c.room - n
    <3> HIDE DEF w, r
    <3>1. WithData(e, w, r, p, b) = WithData(c, w, r, p, b) BY WithDataTwice
    <3> QED BY <3>1 DEF r
  <2> QED BY <2>3, <2>4
<1>8. ~Broken(e) BY <1>6 DEF Broken, SameStatus
<1> HIDE DEF e
<1>9. Fine(d, m) /\ Writes(e, d)
  <2> HIDE DEF d
  <2> QED BY <1>4, <1>5, <1>6, <1>7, <1>8, TransferFine
<1>10. d.list = p /\ d.wire = w
  <2> HIDE DEF a, n, w
  <2> QED BY <1>1, <1>2, <1>3, <1>5, Written
<1>11. Writes(c, d) /\ Range(a) \subseteq Held(d.wire, d.list)
  <2> HIDE DEF d, a
  <2>1. Writes(c, d) BY <1>4, <1>9, WritesTwice
  <2>2. Held(e.wire, e.list) \subseteq Held(d.wire, d.list) BY <1>8, <1>9 DEF Writes
  <2> QED BY <1>4, <2>1, <2>2
<1>12. Rest(c, a) = t BY DEF Rest
<1>13. AfterSend(c, a, b) = d BY DEF AfterSend, p
<1>14. d.list = Append(<<>>, MemNode(Rest(c, a))) BY <1>10, <1>12 DEF p
<1> HIDE DEF d
<1> QED BY <1>9, <1>11, <1>13, <1>14 DEF a

\* What was not sent joins the list.
LEMMA BufferFine ==
    ASSUME NEW c, NEW top \in Nat, Fine(c, top), NEW m \in Msgs, top < m
    PROVE  LET d == Buffer(c, ChunksOf(m)) IN
           /\ Fine(d, m) /\ Writes(c, d)
           /\ Range(ChunksOf(m)) \subseteq Held(d.wire, d.list)
<1> DEFINE a == ChunksOf(m)
           k == Len(c.list)
           b == TRUE
           l == IF k > 0 /\ c.list[k].kind = "mem"
                THEN [c.list EXCEPT ![k].chunks = c.list[k].chunks \o a]
                ELSE Append(c.list, [kind |-> "mem", chunks |-> a])
<1>1. c \in ConnType /\ c.list \in Seq(Node) /\ k \in Nat BY ConnParts DEF Fine
<1>2. b \in BOOLEAN OBVIOUS
<1>3. Buffer(c, a) = [c EXCEPT !.writing = b, !.list = l] BY DEF Buffer
<1> HIDE DEF b
<1>4. [c EXCEPT !.writing = b, !.list = l] = WithData(c, c.wire, c.room, l, b)
  <2> HIDE DEF l
  <2> QED BY <1>1 DEF ConnType, WithData
<1>5. Buffer(c, a) = WithData(c, c.wire, c.room, l, b) BY <1>3, <1>4
<1>6. CASE k > 0 /\ c.list[k].kind = "mem"
  <2>1. Buffer(c, a)
           = WithData(c, c.wire, c.room, [c.list EXCEPT ![k].chunks = c.list[k].chunks \o a], b)
      BY <1>5, <1>6
  <2>2. c.list # <<>> BY <1>6
  <2> QED BY <1>2, <2>1, <2>2, ExtendFine
<1>7. CASE ~(k > 0 /\ c.list[k].kind = "mem")
  <2>1. Buffer(c, a)
           = WithData(c, c.wire, c.room, Append(c.list, [kind |-> "mem", chunks |-> a]), b)
      BY <1>5, <1>7
  <2>2. c.list = <<>> \/ c.list[Len(c.list)].kind # "mem" BY <1>1, <1>7
  <2> DEFINE x == [kind |-> "mem", chunks |-> a]
             d == Buffer(c, a)
  <2>3. x \in Node /\ x.chunks = a BY MessageFacts, NodeParts
  <2>4. d = WithData(c, c.wire, c.room, Append(c.list, x), b) BY <2>1
  <2> HIDE DEF l, k, x, d
  <2>5. /\ Fine(d, m) /\ Writes(c, d)
        /\ Range(ChunksOf(m)) \subseteq Held(d.wire, d.list)
      BY <1>2, <2>2, <2>3, <2>4, AppendFine
  <2> QED BY <2>5 DEF d
<1> QED BY <1>6, <1>7

\* The message is on the wire or in the list when sendInLoop was able to take it.
Takes(c, d, m) ==
    c.status = "Connected" /\ ~Broken(c) => Range(ChunksOf(m)) \subseteq Held(d.wire, d.list)

LEMMA FineLater ==
    ASSUME NEW c, NEW top \in Nat, Fine(c, top), NEW m \in Nat, top <= m
    PROVE  Fine(c, m)
BY Raise, ConnParts DEF Fine

LEMMA SendInLoopFine ==
    ASSUME NEW c, NEW top \in Nat, Fine(c, top), NEW m \in Msgs, top < m
    PROVE  LET d == SendInLoop(c, m) IN
           /\ Fine(d, m) /\ Writes(c, d) /\ Takes(c, d, m)
           /\ c.status # "Connected" => d = c
<1> DEFINE a == ChunksOf(m)
           d == SendInLoop(c, m)
<1>1. c \in ConnType /\ c.list \in Seq(Node) /\ c.writing \in BOOLEAN
      /\ (c.writing => c.list # <<>>)
    BY ConnParts DEF Fine, ListSane
<1>2. a \in Seq(Chunk) /\ a # <<>> BY MessageFacts
<1>3. CASE c.status # "Connected" \/ (c.list = <<>> /\ Broken(c))
  <2>1. d = c BY <1>1, <1>3 DEF SendInLoop
  <2>2. Fine(c, m)
    <3>1. m \in Nat BY ChunkParts
    <3> QED BY <3>1, FineLater
  <2> QED BY <1>3, <2>1, <2>2 DEF Writes, SameStatus, Takes
<1>4. CASE c.status = "Connected" /\ c.list # <<>>
  <2>1. d = Buffer(c, a) BY <1>2, <1>4 DEF SendInLoop
  <2> QED BY <1>4, <2>1, BufferFine DEF Takes
<1>5. CASE c.status = "Connected" /\ c.list = <<>> /\ ~Broken(c) /\ Rest(c, a) # <<>>
  <2> DEFINE b == TRUE
  <2>1. d = Buffer(Put(c, a), Rest(c, a)) BY <1>1, <1>5 DEF SendInLoop
  <2>2. b \in BOOLEAN OBVIOUS
  <2>3. Put(c, a).list = <<>> BY <1>1, <1>5 DEF Put, ConnType
  <2>4. Buffer(Put(c, a), Rest(c, a))
           = [Put(c, a) EXCEPT !.writing = b, !.list = Append(<<>>, MemNode(Rest(c, a)))]
    <3>1. Len(Put(c, a).list) = 0 BY <2>3
    <3> HIDE DEF a
    <3>2. \A x, s : x.list = <<>> /\ Len(x.list) = 0 =>
             Buffer(x, s) = [x EXCEPT !.writing = b,
                                      !.list = Append(<<>>, [kind |-> "mem", chunks |-> s])]
        BY DEF Buffer
    <3>3. \A x, s : x.list = <<>> /\ Len(x.list) = 0 =>
             Buffer(x, s) = [x EXCEPT !.writing = b, !.list = Append(<<>>, MemNode(s))]
        BY <3>2 DEF MemNode
    <3> HIDE DEF b
    <3> QED BY <2>3, <3>1, <3>3, Zenon
  <2> HIDE DEF b
  <2>5. [Put(c, a) EXCEPT !.writing = b, !.list = Append(<<>>, MemNode(Rest(c, a)))]
           = AfterSend(c, a, b)
    <3>1. Rest(c, a) = SubSeq(a, Fits(c, a) + 1, Len(a)) BY DEF Rest
    <3>2. Put(c, a) = [c EXCEPT !.wire = c.wire \o SubSeq(a, 1, Fits(c, a)),
                                !.room = c.room - Fits(c, a)]
        BY DEF Put
    <3> HIDE DEF a
    <3>3. \A w, r, l : [[c EXCEPT !.wire = w, !.room = r] EXCEPT !.writing = b, !.list = l]
                          = WithData(c, w, r, l, b)
        BY <1>1 DEF ConnType, WithData
    <3> DEFINE w == c.wire \o SubSeq(a, 1, Fits(c, a))
               r == c.room - Fits(c, a)
               l == Append(<<>>, MemNode(Rest(c, a)))
    <3>4. AfterSend(c, a, b) = WithData(c, w, r, l, b) BY <3>1 DEF AfterSend
    <3>5. [Put(c, a) EXCEPT !.writing = b, !.list = l]
             = [[c EXCEPT !.wire = w, !.room = r] EXCEPT !.writing = b, !.list = l]
        BY <3>2
    <3> HIDE DEF w, r, l
    <3>6. [[c EXCEPT !.wire = w, !.room = r] EXCEPT !.writing = b, !.list = l]
             = AfterSend(c, a, b)
        BY <3>3, <3>4
    <3> QED BY <3>5, <3>6 DEF l
  <2>6. d = AfterSend(c, a, b) BY <2>1, <2>4, <2>5
  <2> HIDE DEF d
  <2>7. Fine(d, m) /\ Writes(c, d) /\ Takes(c, d, m)
      BY <1>5, <2>2, <2>6, DirectFine DEF Takes
  <2> QED BY <1>5, <2>7 DEF d
<1>6. CASE c.status = "Connected" /\ c.list = <<>> /\ ~Broken(c) /\ Rest(c, a) = <<>>
  <2> DEFINE b == FALSE
             e == AfterSend(c, a, b)
  <2>1. d = Put(c, a) BY <1>1, <1>6 DEF SendInLoop
  <2>2. b \in BOOLEAN /\ ~b /\ c.writing = b BY <1>1, <1>6
  <2> HIDE DEF b
  <2>3. /\ Fine(e, m) /\ Writes(c, e) /\ e.list = Append(<<>>, MemNode(Rest(c, a)))
        /\ Range(a) \subseteq Held(e.wire, e.list)
      BY <1>6, <2>2, DirectFine
  <2>4. e.list # <<>> /\ e.list[1].chunks = <<>> /\ Tail(e.list) = <<>>
    <3>1. <<>> \in Seq(Chunk) OBVIOUS
    <3> QED BY <1>6, <2>3, <3>1, OneNode
  <2>5. Put(c, a) = WithData(e, e.wire, e.room, Tail(e.list), b)
    <3>1. Put(c, a) = [c EXCEPT !.wire = c.wire \o SubSeq(a, 1, Fits(c, a)),
                                !.room = c.room - Fits(c, a)]
        BY DEF Put
    <3> HIDE DEF a
    <3>2. \A w, r, l : LET x == WithData(c, w, r, l, b) IN
             [c EXCEPT !.wire = w, !.room = r] = WithData(x, x.wire, x.room, <<>>, b)
      <4> TAKE w, r, l
      <4>1. c = [c EXCEPT !.list = <<>>, !.writing = b] BY <1>1, <1>6, <2>2 DEF ConnType
      <4>2. LET x == WithData(c, w, r, l, b) IN
            WithData(x, x.wire, x.room, <<>>, b) = WithData(c, w, r, <<>>, b)
          BY <1>1 DEF ConnType, WithData
      <4>3. WithData(c, w, r, <<>>, b) = [c EXCEPT !.wire = w, !.room = r]
          BY <1>1, <1>6, <2>2 DEF ConnType, WithData
      <4> QED BY <4>2, <4>3
    <3> QED BY <2>4, <3>1, <3>2 DEF AfterSend
  <2> HIDE DEF e, d
  <2>6. Fine(d, m) /\ Writes(e, d) BY <2>1, <2>2, <2>3, <2>4, <2>5, DropFine
  <2>7. Writes(c, d) BY <2>3, <2>6, WritesTwice
  <2>8. Range(a) \subseteq Held(d.wire, d.list)
    <3>1. ~Broken(e) BY <1>6, <2>3 DEF Writes, SameStatus, Broken
    <3> QED BY <2>3, <2>6, <3>1 DEF Writes
  <2>9. Takes(c, d, m) BY <2>8 DEF Takes
  <2> QED BY <1>6, <2>6, <2>7, <2>9 DEF d
<1> QED
  <2>1. c.status # "Connected" \/ c.status = "Connected" OBVIOUS
  <2> QED BY <1>3, <1>4, <1>5, <1>6, <2>1

\* The history of a push into a closed connection.
Late(c) == [c EXCEPT !.pushedLate = c.pushedLate \/ c.status = "Disconnected"]

LEMMA LateFine ==
    ASSUME NEW c, NEW top, Fine(c, top)
    PROVE  /\ Fine(Late(c), top)
           /\ Late(c).status = c.status /\ Late(c).reading = c.reading
           /\ Late(c).closeOnEmpty = c.closeOnEmpty /\ Late(c).fin = c.fin
           /\ Late(c).reset = c.reset /\ Late(c).closed = c.closed
           /\ Late(c).pushedLate = (c.pushedLate \/ c.status = "Disconnected")
           /\ Late(c).wire = c.wire /\ Late(c).list = c.list /\ Late(c).room = c.room
           /\ Late(c).writing = c.writing
<1> DEFINE b == c.pushedLate \/ c.status = "Disconnected"
           d == [c EXCEPT !.pushedLate = b]
<1>1. c \in ConnType BY DEF Fine
<1>2. b \in BOOLEAN BY <1>1 DEF ConnType
<1>3. Late(c) = d BY DEF Late
<1> HIDE DEF b
<1>4. /\ d \in ConnType /\ d.status = c.status /\ d.reading = c.reading
      /\ d.closeOnEmpty = c.closeOnEmpty /\ d.fin = c.fin
      /\ d.reset = c.reset /\ d.closed = c.closed /\ d.pushedLate = b
      /\ d.wire = c.wire /\ d.list = c.list /\ d.room = c.room /\ d.writing = c.writing
    BY <1>1, <1>2 DEF ConnType
<1> HIDE DEF d
<1>5. Fine(d, top) BY <1>4 DEF Fine, ListSane, Broken
<1> QED BY <1>3, <1>4, <1>5 DEF b

LEMMA PushFileFine ==
    ASSUME NEW c, NEW top \in Nat, Fine(c, top), NEW m \in Msgs, top < m,
           NEW kind \in {"file", "stream"}
    PROVE  LET d == PushFile(c, kind, m) IN
           Fine(d, m) /\ Writes(Late(c), d) /\ Takes(c, d, m)
<1> DEFINE n == [kind |-> kind, chunks |-> ChunksOf(m)]
           l == Append(c.list, n)
           e == [c EXCEPT !.list = Append(c.list, n),
                          !.pushedLate = c.pushedLate \/ c.status = "Disconnected"]
           d == PushFile(c, kind, m)
<1>1. c \in ConnType /\ c.list \in Seq(Node) /\ c.writing \in BOOLEAN BY ConnParts DEF Fine
<1>2. d = (IF Len(e.list) = 1 THEN SendFileInLoop(e) ELSE e) BY DEF PushFile
<1>3. e = WithData(Late(c), c.wire, c.room, l, c.writing)
  <2> DEFINE b == c.pushedLate \/ c.status = "Disconnected"
  <2>1. b \in BOOLEAN BY <1>1 DEF ConnType
  <2>2. Late(c) = [c EXCEPT !.pushedLate = b] BY DEF Late
  <2>3. e = [c EXCEPT !.list = l, !.pushedLate = b] OBVIOUS
  <2> HIDE DEF b, l
  <2>4. [c EXCEPT !.list = l, !.pushedLate = b]
           = WithData([c EXCEPT !.pushedLate = b], c.wire, c.room, l, c.writing)
      BY <1>1, <2>1 DEF ConnType, WithData
  <2> QED BY <2>2, <2>3, <2>4
<1>4. /\ Fine(e, m) /\ Writes(Late(c), e) /\ e.list = l
      /\ Range(ChunksOf(m)) \subseteq Held(e.wire, e.list)
  <2>1. e = WithData(Late(c), Late(c).wire, Late(c).room, Append(Late(c).list, n), c.writing)
      BY <1>3, LateFine
  <2>2. Fine(Late(c), top) /\ Late(c).list = c.list BY LateFine
  <2>3. kind \in {"mem", "file", "stream"} /\ kind # "mem" OBVIOUS
  <2>4. n \in Node /\ n.chunks = ChunksOf(m) /\ n.kind # "mem"
      BY <2>3, MessageFacts, NodeParts
  <2> DEFINE f == Late(c)
             b == c.writing
  <2> HIDE DEF e, f, b, n
  <2>5. /\ Fine(f, top) /\ b \in BOOLEAN /\ f.list = c.list
        /\ e = WithData(f, f.wire, f.room, Append(f.list, n), b)
      BY <1>1, <2>1, <2>2 DEF f, b
  <2>6. /\ Fine(e, m) /\ Writes(f, e) /\ e.list = Append(f.list, n)
        /\ Range(ChunksOf(m)) \subseteq Held(e.wire, e.list)
      BY <2>4, <2>5, AppendFine
  <2> QED BY <2>5, <2>6 DEF f
<1>5. n \in Node BY MessageFacts, NodeParts
<1>6. e.list # <<>>
  <2> HIDE DEF n
  <2>1. l # <<>> BY <1>1, <1>5
  <2> HIDE DEF e, l
  <2> QED BY <1>4, <2>1
<1>7. Broken(c) <=> Broken(e)
  <2> HIDE DEF e
  <2> QED BY <1>4, LateFine DEF Writes, SameStatus, Broken
<1> HIDE DEF e, l, n
<1>8. /\ Fine(SendFileInLoop(e), m) /\ Writes(e, SendFileInLoop(e))
    BY <1>4, <1>6, SendFileInLoopFine
<1> HIDE DEF d
<1>9. Writes(e, e) BY DEF Writes, SameStatus
<1>10. Fine(d, m) /\ Writes(e, d) BY <1>2, <1>4, <1>8, <1>9
<1>11. Writes(Late(c), d) BY <1>4, <1>10, WritesTwice
<1>12. Takes(c, d, m) BY <1>4, <1>7, <1>10 DEF Takes, Writes
<1> QED BY <1>10, <1>11, <1>12 DEF d

\* A message that reaches the connection: everything stays in order, nothing is
\* lost, and a connection that is open and unbroken takes it whole.
LEMMA DeliverFine ==
    ASSUME NEW c, NEW top \in Nat, Fine(c, top), NEW m \in Msgs, top < m,
           NEW kind \in {"mem", "file", "stream"}
    PROVE  LET d == Deliver(c, kind, m) IN
           /\ Fine(d, m) /\ Takes(c, d, m)
           /\ Writes(c, d) \/ Writes(Late(c), d)
           /\ c.status = "Disconnected" => d = c \/ d.pushedLate
<1>1. CASE kind = "mem"
  <2>1. Deliver(c, kind, m) = SendInLoop(c, m) BY <1>1 DEF Deliver
  <2> QED BY <2>1, SendInLoopFine
<1>2. CASE kind # "mem"
  <2> DEFINE d == PushFile(c, kind, m)
  <2>1. Deliver(c, kind, m) = d BY <1>2 DEF Deliver
  <2>2. kind \in {"file", "stream"} BY <1>2
  <2>3. Fine(d, m) /\ Writes(Late(c), d) /\ Takes(c, d, m) BY <2>2, PushFileFine
  <2> HIDE DEF d
  <2>4. c.status = "Disconnected" => d.pushedLate
      BY <2>3, LateFine DEF Writes, SameStatus
  <2> QED BY <2>1, <2>3, <2>4
<1> QED BY <1>1, <1>2

-----------------------------------------------------------------------------
(* Closing *)

\* StatusSane and ClosedOnce, as far as they speak of the connection alone.
Settled(c) ==
    /\ c.status = "Disconnecting" => c.fin
    /\ c.fin => c.status \in {"Disconnecting", "Disconnected"}
    /\ c.closed > 0 => c.status = "Disconnected"
    /\ c.pushedLate => c.status = "Disconnected"
    /\ ~c.pushedLate /\ c.status = "Disconnected" => ~c.reading /\ ~c.writing
    /\ ~c.pushedLate => c.closed <= 1

\* Where a chunk that was taken must still be.
Safe(c) == IF c.fin THEN Range(c.wire) ELSE Held(c.wire, c.list)

\* Unless the connection broke or was closed, nothing that was safe is lost.
Keeps(c, d) ==
    ~d.reset /\ d.closed = 0 => ~c.reset /\ c.closed = 0 /\ Safe(c) \subseteq Safe(d)

\* What every handler does to a connection.
Good(c, d, top) ==
    /\ Fine(d, top) /\ Settled(d) /\ Keeps(c, d)
    /\ d.closed >= c.closed /\ (c.pushedLate => d.pushedLate)

LEMMA StateFine ==
    ASSUME NEW c, NEW d \in ConnType, NEW top, Fine(c, top), d.wire = c.wire, d.list = c.list,
           d.writing => c.writing, Broken(c) => Broken(d)
    PROVE  Fine(d, top)
BY DEF Fine, ListSane

LEMMA WritesKeeps ==
    ASSUME NEW c \in ConnType, NEW d, Writes(c, d)
    PROVE  Keeps(c, d)
BY DEF Writes, SameStatus, Keeps, Safe, Broken

LEMMA GoodTwice ==
    ASSUME NEW c \in ConnType, NEW d, NEW e, NEW top, NEW up, Good(c, d, top), Good(d, e, up)
    PROVE  Good(c, e, up)
<1>1. c.closed \in Nat /\ d.closed \in Nat /\ e.closed \in Nat BY ConnParts DEF Good, Fine
<1>2. e.closed >= c.closed BY <1>1 DEF Good
<1>3. Keeps(c, e) BY DEF Good, Keeps
<1> QED BY <1>2, <1>3 DEF Good

LEMMA GoodSame ==
    ASSUME NEW c, NEW top, Fine(c, top), Settled(c)
    PROVE  Good(c, c, top)
<1>1. c.closed \in Nat BY ConnParts DEF Fine
<1> QED BY <1>1 DEF Good, Keeps

\* writeCallback_ and what it calls.
LEMMA WritesGood ==
    ASSUME NEW c \in ConnType, NEW d, NEW top, Settled(c), Fine(d, top), Writes(c, d),
           c.status = "Disconnected" => c.pushedLate \/ ~d.writing
    PROVE  Good(c, d, top)
<1>1. Keeps(c, d) BY WritesKeeps
<1>2. c.closed \in Nat BY ConnParts
<1>3. Settled(d) BY DEF Settled, Writes, SameStatus
<1> QED BY <1>1, <1>2, <1>3 DEF Good, Writes, SameStatus

LEMMA HandleCloseGood ==
    ASSUME NEW c, NEW top, Fine(c, top), Settled(c), ~c.pushedLate => c.status # "Disconnected"
    PROVE  Good(c, HandleClose(c), top) /\ HandleClose(c).closed > 0
<1> DEFINE b == FALSE
           k == c.closed + 1
           d == [c EXCEPT !.status = "Disconnected", !.reading = b, !.writing = b, !.closed = k]
<1>1. c \in ConnType /\ c.closed \in Nat /\ k \in Nat /\ k = c.closed + 1
    BY ConnParts DEF Fine
<1>2. HandleClose(c) = d BY DEF HandleClose
<1>3. b \in BOOLEAN /\ ~b OBVIOUS
<1> HIDE DEF b, k
<1>4. /\ d \in ConnType /\ d.status = "Disconnected" /\ d.reading = b /\ d.writing = b
      /\ d.closed = k
    BY <1>1, <1>3 DEF ConnType
<1>5. /\ d.fin = c.fin /\ d.reset = c.reset /\ d.wire = c.wire /\ d.list = c.list
      /\ d.pushedLate = c.pushedLate
    BY <1>1 DEF ConnType
<1> HIDE DEF d
<1>6. Fine(d, top) BY <1>3, <1>4, <1>5, StateFine DEF Broken
<1>7. ~c.pushedLate => c.closed = 0 BY <1>1 DEF Settled
<1>8. Settled(d) BY <1>1, <1>3, <1>4, <1>5, <1>7 DEF Settled
<1>9. Keeps(c, d) /\ d.closed >= c.closed /\ d.closed > 0 BY <1>1, <1>4 DEF Keeps
<1> QED BY <1>2, <1>5, <1>6, <1>8, <1>9 DEF Good

LEMMA ShutdownGood ==
    ASSUME NEW c, NEW top, Fine(c, top), Settled(c)
    PROVE  /\ Good(c, Shutdown(c), top)
           /\ Shutdown(c).status = "Disconnected" => c.status = "Disconnected"
<1>1. /\ c \in ConnType /\ c.closed \in Nat /\ c.fin \in BOOLEAN
      /\ (c.writing => c.list # <<>>)
    BY ConnParts DEF Fine, ListSane
<1>2. CASE c.status # "Connected"
  <2>1. Shutdown(c) = c BY <1>2 DEF Shutdown
  <2> QED BY <2>1, GoodSame
<1>3. CASE c.status = "Connected" /\ c.list # <<>>
  <2> DEFINE b == TRUE
             d == [c EXCEPT !.closeOnEmpty = b]
  <2>1. Shutdown(c) = d BY <1>3 DEF Shutdown
  <2>2. b \in BOOLEAN OBVIOUS
  <2> HIDE DEF b
  <2>3. /\ d \in ConnType /\ d.status = c.status /\ d.reading = c.reading
        /\ d.writing = c.writing /\ d.closed = c.closed
      BY <1>1, <2>2 DEF ConnType
  <2>4. /\ d.fin = c.fin /\ d.reset = c.reset /\ d.wire = c.wire /\ d.list = c.list
        /\ d.pushedLate = c.pushedLate
      BY <1>1 DEF ConnType
  <2> HIDE DEF d
  <2>5. Fine(d, top) BY <2>3, <2>4, StateFine DEF Broken
  <2>6. Settled(d) BY <2>3, <2>4 DEF Settled
  <2>7. Keeps(c, d) BY <2>3, <2>4 DEF Keeps, Safe
  <2> QED BY <1>1, <2>1, <2>3, <2>4, <2>5, <2>6, <2>7 DEF Good
<1>4. CASE c.status = "Connected" /\ c.list = <<>>
  <2> DEFINE b == c.fin \/ ~c.writing
             d == [c EXCEPT !.status = "Disconnecting", !.fin = b]
  <2>1. Shutdown(c) = d BY <1>4 DEF Shutdown
  <2>2. b \in BOOLEAN /\ b BY <1>1, <1>4
  <2> HIDE DEF b
  <2>3. /\ d \in ConnType /\ d.status = "Disconnecting" /\ d.reading = c.reading
        /\ d.writing = c.writing /\ d.closed = c.closed
      BY <1>1, <2>2 DEF ConnType
  <2>4. /\ d.fin = b /\ d.reset = c.reset /\ d.wire = c.wire /\ d.list = c.list
        /\ d.pushedLate = c.pushedLate
      BY <1>1 DEF ConnType
  <2> HIDE DEF d
  <2>5. Fine(d, top) BY <2>2, <2>3, <2>4, StateFine DEF Broken
  <2>6. Settled(d) BY <1>4, <2>2, <2>3, <2>4 DEF Settled
  <2>7. Held(c.wire, c.list) = Range(c.wire) BY <1>4 DEF Held
  <2>8. Keeps(c, d) BY <1>4, <2>2, <2>3, <2>4, <2>7 DEF Keeps, Safe
  <2> QED BY <1>1, <2>1, <2>2, <2>3, <2>4, <2>5, <2>6, <2>8 DEF Good
<1> QED BY <1>2, <1>3, <1>4

LEMMA CloseGood ==
    ASSUME NEW c, NEW top, Fine(c, top), Settled(c), NEW op
    PROVE  Good(c, Close(c, op), top)
<1>1. c.status \in {"Connected", "Disconnecting"} => c.status # "Disconnected" OBVIOUS
<1> QED BY <1>1, ShutdownGood, HandleCloseGood, GoodSame DEF Close, ForceClose

LEMMA CloseOnEmptyGood ==
    ASSUME NEW c, NEW top, Fine(c, top), Settled(c)
    PROVE  Good(c, CloseOnEmpty(c), top)
BY ShutdownGood, GoodSame DEF CloseOnEmpty

LEMMA DeliverGood ==
    ASSUME NEW c, NEW top \in Nat, Fine(c, top), Settled(c), NEW m \in Msgs, top < m,
           NEW kind \in {"mem", "file", "stream"}
    PROVE  /\ Good(c, Deliver(c, kind, m), m)
           /\ Takes(c, Deliver(c, kind, m), m)
           /\ Deliver(c, kind, m).fin = c.fin /\ Deliver(c, kind, m).reset = c.reset
<1> DEFINE d == Deliver(c, kind, m)
<1>1. /\ Fine(d, m) /\ Takes(c, d, m) /\ (Writes(c, d) \/ Writes(Late(c), d))
      /\ (c.status = "Disconnected" => d = c \/ d.pushedLate)
    BY DeliverFine
<1> HIDE DEF d
<1>2. c \in ConnType /\ Late(c) \in ConnType /\ c.closed \in Nat BY LateFine, ConnParts DEF Fine
<1>3. /\ d.status = c.status /\ d.fin = c.fin /\ d.reset = c.reset /\ d.closed = c.closed
      /\ (d.pushedLate => c.pushedLate \/ c.status = "Disconnected")
      /\ (c.pushedLate => d.pushedLate)
    BY <1>1, LateFine DEF Writes, SameStatus
<1>4. Settled(d) BY <1>1, <1>3 DEF Settled
<1>5. Keeps(c, d)
  <2>1. Keeps(c, d) \/ Keeps(Late(c), d) BY <1>1, <1>2, WritesKeeps
  <2>2. Keeps(Late(c), d) => Keeps(c, d) BY LateFine DEF Keeps, Safe
  <2> QED BY <2>1, <2>2
<1>6. Good(c, d, m) BY <1>1, <1>2, <1>3, <1>4, <1>5 DEF Good
<1> QED BY <1>1, <1>3, <1>6 DEF d

LEMMA EstablishedGood ==
    ASSUME NEW c, NEW top, Fine(c, top), Settled(c), c.status = "Connecting"
    PROVE  Good(c, [c EXCEPT !.status = "Connected", !.reading = TRUE], top)
<1> DEFINE b == TRUE
           d == [c EXCEPT !.status = "Connected", !.reading = b]
<1>1. c \in ConnType /\ c.closed \in Nat BY ConnParts DEF Fine
<1>2. b \in BOOLEAN OBVIOUS
<1> HIDE DEF b
<1>3. /\ d \in ConnType /\ d.status = "Connected" /\ d.reading = b
      /\ d.writing = c.writing /\ d.closed = c.closed
    BY <1>1, <1>2 DEF ConnType
<1>4. /\ d.fin = c.fin /\ d.reset = c.reset /\ d.wire = c.wire /\ d.list = c.list
      /\ d.pushedLate = c.pushedLate
    BY <1>1 DEF ConnType
<1> HIDE DEF d
<1>5. Fine(d, top) BY <1>3, <1>4, StateFine DEF Broken
<1>6. Settled(d) BY <1>3, <1>4 DEF Settled
<1>7. Keeps(c, d) BY <1>3, <1>4 DEF Keeps, Safe
<1>8. Good(c, d, top) BY <1>1, <1>3, <1>4, <1>5, <1>6, <1>7 DEF Good
<1> QED BY <1>8 DEF d, b

LEMMA ReadsGood ==
    ASSUME NEW c, NEW top, Fine(c, top), Settled(c)
    PROVE  /\ Good(c, [c EXCEPT !.room = Cap], top)
           /\ [c EXCEPT !.room = Cap].status = c.status
           /\ [c EXCEPT !.room = Cap].pushedLate = c.pushedLate
<1> DEFINE d == [c EXCEPT !.room = Cap]
<1>1. c \in ConnType /\ c.closed \in Nat /\ Cap \in 0..Cap BY ConnParts, ConnAssumption DEF Fine
<1>2. /\ d \in ConnType /\ d.status = c.status /\ d.reading = c.reading
      /\ d.writing = c.writing /\ d.closed = c.closed
    BY <1>1 DEF ConnType
<1>3. /\ d.fin = c.fin /\ d.reset = c.reset /\ d.wire = c.wire /\ d.list = c.list
      /\ d.pushedLate = c.pushedLate
    BY <1>1 DEF ConnType
<1> HIDE DEF d
<1>4. Fine(d, top) BY <1>2, <1>3, StateFine DEF Broken
<1>5. Settled(d) BY <1>2, <1>3 DEF Settled
<1>6. Keeps(c, d) BY <1>2, <1>3 DEF Keeps, Safe
<1>7. Good(c, d, top) BY <1>1, <1>2, <1>3, <1>4, <1>5, <1>6 DEF Good
<1> QED BY <1>2, <1>3, <1>7 DEF d

LEMMA ResetsGood ==
    ASSUME NEW c, NEW top, Fine(c, top), Settled(c)
    PROVE  /\ Good(c, [c EXCEPT !.reset = TRUE], top)
           /\ [c EXCEPT !.reset = TRUE].status = c.status
           /\ [c EXCEPT !.reset = TRUE].pushedLate = c.pushedLate
<1> DEFINE b == TRUE
           d == [c EXCEPT !.reset = b]
<1>1. c \in ConnType /\ c.closed \in Nat BY ConnParts DEF Fine
<1>2. b \in BOOLEAN /\ b OBVIOUS
<1> HIDE DEF b
<1>3. /\ d \in ConnType /\ d.status = c.status /\ d.reading = c.reading
      /\ d.writing = c.writing /\ d.closed = c.closed
    BY <1>1, <1>2 DEF ConnType
<1>4. /\ d.fin = c.fin /\ d.reset = b /\ d.wire = c.wire /\ d.list = c.list
      /\ d.pushedLate = c.pushedLate
    BY <1>1 DEF ConnType
<1> HIDE DEF d
<1>5. Fine(d, top) BY <1>2, <1>3, <1>4, StateFine DEF Broken
<1>6. Settled(d) BY <1>3, <1>4 DEF Settled
<1>7. Keeps(c, d) BY <1>2, <1>4 DEF Keeps
<1>8. Good(c, d, top) BY <1>1, <1>3, <1>4, <1>5, <1>6, <1>7 DEF Good
<1> QED BY <1>3, <1>4, <1>8 DEF d, b

\* By the end of writeCompleteCallback_ a connection that disconnects has sent
\* its FIN already.
LEMMA FinAlready ==
    ASSUME NEW c \in ConnType, Settled(c)
    PROVE  [c EXCEPT !.fin = c.fin \/ c.status = "Disconnecting"] = c
<1> DEFINE b == c.fin \/ c.status = "Disconnecting"
<1>1. b \in BOOLEAN /\ c.fin \in BOOLEAN /\ b = c.fin BY ConnParts DEF Settled
<1> HIDE DEF b
<1>2. [c EXCEPT !.fin = b] = c BY <1>1 DEF ConnType
<1> QED BY <1>2 DEF b

-----------------------------------------------------------------------------
(* The functions queued in the loop *)

Func == {"mem", "file", "stream", "shutdown", "forceClose", "destroy"} \X (Msgs \cup {0})

\* The queue q holds the last num of s messages, oldest first.
Queued(q, num, s) ==
    /\ num <= s
    /\ \A i \in DOMAIN q : IsSend(q[i]) => q[i][2] \in (s - num + 1)..s
    /\ \A n \in (s - num + 1)..s : \E i \in DOMAIN q : IsSend(q[i]) /\ q[i][2] = n
    /\ \A i, j \in DOMAIN q : i < j /\ IsSend(q[i]) /\ IsSend(q[j]) => q[i][2] < q[j][2]

\* An element at the end.
LEMMA AtEnd ==
    ASSUME NEW q \in Seq(Func), NEW f \in Func
    PROVE  LET p == Append(q, f) IN
           /\ p \in Seq(Func) /\ DOMAIN p = 1..(Len(q) + 1) /\ DOMAIN q = 1..Len(q)
           /\ Len(q) \in Nat /\ p[Len(q) + 1] = f /\ \A i \in DOMAIN q : p[i] = q[i]
<1>1. Append(q, f) \in Seq(Func) /\ Len(Append(q, f)) = Len(q) + 1 OBVIOUS
<1> QED BY <1>1, AppendProperties

LEMMA QueueSendKeeps ==
    ASSUME NEW q \in Seq(Func), NEW num \in Nat, NEW s \in Nat, Queued(q, num, s),
           NEW f \in Func, IsSend(f), f[2] = s + 1
    PROVE  Queued(Append(q, f), num + 1, s + 1)
<1> DEFINE p == Append(q, f)
           z == Len(q) + 1
<1>1. /\ DOMAIN p = 1..z /\ DOMAIN q = 1..Len(q) /\ Len(q) \in Nat /\ p[z] = f
      /\ \A i \in DOMAIN q : p[i] = q[i]
    BY AtEnd
<1> HIDE DEF p
<1>2. (s + 1) - (num + 1) + 1 = s - num + 1 /\ num + 1 <= s + 1 BY DEF Queued
<1>3. ASSUME NEW i \in DOMAIN p, IsSend(p[i]) PROVE p[i][2] \in (s - num + 1)..(s + 1)
  <2>1. CASE i = z BY <1>1, <2>1 DEF Queued
  <2>2. CASE i # z
    <3>1. i \in DOMAIN q BY <1>1, <2>2
    <3>2. p[i][2] \in (s - num + 1)..s BY <1>1, <1>3, <3>1 DEF Queued
    <3> QED BY <3>2
  <2> QED BY <2>1, <2>2
<1>4. ASSUME NEW n \in (s - num + 1)..(s + 1)
      PROVE  \E i \in DOMAIN p : IsSend(p[i]) /\ p[i][2] = n
  <2>1. CASE n = s + 1
    <3>1. z \in DOMAIN p BY <1>1
    <3> QED BY <1>1, <2>1, <3>1
  <2>2. CASE n # s + 1
    <3>1. n \in (s - num + 1)..s BY <2>2
    <3>2. PICK i \in DOMAIN q : IsSend(q[i]) /\ q[i][2] = n BY <3>1 DEF Queued
    <3>3. i \in DOMAIN p BY <1>1
    <3> QED BY <1>1, <3>2, <3>3
  <2> QED BY <2>1, <2>2
<1>5. ASSUME NEW i \in DOMAIN p, NEW j \in DOMAIN p, i < j, IsSend(p[i]), IsSend(p[j])
      PROVE  p[i][2] < p[j][2]
  <2>1. i \in DOMAIN q BY <1>1, <1>5
  <2>2. CASE j = z
    <3>1. p[i][2] \in (s - num + 1)..s BY <1>1, <1>5, <2>1 DEF Queued
    <3> QED BY <1>1, <2>2, <3>1
  <2>3. CASE j # z
    <3>1. j \in DOMAIN q BY <1>1, <2>3
    <3> QED BY <1>1, <1>5, <2>1, <3>1 DEF Queued
  <2> QED BY <2>2, <2>3
<1>6. Queued(p, num + 1, s + 1)
  <2>1. (s + 1) - (num + 1) + 1 = s - num + 1 BY <1>2
  <2> QED BY <1>2, <1>3, <1>4, <1>5, <2>1 DEF Queued
<1> QED BY <1>6 DEF p

LEMMA QueueOtherKeeps ==
    ASSUME NEW q \in Seq(Func), NEW num \in Nat, NEW s \in Nat, Queued(q, num, s),
           NEW f \in Func, ~IsSend(f)
    PROVE  Queued(Append(q, f), num, s)
<1> DEFINE p == Append(q, f)
           z == Len(q) + 1
<1>1. /\ DOMAIN p = 1..z /\ DOMAIN q = 1..Len(q) /\ Len(q) \in Nat /\ p[z] = f
      /\ \A i \in DOMAIN q : p[i] = q[i]
    BY AtEnd
<1> HIDE DEF p
<1>2. \A i \in DOMAIN p : IsSend(p[i]) => i \in DOMAIN q BY <1>1
<1>3. \A i \in DOMAIN q : i \in DOMAIN p BY <1>1
<1>4. Queued(p, num, s) BY <1>1, <1>2, <1>3 DEF Queued
<1> QED BY <1>4 DEF p

\* The function in front has left.
LEMMA FrontLeft ==
    ASSUME NEW q \in Seq(Func), q # <<>>
    PROVE  /\ Tail(q) \in Seq(Func) /\ 1 \in DOMAIN q /\ q[1] \in Func
           /\ \A i \in DOMAIN Tail(q) : i \in Nat /\ i + 1 \in DOMAIN q /\ Tail(q)[i] = q[i + 1]
           /\ \A i \in DOMAIN q : i # 1 => i - 1 \in DOMAIN Tail(q) /\ (i - 1) + 1 = i
<1>1. Tail(q) \in Seq(Func) /\ 1 \in 1..Len(q) /\ Len(Tail(q)) = Len(q) - 1 OBVIOUS
<1>2. q[1] \in Func BY <1>1, ElementOfSeq
<1> QED BY <1>1, <1>2

\* The send in front is the oldest message that is queued.
LEMMA RunSendKeeps ==
    ASSUME NEW q \in Seq(Func), q # <<>>, NEW num \in Nat, NEW s \in Nat, Queued(q, num, s),
           IsSend(q[1])
    PROVE  num > 0 /\ q[1][2] = s - num + 1 /\ Queued(Tail(q), num - 1, s)
<1> DEFINE p == Tail(q)
           m == q[1][2]
<1>1. /\ 1 \in DOMAIN q
      /\ \A i \in DOMAIN p : i \in Nat /\ i + 1 \in DOMAIN q /\ p[i] = q[i + 1]
      /\ \A i \in DOMAIN q : i # 1 => i - 1 \in DOMAIN p /\ (i - 1) + 1 = i
    BY FrontLeft
<1> HIDE DEF p
<1>2. m \in (s - num + 1)..s BY <1>1 DEF Queued
<1>3. num > 0 BY <1>2
<1>4. \A i \in DOMAIN q : i # 1 => 1 < i OBVIOUS
<1>5. m = s - num + 1
  <2>1. s - num + 1 \in (s - num + 1)..s BY <1>2
  <2>2. PICK i \in DOMAIN q : IsSend(q[i]) /\ q[i][2] = s - num + 1 BY <2>1 DEF Queued
  <2>3. i # 1 => m < q[i][2] BY <1>1, <1>4, <2>2 DEF Queued
  <2> QED BY <1>2, <2>2, <2>3
<1>6. ASSUME NEW i \in DOMAIN p, IsSend(p[i]) PROVE p[i][2] \in (s - num + 2)..s
  <2>1. 1 < i + 1
    <3>1. i \in Nat /\ i + 1 # 1
      <4>1. i \in Nat /\ i >= 1 BY <1>1, FrontLeft DEF p
      <4> QED BY <4>1
    <3> QED BY <3>1
  <2>2. m < q[i + 1][2] /\ q[i + 1][2] \in (s - num + 1)..s
      BY <1>1, <1>6, <2>1 DEF Queued
  <2>3. p[i][2] = q[i + 1][2] BY <1>1
  <2> HIDE DEF m
  <2> QED BY <1>5, <2>2, <2>3
<1>7. ASSUME NEW n \in (s - num + 2)..s PROVE \E i \in DOMAIN p : IsSend(p[i]) /\ p[i][2] = n
  <2>1. n \in (s - num + 1)..s /\ n # s - num + 1 OBVIOUS
  <2>2. PICK i \in DOMAIN q : IsSend(q[i]) /\ q[i][2] = n BY <2>1 DEF Queued
  <2>3. i # 1 BY <1>5, <2>1, <2>2
  <2>4. i - 1 \in DOMAIN p /\ p[i - 1] = q[i] BY <1>1, <2>3
  <2> QED BY <2>2, <2>4
<1>8. ASSUME NEW i \in DOMAIN p, NEW j \in DOMAIN p, i < j, IsSend(p[i]), IsSend(p[j])
      PROVE  p[i][2] < p[j][2]
  <2>1. i + 1 \in DOMAIN q /\ j + 1 \in DOMAIN q /\ i + 1 < j + 1 BY <1>1, <1>8
  <2>2. p[i] = q[i + 1] /\ p[j] = q[j + 1] BY <1>1
  <2> QED BY <1>8, <2>1, <2>2 DEF Queued
<1>9. Queued(p, num - 1, s)
  <2>1. s - (num - 1) + 1 = s - num + 2 /\ num - 1 <= s BY <1>3 DEF Queued
  <2> QED BY <1>6, <1>7, <1>8, <2>1 DEF Queued
<1> QED BY <1>3, <1>5, <1>9 DEF p

LEMMA RunOtherKeeps ==
    ASSUME NEW q \in Seq(Func), q # <<>>, NEW num \in Nat, NEW s \in Nat, Queued(q, num, s),
           ~IsSend(q[1])
    PROVE  Queued(Tail(q), num, s)
<1> DEFINE p == Tail(q)
<1>1. /\ 1 \in DOMAIN q
      /\ \A i \in DOMAIN p : i \in Nat /\ i + 1 \in DOMAIN q /\ p[i] = q[i + 1]
      /\ \A i \in DOMAIN q : i # 1 => i - 1 \in DOMAIN p /\ (i - 1) + 1 = i
    BY FrontLeft
<1> HIDE DEF p
<1>2. \A i \in DOMAIN p : IsSend(p[i]) => p[i][2] \in (s - num + 1)..s BY <1>1 DEF Queued
<1>3. ASSUME NEW n \in (s - num + 1)..s PROVE \E i \in DOMAIN p : IsSend(p[i]) /\ p[i][2] = n
  <2>1. PICK i \in DOMAIN q : IsSend(q[i]) /\ q[i][2] = n BY DEF Queued
  <2>2. i - 1 \in DOMAIN p /\ p[i - 1] = q[i] BY <1>1, <2>1
  <2> QED BY <2>1, <2>2
<1>4. ASSUME NEW i \in DOMAIN p, NEW j \in DOMAIN p, i < j, IsSend(p[i]), IsSend(p[j])
      PROVE  p[i][2] < p[j][2]
  <2>1. i + 1 \in DOMAIN q /\ j + 1 \in DOMAIN q /\ i + 1 < j + 1 BY <1>1, <1>4
  <2>2. p[i] = q[i + 1] /\ p[j] = q[j + 1] BY <1>1
  <2> QED BY <1>4, <2>1, <2>2 DEF Queued
<1>5. Queued(p, num, s) BY <1>2, <1>3, <1>4 DEF Queued
<1> QED BY <1>5 DEF p

-----------------------------------------------------------------------------
(* The invariant *)

\* IInv, in the parts that the lemmas speak of.
Types ==
    /\ funcs \in Seq(Func) /\ sendNum \in 0..MaxMsgs /\ sent \in 0..MaxMsgs
    /\ stage \in {"idle", "close", "read", "user", "write", "complete"}
    /\ revents \in SUBSET {"in", "out", "hup"}
    /\ destroyed \in BOOLEAN /\ aborted \in BOOLEAN /\ accepted \in SUBSET Msgs

DestroysClosed == \A i \in DOMAIN funcs : funcs[i][1] = "destroy" => conn.closed > 0

HandlesOpen ==
    ~conn.pushedLate /\ stage \in {"close", "read"} => conn.status # "Disconnected"

AcceptedSafe ==
    ~conn.reset /\ conn.closed = 0 =>
        \A m \in accepted : \A k \in 1..MsgLen : <<m, k>> \in Safe(conn)

Parts ==
    /\ Types /\ Fine(conn, sent - sendNum) /\ Settled(conn)
    /\ Queued(funcs, sendNum, sent)
    /\ ~conn.pushedLate => ~aborted
    /\ DestroysClosed /\ HandlesOpen /\ AcceptedSafe

LEMMA InvParts == IInv <=> Parts
<1>1. WireInOrder <=> WireSane(conn.wire) BY DEF WireInOrder, WireSane, InRow, Follows
<1>2. QueuedInOrder <=> Queued(funcs, sendNum, sent) BY DEF QueuedInOrder, Queued
<1>3. AcceptedHeld <=> AcceptedSafe BY DEF AcceptedHeld, AcceptedSafe, Safe
<1>4. TypeOK <=> conn \in ConnType /\ Types BY DEF TypeOK, Types, Func
<1>5. StatusSane /\ ClosedOnce <=>
        Settled(conn) /\ (~conn.pushedLate => ~aborted) /\ DestroysClosed /\ HandlesOpen
    BY DEF StatusSane, ClosedOnce, Settled, DestroysClosed, HandlesOpen
<1>6. WriteListSane <=> TypeOK /\ ListSane(conn) BY DEF WriteListSane, ListSane
<1>7. OrderKept <=> /\ WireInOrder /\ QueuedInOrder
                    /\ ~Broken(conn) => Ordered(conn.wire, conn.list, sent - sendNum)
    BY DEF OrderKept
<1> QED BY <1>1, <1>2, <1>3, <1>4, <1>5, <1>6, <1>7 DEF IInv, ConnectionSane, Parts, Fine

LEMMA TopType ==
    ASSUME Parts
    PROVE  /\ sent - sendNum \in Nat /\ sent \in Nat /\ sendNum \in Nat /\ conn \in ConnType
           /\ MaxMsgs \in Nat
BY ConnAssumption DEF Parts, Types, Queued, Fine

\* A step of the loop thread or of the peer that leaves the queue alone.
LEMMA ConnStep ==
    ASSUME Parts, Good(conn, conn', sent - sendNum),
           UNCHANGED <<funcs, sendNum, sent, destroyed, aborted, accepted>>,
           stage' \in {"idle", "close", "read", "user", "write", "complete"},
           revents' \in SUBSET {"in", "out", "hup"}, HandlesOpen'
    PROVE  Parts'
<1>1. Types' BY DEF Parts, Types
<1>2. Fine(conn', sent' - sendNum') /\ Settled(conn') BY DEF Good
<1>3. Queued(funcs', sendNum', sent') BY DEF Parts
<1>4. ~conn'.pushedLate => ~aborted' BY DEF Parts, Good
<1>5. DestroysClosed'
  <2>1. conn.closed \in Nat /\ conn'.closed \in Nat BY <1>2, ConnParts DEF Parts, Fine
  <2>2. conn.closed > 0 => conn'.closed > 0 BY <2>1 DEF Good
  <2> QED BY <2>2 DEF Parts, DestroysClosed
<1>6. AcceptedSafe' BY DEF Parts, AcceptedSafe, Good, Keeps
<1> QED BY <1>1, <1>2, <1>3, <1>4, <1>5, <1>6 DEF Parts

\* A step that only queues.
LEMMA QueueStep ==
    ASSUME Parts, UNCHANGED <<conn, stage, revents, destroyed, aborted, accepted>>,
           funcs' \in Seq(Func), sendNum' \in 0..MaxMsgs, sent' \in 0..MaxMsgs,
           sent' - sendNum' = sent - sendNum, Queued(funcs', sendNum', sent'),
           DestroysClosed'
    PROVE  Parts'
<1>1. Types' BY DEF Parts, Types
<1>2. Fine(conn', sent' - sendNum') /\ Settled(conn') BY DEF Parts
<1>3. (~conn'.pushedLate => ~aborted') /\ HandlesOpen' /\ AcceptedSafe'
    BY DEF Parts, HandlesOpen, AcceptedSafe
<1> QED BY <1>1, <1>2, <1>3 DEF Parts

\* A message is delivered, at once or from the queue.
LEMMA DeliverStep ==
    ASSUME Parts, NEW kind \in {"mem", "file", "stream"}, NEW m \in Msgs, DeliverNow(kind, m),
           sent - sendNum < m, sent' - sendNum' = m,
           UNCHANGED <<stage, revents, destroyed, aborted>>, stage \notin {"close", "read"},
           funcs' \in Seq(Func), sendNum' \in 0..MaxMsgs, sent' \in 0..MaxMsgs,
           Queued(funcs', sendNum', sent'),
           \A i \in DOMAIN funcs' : funcs'[i][1] = "destroy" => conn.closed > 0
    PROVE  Parts'
<1>1. /\ Good(conn, conn', m) /\ Takes(conn, conn', m)
      /\ conn'.fin = conn.fin /\ conn'.reset = conn.reset
  <2>1. conn' = Deliver(conn, kind, m) BY DEF DeliverNow
  <2>2. sent - sendNum \in Nat /\ Fine(conn, sent - sendNum) /\ Settled(conn)
      BY TopType DEF Parts
  <2> QED BY <2>1, <2>2, DeliverGood
<1>2. accepted' = accepted \/ (conn.status = "Connected" /\ accepted' = accepted \cup {m})
    BY DEF DeliverNow
<1>3. Types' BY <1>2 DEF Parts, Types
<1>4. Fine(conn', sent' - sendNum') /\ Settled(conn') BY <1>1 DEF Good
<1>5. (~conn'.pushedLate => ~aborted') /\ HandlesOpen' BY <1>1 DEF Parts, Good, HandlesOpen
<1>6. DestroysClosed'
  <2>1. conn.closed \in Nat /\ conn'.closed \in Nat BY <1>4, ConnParts DEF Parts, Fine
  <2>2. conn.closed > 0 => conn'.closed > 0 BY <1>1, <2>1 DEF Good
  <2> QED BY <2>2 DEF DestroysClosed
<1>7. ASSUME ~conn'.reset, conn'.closed = 0, NEW x \in accepted', NEW k \in 1..MsgLen
      PROVE  <<x, k>> \in Safe(conn')
  <2>1. CASE x \in accepted BY <1>1, <1>7, <2>1 DEF Parts, AcceptedSafe, Good, Keeps
  <2>2. CASE x \notin accepted
    <3>1. x = m /\ conn.status = "Connected" BY <1>2, <1>7, <2>2
    <3>2. ~conn.fin BY <3>1 DEF Parts, Settled
    <3>3. Range(ChunksOf(m)) \subseteq Held(conn'.wire, conn'.list)
        BY <1>1, <1>7, <3>1, <3>2 DEF Takes, Broken
    <3>4. <<m, k>> \in Range(ChunksOf(m))
      <4>1. ChunksOf(m)[k] = <<m, k>> BY MessageFacts
      <4>2. DOMAIN ChunksOf(m) = 1..MsgLen BY DEF ChunksOf
      <4> QED BY <4>1, <4>2 DEF Range
    <3> QED BY <1>1, <3>1, <3>2, <3>3, <3>4 DEF Safe
  <2> QED BY <2>1, <2>2
<1>8. AcceptedSafe' BY <1>7 DEF AcceptedSafe
<1> QED BY <1>3, <1>4, <1>5, <1>6, <1>8 DEF Parts

\* The first steps of the calls of the program.
LEMMA SendStep ==
    ASSUME Parts, NEW k \in Kinds, Send(k) \/ SendHere(k)
    PROVE  Parts'
<1> DEFINE m == sent + 1
           f == <<k, sent + 1>>
<1>1. /\ sent - sendNum \in Nat /\ sent \in Nat /\ sendNum \in Nat /\ MaxMsgs \in Nat
      /\ funcs \in Seq(Func) /\ Queued(funcs, sendNum, sent)
    BY TopType DEF Parts, Types
<1>2. k \in {"mem", "file", "stream"} BY ConnAssumption
<1>3. sent < MaxMsgs /\ sent' = sent + 1 BY DEF Send, SendHere, NewMsg
<1>4. m \in Msgs /\ sent' \in 0..MaxMsgs BY <1>1, <1>3 DEF Msgs
<1>5. CASE QueueSend(k)
  <2>1. f \in Func /\ IsSend(f) /\ f[2] = sent + 1 BY <1>2, <1>4 DEF Func, IsSend
  <2>2. sendNum' = sendNum + 1 /\ funcs' = Append(funcs, f) BY <1>5 DEF QueueSend
  <2> HIDE DEF f
  <2>3. Queued(funcs', sendNum', sent') BY <1>1, <1>3, <2>1, <2>2, QueueSendKeeps
  <2>4. funcs' \in Seq(Func) BY <1>1, <2>1, <2>2
  <2>5. sendNum' \in 0..MaxMsgs /\ sent' - sendNum' = sent - sendNum BY <1>1, <1>3, <2>2
  <2>6. DestroysClosed'
    <3>1. ASSUME NEW i \in DOMAIN funcs', funcs'[i][1] = "destroy" PROVE conn.closed > 0
      <4>1. i \in DOMAIN funcs /\ funcs'[i] = funcs[i]
        <5>1. i # Len(funcs) + 1
          <6>1. funcs'[Len(funcs) + 1] = f BY <1>1, <2>1, <2>2, AtEnd
          <6> QED BY <2>1, <3>1, <6>1 DEF IsSend
        <5>2. i \in 1..(Len(funcs) + 1) /\ DOMAIN funcs = 1..Len(funcs) /\ Len(funcs) \in Nat
            BY <1>1, <2>1, <2>2, AtEnd
        <5>3. i \in DOMAIN funcs BY <5>1, <5>2
        <5> QED BY <1>1, <2>1, <2>2, <5>3, AtEnd
      <4> QED BY <3>1, <4>1 DEF Parts, DestroysClosed
    <3> QED BY <1>5, <3>1 DEF DestroysClosed, QueueSend
  <2> QED BY <1>4, <1>5, <2>3, <2>4, <2>5, <2>6, QueueStep DEF Send, SendHere, QueueSend
<1>6. CASE SendHere(k) /\ sendNum = 0 /\ DeliverNow(k, m) /\ UNCHANGED <<funcs, sendNum>>
  <2>1. sent - sendNum < m /\ sent' - sendNum' = m /\ sendNum' \in 0..MaxMsgs
      BY <1>1, <1>3, <1>6
  <2>2. Queued(funcs, 0, sent + 1)
    <3>1. \A i \in DOMAIN funcs : ~IsSend(funcs[i])
      <4>1. \A i \in DOMAIN funcs : IsSend(funcs[i]) => funcs[i][2] \in (sent - 0 + 1)..sent
          BY <1>1, <1>6 DEF Queued
      <4>2. (sent - 0 + 1)..sent = {} BY <1>1
      <4> QED BY <4>1, <4>2
    <3>2. 0 <= sent + 1 /\ ((sent + 1) - 0 + 1)..(sent + 1) = {} BY <1>1
    <3> QED BY <3>1, <3>2 DEF Queued
  <2>3. Queued(funcs', sendNum', sent') BY <1>3, <1>6, <2>2
  <2>4. stage \notin {"close", "read"} /\ UNCHANGED <<stage, revents, destroyed, aborted>>
      BY <1>6 DEF SendHere, LoopInUserCode
  <2>5. \A i \in DOMAIN funcs' : funcs'[i][1] = "destroy" => conn.closed > 0
      BY <1>6 DEF Parts, DestroysClosed
  <2>6. funcs' \in Seq(Func) BY <1>1, <1>6
  <2> HIDE DEF m
  <2> QED BY <1>2, <1>4, <1>6, <2>1, <2>3, <2>4, <2>5, <2>6, DeliverStep
<1> QED BY <1>5, <1>6 DEF Send, SendHere

\* A function that is no send is queued.
LEMMA OtherStep ==
    ASSUME Parts, NEW op \in {"shutdown", "forceClose", "destroy"},
           op = "destroy" => conn.closed > 0, funcs' = Append(funcs, <<op, 0>>),
           UNCHANGED <<conn, sendNum, sent, stage, revents, destroyed, aborted, accepted>>
    PROVE  Parts'
<1> DEFINE f == <<op, 0>>
<1>1. /\ sent \in Nat /\ sendNum \in Nat /\ funcs \in Seq(Func) /\ Queued(funcs, sendNum, sent)
      /\ sendNum \in 0..MaxMsgs /\ sent \in 0..MaxMsgs
    BY TopType DEF Parts, Types
<1>2. f \in Func /\ ~IsSend(f) /\ f[1] = op BY DEF Func, IsSend
<1> HIDE DEF f
<1>3. funcs' = Append(funcs, f) BY DEF f
<1>4. Queued(funcs', sendNum', sent') BY <1>1, <1>2, <1>3, QueueOtherKeeps
<1>5. funcs' \in Seq(Func) BY <1>1, <1>2, <1>3, AppendProperties
<1>6. ASSUME NEW i \in DOMAIN funcs', funcs'[i][1] = "destroy" PROVE conn.closed > 0
  <2>1. i \in 1..(Len(funcs) + 1) /\ DOMAIN funcs = 1..Len(funcs) /\ Len(funcs) \in Nat
      BY <1>1, <1>2, <1>3, AtEnd
  <2>2. CASE i = Len(funcs) + 1
    <3>1. Append(funcs, f)[Len(funcs) + 1] = f BY <1>1, <1>2, AtEnd
    <3>2. funcs'[i] = f BY <1>3, <2>2, <3>1
    <3> QED BY <1>2, <1>6, <3>2
  <2>3. CASE i # Len(funcs) + 1
    <3>1. i \in DOMAIN funcs BY <2>1, <2>3
    <3>2. funcs'[i] = funcs[i] BY <1>1, <1>2, <1>3, <3>1, AtEnd
    <3> QED BY <1>6, <3>1, <3>2 DEF Parts, DestroysClosed
  <2> QED BY <2>2, <2>3
<1>7. DestroysClosed' BY <1>6 DEF DestroysClosed
<1> QED BY <1>1, <1>4, <1>5, <1>7, QueueStep

\* The loop thread runs the function in front.
LEMMA RunFuncStep ==
    ASSUME Parts, RunFunc
    PROVE  Parts'
<1> DEFINE op == funcs[1][1]
           m  == funcs[1][2]
<1>1. /\ sent - sendNum \in Nat /\ sent \in Nat /\ sendNum \in Nat /\ MaxMsgs \in Nat
      /\ funcs \in Seq(Func) /\ Queued(funcs, sendNum, sent) /\ funcs # <<>>
      /\ sendNum \in 0..MaxMsgs /\ sent \in 0..MaxMsgs /\ conn \in ConnType
      /\ Fine(conn, sent - sendNum) /\ Settled(conn)
    BY TopType DEF Parts, Types, RunFunc
<1>2. /\ funcs' \in Seq(Func) /\ funcs' = Tail(funcs) /\ 1 \in DOMAIN funcs
      /\ funcs[1] \in Func
      /\ \A i \in DOMAIN funcs' : i + 1 \in DOMAIN funcs /\ funcs'[i] = funcs[i + 1]
    BY <1>1, FrontLeft DEF RunFunc
<1>3. \A i \in DOMAIN funcs' : funcs'[i][1] = "destroy" => conn.closed > 0
    BY <1>2 DEF Parts, DestroysClosed
<1>4. stage = "idle" /\ UNCHANGED <<sent, stage, revents>> BY DEF RunFunc
<1>5. CASE /\ op \in {"mem", "file", "stream"} /\ DeliverNow(op, m)
           /\ sendNum' = sendNum - 1 /\ UNCHANGED <<destroyed, aborted>>
  <2>1. IsSend(funcs[1]) BY <1>5 DEF IsSend
  <2>2. sendNum > 0 /\ m = sent - sendNum + 1 /\ Queued(Tail(funcs), sendNum - 1, sent)
      BY <1>1, <2>1, RunSendKeeps
  <2>3. Queued(funcs', sendNum', sent') BY <1>2, <1>4, <1>5, <2>2
  <2> HIDE DEF m, op
  <2>4. /\ m \in Msgs /\ sent - sendNum < m /\ sent' - sendNum' = m
        /\ sendNum' \in 0..MaxMsgs /\ sent' \in 0..MaxMsgs
      BY <1>1, <1>4, <1>5, <2>2 DEF Msgs
  <2> QED BY <1>2, <1>3, <1>4, <1>5, <2>3, <2>4, DeliverStep
<1>6. CASE /\ op \in {"shutdown", "forceClose", "destroy"}
           /\ Good(conn, conn', sent - sendNum)
           /\ destroyed' \in BOOLEAN /\ aborted' \in BOOLEAN
           /\ ~conn'.pushedLate => ~aborted'
           /\ UNCHANGED <<sendNum, accepted>>
  <2>1. ~IsSend(funcs[1]) BY <1>6 DEF IsSend
  <2>2. Queued(funcs', sendNum', sent') BY <1>1, <1>2, <1>4, <1>6, <2>1, RunOtherKeeps
  <2>3. Types' BY <1>2, <1>4, <1>6 DEF Parts, Types
  <2>4. Fine(conn', sent' - sendNum') /\ Settled(conn') BY <1>4, <1>6 DEF Good
  <2>5. HandlesOpen' BY <1>4 DEF HandlesOpen
  <2>6. DestroysClosed'
    <3>1. conn.closed \in Nat /\ conn'.closed \in Nat BY <1>1, <2>4, ConnParts DEF Fine
    <3>2. conn.closed > 0 => conn'.closed > 0 BY <1>6, <3>1 DEF Good
    <3> QED BY <1>3, <3>2 DEF DestroysClosed
  <2>7. AcceptedSafe' BY <1>6 DEF Parts, AcceptedSafe, Good, Keeps
  <2> QED BY <1>6, <2>2, <2>3, <2>4, <2>5, <2>6, <2>7 DEF Parts
<1>7. CASE /\ op \in {"shutdown", "forceClose"} /\ conn' = Close(conn, op)
           /\ UNCHANGED <<sendNum, accepted, destroyed, aborted>>
  <2>1. Good(conn, conn', sent - sendNum) BY <1>1, <1>7, CloseGood
  <2>2. ~conn'.pushedLate => ~aborted' BY <1>7, <2>1 DEF Parts, Good
  <2>3. destroyed' \in BOOLEAN /\ aborted' \in BOOLEAN BY <1>7 DEF Parts, Types
  <2> QED BY <1>6, <1>7, <2>1, <2>2, <2>3
<1>8. CASE /\ op = "destroy" /\ conn' = ConnectDestroyed(conn)
           /\ aborted' = (conn'.reading \/ conn'.writing) /\ destroyed' = TRUE
           /\ UNCHANGED <<sendNum, accepted>>
  <2>1. conn.closed > 0 BY <1>2, <1>8 DEF Parts, DestroysClosed
  <2>2. conn.status = "Disconnected" BY <2>1 DEF Parts, Settled
  <2>3. conn' = conn BY <1>8, <2>2 DEF ConnectDestroyed
  <2>4. Good(conn, conn', sent - sendNum) BY <1>1, <2>3, GoodSame
  <2>5. conn.reading \in BOOLEAN /\ conn.writing \in BOOLEAN BY <1>1, ConnParts
  <2>6. aborted' \in BOOLEAN /\ destroyed' \in BOOLEAN BY <1>8
  <2>7. ~conn'.pushedLate => ~aborted' BY <1>8, <2>2, <2>3 DEF Parts, Settled
  <2> QED BY <1>6, <1>8, <2>3, <2>4, <2>6, <2>7
<1> QED BY <1>5, <1>7, <1>8 DEF RunFunc

\* The loop thread handles the events of a poll, and the peer reads or resets.
LEMMA EventSteps ==
    ASSUME Parts,
           \/ \E op \in {"shutdown", "forceClose"} : CloseHere(op)
           \/ ConnectEstablished
           \/ \E more \in SUBSET {"in", "hup"} : Poll(more)
           \/ EventStep \/ PeerReads \/ PeerResets
    PROVE  Parts'
<1> DEFINE top == sent - sendNum
<1>1. /\ conn \in ConnType /\ Fine(conn, top) /\ Settled(conn) /\ HandlesOpen
      /\ stage \in {"idle", "close", "read", "user", "write", "complete"}
      /\ revents \in SUBSET {"in", "out", "hup"}
    BY TopType DEF Parts, Types
<1>2. Good(conn, conn, top) BY <1>1, GoodSame
<1>3. ASSUME NEW op \in {"shutdown", "forceClose"}, CloseHere(op) PROVE Parts'
  <2>1. Good(conn, conn', top) BY <1>1, <1>3, CloseGood DEF CloseHere
  <2>2. HandlesOpen' BY <1>3 DEF CloseHere, LoopInUserCode, HandlesOpen
  <2> QED BY <1>1, <1>3, <2>1, <2>2, ConnStep DEF CloseHere
<1>4. CASE ConnectEstablished
  <2>1. Good(conn, conn', top) BY <1>1, <1>4, EstablishedGood DEF ConnectEstablished
  <2>2. HandlesOpen' BY <1>4 DEF ConnectEstablished, HandlesOpen
  <2> QED BY <1>1, <1>4, <2>1, <2>2, ConnStep DEF ConnectEstablished
<1>5. ASSUME NEW more \in SUBSET {"in", "hup"}, Poll(more) PROVE Parts'
  <2>1. Good(conn, conn', top) BY <1>2, <1>5 DEF Poll
  <2>2. HandlesOpen' BY <1>1, <1>5 DEF Poll, HandlesOpen, Settled
  <2>3. revents' \in SUBSET {"in", "out", "hup"} BY <1>5 DEF Poll, Ready
  <2> QED BY <1>5, <2>1, <2>2, <2>3, ConnStep DEF Poll
<1>6. CASE EventClose
  <2>1. Good(conn, conn', top) /\ HandlesOpen'
    <3>1. CASE conn' = conn BY <1>1, <1>2, <1>6, <3>1 DEF EventClose, HandlesOpen
    <3>2. CASE conn' = HandleClose(conn) /\ stage' = "write"
      <4>1. ~conn.pushedLate => conn.status # "Disconnected"
          BY <1>1, <1>6 DEF EventClose, HandlesOpen
      <4> QED BY <1>1, <3>2, <4>1, HandleCloseGood DEF HandlesOpen
    <3> QED BY <1>6, <3>1, <3>2 DEF EventClose
  <2> QED BY <1>1, <1>6, <2>1, ConnStep DEF EventClose
<1>7. ASSUME NEW what \in {"data", "eof", "error"}, EventRead(what) PROVE Parts'
  <2>1. stage' \in {"user", "write"} /\ HandlesOpen' BY <1>7 DEF EventRead, HandlesOpen
  <2>2. Good(conn, conn', top)
    <3>1. ~conn.pushedLate => conn.status # "Disconnected"
        BY <1>1, <1>7 DEF EventRead, HandlesOpen
    <3>2. conn' = conn \/ conn' = HandleClose(conn) BY <1>7 DEF EventRead
    <3> QED BY <1>1, <1>2, <3>1, <3>2, HandleCloseGood
  <2> QED BY <1>1, <1>7, <2>1, <2>2, ConnStep DEF EventRead
<1>8. CASE ReadReturns
  <2>1. Good(conn, conn', top) /\ HandlesOpen' BY <1>2, <1>8 DEF ReadReturns, HandlesOpen
  <2> QED BY <1>1, <1>8, <2>1, ConnStep DEF ReadReturns
<1>9. CASE EventWrite
  <2> DEFINE c == WriteCallback(conn)
  <2>1. conn.writing /\ conn.list # <<>> BY <1>9 DEF EventWrite
  <2>2. Fine(c, top) /\ Writes(conn, c) BY <1>1, <2>1, WriteCallbackFine
  <2>3. conn.status = "Disconnected" => conn.pushedLate BY <1>1, <2>1 DEF Settled
  <2> HIDE DEF c
  <2>4. Good(conn, c, top) BY <1>1, <2>2, <2>3, WritesGood
  <2>5. Good(c, CloseOnEmpty(c), top) BY <2>4, CloseOnEmptyGood DEF Good
  <2>6. conn' = c \/ conn' = CloseOnEmpty(c) BY <1>9 DEF EventWrite, c
  <2>7. Good(conn, conn', top) BY <1>1, <2>4, <2>5, <2>6, GoodTwice
  <2>8. stage' \in {"idle", "complete"} /\ revents' = {} BY <1>9 DEF EventWrite
  <2>9. HandlesOpen' BY <2>8 DEF HandlesOpen
  <2> QED BY <1>9, <2>7, <2>8, <2>9, ConnStep DEF EventWrite
<1>10. CASE WriteComplete
  <2>1. [conn EXCEPT !.fin = conn.fin \/ conn.status = "Disconnecting"] = conn
      BY <1>1, FinAlready
  <2>2. conn' = CloseOnEmpty(conn) BY <1>10, <2>1 DEF WriteComplete
  <2>3. Good(conn, conn', top) BY <1>1, <2>2, CloseOnEmptyGood
  <2>4. stage' = "idle" /\ HandlesOpen' BY <1>10 DEF WriteComplete, HandlesOpen
  <2> QED BY <1>1, <1>10, <2>3, <2>4, ConnStep DEF WriteComplete
<1>11. CASE WriteNothing
  <2>1. Good(conn, conn', top) /\ HandlesOpen' BY <1>2, <1>11 DEF WriteNothing, HandlesOpen
  <2> QED BY <1>11, <2>1, ConnStep DEF WriteNothing
<1>12. CASE PeerReads
  <2>1. /\ Good(conn, conn', top) /\ conn'.status = conn.status
        /\ conn'.pushedLate = conn.pushedLate
      BY <1>1, <1>12, ReadsGood DEF PeerReads
  <2>2. HandlesOpen' BY <1>1, <1>12, <2>1 DEF PeerReads, HandlesOpen
  <2> QED BY <1>1, <1>12, <2>1, <2>2, ConnStep DEF PeerReads
<1>13. CASE PeerResets
  <2>1. /\ Good(conn, conn', top) /\ conn'.status = conn.status
        /\ conn'.pushedLate = conn.pushedLate
      BY <1>1, <1>13, ResetsGood DEF PeerResets
  <2>2. HandlesOpen' BY <1>1, <1>13, <2>1 DEF PeerResets, HandlesOpen
  <2> QED BY <1>1, <1>13, <2>1, <2>2, ConnStep DEF PeerResets
<1> QED BY <1>3, <1>4, <1>5, <1>6, <1>7, <1>8, <1>9, <1>10, <1>11, <1>12, <1>13
        DEF EventStep

\* IInv is an invariant: data leaves in the order of the calls of send, the
\* write list meets writeCallback's assertions, and what was taken while
\* connected is not lost.
THEOREM Invariance == Spec => []IInv
<1>1. Init => Parts
  <2> SUFFICES ASSUME Init PROVE Parts OBVIOUS
  <2>1. Cap \in 0..Cap /\ MaxMsgs \in Nat BY ConnAssumption
  <2>2. /\ conn \in ConnType /\ conn.wire = <<>> /\ conn.list = <<>> /\ conn.closed = 0
        /\ conn.status = "Connecting" /\ ~conn.fin /\ ~conn.writing /\ ~conn.reading
        /\ ~conn.pushedLate
      BY <2>1 DEF Init, ConnType
  <2>3. Types
    <3>1. funcs \in Seq(Func) BY DEF Init
    <3>2. sendNum \in 0..MaxMsgs /\ sent \in 0..MaxMsgs BY <2>1 DEF Init
    <3>3. /\ stage \in {"idle", "close", "read", "user", "write", "complete"}
          /\ revents \in SUBSET {"in", "out", "hup"} /\ accepted \in SUBSET Msgs
        BY DEF Init
    <3>4. destroyed \in BOOLEAN /\ aborted \in BOOLEAN BY DEF Init
    <3> QED BY <3>1, <3>2, <3>3, <3>4 DEF Types
  <2>4. Fine(conn, sent - sendNum)
    <3>1. ListSane(conn) BY <2>2 DEF ListSane
    <3>2. WireSane(conn.wire) BY <2>2 DEF WireSane, InRow
    <3>3. Ordered(conn.wire, conn.list, sent - sendNum) BY <2>2 DEF Ordered
    <3> QED BY <2>2, <3>1, <3>2, <3>3 DEF Fine
  <2>5. Settled(conn) BY <2>2 DEF Settled
  <2>6. Queued(funcs, sendNum, sent)
    <3>1. sent - sendNum + 1 = 1 /\ sent = 0 /\ sendNum = 0 /\ funcs = <<>> BY DEF Init
    <3>2. DOMAIN funcs = {} /\ (sent - sendNum + 1)..sent = {} BY <3>1
    <3> QED BY <3>1, <3>2 DEF Queued
  <2>7. ~aborted /\ DestroysClosed /\ HandlesOpen /\ AcceptedSafe
      BY <2>2 DEF Init, DestroysClosed, HandlesOpen, AcceptedSafe
  <2> QED BY <2>3, <2>4, <2>5, <2>6, <2>7 DEF Parts
<1>2. Parts /\ [Next]_vars => Parts'
  <2> SUFFICES ASSUME Parts, [Next]_vars PROVE Parts' OBVIOUS
  <2>1. ASSUME NEW op \in {"shutdown", "forceClose"}, CloseElsewhere(op) PROVE Parts'
      BY <2>1, OtherStep DEF CloseElsewhere
  <2>2. CASE QueueDestroy BY <2>2, OtherStep DEF QueueDestroy
  <2>3. CASE UNCHANGED vars
      BY <2>3 DEF vars, Parts, Types, DestroysClosed, HandlesOpen, AcceptedSafe
  <2> QED BY <2>1, <2>2, <2>3, SendStep, RunFuncStep, EventSteps DEF Next, Calls
<1> QED BY <1>1, <1>2, InvParts, PTL DEF Spec

\* "The order of data sending should be same as the order of calls of send()"
\* (TcpConnectionImpl.cpp:335), for any number of threads and messages.
THEOREM SendsInOrder == Spec => []WireInOrder
<1>1. IInv => WireInOrder BY DEF IInv, OrderKept
<1> QED BY <1>1, Invariance, PTL

\* The assertions of writeCallback, of the server's removal of the connection
\* and of Channel::remove hold.
THEOREM AssertionsHold == Spec => []ConnectionSane
<1>1. IInv => ConnectionSane BY DEF IInv
<1> QED BY <1>1, Invariance, PTL

\* shutdown() ends the connection only behind the data.
THEOREM GracefulEnd == Spec => []FinAfterData
<1>1. IInv => FinAfterData BY DEF IInv, AcceptedHeld, FinAfterData, OnWire
<1> QED BY <1>1, Invariance, PTL
=============================================================================

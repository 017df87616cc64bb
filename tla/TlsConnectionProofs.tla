------------------------- MODULE TlsConnectionProofs ------------------------
(***************************************************************************)
(* Proofs about TlsConnection, for any mix of messages and any size of the *)
(* socket's buffer: before the handshake is over and the peer accepted the *)
(* program is told of nothing but a connection's end, and the records      *)
(* leave in the order OpenSSL made them, all of them before the end of the *)
(* stream.                                                                 *)
(***************************************************************************)
EXTENDS TlsConnection, SequenceTheorems, TLAPS

-----------------------------------------------------------------------------
(* Records, chunks and sequences *)

LEMMA RecParts ==
    /\ \A k \in {"flight", "msg", "alert"}, n \in Nat : <<k, n>> \in Rec
    /\ \A r \in Rec, i \in {1, 2} : <<r, i>> \in Chunk
BY DEF Rec, Chunk

\* Two chunks for every record, and of the same kind.
LEMMA ChunksFacts ==
    ASSUME NEW recs \in Seq(Rec)
    PROVE  /\ Chunks(recs) \in Seq(Chunk) /\ Len(Chunks(recs)) = 2 * Len(recs)
           /\ (\A i \in DOMAIN recs : recs[i][1] = "alert") =>
                 \A i \in DOMAIN Chunks(recs) : Chunks(recs)[i][1][1] = "alert"
<1> DEFINE n == Len(recs)
           place(i) == (i + 1) \div 2
           part(i) == 2 - (i % 2)
<1>1. n \in Nat /\ 2 * n \in Nat /\ DOMAIN recs = 1..n OBVIOUS
<1>2. ASSUME NEW i \in 1..(2 * n)
      PROVE  place(i) \in 1..n /\ part(i) \in {1, 2}
    BY <1>1, <1>2
<1> HIDE DEF n, place, part
<1>3. ASSUME NEW i \in 1..(2 * n)
      PROVE  <<recs[place(i)], part(i)>> \in Chunk
  <2>1. place(i) \in 1..n /\ part(i) \in {1, 2} BY <1>2
  <2>2. place(i) \in 1..Len(recs) BY <2>1 DEF n
  <2>3. recs[place(i)] \in Rec BY <2>2, ElementOfSeq
  <2> QED BY <2>1, <2>3, RecParts
<1>4. Chunks(recs) = [i \in 1..(2 * n) |-> <<recs[place(i)], part(i)>>]
  <2> HIDE DEF n
  <2>1. Chunks(recs) = [i \in 1..(2 * Len(recs)) |-> <<recs[(i + 1) \div 2], 2 - (i % 2)>>]
      BY DEF Chunks
  <2> QED BY <2>1, Zenon DEF place, part, n
<1>5. Chunks(recs) \in Seq(Chunk) /\ Len(Chunks(recs)) = 2 * n
    BY <1>1, <1>3, <1>4
<1>6. ASSUME \A i \in DOMAIN recs : recs[i][1] = "alert",
             NEW i \in DOMAIN Chunks(recs)
      PROVE  Chunks(recs)[i][1][1] = "alert"
  <2>1. i \in 1..(2 * n) BY <1>4
  <2>2. Chunks(recs)[i] = <<recs[place(i)], part(i)>> BY <1>4, <2>1
  <2>3. place(i) \in DOMAIN recs
    <3>1. place(i) \in 1..n BY <1>2, <2>1
    <3>2. DOMAIN recs = 1..n BY <1>1
    <3> QED BY <3>1, <3>2
  <2> QED BY <1>6, <2>2, <2>3
<1> QED BY <1>5, <1>6 DEF n

\* Splitting a sequence of chunks after n, between two others.
LEMMA Split ==
    ASSUME NEW S, NEW f \in Seq(S), NEW n \in 0..Len(f)
    PROVE  /\ SubSeq(f, 1, n) \in Seq(S) /\ Len(SubSeq(f, 1, n)) = n
           /\ SubSeq(f, n + 1, Len(f)) \in Seq(S)
           /\ Len(SubSeq(f, n + 1, Len(f))) = Len(f) - n
           /\ \A j \in 1..(Len(f) - n) : SubSeq(f, n + 1, Len(f))[j] = f[n + j]
           /\ SubSeq(f, 1, n) \o SubSeq(f, n + 1, Len(f)) = f
<1> DEFINE a == SubSeq(f, 1, n)
           b == SubSeq(f, n + 1, Len(f))
<1>1. Len(f) \in Nat /\ n \in Nat /\ n <= Len(f) OBVIOUS
<1>2. a \in Seq(S) /\ Len(a) = n /\ \A j \in 1..n : a[j] = f[j] BY <1>1
<1>3. b \in Seq(S) /\ Len(b) = Len(f) - n /\ \A j \in 1..(Len(f) - n) : b[j] = f[n + j]
    BY <1>1
<1>4. a \o b = SubSeq(f, 1, Len(f))
  <2> DEFINE m == 1
             k == Len(f)
  <2>1. m \in 1..(Len(f) + 1) /\ n \in (m - 1)..Len(f) /\ k \in n..Len(f) BY <1>1
  <2> HIDE DEF m, k
  <2>2. SubSeq(f, m, n) \o SubSeq(f, n + 1, k) = SubSeq(f, m, k)
      BY <2>1, ConcatAdjacentSubSeq
  <2> QED BY <2>2 DEF m, k
<1>5. SubSeq(f, 1, Len(f)) = f BY SubSeqFull
<1>6. a \o b = f
  <2> HIDE DEF a, b
  <2> QED BY <1>4, <1>5, Zenon
<1>7. Len(a) = n /\ Len(b) = Len(f) - n BY <1>2, <1>3
<1>8. \A j \in 1..(Len(f) - n) : b[j] = f[n + j] BY <1>3
<1>9. a \in Seq(S) /\ b \in Seq(S) BY <1>2, <1>3
<1> HIDE DEF a, b
<1> QED BY <1>6, <1>7, <1>8, <1>9 DEF a, b

LEMMA SplitChunks ==
    ASSUME NEW f \in Seq(Chunk), NEW n \in 0..Len(f)
    PROVE  /\ SubSeq(f, 1, n) \in Seq(Chunk) /\ Len(SubSeq(f, 1, n)) = n
           /\ SubSeq(f, n + 1, Len(f)) \in Seq(Chunk)
           /\ Len(SubSeq(f, n + 1, Len(f))) = Len(f) - n
           /\ \A j \in 1..(Len(f) - n) : SubSeq(f, n + 1, Len(f))[j] = f[n + j]
           /\ SubSeq(f, 1, n) \o SubSeq(f, n + 1, Len(f)) = f
BY Split

LEMMA ChunksRegroup == \A x, y, z \in Seq(Chunk) : (x \o y) \o z = x \o (y \o z)
BY ConcatAssociative

LEMMA Regroup ==
    /\ \A x, y \in Seq(Chunk) : x \o y \in Seq(Chunk) /\ Len(x \o y) = Len(x) + Len(y)
    /\ \A x, y, z \in Seq(Chunk) : (x \o y) \o z = x \o (y \o z)
    /\ \A x \in Seq(Chunk) : x \o <<>> = x /\ <<>> \o x = x
<1>1. \A x, y \in Seq(Chunk) : x \o y \in Seq(Chunk) /\ Len(x \o y) = Len(x) + Len(y)
    BY ConcatProperties
<1>2. \A x, y, z \in Seq(Chunk) : (x \o y) \o z = x \o (y \o z)
    BY ChunksRegroup
<1>3. \A x \in Seq(Chunk) : x \o <<>> = x /\ <<>> \o x = x
    BY ConcatEmptySeq
<1> QED BY <1>1, <1>2, <1>3

-----------------------------------------------------------------------------
(* The record of the connection: what concerns the stream and what does not *)

Node == [kind : {"mem", "file"}, recs : Seq(Rec)]

\* Nothing but the places of the stream has changed.
Outside(v, w) ==
    /\ v.status = w.status /\ v.writing = w.writing /\ v.list = w.list
    /\ v.closeOnEmpty = w.closeOnEmpty /\ v.hs = w.hs /\ v.valid = w.valid
    /\ v.err = w.err /\ v.fin = w.fin /\ v.ups = w.ups /\ v.errors = w.errors
    /\ v.closes = w.closes /\ v.downs = w.downs /\ v.got = w.got

\* A connection with other places of the stream.
WithStream(w, bio, buf, r, x, m) ==
    [w EXCEPT !.wbio = bio, !.wbuf = buf, !.room = r, !.wire = x, !.made = m]

\* The sets the parts are from, by name: a record that differs in a few parts is
\* in the type whatever these sets are.
Statuses == {"Connecting", "Connected", "Disconnecting", "Disconnected"}
Handshakes == {"new", "going", "done", "failed"}
Flags == BOOLEAN
Places == Seq(Chunk)
Nodes == Seq(Node)
Rooms == 0..Cap
Calls == 0..2

LEMMA ConnTypeIs ==
    ConnType = [status : Statuses, writing : Flags, list : Nodes, closeOnEmpty : Flags,
                hs : Handshakes, valid : Flags, wbio : Places, wbuf : Places,
                err : Flags, room : Rooms, wire : Places, fin : Flags, made : Places,
                ups : Calls, downs : Calls, errors : Calls, closes : Calls, got : Nat]
BY DEF ConnType, Statuses, Handshakes, Flags, Places, Nodes, Rooms, Calls, Node

LEMMA ConnParts ==
    ASSUME NEW w \in ConnType
    PROVE  /\ w.status \in {"Connecting", "Connected", "Disconnecting", "Disconnected"}
           /\ w.writing \in BOOLEAN /\ w.list \in Seq(Node) /\ w.closeOnEmpty \in BOOLEAN
           /\ w.hs \in {"new", "going", "done", "failed"} /\ w.valid \in BOOLEAN
           /\ w.err \in BOOLEAN /\ w.fin \in BOOLEAN
           /\ w.wbio \in Seq(Chunk) /\ w.wbuf \in Seq(Chunk) /\ w.wire \in Seq(Chunk)
           /\ w.made \in Seq(Chunk) /\ w.room \in 0..Cap /\ Cap \in Nat /\ 2 <= Cap
           /\ w.ups \in 0..2 /\ w.errors \in 0..2 /\ w.closes \in 0..2
           /\ w.downs \in 0..2 /\ w.got \in Nat
BY TlsAssumption DEF ConnType, Node

LEMMA TakesFacts ==
    ASSUME NEW w \in ConnType, NEW n \in Nat
    PROVE  /\ Takes(w, n) \in 0..n /\ w.room - Takes(w, n) \in 0..Cap
           /\ w.fin => Takes(w, n) = 0
           /\ (~w.fin /\ n <= w.room) => Takes(w, n) = n
<1>1. w.room \in 0..Cap /\ Cap \in Nat /\ w.fin \in BOOLEAN BY ConnParts
<1> QED BY <1>1 DEF Takes

\* OpenSSL makes records.
LEMMA MakeIs ==
    ASSUME NEW w \in ConnType, NEW recs \in Seq(Rec)
    PROVE  LET v == Make(w, recs) IN
           /\ v \in ConnType /\ Outside(v, w)
           /\ v.wbio = w.wbio \o Chunks(recs) /\ v.made = w.made \o Chunks(recs)
           /\ v.wbuf = w.wbuf /\ v.wire = w.wire /\ v.room = w.room
<1> DEFINE bio == w.wbio \o Chunks(recs)
           m == w.made \o Chunks(recs)
<1>1. bio \in Seq(Chunk) /\ m \in Seq(Chunk) BY ConnParts, ChunksFacts, ConcatProperties
<1>2. Make(w, recs) = WithStream(w, bio, w.wbuf, w.room, w.wire, m)
    BY DEF Make, WithStream, ConnType
<1> HIDE DEF bio, m
<1>3. w.wbuf \in Seq(Chunk) /\ w.wire \in Seq(Chunk) /\ w.room \in 0..Cap BY ConnParts
<1>4. LET v == WithStream(w, bio, w.wbuf, w.room, w.wire, m) IN
      /\ v \in ConnType /\ Outside(v, w)
      /\ v.wbio = bio /\ v.wbuf = w.wbuf /\ v.room = w.room /\ v.wire = w.wire /\ v.made = m
  <2>1. w \in ConnType /\ bio \in Seq(Chunk) /\ w.wbuf \in Seq(Chunk) /\ w.room \in 0..Cap
        /\ w.wire \in Seq(Chunk) /\ m \in Seq(Chunk)
      BY <1>1, <1>3
  <2> DEFINE v == WithStream(w, bio, w.wbuf, w.room, w.wire, m)
  <2>2. v \in ConnType BY <2>1, ConnTypeIs DEF WithStream, Places, Rooms
  <2>3. Outside(v, w) BY DEF ConnType, Outside, WithStream
  <2>4. v.wbio = bio /\ v.wbuf = w.wbuf /\ v.room = w.room /\ v.wire = w.wire /\ v.made = m
      BY <2>1, ConnTypeIs DEF WithStream
  <2> QED BY <2>2, <2>3, <2>4
<1> QED BY <1>2, <1>4 DEF bio, m

\* sendTLSData: a part of wbio_ goes to the wire and the rest to writeBuffer_.
LEMMA SendTLSDataIs ==
    ASSUME NEW w \in ConnType
    PROVE  LET v == SendTLSData(w)
               n == Takes(w, Len(w.wbio)) IN
           /\ v \in ConnType /\ Outside(v, w) /\ n \in 0..Len(w.wbio)
           /\ v.wbio = <<>> /\ v.made = w.made
           /\ v.wbuf = w.wbuf \o SubSeq(w.wbio, n + 1, Len(w.wbio))
           /\ v.wire = w.wire \o SubSeq(w.wbio, 1, n)
           /\ v.room = w.room - n
<1> DEFINE n == Takes(w, Len(w.wbio))
           a == SubSeq(w.wbio, 1, n)
           b == SubSeq(w.wbio, n + 1, Len(w.wbio))
           e == <<>>
           r == w.room - n
           x == w.wire \o a
           y == w.wbuf \o b
<1>1. w.wbio \in Seq(Chunk) /\ Len(w.wbio) \in Nat /\ w.wire \in Seq(Chunk)
      /\ w.wbuf \in Seq(Chunk) /\ w.made \in Seq(Chunk)
    BY ConnParts
<1>2. n \in 0..Len(w.wbio) /\ r \in 0..Cap BY <1>1, TakesFacts
<1>3. SendTLSData(w) = WithStream(w, e, y, r, x, w.made)
    BY DEF SendTLSData, Write, WithStream, ConnType
<1>4. a \in Seq(Chunk) /\ b \in Seq(Chunk) BY <1>1, <1>2, SplitChunks
<1> HIDE DEF n, a, b
<1>5. x \in Seq(Chunk) /\ y \in Seq(Chunk) /\ e \in Seq(Chunk)
    BY <1>1, <1>4, ConcatProperties, EmptySeq
<1> HIDE DEF r, x, y, e
<1>6. LET v == WithStream(w, e, y, r, x, w.made) IN
      /\ v \in ConnType /\ Outside(v, w)
      /\ v.wbio = e /\ v.wbuf = y /\ v.room = r /\ v.wire = x /\ v.made = w.made
  <2>1. w \in ConnType /\ e \in Seq(Chunk) /\ y \in Seq(Chunk) /\ r \in 0..Cap
        /\ x \in Seq(Chunk) /\ w.made \in Seq(Chunk)
      BY <1>1, <1>2, <1>5
  <2> QED BY <2>1 DEF ConnType, Outside, WithStream
<1> QED BY <1>2, <1>3, <1>6 DEF n, a, b, e, r, x, y

\* sendBufferedData: a part of writeBuffer_ goes to the wire.
LEMMA SendBufferedDataIs ==
    ASSUME NEW w \in ConnType
    PROVE  LET v == SendBufferedData(w)
               n == Takes(w, Len(w.wbuf)) IN
           /\ v \in ConnType /\ Outside(v, w) /\ n \in 0..Len(w.wbuf)
           /\ v.wbio = w.wbio /\ v.made = w.made
           /\ v.wbuf = SubSeq(w.wbuf, n + 1, Len(w.wbuf))
           /\ v.wire = w.wire \o SubSeq(w.wbuf, 1, n)
<1> DEFINE n == Takes(w, Len(w.wbuf))
           a == SubSeq(w.wbuf, 1, n)
           b == SubSeq(w.wbuf, n + 1, Len(w.wbuf))
           r == w.room - n
           x == w.wire \o a
<1>1. w.wbio \in Seq(Chunk) /\ Len(w.wbuf) \in Nat /\ w.wire \in Seq(Chunk)
      /\ w.wbuf \in Seq(Chunk) /\ w.made \in Seq(Chunk)
    BY ConnParts
<1>2. n \in 0..Len(w.wbuf) /\ r \in 0..Cap BY <1>1, TakesFacts
<1>3. SendBufferedData(w) = WithStream(w, w.wbio, b, r, x, w.made)
    BY DEF SendBufferedData, Write, WithStream, ConnType
<1>4. a \in Seq(Chunk) /\ b \in Seq(Chunk) BY <1>1, <1>2, SplitChunks
<1> HIDE DEF n, a, b
<1>5. x \in Seq(Chunk) BY <1>1, <1>4, ConcatProperties
<1> HIDE DEF r, x
<1>6. LET v == WithStream(w, w.wbio, b, r, x, w.made) IN
      /\ v \in ConnType /\ Outside(v, w)
      /\ v.wbio = w.wbio /\ v.wbuf = b /\ v.room = r /\ v.wire = x /\ v.made = w.made
  <2>1. w \in ConnType /\ w.wbio \in Seq(Chunk) /\ b \in Seq(Chunk) /\ r \in 0..Cap
        /\ x \in Seq(Chunk) /\ w.made \in Seq(Chunk)
      BY <1>1, <1>2, <1>4, <1>5
  <2> QED BY <2>1 DEF ConnType, Outside, WithStream
<1> QED BY <1>2, <1>3, <1>6 DEF n, a, b, r, x

-----------------------------------------------------------------------------
(* The stream: nothing of it is lost and nothing overtakes *)

OneStream(w) == w.made = (w.wire \o w.wbuf) \o w.wbio

LEMMA FlushKeeps ==
    ASSUME NEW w \in ConnType, w.wbuf = <<>> \/ w.wbio = <<>>
    PROVE  /\ OneStream(w) => OneStream(SendTLSData(w))
           /\ w.wbio = <<>> => /\ SendTLSData(w).wbuf = w.wbuf
                               /\ SendTLSData(w).wire = w.wire
                               /\ SendTLSData(w).room = w.room
<1> DEFINE v == SendTLSData(w)
           n == Takes(w, Len(w.wbio))
           a == SubSeq(w.wbio, 1, n)
           b == SubSeq(w.wbio, n + 1, Len(w.wbio))
<1>1. w.wbio \in Seq(Chunk) /\ w.wire \in Seq(Chunk) /\ w.wbuf \in Seq(Chunk)
      /\ w.made \in Seq(Chunk) /\ <<>> \in Seq(Chunk) /\ w.room \in 0..Cap /\ Cap \in Nat
    BY ConnParts, EmptySeq
<1>2. /\ n \in 0..Len(w.wbio) /\ v.wbio = <<>> /\ v.made = w.made
      /\ v.wbuf = w.wbuf \o b /\ v.wire = w.wire \o a /\ v.room = w.room - n
    BY SendTLSDataIs
<1>3. a \in Seq(Chunk) /\ b \in Seq(Chunk) /\ a \o b = w.wbio
      /\ Len(a) = n /\ Len(b) = Len(w.wbio) - n
  <2> HIDE DEF n
  <2> QED BY <1>1, <1>2, SplitChunks
<1> HIDE DEF v, n, a, b
<1>4. CASE w.wbio = <<>>
  <2>1. n = 0 /\ Len(a) = 0 /\ Len(b) = 0 BY <1>1, <1>2, <1>3, <1>4
  <2>2. a = <<>> /\ b = <<>> BY <1>3, <2>1, EmptySeq
  <2>3. v.wbuf = w.wbuf /\ v.wire = w.wire /\ v.room = w.room
      BY <1>1, <1>2, <2>1, <2>2, Regroup
  <2> QED BY <1>2, <1>4, <2>3 DEF v, OneStream
<1>5. CASE w.wbuf = <<>> /\ w.wbio # <<>>
  <2>1. v.wbuf = b BY <1>2, <1>3, <1>5, Regroup
  <2>2. w.wire \o w.wbuf = w.wire BY <1>1, <1>5, Regroup
  <2>3. (v.wire \o v.wbuf) \o v.wbio = (w.wire \o a) \o b
    <3>1. w.wire \o a \in Seq(Chunk) BY <1>1, <1>3, Regroup
    <3>2. (w.wire \o a) \o b \in Seq(Chunk) BY <3>1, <1>3, Regroup
    <3> QED BY <1>1, <1>2, <2>1, <3>2, Regroup
  <2>4. (w.wire \o a) \o b = w.wire \o w.wbio
    <3>1. w.wire \in Seq(Chunk) /\ a \in Seq(Chunk) /\ b \in Seq(Chunk) BY <1>1, <1>3
    <3> DEFINE x == w.wire
    <3> HIDE DEF x, a, b
    <3>2. x \in Seq(Chunk) BY <3>1 DEF x
    <3>3. (x \o a) \o b = x \o (a \o b) BY <3>1, <3>2, ChunksRegroup
    <3> QED BY <1>3, <3>3 DEF x
  <2> QED BY <1>2, <1>5, <2>2, <2>3, <2>4 DEF v, OneStream
<1> QED BY <1>4, <1>5

LEMMA MakeKeeps ==
    ASSUME NEW w \in ConnType, NEW recs \in Seq(Rec), OneStream(w)
    PROVE  OneStream(Make(w, recs))
<1> DEFINE u == Make(w, recs)
           t == Chunks(recs)
           x == w.wire
           y == w.wbuf
           z == w.wbio
<1>1. x \in Seq(Chunk) /\ y \in Seq(Chunk) /\ z \in Seq(Chunk) BY ConnParts
<1>2. t \in Seq(Chunk) BY ChunksFacts
<1>3. u.wbio = z \o t /\ u.made = w.made \o t /\ u.wbuf = y /\ u.wire = x BY MakeIs
<1>4. w.made = (x \o y) \o z BY DEF OneStream
<1> HIDE DEF u, t, x, y, z
<1>5. ((x \o y) \o z) \o t = (x \o y) \o (z \o t)
  <2> DEFINE xy == x \o y
  <2>1. xy \in Seq(Chunk) BY <1>1, Regroup
  <2> HIDE DEF xy
  <2>2. (xy \o z) \o t = xy \o (z \o t) BY <1>1, <1>2, <2>1, ChunksRegroup
  <2> QED BY <2>2 DEF xy
<1>6. u.made = (u.wire \o u.wbuf) \o u.wbio BY <1>3, <1>4, <1>5
<1> QED BY <1>6 DEF OneStream, u

\* New records are made and sent on when writeBuffer_ is empty: they are behind
\* what was in wbio_, and what waits then is of the new ones alone.
LEMMA SendNew ==
    ASSUME NEW w \in ConnType, NEW recs \in Seq(Rec), w.wbuf = <<>>,
           w.wbio = <<>> \/ (Len(w.wbio) <= w.room /\ ~w.fin)
    PROVE  LET v == SendTLSData(Make(w, recs)) IN
           /\ v \in ConnType /\ Outside(v, w) /\ v.wbio = <<>>
           /\ v.made = w.made \o Chunks(recs)
           /\ OneStream(w) => OneStream(v)
           /\ (\A i \in DOMAIN recs : recs[i][1] = "alert") =>
                 \A i \in DOMAIN v.wbuf : v.wbuf[i][1][1] = "alert"
<1> DEFINE u == Make(w, recs)
           v == SendTLSData(u)
           n == Takes(u, Len(u.wbio))
           t == Chunks(recs)
           f == u.wbio
           b == SubSeq(f, n + 1, Len(f))
<1>1. w.wbio \in Seq(Chunk) /\ w.wire \in Seq(Chunk) /\ w.wbuf \in Seq(Chunk)
      /\ w.made \in Seq(Chunk) /\ w.room \in 0..Cap /\ Cap \in Nat /\ w.fin \in BOOLEAN
    BY ConnParts
<1>2. t \in Seq(Chunk) BY ChunksFacts
<1>3. /\ u \in ConnType /\ Outside(u, w)
      /\ u.wbio = w.wbio \o t /\ u.made = w.made \o t
      /\ u.wbuf = w.wbuf /\ u.wire = w.wire /\ u.room = w.room
    BY MakeIs
<1> HIDE DEF u
<1>4. /\ v \in ConnType /\ Outside(v, u) /\ n \in 0..Len(f)
      /\ v.wbio = <<>> /\ v.made = u.made /\ v.wbuf = u.wbuf \o b
    BY <1>3, SendTLSDataIs
<1>5. ASSUME OneStream(w) PROVE OneStream(v)
  <2>3. OneStream(u) BY <1>5, MakeKeeps DEF u
  <2> QED BY <1>3, <2>3, FlushKeeps
<1>6. f \in Seq(Chunk) /\ Len(f) = Len(w.wbio) + Len(t) BY <1>1, <1>2, <1>3, Regroup
<1>7. b \in Seq(Chunk) /\ Len(b) = Len(f) - n
      /\ \A j \in 1..(Len(f) - n) : b[j] = f[n + j]
  <2> HIDE DEF n, f
  <2> QED BY <1>4, <1>6, SplitChunks
<1>8. v.wbuf = b BY <1>3, <1>4, <1>7, Regroup
<1>9. Len(w.wbio) <= n
  <2> DEFINE l == Len(w.wbio)
             m == Len(t)
             r == w.room
  <2>1. l \in Nat /\ m \in Nat /\ r \in Nat /\ Len(f) = l + m /\ u.fin = w.fin /\ u.room = r
      BY <1>1, <1>2, <1>3, <1>6 DEF Outside
  <2>2. n \in Nat /\ (w.wbio = <<>> => l = 0) BY <1>4, <2>1
  <2>3. ~w.fin => n = IF l + m < r THEN l + m ELSE r BY <2>1 DEF Takes
  <2>4. l = 0 \/ (l <= r /\ ~w.fin) BY <2>2
  <2> HIDE DEF n, l, m, r
  <2>5. l <= n BY <2>1, <2>2, <2>3, <2>4
  <2> QED BY <2>5 DEF l
<1>10. ASSUME \A i \in DOMAIN recs : recs[i][1] = "alert", NEW i \in DOMAIN v.wbuf
       PROVE  v.wbuf[i][1][1] = "alert"
  <2> DEFINE l == Len(w.wbio)
             k == n + i - l
  <2>1. i \in 1..(Len(f) - n) /\ v.wbuf[i] = f[n + i] BY <1>7, <1>8
  <2>2. l \in Nat /\ n \in Nat /\ l <= n /\ Len(t) \in Nat /\ Len(f) = l + Len(t)
    <3> HIDE DEF n, f, t
    <3> QED BY <1>1, <1>2, <1>4, <1>6, <1>9
  <2>3. k \in 1..Len(t) /\ n + i \in 1..(l + Len(t)) /\ n + i > l
    <3> HIDE DEF n, l, f, t
    <3> QED BY <2>1, <2>2 DEF k
  <2>4. f[n + i] = t[k]
    <3> DEFINE g == w.wbio
               q == n + i
    <3>1. g \in Seq(Chunk) /\ f = g \o t BY <1>1, <1>3
    <3>2. q \in 1..(Len(g) + Len(t)) /\ q > Len(g) /\ k = q - Len(g)
      <4>1. Len(g) = l OBVIOUS
      <4> HIDE DEF n, t, f, l, g
      <4> QED BY <2>1, <2>2, <2>3, <4>1 DEF k, q
    <3> HIDE DEF g, q, k, f, t
    <3>3. f[q] = t[k] BY <1>2, <3>1, <3>2, ConcatProperties
    <3> QED BY <3>3 DEF q
  <2>5. k \in DOMAIN t BY <1>2, <2>3
  <2>6. t[k][1][1] = "alert" BY <1>10, <2>5, ChunksFacts
  <2> QED BY <2>1, <2>4, <2>6
<1>11. Outside(v, w) BY <1>3, <1>4 DEF Outside
<1> QED BY <1>3, <1>4, <1>5, <1>10, <1>11 DEF u

-----------------------------------------------------------------------------
(* The handlers *)

Good(w) == w \in ConnType /\ StatusSane(w) /\ StreamSane(w)

\* What the handlers that run after the handshake leave behind.
Serves(v, w) ==
    /\ Good(v) /\ v.valid = w.valid
    /\ v.wbio = <<>> \/ v.wbio = w.wbio

LEMMA StatusKept ==
    ASSUME NEW w \in ConnType, NEW v \in ConnType, Outside(v, w), StatusSane(w)
    PROVE  StatusSane(v)
BY DEF Outside, StatusSane

LEMMA WbioFits ==
    ASSUME NEW w, Good(w)
    PROVE  /\ w.wbuf = <<>> \/ w.wbio = <<>>
           /\ w.wbio = <<>> \/ (Len(w.wbio) <= w.room /\ ~w.fin)
<1>1. w \in ConnType /\ StreamSane(w) BY DEF Good
<1>2. 2 <= Cap BY <1>1, ConnParts
<1>3. LastFlight \in Seq(Rec) /\ Len(LastFlight) = 1 BY RecParts DEF LastFlight
<1>4. Len(Chunks(LastFlight)) = 2
  <2>1. Len(Chunks(LastFlight)) = 2 * Len(LastFlight) BY <1>3, ChunksFacts
  <2> QED BY <1>3, <2>1
<1> QED BY <1>1, <1>2, <1>4 DEF StreamSane

LEMMA StreamFacts ==
    ASSUME NEW w \in ConnType
    PROVE  /\ StreamSane(w) => (~w.err => OneStream(w))
           /\ (w.wbio = <<>> /\ ~w.fin /\ (~w.err => OneStream(w))) => StreamSane(w)
           /\ (w.wbio = <<>> /\ (~w.err => OneStream(w))
                 /\ \A i \in DOMAIN w.wbuf : w.wbuf[i][1][1] = "alert") => StreamSane(w)
           /\ (w.wbio = <<>> /\ w.err) => StreamSane(w)
BY DEF StreamSane, OneStream

\* New records on a connection that is not closed for writing.
LEMMA SendNewGood ==
    ASSUME NEW w, Good(w), NEW recs \in Seq(Rec), w.wbuf = <<>>, ~w.fin, ~w.err
    PROVE  LET v == SendTLSData(Make(w, recs)) IN
           Good(v) /\ Outside(v, w) /\ v.wbio = <<>> /\ v.made = w.made \o Chunks(recs)
<1> DEFINE v == SendTLSData(Make(w, recs))
<1>1. w \in ConnType /\ StatusSane(w) /\ StreamSane(w) BY DEF Good
<1>2. w.wbio = <<>> \/ (Len(w.wbio) <= w.room /\ ~w.fin) BY WbioFits
<1>3. /\ v \in ConnType /\ Outside(v, w) /\ v.wbio = <<>>
      /\ v.made = w.made \o Chunks(recs) /\ (OneStream(w) => OneStream(v))
    BY <1>1, <1>2, SendNew
<1> HIDE DEF v
<1>4. OneStream(v) BY <1>1, <1>3, StreamFacts
<1>5. ~v.fin BY <1>3 DEF Outside
<1>6. StreamSane(v) BY <1>3, <1>4, <1>5, StreamFacts
<1>7. StatusSane(v) BY <1>1, <1>3, StatusKept
<1> QED BY <1>3, <1>6, <1>7 DEF Good, v

\* sendTLSData without new records.
LEMMA FlushGood ==
    ASSUME NEW w, Good(w), w.wbio = <<>> \/ ~w.fin
    PROVE  LET v == SendTLSData(w) IN
           Good(v) /\ Outside(v, w) /\ v.wbio = <<>>
<1> DEFINE v == SendTLSData(w)
<1>1. w \in ConnType /\ StatusSane(w) /\ StreamSane(w) BY DEF Good
<1>2. w.wbuf = <<>> \/ w.wbio = <<>> BY WbioFits
<1>3. v \in ConnType /\ Outside(v, w) /\ v.wbio = <<>> BY <1>1, SendTLSDataIs
<1>4. (OneStream(w) => OneStream(v)) /\ (w.wbio = <<>> => v.wbuf = w.wbuf)
    BY <1>1, <1>2, FlushKeeps
<1> HIDE DEF v
<1>5. v.err = w.err /\ v.fin = w.fin BY <1>3 DEF Outside
<1>6. ~v.err => OneStream(v) BY <1>1, <1>4, <1>5, StreamFacts
<1>7. StreamSane(v)
  <2>1. CASE ~v.fin BY <1>3, <1>6, <2>1, StreamFacts
  <2>2. CASE v.err BY <1>3, <2>2, StreamFacts
  <2>3. CASE v.fin /\ ~v.err
    <3>1. w.wbio = <<>> /\ v.wbuf = w.wbuf BY <1>4, <1>5, <2>3
    <3>2. \A i \in DOMAIN w.wbuf : w.wbuf[i][1][1] = "alert"
        BY <1>1, <1>5, <2>3 DEF StreamSane
    <3> QED BY <1>3, <1>6, <3>1, <3>2, StreamFacts
  <2> QED BY <2>1, <2>2, <2>3
<1>8. StatusSane(v) BY <1>1, <1>3, StatusKept
<1> QED BY <1>3, <1>7, <1>8 DEF Good, v

\* A list in which only the node in front may be empty.
ListSane(l) == l \in Seq(Node) /\ \A i \in 2..Len(l) : l[i].recs # <<>>

LEMMA NodeParts ==
    /\ \A x \in Node : x.kind \in {"mem", "file"} /\ x.recs \in Seq(Rec)
    /\ \A k \in {"mem", "file"}, s \in Seq(Rec) :
          /\ [kind |-> k, recs |-> s] \in Node
          /\ [kind |-> k, recs |-> s].recs = s
BY DEF Node

\* Replacing the records of one node.
LEMMA NodePut ==
    ASSUME NEW l, ListSane(l), NEW k \in 1..Len(l), NEW s \in Seq(Rec), k = 1 \/ s # <<>>
    PROVE  LET p == [l EXCEPT ![k].recs = s] IN
           ListSane(p) /\ p # <<>>
<1> DEFINE x == [l[k] EXCEPT !.recs = s]
           p == [l EXCEPT ![k].recs = s]
<1>1. l \in Seq(Node) /\ l[k] \in Node /\ \A i \in 2..Len(l) : l[i].recs # <<>>
    BY DEF ListSane
<1>2. x \in Node /\ x.recs = s BY <1>1 DEF Node
<1>3. p = [l EXCEPT ![k] = x] OBVIOUS
<1> HIDE DEF x, p
<1>4. p \in Seq(Node) /\ Len(p) = Len(l)
      /\ \A j \in 1..Len(l) : p[j] = IF j = k THEN x ELSE l[j]
    BY <1>1, <1>2, <1>3, ExceptSeq
<1>5. ASSUME NEW i \in 2..Len(p) PROVE p[i].recs # <<>>
  <2>1. i \in 1..Len(l) /\ i \in 2..Len(l) /\ i # 1 BY <1>1, <1>4
  <2>2. CASE i = k BY <1>2, <1>4, <2>1, <2>2
  <2>3. CASE i # k BY <1>1, <1>4, <2>1, <2>3
  <2> QED BY <2>2, <2>3
<1>6. p # <<>> BY <1>1, <1>4
<1> QED BY <1>4, <1>5, <1>6 DEF ListSane, p

LEMMA NodeAppend ==
    ASSUME NEW l, ListSane(l), NEW k \in {"mem", "file"}, NEW s \in Seq(Rec), s # <<>>
    PROVE  LET p == Append(l, [kind |-> k, recs |-> s]) IN
           /\ ListSane(p) /\ p # <<>> /\ Len(p) = Len(l) + 1
           /\ p[Len(p)].recs = s
<1> DEFINE x == [kind |-> k, recs |-> s]
           p == Append(l, x)
<1>1. l \in Seq(Node) /\ \A i \in 2..Len(l) : l[i].recs # <<>> BY DEF ListSane
<1>2. x \in Node /\ x.recs = s BY NodeParts
<1> HIDE DEF x
<1>3. p \in Seq(Node) /\ Len(p) = Len(l) + 1 /\ p[Len(l) + 1] = x
      /\ \A i \in 1..Len(l) : p[i] = l[i]
    BY <1>1, <1>2
<1> HIDE DEF p
<1>4. ASSUME NEW i \in 2..Len(p) PROVE p[i].recs # <<>>
  <2>1. CASE i = Len(l) + 1 BY <1>2, <1>3, <2>1
  <2>2. CASE i # Len(l) + 1
    <3>1. i \in 1..Len(l) /\ i \in 2..Len(l) BY <1>1, <1>3, <2>2
    <3> QED BY <1>1, <1>3, <3>1
  <2> QED BY <2>1, <2>2
<1>5. p # <<>> BY <1>1, <1>3
<1> QED BY <1>2, <1>3, <1>4, <1>5 DEF ListSane, p, x

LEMMA NodeTail ==
    ASSUME NEW l, ListSane(l), l # <<>>
    PROVE  ListSane(Tail(l)) /\ (Tail(l) # <<>> => Tail(l)[1].recs # <<>>)
<1> DEFINE p == Tail(l)
<1>1. l \in Seq(Node) /\ \A i \in 2..Len(l) : l[i].recs # <<>> BY DEF ListSane
<1>2. p \in Seq(Node) /\ Len(p) = Len(l) - 1 /\ \A i \in 1..Len(p) : p[i] = l[i + 1]
    BY <1>1
<1> HIDE DEF p
<1>3. ASSUME NEW i \in 1..Len(p) PROVE p[i].recs # <<>>
  <2>1. i + 1 \in 2..Len(l) BY <1>1, <1>2
  <2> QED BY <1>1, <1>2, <2>1
<1>4. p # <<>> => 1 \in 1..Len(p) BY <1>2
<1> QED BY <1>2, <1>3, <1>4 DEF ListSane, p

\* A connection with another list.
Listed(v, w) ==
    /\ v.status = w.status /\ v.closeOnEmpty = w.closeOnEmpty /\ v.hs = w.hs
    /\ v.valid = w.valid /\ v.err = w.err /\ v.fin = w.fin /\ v.ups = w.ups
    /\ v.errors = w.errors /\ v.closes = w.closes /\ v.downs = w.downs /\ v.got = w.got
    /\ v.wbio = w.wbio /\ v.wbuf = w.wbuf /\ v.room = w.room /\ v.wire = w.wire
    /\ v.made = w.made

\* A list on a connection that serves.
LEMMA ListedGood ==
    ASSUME NEW w, Good(w), NEW v \in ConnType, Listed(v, w), ListSane(v.list),
           v.writing => v.list # <<>> /\ w.status = "Connected" /\ w.valid
    PROVE  Good(v)
<1>1. w \in ConnType /\ StatusSane(w) /\ StreamSane(w) BY DEF Good
<1>2. \A i \in 2..Len(v.list) : v.list[i].recs # <<>> BY DEF ListSane
<1>3. StatusSane(v) BY <1>1, <1>2 DEF StatusSane, Listed
<1>4. StreamSane(v) BY <1>1 DEF StreamSane, Listed
<1> QED BY <1>3, <1>4 DEF Good

LEMMA ConnectedFacts ==
    ASSUME NEW w, Good(w)
    PROVE  /\ w \in ConnType /\ ListSane(w.list)
           /\ w.status = "Connected" => ~w.fin /\ ~w.err
           /\ w.writing => w.list # <<>> /\ w.status = "Connected" /\ w.valid
<1>1. w \in ConnType /\ StatusSane(w) BY DEF Good
<1> QED BY <1>1, ConnParts DEF StatusSane, ListSane

LEMMA SendDataGood ==
    ASSUME NEW w, Good(w), w.status = "Connected", NEW recs \in Seq(Rec), NEW k \in 0..Len(recs)
    PROVE  LET v == SendData(w, recs, k) IN
           /\ Good(v) /\ Outside(v, w) /\ (v.wbio = <<>> \/ v.wbio = w.wbio)
           /\ Unsent(w, recs, k) \in Seq(Rec)
<1> DEFINE s == SubSeq(recs, 1, k)
           t == SubSeq(recs, k + 1, Len(recs))
           v == SendData(w, recs, k)
<1>1. s \in Seq(Rec) /\ t \in Seq(Rec) BY Split
<1>2. Unsent(w, recs, k) \in Seq(Rec) BY <1>1 DEF Unsent
<1> HIDE DEF t
<1>3. CASE w.wbuf # <<>>
  <2>1. v = w BY <1>3 DEF SendData
  <2>2. Good(v) /\ Outside(v, w) /\ v.wbio = w.wbio BY <2>1 DEF Outside
  <2> QED BY <1>2, <2>2
<1>4. CASE w.wbuf = <<>>
  <2>1. v = SendTLSData(Make(w, s)) BY <1>4 DEF SendData
  <2>2. ~w.fin /\ ~w.err BY ConnectedFacts
  <2> HIDE DEF v, s
  <2>3. Good(v) /\ Outside(v, w) /\ v.wbio = <<>> BY <1>1, <1>4, <2>1, <2>2, SendNewGood
  <2> QED BY <1>2, <2>3 DEF v
<1> QED BY <1>3, <1>4

\* Writing goes on: with data the socket or OpenSSL took, and another list.
Sent(v, w) == Serves(v, w) /\ v.status = w.status

LEMMA SentWith ==
    ASSUME NEW w, Good(w), NEW u, Good(u), Outside(u, w), u.wbio = <<>> \/ u.wbio = w.wbio,
           NEW v \in ConnType, Listed(v, u), ListSane(v.list),
           v.writing => v.list # <<>> /\ w.status = "Connected" /\ w.valid
    PROVE  Sent(v, w)
<1>1. u.status = w.status /\ u.valid = w.valid BY DEF Outside
<1>2. Good(v) BY <1>1, ListedGood
<1> QED BY <1>1, <1>2 DEF Sent, Serves, Listed

LEMMA FrontIs ==
    ASSUME NEW u \in ConnType, NEW s \in Seq(Rec), NEW b \in BOOLEAN, u.list # <<>>
    PROVE  /\ [u EXCEPT !.list[1].recs = s, !.writing = b]
                = [u EXCEPT !.list = [u.list EXCEPT ![1].recs = s], !.writing = b]
           /\ [u EXCEPT !.list[1].recs = s]
                = [u EXCEPT !.list = [u.list EXCEPT ![1].recs = s], !.writing = u.writing]
BY DEF ConnType

\* sendFileInLoop asks for room in the socket and lets the rest wait.
LEMMA SendFileInLoopGood ==
    ASSUME NEW w, Good(w), w.status = "Connected", w.valid, w.list # <<>>
    PROVE  Sent(SendFileInLoop(w), w)
<1> DEFINE recs == w.list[1].recs
           n == Len(recs)
           k == IF n <= w.room \div 2 THEN n ELSE (w.room \div 2) + 1
           u == SendData(w, recs, k)
           s == Unsent(w, recs, k)
           l == [w.list EXCEPT ![1].recs = s]
           b == TRUE
<1>1. w \in ConnType /\ ListSane(w.list) /\ w.list \in Seq(Node) BY ConnectedFacts DEF ListSane
<1>2. 1 \in 1..Len(w.list) BY <1>1
<1>3. recs \in Seq(Rec) BY <1>1, <1>2, NodeParts
<1>4. k \in 0..n
  <2>1. n \in Nat /\ w.room \in Nat BY <1>1, <1>3, ConnParts
  <2> HIDE DEF n
  <2> QED BY <2>1
<1> HIDE DEF k
<1>5. /\ Good(u) /\ Outside(u, w) /\ (u.wbio = <<>> \/ u.wbio = w.wbio)
      /\ s \in Seq(Rec)
    BY <1>3, <1>4, SendDataGood
<1>6. SendFileInLoop(w) = [u EXCEPT !.list[1].recs = s, !.writing = b]
    BY DEF SendFileInLoop, k
<1> HIDE DEF u, s, b
<1>7. ListSane(l) /\ l # <<>> BY <1>1, <1>2, <1>5, NodePut
<1>8. u.list = w.list /\ u \in ConnType BY <1>5, ConnectedFacts DEF Outside
<1>9. b \in BOOLEAN BY DEF b
<1>10. SendFileInLoop(w) = [u EXCEPT !.list = l, !.writing = b]
    BY <1>5, <1>6, <1>8, <1>9, FrontIs
<1> HIDE DEF l
<1> DEFINE v == [u EXCEPT !.list = l, !.writing = b]
<1>11. v \in ConnType /\ Listed(v, u) /\ v.list = l
  <2>1. l \in Seq(Node) BY <1>7 DEF ListSane
  <2> QED BY <1>8, <1>9, <2>1 DEF ConnType, Listed, Node
<1> HIDE DEF v
<1>12. Sent(v, w) BY <1>5, <1>7, <1>11, SentWith
<1> QED BY <1>10, <1>12 DEF v

LEMMA OutsideSame == ASSUME NEW w PROVE Outside(w, w)
BY DEF Outside

LEMMA SentTwice ==
    ASSUME NEW u, NEW v, NEW w, Sent(v, u), Sent(u, w)
    PROVE  Sent(v, w)
BY DEF Sent, Serves

LEMMA SentFromOutside ==
    ASSUME NEW v, NEW w, Good(v), Outside(v, w), v.wbio = <<>> \/ v.wbio = w.wbio
    PROVE  Sent(v, w)
BY DEF Sent, Serves, Outside

\* The connection with another list, as it stands.
LEMMA RelistGood ==
    ASSUME NEW w, Good(w), NEW l, ListSane(l), l # <<>> \/ ~w.writing
    PROVE  LET v == [w EXCEPT !.list = l] IN Sent(v, w) /\ v.list = l /\ v.writing = w.writing
<1> DEFINE v == [w EXCEPT !.list = l]
<1>1. w \in ConnType /\ (w.writing => w.status = "Connected" /\ w.valid) BY ConnectedFacts
<1>2. l \in Seq(Node) BY DEF ListSane
<1>3. v \in ConnType /\ Listed(v, w) /\ v.list = l /\ v.writing = w.writing
    BY <1>1, <1>2 DEF ConnType, Listed, Node
<1> HIDE DEF v
<1>4. Sent(v, w) BY <1>1, <1>3, OutsideSame, SentWith
<1> QED BY <1>3, <1>4 DEF v

LEMMA PushFileGood ==
    ASSUME NEW w, Good(w), w.status = "Connected", w.valid, NEW recs \in Seq(Rec), recs # <<>>
    PROVE  Serves(PushFile(w, recs), w)
<1> DEFINE k == "file"
           l == Append(w.list, [kind |-> k, recs |-> recs])
           v == [w EXCEPT !.list = l]
<1>1. ListSane(w.list) BY ConnectedFacts
<1>2. k \in {"mem", "file"} OBVIOUS
<1> HIDE DEF k
<1>3. ListSane(l) /\ l # <<>> BY <1>1, <1>2, NodeAppend
<1>4. PushFile(w, recs) = IF Len(v.list) = 1 THEN SendFileInLoop(v) ELSE v
    BY DEF PushFile, k
<1> HIDE DEF l
<1>5. Sent(v, w) /\ v.list = l BY <1>3, RelistGood
<1> HIDE DEF v
<1>6. Good(v) /\ v.status = "Connected" /\ v.valid BY <1>5 DEF Sent, Serves
<1>7. Sent(SendFileInLoop(v), v) BY <1>3, <1>5, <1>6, SendFileInLoopGood
<1>8. Sent(SendFileInLoop(v), w) BY <1>5, <1>7, SentTwice
<1> QED BY <1>4, <1>5, <1>8 DEF Sent

\* The node in front goes on.
LEMMA SendFrontGood ==
    ASSUME NEW w, Good(w), w.status = "Connected", w.valid, w.list # <<>>,
           w.list[1].recs # <<>>
    PROVE  Sent(SendFront(w), w)
<1> DEFINE recs == w.list[1].recs
           k == 1
           u == SendData(w, recs, k)
           s == Unsent(w, recs, k)
           l == [w.list EXCEPT ![1].recs = s]
           v == [u EXCEPT !.list = l, !.writing = u.writing]
<1>1. CASE w.list[1].kind = "file" BY <1>1, SendFileInLoopGood DEF SendFront
<1>2. CASE w.list[1].kind # "file"
  <2>1. w \in ConnType /\ ListSane(w.list) /\ w.list \in Seq(Node) BY ConnectedFacts DEF ListSane
  <2>2. 1 \in 1..Len(w.list) BY <2>1
  <2>3. recs \in Seq(Rec) BY <2>1, <2>2, NodeParts
  <2>4. k \in 0..Len(recs) BY <2>3
  <2>5. SendFront(w) = [u EXCEPT !.list[1].recs = s] BY <1>2 DEF SendFront
  <2> HIDE DEF k
  <2>6. /\ Good(u) /\ Outside(u, w) /\ (u.wbio = <<>> \/ u.wbio = w.wbio)
        /\ s \in Seq(Rec)
      BY <2>3, <2>4, SendDataGood
  <2> HIDE DEF u, s
  <2>7. ListSane(l) /\ l # <<>> BY <2>1, <2>2, <2>6, NodePut
  <2>8. u.list = w.list /\ u \in ConnType /\ u.writing \in BOOLEAN
      BY <2>6, ConnectedFacts, ConnParts DEF Outside
  <2>9. SendFront(w) = v BY <2>5, <2>6, <2>8, FrontIs
  <2> HIDE DEF l
  <2>10. v \in ConnType /\ Listed(v, u) /\ v.list = l
    <3>1. l \in Seq(Node) BY <2>7 DEF ListSane
    <3> QED BY <2>8, <3>1 DEF ConnType, Listed, Node
  <2> HIDE DEF v
  <2>11. Sent(v, w) BY <2>6, <2>7, <2>10, SentWith
  <2> QED BY <2>9, <2>11
<1> QED BY <1>1, <1>2

LEMMA NextNodeGood ==
    ASSUME NEW w, Good(w), w.status = "Connected", w.valid, w.list # <<>>
    PROVE  Sent(NextNode(w), w)
<1> DEFINE l == Tail(w.list)
           v == [w EXCEPT !.list = l]
           b == FALSE
           e == [w EXCEPT !.list = l, !.writing = b]
<1>1. w \in ConnType /\ ListSane(w.list) /\ ~w.fin /\ ~w.err BY ConnectedFacts
<1>2. ListSane(l) /\ (l # <<>> => l[1].recs # <<>>) BY <1>1, NodeTail
<1>3. l \in Seq(Node) BY <1>2 DEF ListSane
<1>4. CASE l = <<>>
  <2>1. NextNode(w) = e
    <3>1. v.list = l BY <1>1 DEF ConnType
    <3>2. NextNode(w) = [v EXCEPT !.writing = FALSE, !.fin = @ \/ w.status = "Disconnecting"]
        BY <1>4, <3>1 DEF NextNode
    <3>3. (w.fin \/ w.status = "Disconnecting") = w.fin BY <1>1, ConnParts
    <3> HIDE DEF l
    <3> QED BY <1>1, <3>2, <3>3 DEF ConnType
  <2>2. b \in BOOLEAN OBVIOUS
  <2> HIDE DEF b, l
  <2>3. e \in ConnType /\ Listed(e, w) /\ e.list = l /\ e.writing = b
      BY <1>1, <1>3, <2>2 DEF ConnType, Listed, Node
  <2> HIDE DEF e
  <2>4. ~e.writing BY <2>3 DEF b
  <2>5. Sent(e, w) BY <1>2, <2>3, <2>4, OutsideSame, SentWith
  <2> QED BY <2>1, <2>5
<1>5. CASE l # <<>>
  <2> HIDE DEF l
  <2>1. Sent(v, w) /\ v.list = l BY <1>2, <1>5, RelistGood
  <2>2. NextNode(w) = SendFront(v) BY <1>5, <2>1 DEF NextNode, l
  <2> HIDE DEF v
  <2>3. Good(v) /\ v.status = "Connected" /\ v.valid BY <2>1 DEF Sent, Serves
  <2>4. Sent(SendFront(v), v) BY <1>2, <1>5, <2>1, <2>3, SendFrontGood
  <2> QED BY <2>1, <2>2, <2>4, SentTwice
<1> QED BY <1>4, <1>5

CloseNotify == <<<<"alert", 0>>>>

\* shutdown: the close_notify is the only thing that may be left behind.
LEMMA ShutdownGood ==
    ASSUME NEW w, Good(w), w.valid
    PROVE  Serves(Shutdown(w), w)
<1>1. w \in ConnType /\ StatusSane(w) /\ StreamSane(w) BY DEF Good
<1>2. w.hs = "done" BY <1>1 DEF StatusSane
<1> DEFINE u == SendTLSData(Make(w, CloseNotify))
           b == TRUE
<1>3. CASE w.status # "Connected" BY <1>3 DEF Shutdown, Serves
<1>4. CASE w.status = "Connected" /\ (w.wbuf # <<>> \/ w.list # <<>>)
  <2> DEFINE v == [w EXCEPT !.closeOnEmpty = b]
  <2>1. Shutdown(w) = v BY <1>4 DEF Shutdown
  <2>2. b \in BOOLEAN OBVIOUS
  <2> HIDE DEF b
  <2>3. v \in ConnType BY <1>1, <2>2 DEF ConnType
  <2>4. StatusSane(v) /\ StreamSane(v) /\ v.valid = w.valid /\ v.wbio = w.wbio
      BY <1>1 DEF StatusSane, StreamSane, ConnType
  <2> QED BY <2>1, <2>3, <2>4 DEF Serves, Good
<1>5. CASE w.status = "Connected" /\ w.wbuf = <<>> /\ w.list = <<>>
  <2> DEFINE d == "Disconnecting"
             v == [u EXCEPT !.status = d, !.fin = b]
  <2>1. w.writing = FALSE /\ ~w.fin /\ ~w.err BY <1>1, <1>5, ConnParts DEF StatusSane
  <2>2. CloseNotify \in Seq(Rec) /\ \A i \in DOMAIN CloseNotify : CloseNotify[i][1] = "alert"
      BY RecParts DEF CloseNotify
  <2>3. w.wbio = <<>> \/ (Len(w.wbio) <= w.room /\ ~w.fin) BY WbioFits
  <2>4. /\ u \in ConnType /\ Outside(u, w) /\ u.wbio = <<>>
        /\ OneStream(w) => OneStream(u)
        /\ \A i \in DOMAIN u.wbuf : u.wbuf[i][1][1] = "alert"
    <3> HIDE DEF u
    <3> QED BY <1>1, <1>5, <2>2, <2>3, SendNew DEF u
  <2>5. Shutdown(w) = [u EXCEPT !.status = "Disconnecting", !.fin = @ \/ ~w.writing]
      BY <1>2, <1>5 DEF Shutdown, CloseNotify
  <2> HIDE DEF u
  <2>6. (u.fin \/ ~w.writing) = b BY <2>1
  <2>7. Shutdown(w) = v BY <2>4, <2>5, <2>6 DEF ConnType
  <2>8. b \in BOOLEAN /\ d \in {"Connecting", "Connected", "Disconnecting", "Disconnected"}
      OBVIOUS
  <2> HIDE DEF b, d
  <2>9. /\ v \in ConnType /\ v.status = d /\ v.fin = b
        /\ v.writing = u.writing /\ v.list = u.list /\ v.hs = u.hs /\ v.valid = u.valid
        /\ v.err = u.err /\ v.ups = u.ups /\ v.errors = u.errors /\ v.closes = u.closes
        /\ v.downs = u.downs
        /\ v.got = u.got /\ v.wbio = u.wbio /\ v.wbuf = u.wbuf /\ v.room = u.room
        /\ v.wire = u.wire /\ v.made = u.made
      BY <2>4, <2>8 DEF ConnType
  <2> HIDE DEF v
  <2>10. StatusSane(v) BY <1>1, <1>2, <1>5, <2>1, <2>4, <2>9 DEF StatusSane, Outside, d
  <2>11. OneStream(v) BY <1>1, <2>1, <2>4, <2>9, StreamFacts DEF OneStream
  <2>12. StreamSane(v) BY <2>4, <2>9, <2>11, StreamFacts
  <2> QED BY <2>4, <2>7, <2>9, <2>10, <2>12 DEF Serves, Good, Outside
<1> QED BY <1>3, <1>4, <1>5

\* handleClose, of a connection that was open.
LEMMA HandleCloseIs ==
    ASSUME NEW w \in ConnType, w.closes = 0, w.downs = 0
    PROVE  LET v == HandleClose(w) IN
           /\ v \in ConnType /\ v.status = "Disconnected" /\ ~v.writing /\ v.closes = 1
           /\ v.downs = 1
           /\ v.list = w.list /\ v.closeOnEmpty = w.closeOnEmpty /\ v.hs = w.hs
           /\ v.valid = w.valid /\ v.err = w.err /\ v.fin = w.fin /\ v.ups = w.ups
           /\ v.errors = w.errors /\ v.got = w.got /\ v.wbio = w.wbio /\ v.wbuf = w.wbuf
           /\ v.room = w.room /\ v.wire = w.wire /\ v.made = w.made
<1> DEFINE b == FALSE
           n == w.closes + 1
           m == w.downs + 1
           d == "Disconnected"
           v == [w EXCEPT !.status = d, !.writing = b, !.downs = m, !.closes = n]
<1>1. HandleClose(w) = v BY DEF HandleClose
<1>2. b \in BOOLEAN /\ n = 1 /\ m = 1 /\ n \in 0..2 /\ m \in 0..2
      /\ d \in {"Connecting", "Connected", "Disconnecting", "Disconnected"}
    OBVIOUS
<1> HIDE DEF b, n, m, d
<1>3. /\ v \in ConnType /\ v.status = d /\ v.writing = b /\ v.closes = n /\ v.downs = m
      /\ v.list = w.list /\ v.closeOnEmpty = w.closeOnEmpty /\ v.hs = w.hs
      /\ v.valid = w.valid /\ v.err = w.err /\ v.fin = w.fin /\ v.ups = w.ups
      /\ v.errors = w.errors /\ v.got = w.got /\ v.wbio = w.wbio /\ v.wbuf = w.wbuf
      /\ v.room = w.room /\ v.wire = w.wire /\ v.made = w.made
  <2>1. v \in ConnType
    <3>1. d \in Statuses /\ b \in Flags /\ n \in Calls /\ m \in Calls
        BY <1>2 DEF Statuses, Flags, Calls
    <3> QED BY <3>1, ConnTypeIs
  <2>2. v.status = d /\ v.writing = b /\ v.closes = n /\ v.downs = m BY DEF ConnType
  <2>3. /\ v.list = w.list /\ v.closeOnEmpty = w.closeOnEmpty /\ v.hs = w.hs
        /\ v.valid = w.valid /\ v.err = w.err /\ v.fin = w.fin /\ v.ups = w.ups
        /\ v.errors = w.errors /\ v.got = w.got
      BY DEF ConnType
  <2>4. /\ v.wbio = w.wbio /\ v.wbuf = w.wbuf
        /\ v.room = w.room /\ v.wire = w.wire /\ v.made = w.made
      BY DEF ConnType
  <2> QED BY <2>1, <2>2, <2>3, <2>4
<1> HIDE DEF v
<1>4. ~v.writing BY <1>3 DEF b
<1> QED BY <1>1, <1>2, <1>3, <1>4 DEF d

LEMMA HandleCloseGood ==
    ASSUME NEW w, Good(w), w.status \in {"Connected", "Disconnecting"}
    PROVE  Serves(HandleClose(w), w) /\ HandleClose(w).made = w.made
           /\ HandleClose(w).wire = w.wire /\ HandleClose(w).room = w.room
           /\ HandleClose(w).hs = w.hs /\ HandleClose(w).wbio = w.wbio
<1> DEFINE v == HandleClose(w)
<1>1. w \in ConnType /\ StatusSane(w) /\ StreamSane(w) /\ w.closes = 0 /\ w.downs = 0
    BY DEF Good, StatusSane
<1>2. /\ v \in ConnType /\ v.status = "Disconnected" /\ ~v.writing /\ v.closes = 1
      /\ v.downs = 1
      /\ v.list = w.list /\ v.hs = w.hs
      /\ v.valid = w.valid /\ v.err = w.err /\ v.fin = w.fin /\ v.ups = w.ups
      /\ v.errors = w.errors /\ v.got = w.got /\ v.wbio = w.wbio /\ v.wbuf = w.wbuf
      /\ v.room = w.room /\ v.wire = w.wire /\ v.made = w.made
    BY <1>1, HandleCloseIs
<1> HIDE DEF v
<1>3. StatusSane(v) BY <1>1, <1>2 DEF StatusSane
<1>4. StreamSane(v) BY <1>1, <1>2 DEF StreamSane
<1> QED BY <1>2, <1>3, <1>4 DEF Serves, Good, v

LEMMA ForceCloseGood ==
    ASSUME NEW w, Good(w)
    PROVE  Serves(ForceClose(w), w)
BY HandleCloseGood DEF ForceClose, Serves

\* What an error may find.
Closable(w) ==
    /\ w \in ConnType /\ ListSane(w.list)
    /\ w.status \in {"Connected", "Disconnecting", "Disconnected"}
    /\ w.hs \in {"done", "failed"} /\ (w.valid => w.hs = "done")
    /\ w.ups = (IF w.valid THEN 1 ELSE 0) /\ (w.got > 0 => w.valid)
    /\ w.errors = (IF w.err THEN 1 ELSE 0)
    /\ w.closes = (IF w.status = "Disconnected" THEN 1 ELSE 0)
    /\ w.downs = (IF w.status = "Disconnected" THEN 1 ELSE 0)
    /\ w.err => w.status = "Disconnected"
    /\ w.writing => w.status = "Connected"

LEMMA ErrorCounted ==
    ASSUME NEW w \in ConnType, w.errors = 0
    PROVE  LET v == [w EXCEPT !.err = TRUE, !.errors = @ + 1] IN
           /\ v \in ConnType /\ v.err /\ v.errors = 1
           /\ v.status = w.status /\ v.writing = w.writing /\ v.list = w.list
           /\ v.closeOnEmpty = w.closeOnEmpty /\ v.hs = w.hs /\ v.valid = w.valid
           /\ v.fin = w.fin /\ v.ups = w.ups /\ v.closes = w.closes
           /\ v.downs = w.downs /\ v.got = w.got
           /\ v.wbio = w.wbio
<1> DEFINE b == TRUE
           n == w.errors + 1
           v == [w EXCEPT !.err = b, !.errors = n]
<1>1. b \in BOOLEAN /\ n = 1 /\ n \in 0..2 OBVIOUS
<1>2. v = [w EXCEPT !.err = TRUE, !.errors = @ + 1] OBVIOUS
<1> HIDE DEF b, n
<1>3. v \in ConnType
  <2>1. b \in Flags /\ n \in Calls BY <1>1 DEF Flags, Calls
  <2> QED BY <2>1, ConnTypeIs
<1>4. v.err = b /\ v.errors = n BY DEF ConnType
<1>5. /\ v.status = w.status /\ v.writing = w.writing /\ v.list = w.list
      /\ v.closeOnEmpty = w.closeOnEmpty /\ v.hs = w.hs /\ v.valid = w.valid
      /\ v.fin = w.fin /\ v.ups = w.ups /\ v.closes = w.closes
      /\ v.downs = w.downs /\ v.got = w.got
      /\ v.wbio = w.wbio
    BY DEF ConnType
<1> HIDE DEF v
<1>6. v.err BY <1>4 DEF b
<1> QED BY <1>1, <1>2, <1>3, <1>4, <1>5, <1>6

\* handleSSLError closes the connection, once.
LEMMA HandleSSLErrorGood ==
    ASSUME NEW w, Closable(w)
    PROVE  LET v == HandleSSLError(w) IN
           Good(v) /\ v.wbio = <<>> /\ v.valid = w.valid /\ v.hs = w.hs
<1> DEFINE u == SendTLSData(w)
           x == [u EXCEPT !.err = TRUE, !.errors = @ + 1]
           y == HandleClose(x)
<1>1. w \in ConnType BY DEF Closable
<1>2. u \in ConnType /\ Outside(u, w) /\ u.wbio = <<>> BY <1>1, SendTLSDataIs
<1>3. HandleSSLError(w) = IF u.err THEN u ELSE ForceClose(x) BY DEF HandleSSLError
<1> HIDE DEF u
<1>4. Closable(u) BY <1>1, <1>2 DEF Closable, Outside
<1>5. CASE u.err
  <2>1. StatusSane(u) BY <1>4, <1>5 DEF Closable, StatusSane, ListSane
  <2>2. StreamSane(u) BY <1>2, <1>5, StreamFacts
  <2> QED BY <1>2, <1>3, <1>5, <2>1, <2>2 DEF Good, Outside
<1>6. CASE ~u.err
  <2>1. u.errors = 0 BY <1>4, <1>6 DEF Closable
  <2>2. /\ x \in ConnType /\ x.err /\ x.errors = 1
        /\ x.status = u.status /\ x.writing = u.writing /\ x.list = u.list
        /\ x.closeOnEmpty = u.closeOnEmpty /\ x.hs = u.hs /\ x.valid = u.valid
        /\ x.fin = u.fin /\ x.ups = u.ups /\ x.closes = u.closes
        /\ x.downs = u.downs /\ x.got = u.got
        /\ x.wbio = u.wbio
      BY <1>2, <2>1, ErrorCounted
  <2> HIDE DEF x
  <2>3. CASE x.status = "Disconnected"
    <3>1. HandleSSLError(w) = x BY <1>3, <1>6, <2>3 DEF ForceClose
    <3>2. StatusSane(x) BY <1>4, <2>2, <2>3 DEF Closable, StatusSane, ListSane
    <3>3. StreamSane(x) BY <1>2, <2>2, StreamFacts
    <3> QED BY <1>2, <2>2, <3>1, <3>2, <3>3 DEF Good, Outside
  <2>4. CASE x.status # "Disconnected"
    <3>1. x.status \in {"Connected", "Disconnecting"} /\ x.closes = 0 /\ x.downs = 0
        BY <1>4, <2>2, <2>4 DEF Closable
    <3>2. HandleSSLError(w) = y BY <1>3, <1>6, <3>1 DEF ForceClose
    <3>3. /\ y \in ConnType /\ y.status = "Disconnected" /\ ~y.writing /\ y.closes = 1
          /\ y.downs = 1
          /\ y.list = x.list /\ y.hs = x.hs
          /\ y.valid = x.valid /\ y.err = x.err /\ y.fin = x.fin /\ y.ups = x.ups
          /\ y.errors = x.errors /\ y.got = x.got /\ y.wbio = x.wbio
        BY <2>2, <3>1, HandleCloseIs
    <3> HIDE DEF y
    <3>4. StatusSane(y) BY <1>4, <2>2, <3>3 DEF Closable, StatusSane, ListSane
    <3>5. StreamSane(y) BY <1>2, <2>2, <3>3, StreamFacts
    <3> QED BY <1>2, <2>2, <3>2, <3>3, <3>4, <3>5 DEF Good, Outside
  <2> QED BY <2>3, <2>4
<1> QED BY <1>5, <1>6

LEMMA GoodClosable ==
    ASSUME NEW w, Good(w), w.valid
    PROVE  Closable(w)
<1>1. w \in ConnType /\ StatusSane(w) /\ ListSane(w.list) BY ConnectedFacts DEF Good
<1> QED BY <1>1, ConnParts DEF StatusSane, Closable

\* send, with TLS: one record now, and the rest waits.
LEMMA SendInLoopGood ==
    ASSUME NEW w, Good(w), w.valid, NEW recs \in Seq(Rec), recs # <<>>
    PROVE  Serves(SendInLoop(w, recs), w)
<1> DEFINE k == 1
           direct == ~w.writing /\ w.list = <<>>
           rest == IF direct THEN Unsent(w, recs, k) ELSE recs
           v == IF direct THEN SendData(w, recs, k) ELSE w
           n == Len(v.list)
           old == n > 0 /\ v.list[n].kind = "mem"
           s == v.list[n].recs \o rest
           long == [v.list EXCEPT ![n].recs = s]
           more == Append(v.list, [kind |-> "mem", recs |-> rest])
           list == IF old THEN long ELSE more
           b == TRUE
           z == [v EXCEPT !.list = list, !.writing = b]
<1>1. CASE w.status # "Connected" BY <1>1 DEF SendInLoop, Serves
<1>2. CASE w.status = "Connected"
  <2>1. k \in 0..Len(recs) OBVIOUS
  <2>2. SendInLoop(w, recs) = IF rest = <<>> THEN v ELSE z BY <1>2 DEF SendInLoop
  <2> HIDE DEF k
  <2>3. /\ Good(v) /\ Outside(v, w) /\ (v.wbio = <<>> \/ v.wbio = w.wbio)
        /\ rest \in Seq(Rec)
    <3>1. CASE direct BY <1>2, <2>1, <3>1, SendDataGood
    <3>2. CASE ~direct BY <3>2, OutsideSame
    <3> QED BY <3>1, <3>2
  <2> HIDE DEF rest, v
  <2>4. CASE rest = <<>> BY <2>2, <2>3, <2>4, SentFromOutside DEF Sent
  <2>5. CASE rest # <<>>
    <3>1. v \in ConnType /\ ListSane(v.list) /\ v.list \in Seq(Node)
        BY <2>3, ConnectedFacts DEF ListSane
    <3>2. ASSUME old PROVE ListSane(long) /\ long # <<>>
      <4>1. n \in 1..Len(v.list) BY <3>1, <3>2
      <4>2. v.list[n].recs \in Seq(Rec) BY <3>1, <4>1, NodeParts
      <4>3. s \in Seq(Rec) /\ s # <<>> BY <2>3, <2>5, <4>2
      <4> HIDE DEF n, s
      <4> QED BY <3>1, <4>1, <4>3, NodePut
    <3>3. ListSane(more) /\ more # <<>>
      <4> DEFINE q == "mem"
      <4>1. q \in {"mem", "file"} OBVIOUS
      <4>2. more = Append(v.list, [kind |-> q, recs |-> rest]) OBVIOUS
      <4> HIDE DEF q, more
      <4> QED BY <2>3, <2>5, <3>1, <4>1, <4>2, NodeAppend
    <3>4. ListSane(list) /\ list # <<>> BY <3>2, <3>3
    <3>5. b \in BOOLEAN OBVIOUS
    <3> HIDE DEF list, b
    <3>6. z \in ConnType /\ Listed(z, v) /\ z.list = list
      <4>1. list \in Seq(Node) BY <3>4 DEF ListSane
      <4> QED BY <3>1, <3>5, <4>1 DEF ConnType, Listed, Node
    <3> HIDE DEF z
    <3>7. Sent(z, w) BY <1>2, <2>3, <3>4, <3>6, SentWith
    <3> QED BY <2>2, <2>5, <3>7 DEF Sent
  <2> QED BY <2>4, <2>5
<1> QED BY <1>1, <1>2

\* writeCallback.
LEMMA WriteCallbackGood ==
    ASSUME NEW w, Good(w), w.writing, w.wbio = <<>>
    PROVE  Serves(WriteCallback(w), w)
<1> DEFINE u == SendBufferedData(w)
           v == IF u.list[1].recs = <<>> THEN NextNode(u) ELSE SendFront(u)
           n == Takes(w, Len(w.wbuf))
           x == SubSeq(w.wbuf, 1, n)
           y == SubSeq(w.wbuf, n + 1, Len(w.wbuf))
<1>1. w \in ConnType /\ StatusSane(w) /\ StreamSane(w) BY DEF Good
<1>2. w.list # <<>> /\ w.status = "Connected" /\ w.valid /\ ~w.fin /\ ~w.err
    BY ConnectedFacts
<1>3. /\ u \in ConnType /\ Outside(u, w) /\ n \in 0..Len(w.wbuf)
      /\ u.wbio = w.wbio /\ u.made = w.made /\ u.wbuf = y /\ u.wire = w.wire \o x
    BY <1>1, SendBufferedDataIs
<1>4. WriteCallback(w) =
        IF u.wbuf # <<>> THEN u
        ELSE IF v.closeOnEmpty /\ (v.list = <<>> \/ v.wbuf = <<>>) THEN Shutdown(v) ELSE v
    BY DEF WriteCallback
<1> HIDE DEF u, n
<1>5. w.wbuf \in Seq(Chunk) /\ w.wire \in Seq(Chunk) BY <1>1, ConnParts
<1>6. x \in Seq(Chunk) /\ y \in Seq(Chunk) /\ x \o y = w.wbuf BY <1>3, <1>5, SplitChunks
<1> HIDE DEF x, y
<1>7. OneStream(u)
  <2>1. w.made = (w.wire \o w.wbuf) \o <<>> BY <1>1, <1>2 DEF StreamSane
  <2>2. (w.wire \o x) \o y = w.wire \o (x \o y)
    <3> DEFINE g == w.wire
    <3>1. x \in Seq(Chunk) BY <1>6
    <3>2. y \in Seq(Chunk) BY <1>6
    <3>3. g \in Seq(Chunk) BY <1>5
    <3>4. \A a, b, d \in Seq(Chunk) : (a \o b) \o d = a \o (b \o d) BY Regroup
    <3> HIDE DEF g
    <3>5. (g \o x) \o y = g \o (x \o y) BY <3>1, <3>2, <3>3, <3>4
    <3> QED BY <3>5 DEF g
  <2> QED BY <1>3, <1>6, <2>1, <2>2 DEF OneStream
<1>8. Good(u)
  <2>1. StatusSane(u) BY <1>1, <1>3, StatusKept
  <2>2. ~u.fin BY <1>2, <1>3 DEF Outside
  <2>3. StreamSane(u) BY <1>3, <1>7, <2>2, StreamFacts
  <2> QED BY <1>3, <2>1, <2>3 DEF Good
<1>9. Sent(u, w) BY <1>3, <1>8, SentFromOutside
<1>10. u.status = "Connected" /\ u.valid /\ u.list # <<>> BY <1>2, <1>3 DEF Outside
<1>11. Sent(v, u) BY <1>8, <1>10, NextNodeGood, SendFrontGood
<1> HIDE DEF v
<1>12. Sent(v, w) BY <1>9, <1>11, SentTwice
<1>13. Serves(Shutdown(v), w)
  <2>1. Good(v) /\ v.valid = w.valid /\ (v.wbio = <<>> \/ v.wbio = w.wbio)
      BY <1>12 DEF Sent, Serves
  <2>2. Serves(Shutdown(v), v) BY <1>2, <2>1, ShutdownGood
  <2> QED BY <2>1, <2>2 DEF Serves
<1> QED BY <1>4, <1>9, <1>12, <1>13 DEF Sent

-----------------------------------------------------------------------------
(* The steps *)

Items == rbio \o inbox

LEMMA InvFacts ==
    ASSUME IInv
    PROVE  /\ Good(c) /\ c \in ConnType /\ role \in {"client", "server"}
           /\ inbox \in Seq(Item) /\ rbio \in Seq(Item) /\ Items \in Seq(Item)
           /\ stage \in {"idle", "handshake", "up", "app"}
           /\ sends \in 0..MaxSends /\ inputs \in 0..MaxInput
           /\ peer \in {"hello", "finish", "open", "closed"}
           /\ StatusSane(c) /\ StreamSane(c) /\ StageSane /\ PeerSane
BY DEF IInv, TypeOK, Good, Items

LEMMA MakeInv ==
    ASSUME Good(c)', role' \in {"client", "server"},
           inbox' \in Seq(Item), rbio' \in Seq(Item),
           stage' \in {"idle", "handshake", "up", "app"},
           sends' \in 0..MaxSends, inputs' \in 0..MaxInput,
           peer' \in {"hello", "finish", "open", "closed"},
           StageSane', PeerSane'
    PROVE  IInv'
BY DEF IInv, TypeOK, Good

\* After the handshake the peer has nothing more to say about it.
Late ==
    /\ \A k \in DOMAIN Items : Items[k] \notin {"hello", "finish"}
    /\ peer \notin {"hello", "finish"}

LEMMA LateIs ==
    ASSUME c.hs \in {"done", "failed"}
    PROVE  PeerSane <=> Late
BY DEF PeerSane, Late, Items

LEMMA LateIsPrimed ==
    ASSUME c'.hs \in {"done", "failed"}
    PROVE  PeerSane' <=> Late'
BY DEF PeerSane, Late, Items

\* One item is taken off the front.
LEMMA TailItems ==
    ASSUME NEW r \in Seq(Item), NEW s \in Seq(Item), r # <<>>
    PROVE  /\ Tail(r) \in Seq(Item) /\ Tail(r) \o s \in Seq(Item)
           /\ 1 \in DOMAIN (r \o s) /\ (r \o s)[1] = r[1]
           /\ Len(Tail(r) \o s) = Len(r \o s) - 1
           /\ \A k \in DOMAIN (Tail(r) \o s) :
                 /\ k + 1 \in DOMAIN (r \o s) /\ k + 1 # 1
                 /\ (Tail(r) \o s)[k] = (r \o s)[k + 1]
<1> DEFINE t == Tail(r)
<1>1. t \in Seq(Item) /\ Len(t) = Len(r) - 1 /\ \A k \in 1..Len(t) : t[k] = r[k + 1]
    OBVIOUS
<1>2. Len(r) \in Nat /\ Len(r) >= 1 /\ Len(s) \in Nat OBVIOUS
<1> HIDE DEF t
<1>3. r \o s \in Seq(Item) /\ Len(r \o s) = Len(r) + Len(s) OBVIOUS
<1>4. t \o s \in Seq(Item) /\ Len(t \o s) = Len(r) + Len(s) - 1
  <2>1. t \o s \in Seq(Item) /\ Len(t \o s) = Len(t) + Len(s) BY <1>1, ConcatProperties
  <2>2. Len(t) = Len(r) - 1 BY <1>1
  <2> QED BY <1>2, <2>1, <2>2
<1>5. 1 \in DOMAIN (r \o s) /\ (r \o s)[1] = r[1] BY <1>2, <1>3
<1>6. ASSUME NEW k \in DOMAIN (t \o s)
      PROVE  /\ k + 1 \in DOMAIN (r \o s) /\ k + 1 # 1
             /\ (t \o s)[k] = (r \o s)[k + 1]
  <2>1. k \in 1..(Len(r) + Len(s) - 1) BY <1>2, <1>4
  <2>2. k \in Nat /\ k + 1 \in 1..(Len(r) + Len(s)) /\ k + 1 # 1 BY <1>2, <2>1
  <2>3. k + 1 \in DOMAIN (r \o s) BY <1>3, <2>2
  <2>4. CASE k <= Len(t)
    <3>1. k \in 1..Len(t) /\ k + 1 <= Len(r) BY <1>1, <1>2, <2>2, <2>1, <2>4
    <3>2. (t \o s)[k] = t[k] BY <1>1, <3>1
    <3>3. (r \o s)[k + 1] = r[k + 1] BY <1>2, <2>2, <3>1
    <3> QED BY <1>1, <2>2, <2>3, <3>1, <3>2, <3>3
  <2>5. CASE k > Len(t)
    <3>1. (t \o s)[k] = s[k - Len(t)] BY <1>1, <1>2, <1>4, <2>1, <2>5
    <3>2. (r \o s)[k + 1] = s[(k + 1) - Len(r)] BY <1>1, <1>2, <2>1, <2>2, <2>5
    <3>3. k - Len(t) = (k + 1) - Len(r) BY <1>1, <1>2, <2>2
    <3> QED BY <2>2, <2>3, <3>1, <3>2, <3>3
  <2> QED BY <1>1, <1>2, <2>2, <2>4, <2>5
<1> QED BY <1>1, <1>3, <1>4, <1>5, <1>6, <1>2 DEF t

\* Steps after the handshake.
LEMMA ServesStep ==
    ASSUME IInv, c.valid, Serves(c', c), role' = role, inbox' = inbox, rbio' = rbio,
           inputs' = inputs, peer' = peer, sends' \in 0..MaxSends,
           stage' \in {"idle", "up", "app"},
           stage' = "up" \/ c'.wbio = <<>>
    PROVE  IInv'
<1>1. Good(c') /\ c'.valid = c.valid BY DEF Serves
<1>2. c.hs = "done" /\ c'.hs = "done" BY <1>1, InvFacts DEF Good, StatusSane
<1>3. Late BY <1>2, InvFacts, LateIs
<1>4. Late' BY <1>3 DEF Late, Items
<1>5. PeerSane' BY <1>2, <1>4, LateIsPrimed
<1>6. StageSane' BY <1>1, InvFacts DEF StageSane
<1> QED BY <1>1, <1>5, <1>6, InvFacts, MakeInv

LEMMA Idle ==
    ASSUME IInv, stage # "up"
    PROVE  c.wbio = <<>>
BY InvFacts DEF StageSane

LEMMA ServedStage ==
    ASSUME IInv, Serves(c', c), stage' = stage
    PROVE  stage' = "up" \/ c'.wbio = <<>>
BY Idle DEF Serves

LEMMA UserFacts ==
    ASSUME IInv, InUserCode
    PROVE  c.valid /\ Good(c) /\ stage \in {"idle", "up", "app"}
<1>1. Good(c) /\ c \in ConnType /\ StatusSane(c) BY InvFacts
<1> QED BY <1>1, ConnParts DEF InUserCode, StatusSane

LEMMA SendStep ==
    ASSUME IInv, NEW m \in Messages, Send(m)
    PROVE  IInv'
<1> DEFINE n == m.recs
           recs == [i \in 1..n |-> <<"msg", 10 * sends + i>>]
<1>1. c.valid /\ Good(c) /\ stage \in {"idle", "up", "app"} BY UserFacts DEF Send
<1>2. n \in Nat \ {0} BY TlsAssumption
<1>3. sends \in 0..MaxSends /\ MaxSends \in Nat BY InvFacts, TlsAssumption
<1>4. recs \in Seq(Rec) /\ recs # <<>>
  <2>1. \A i \in 1..n : <<"msg", 10 * sends + i>> \in Rec BY <1>3, RecParts
  <2> HIDE DEF n
  <2>2. recs \in [1..n -> Rec] BY <2>1
  <2>3. recs \in Seq(Rec) /\ Len(recs) = n BY <1>2, <2>2
  <2> QED BY <1>2, <2>3
<1>5. c' = IF m.kind = "file" THEN PushFile(c, recs) ELSE SendInLoop(c, recs)
    BY DEF Send
<1> HIDE DEF recs
<1>6. Serves(c', c)
  <2>1. CASE m.kind = "file"
    <3>1. c.status = "Connected" BY <2>1 DEF Send
    <3> QED BY <1>1, <1>4, <1>5, <2>1, <3>1, PushFileGood
  <2>2. CASE m.kind # "file" BY <1>1, <1>4, <1>5, <2>2, SendInLoopGood
  <2> QED BY <2>1, <2>2
<1>7. /\ role' = role /\ inbox' = inbox /\ rbio' = rbio /\ inputs' = inputs /\ peer' = peer
      /\ stage' = stage /\ sends' \in 0..MaxSends
    BY <1>3 DEF Send
<1>8. stage' = "up" \/ c'.wbio = <<>> BY <1>6, <1>7, ServedStage
<1> QED BY <1>1, <1>6, <1>7, <1>8, ServesStep

LEMMA CallShutdownStep ==
    ASSUME IInv, CallShutdown
    PROVE  IInv'
<1>1. c.valid /\ Good(c) /\ stage \in {"idle", "up", "app"} BY UserFacts DEF CallShutdown
<1>2. Serves(c', c) BY <1>1, ShutdownGood DEF CallShutdown
<1>3. /\ role' = role /\ inbox' = inbox /\ rbio' = rbio /\ inputs' = inputs /\ peer' = peer
      /\ stage' = stage /\ sends' \in 0..MaxSends
    BY InvFacts DEF CallShutdown
<1>4. stage' = "up" \/ c'.wbio = <<>> BY <1>2, <1>3, ServedStage
<1> QED BY <1>1, <1>2, <1>3, <1>4, ServesStep

LEMMA CallForceCloseStep ==
    ASSUME IInv, CallForceClose
    PROVE  IInv'
<1>1. c.valid /\ Good(c) /\ stage \in {"idle", "up", "app"} BY UserFacts DEF CallForceClose
<1>2. Serves(c', c) BY <1>1, ForceCloseGood DEF CallForceClose
<1>3. /\ role' = role /\ inbox' = inbox /\ rbio' = rbio /\ inputs' = inputs /\ peer' = peer
      /\ stage' = stage /\ sends' \in 0..MaxSends
    BY InvFacts DEF CallForceClose
<1>4. stage' = "up" \/ c'.wbio = <<>> BY <1>2, <1>3, ServedStage
<1> QED BY <1>1, <1>2, <1>3, <1>4, ServesStep

LEMMA EventWriteStep ==
    ASSUME IInv, EventWrite
    PROVE  IInv'
<1>1. c.wbio = <<>> /\ stage = "idle" BY Idle DEF EventWrite
<1>2. Good(c) /\ c.writing /\ c.valid BY InvFacts, ConnectedFacts DEF EventWrite
<1>3. Serves(c', c) BY <1>1, <1>2, WriteCallbackGood DEF EventWrite
<1>4. /\ role' = role /\ inbox' = inbox /\ rbio' = rbio /\ inputs' = inputs /\ peer' = peer
      /\ stage' = stage /\ sends' \in 0..MaxSends
    BY InvFacts DEF EventWrite
<1>5. stage' = "up" \/ c'.wbio = <<>> BY <1>3, <1>4, ServedStage
<1> QED BY <1>1, <1>2, <1>3, <1>4, <1>5, ServesStep

LEMMA HandshakeReturnsStep ==
    ASSUME IInv, HandshakeReturns
    PROVE  IInv'
<1>1. stage = "up" /\ c.valid /\ Good(c) BY InvFacts DEF HandshakeReturns, StageSane
<1>2. c.wbio = <<>> \/ ~c.fin BY <1>1, WbioFits
<1>3. Good(c') /\ Outside(c', c) /\ c'.wbio = <<>> BY <1>1, <1>2, FlushGood DEF HandshakeReturns
<1>4. Serves(c', c) BY <1>3 DEF Serves, Outside
<1>5. /\ role' = role /\ inbox' = inbox /\ rbio' = rbio /\ inputs' = inputs /\ peer' = peer
      /\ stage' = "app" /\ sends' \in 0..MaxSends
    BY InvFacts DEF HandshakeReturns
<1> QED BY <1>1, <1>3, <1>4, <1>5, ServesStep

\* A message for the program.
LEMMA GotGood ==
    ASSUME NEW w, Good(w), w.valid
    PROVE  Serves([w EXCEPT !.got = @ + 1], w)
<1> DEFINE n == w.got + 1
           v == [w EXCEPT !.got = n]
<1>1. w \in ConnType /\ StatusSane(w) /\ StreamSane(w) BY DEF Good
<1>2. n \in Nat BY <1>1, ConnParts
<1> HIDE DEF n
<1>3. v \in ConnType BY <1>1, <1>2 DEF ConnType
<1>4. /\ v.status = w.status /\ v.writing = w.writing /\ v.list = w.list
      /\ v.closeOnEmpty = w.closeOnEmpty /\ v.hs = w.hs /\ v.valid = w.valid
      /\ v.err = w.err /\ v.fin = w.fin /\ v.ups = w.ups /\ v.errors = w.errors
      /\ v.closes = w.closes
      /\ v.downs = w.downs /\ v.wbio = w.wbio /\ v.wbuf = w.wbuf /\ v.room = w.room
      /\ v.wire = w.wire /\ v.made = w.made
    BY <1>1 DEF ConnType
<1> HIDE DEF v
<1>5. StatusSane(v) BY <1>1, <1>4 DEF StatusSane
<1>6. StreamSane(v) BY <1>1, <1>4 DEF StreamSane
<1> QED BY <1>3, <1>4, <1>5, <1>6 DEF Serves, Good, n, v

LEMMA AlertClosable ==
    ASSUME NEW w, Closable(w), NEW n \in Nat
    PROVE  Closable(Make(w, <<<<"alert", n>>>>)) /\ Make(w, <<<<"alert", n>>>>).valid = w.valid
           /\ Make(w, <<<<"alert", n>>>>).hs = w.hs
<1> DEFINE recs == <<<<"alert", n>>>>
           v == Make(w, recs)
<1>1. recs \in Seq(Rec) BY RecParts
<1> HIDE DEF recs
<1>2. v \in ConnType /\ Outside(v, w) BY <1>1, MakeIs DEF Closable
<1> HIDE DEF v
<1>3. Closable(v) BY <1>2 DEF Closable, Outside
<1> QED BY <1>2, <1>3 DEF v, recs, Outside

LEMMA ProcessApplicationDataStep ==
    ASSUME IInv, ProcessApplicationData
    PROVE  IInv'
<1>1. stage = "app" /\ c.valid /\ Good(c) BY InvFacts DEF ProcessApplicationData, StageSane
<1>2. c.wbio = <<>> BY <1>1, Idle
<1>3. /\ role' = role /\ inbox' = inbox /\ inputs' = inputs /\ peer' = peer
      /\ stage' \in {"idle", "app"} /\ sends' \in 0..MaxSends
    BY InvFacts DEF ProcessApplicationData
<1>4. CASE rbio = <<>>
  <2>1. c' = c /\ rbio' = rbio BY <1>4 DEF ProcessApplicationData
  <2>2. Serves(c', c) BY <1>1, <2>1 DEF Serves
  <2> QED BY <1>1, <1>2, <1>3, <2>1, <2>2, ServesStep
<1>5. CASE rbio # <<>>
  <2>1. rbio' = Tail(rbio) BY <1>5 DEF ProcessApplicationData
  <2>2. Serves(c', c)
    <3>1. CASE c' = [c EXCEPT !.got = @ + 1] BY <1>1, <3>1, GotGood
    <3>2. CASE c' = Shutdown(c) BY <1>1, <3>2, ShutdownGood
    <3>3. CASE c' = HandleSSLError(Make(c, <<<<"alert", 3>>>>))
      <4> DEFINE u == Make(c, <<<<"alert", 3>>>>)
      <4>1. Closable(c) BY <1>1, GoodClosable
      <4>2. Closable(u) /\ u.valid = c.valid BY <4>1, AlertClosable
      <4> HIDE DEF u
      <4>3. LET v == HandleSSLError(u) IN Good(v) /\ v.wbio = <<>> /\ v.valid = u.valid
          BY <4>2, HandleSSLErrorGood
      <4> QED BY <3>3, <4>2, <4>3 DEF Serves, u
    <3> QED BY <1>5, <3>1, <3>2, <3>3 DEF ProcessApplicationData
  <2>3. Good(c') /\ c'.valid /\ c'.wbio = <<>> BY <1>1, <1>2, <2>2 DEF Serves
  <2>4. c.hs = "done" /\ c'.hs = "done" BY <1>1, <2>3 DEF Good, StatusSane
  <2>5. Late BY <2>4, InvFacts, LateIs
  <2>6. rbio' \in Seq(Item) /\ Late'
    <3>1. rbio \in Seq(Item) /\ inbox \in Seq(Item) BY InvFacts
    <3>2. Items' = Tail(rbio) \o inbox BY <1>3, <2>1 DEF Items
    <3> DEFINE s == Tail(rbio) \o inbox
               t == rbio \o inbox
    <3>3. /\ Tail(rbio) \in Seq(Item)
          /\ \A k \in DOMAIN s : k + 1 \in DOMAIN t /\ s[k] = t[k + 1]
        BY <1>5, <3>1, TailItems
    <3>4. \A k \in DOMAIN t : t[k] \notin {"hello", "finish"} BY <2>5 DEF Late, Items
    <3> HIDE DEF s, t
    <3>5. \A k \in DOMAIN s : s[k] \notin {"hello", "finish"} BY <3>3, <3>4
    <3>6. Items' = s BY <3>2 DEF s
    <3> QED BY <1>3, <2>1, <2>5, <3>3, <3>5, <3>6 DEF Late
  <2>7. PeerSane' BY <2>4, <2>6, LateIsPrimed
  <2>8. StageSane' BY <1>3, <2>3 DEF StageSane
  <2> QED BY <1>3, <2>3, <2>6, <2>7, <2>8, InvFacts, MakeInv
<1> QED BY <1>4, <1>5

LEMMA ItemsRegroup == \A x, y, z \in Seq(Item) : (x \o y) \o z = x \o (y \o z)
BY ConcatAssociative

\* Items move from the socket to OpenSSL.
LEMMA MoveItems ==
    ASSUME NEW r \in Seq(Item), NEW s \in Seq(Item), NEW n \in 1..Len(s)
    PROVE  LET a == SubSeq(s, 1, n)
               b == SubSeq(s, n + 1, Len(s)) IN
           r \o a \in Seq(Item) /\ b \in Seq(Item) /\ (r \o a) \o b = r \o s
<1> DEFINE a == SubSeq(s, 1, n)
           b == SubSeq(s, n + 1, Len(s))
<1>1. n \in 0..Len(s) OBVIOUS
<1>2. a \in Seq(Item) /\ b \in Seq(Item) /\ a \o b = s BY <1>1, Split
<1>3. a \in Seq(Item) BY <1>2
<1>4. b \in Seq(Item) BY <1>2
<1> HIDE DEF a, b
<1>5. r \o a \in Seq(Item) BY <1>3, ConcatProperties
<1>6. (r \o a) \o b = r \o (a \o b)
  <2> QED BY <1>3, <1>4, ItemsRegroup
<1> QED BY <1>2, <1>5, <1>6 DEF a, b

LEMMA OpenFacts ==
    ASSUME IInv, stage = "idle", c.status \in {"Connected", "Disconnecting"}
    PROVE  /\ c.wbio = <<>>
           /\ c.hs = "done" => c.valid
           /\ c.hs # "done" => c.hs = "going" /\ c.status = "Connected"
<1>1. c \in ConnType /\ StatusSane(c) BY InvFacts
<1> QED BY <1>1, Idle, ConnParts DEF StatusSane

LEMMA RecvDataStep ==
    ASSUME IInv, NEW n \in 1..Len(inbox), RecvData(n)
    PROVE  IInv'
<1>1. rbio \in Seq(Item) /\ inbox \in Seq(Item) BY InvFacts
<1>2. /\ rbio' = rbio \o SubSeq(inbox, 1, n) /\ inbox' = SubSeq(inbox, n + 1, Len(inbox))
      /\ stage' = IF c.hs = "done" THEN "app" ELSE "handshake"
      /\ c' = c /\ role' = role /\ sends' = sends /\ inputs' = inputs /\ peer' = peer
    BY DEF RecvData
<1>3. rbio' \in Seq(Item) /\ inbox' \in Seq(Item) /\ rbio' \o inbox' = rbio \o inbox
    BY <1>1, <1>2, MoveItems
<1>4. PeerSane' BY <1>2, <1>3, InvFacts DEF PeerSane
<1>5. /\ c.wbio = <<>> /\ (c.hs = "done" => c.valid)
      /\ c.hs # "done" => c.hs = "going" /\ c.status = "Connected"
    BY OpenFacts DEF RecvData
<1>6. StageSane' BY <1>2, <1>5 DEF StageSane
<1>7. Good(c)' BY <1>2, InvFacts DEF Good, StatusSane, StreamSane
<1> QED BY <1>2, <1>3, <1>4, <1>6, <1>7, InvFacts, MakeInv

LEMMA ReadEofStep ==
    ASSUME IInv, ReadEof
    PROVE  IInv'
<1>1. stage = "idle" /\ c.status \in {"Connected", "Disconnecting"} /\ Good(c)
    BY InvFacts DEF ReadEof
<1>2. /\ Serves(c', c) /\ c'.made = c.made /\ c'.wire = c.wire /\ c'.room = c.room
      /\ c'.hs = c.hs /\ c'.wbio = c.wbio
    BY <1>1, HandleCloseGood DEF ReadEof
<1>3. /\ rbio' = rbio /\ inbox' = inbox /\ stage' = stage /\ role' = role
      /\ sends' = sends /\ inputs' = inputs /\ peer' = peer
    BY DEF ReadEof
<1>4. PeerSane' BY <1>2, <1>3, InvFacts DEF PeerSane
<1>5. StageSane' BY <1>1, <1>2, <1>3, Idle DEF StageSane
<1>6. Good(c') BY <1>2 DEF Serves
<1> QED BY <1>3, <1>4, <1>5, <1>6, InvFacts, MakeInv

\* The peer has read everything.
LEMMA RoomGood ==
    ASSUME NEW w, Good(w), NEW r \in {w.room, Cap}
    PROVE  LET v == [w EXCEPT !.room = r] IN
           /\ Good(v) /\ v.room = r /\ v.status = w.status /\ v.hs = w.hs /\ v.valid = w.valid
           /\ v.wbio = w.wbio /\ v.made = w.made /\ v.wire = w.wire
<1> DEFINE v == [w EXCEPT !.room = r]
<1>1. w \in ConnType /\ StatusSane(w) /\ StreamSane(w) BY DEF Good
<1>2. r \in 0..Cap BY <1>1, ConnParts
<1>3. v \in ConnType BY <1>1, <1>2 DEF ConnType
<1>4. /\ v.status = w.status /\ v.writing = w.writing /\ v.list = w.list
      /\ v.closeOnEmpty = w.closeOnEmpty /\ v.hs = w.hs /\ v.valid = w.valid
      /\ v.err = w.err /\ v.fin = w.fin /\ v.ups = w.ups /\ v.errors = w.errors
      /\ v.closes = w.closes
      /\ v.downs = w.downs /\ v.got = w.got /\ v.wbio = w.wbio /\ v.wbuf = w.wbuf
      /\ v.room = r /\ v.wire = w.wire /\ v.made = w.made
    BY <1>1 DEF ConnType
<1> HIDE DEF v
<1>5. StatusSane(v) BY <1>1, <1>4 DEF StatusSane
<1>6. StreamSane(v) BY <1>1, <1>4 DEF StreamSane
<1> QED BY <1>3, <1>4, <1>5, <1>6 DEF Good, v

LEMMA PeerReadsStep ==
    ASSUME IInv, PeerReads
    PROVE  IInv'
<1>1. Good(c) BY InvFacts
<1>2. /\ Good(c') /\ c'.room = Cap /\ c'.status = c.status /\ c'.hs = c.hs
      /\ c'.valid = c.valid /\ c'.wbio = c.wbio /\ c'.made = c.made /\ c'.wire = c.wire
    BY <1>1, RoomGood DEF PeerReads
<1>3. /\ rbio' = rbio /\ inbox' = inbox /\ stage' = stage /\ role' = role
      /\ sends' = sends /\ inputs' = inputs /\ peer' = peer
    BY DEF PeerReads
<1>4. PeerSane' BY <1>2, <1>3, InvFacts DEF PeerSane
<1>5. StageSane' BY <1>2, <1>3, InvFacts DEF StageSane
<1> QED BY <1>2, <1>3, <1>4, <1>5, InvFacts, MakeInv

LEMMA PeerGoesStep ==
    ASSUME IInv, PeerGoes
    PROVE  IInv'
<1>1. /\ c' = c /\ rbio' = rbio /\ inbox' = inbox /\ stage' = stage /\ role' = role
      /\ sends' = sends /\ inputs' = inputs /\ peer' = "closed"
    BY DEF PeerGoes
<1>2. PeerSane' BY <1>1, InvFacts DEF PeerSane
<1>3. StageSane' BY <1>1, InvFacts DEF StageSane
<1>4. Good(c)' BY <1>1, InvFacts DEF Good, StatusSane, StreamSane
<1> QED BY <1>1, <1>2, <1>3, <1>4, InvFacts, MakeInv

LEMMA AppendItems ==
    ASSUME NEW r \in Seq(Item), NEW s \in Seq(Item), NEW x \in Item
    PROVE  /\ Append(s, x) \in Seq(Item)
           /\ Len(r \o Append(s, x)) = Len(r \o s) + 1
           /\ \A k \in DOMAIN (r \o Append(s, x)) :
                 (r \o Append(s, x))[k] = IF k = Len(r \o s) + 1 THEN x ELSE (r \o s)[k]
           /\ \A k \in DOMAIN (r \o Append(s, x)) : k # Len(r \o s) + 1 => k \in DOMAIN (r \o s)
           /\ r \o s = <<>> => r \o Append(s, x) = <<x>>
<1> DEFINE t == r \o s
<1>1. t \in Seq(Item) /\ Len(t) \in Nat OBVIOUS
<1>2. r \o Append(s, x) = Append(t, x) OBVIOUS
<1>3. Append(s, x) \in Seq(Item) OBVIOUS
<1> HIDE DEF t
<1>4. /\ Append(t, x) \in Seq(Item) /\ Len(Append(t, x)) = Len(t) + 1
      /\ \A k \in 1..(Len(t) + 1) : Append(t, x)[k] = IF k = Len(t) + 1 THEN x ELSE t[k]
    BY <1>1
<1>5. t = <<>> => Append(t, x) = <<x>> BY <1>1
<1>6. DOMAIN Append(t, x) = 1..(Len(t) + 1) /\ DOMAIN t = 1..Len(t) BY <1>1, <1>4
<1>7. \A k \in DOMAIN Append(t, x) : k # Len(t) + 1 => k \in DOMAIN t BY <1>1, <1>6
<1> QED BY <1>2, <1>3, <1>4, <1>5, <1>6, <1>7 DEF t

\* What the peer says, after what it has said.
LEMMA PeerSendsStep ==
    ASSUME IInv, NEW item \in Item, PeerSends(item)
    PROVE  IInv'
<1> DEFINE r == IF item = "finish" THEN Cap ELSE c.room
           s == rbio \o inbox
           t == rbio \o Append(inbox, item)
<1>1. Good(c) /\ c \in ConnType /\ rbio \in Seq(Item) /\ inbox \in Seq(Item) BY InvFacts
<1>2. /\ c' = [c EXCEPT !.room = r] /\ inbox' = Append(inbox, item)
      /\ rbio' = rbio /\ stage' = stage /\ role' = role /\ sends' = sends
    BY DEF PeerSends
<1>3. r \in {c.room, Cap} OBVIOUS
<1> HIDE DEF r
<1>4. /\ Good(c') /\ c'.room = r /\ c'.status = c.status /\ c'.hs = c.hs
      /\ c'.valid = c.valid /\ c'.wbio = c.wbio /\ c'.made = c.made /\ c'.wire = c.wire
    BY <1>1, <1>2, <1>3, RoomGood
<1>5. /\ inbox' \in Seq(Item) /\ Len(t) = Len(s) + 1
      /\ \A k \in DOMAIN t : t[k] = IF k = Len(s) + 1 THEN item ELSE s[k]
      /\ \A k \in DOMAIN t : k # Len(s) + 1 => k \in DOMAIN s
      /\ s = <<>> => t = <<item>>
  <2>1. inbox' \in Seq(Item) BY <1>1, <1>2, AppendItems
  <2>2. /\ Len(t) = Len(s) + 1
        /\ \A k \in DOMAIN t : t[k] = IF k = Len(s) + 1 THEN item ELSE s[k]
        /\ \A k \in DOMAIN t : k # Len(s) + 1 => k \in DOMAIN s
        /\ s = <<>> => t = <<item>>
    <3>1. rbio \in Seq(Item) /\ inbox \in Seq(Item) /\ item \in Item BY <1>1
    <3> QED BY <3>1, AppendItems
  <2> QED BY <2>1, <2>2
<1>6. rbio' \o inbox' = t BY <1>2
<1>7. s \in Seq(Item) /\ (s = <<>> <=> Len(s) = 0) /\ Len(s) \in Nat /\ Len(<<>>) = 0
    BY <1>1
<1>8. /\ \A i \in DOMAIN s :
            /\ s[i] = "hello" => i = 1 /\ c.made = <<>> /\ c.hs \in {"new", "going"}
                                  /\ role = "server"
            /\ s[i] = "finish" => i = 1 /\ c.made # <<>> /\ c.hs = "going"
                                   /\ c.wire = c.made /\ c.room = Cap
      /\ peer = "hello" => s = <<>> /\ c.made = <<>> /\ c.hs \in {"new", "going"}
                             /\ role = "server"
      /\ peer = "finish" => (s = <<>> \/ s = <<"hello">>) /\ c.hs \in {"new", "going"}
      /\ c.hs = "new" => c.made = <<>>
    BY InvFacts DEF PeerSane
<1> HIDE DEF s, t
<1>9. \A k \in DOMAIN t : k # Len(s) + 1 =>
         /\ t[k] = "hello" => k = 1 /\ c.made = <<>> /\ c.hs \in {"new", "going"}
                               /\ role = "server"
         /\ t[k] = "finish" => k = 1 /\ c.made # <<>> /\ c.hs = "going"
                                /\ c.wire = c.made /\ r = Cap
  <2>1. c.room = Cap => r = Cap BY DEF r
  <2> QED BY <1>5, <1>8, <2>1
<1>10. /\ inputs' \in 0..MaxInput /\ peer' \in {"hello", "finish", "open", "closed"}
  <2>1. inputs \in 0..MaxInput /\ MaxInput \in Nat BY InvFacts, TlsAssumption
  <2> QED BY <2>1 DEF PeerSends
<1>11. PeerSane'
  <2>1. CASE item = "hello" /\ peer = "hello" /\ peer' = "finish"
    <3>1. t = <<"hello">> /\ Len(s) = 0 BY <1>5, <1>7, <1>8, <2>1
    <3>2. \A k \in DOMAIN t : k = 1 /\ t[k] = "hello" BY <3>1
    <3> QED BY <1>2, <1>4, <1>6, <1>8, <2>1, <3>1, <3>2 DEF PeerSane
  <2>2. CASE item = "finish" /\ peer = "finish" /\ peer' = "open"
              /\ c.wire # <<>> /\ c.wire = c.made
    <3>1. s = <<>>
      <4>1. CASE s = <<"hello">>
        <5>1. 1 \in DOMAIN s /\ s[1] = "hello" BY <4>1
        <5> QED BY <1>8, <2>2, <5>1
      <4> QED BY <1>8, <2>2, <4>1
    <3>2. t = <<"finish">> BY <1>5, <2>2, <3>1
    <3>3. \A k \in DOMAIN t : k = 1 /\ t[k] = "finish" BY <3>2
    <3>4. c.hs = "going" BY <1>8, <2>2
    <3>5. r = Cap BY <2>2 DEF r
    <3> QED BY <1>2, <1>4, <1>6, <1>8, <2>2, <3>3, <3>4, <3>5 DEF PeerSane
  <2>3. CASE item \notin {"hello", "finish"} /\ peer' \in {"open", "closed"}
    <3>1. \A k \in DOMAIN t : k = Len(s) + 1 => t[k] \notin {"hello", "finish"}
        BY <1>5, <2>3
    <3> QED BY <1>2, <1>4, <1>6, <1>8, <1>9, <2>3, <3>1 DEF PeerSane
  <2> QED BY <2>1, <2>2, <2>3 DEF PeerSends
<1>12. StageSane' BY <1>2, <1>4, InvFacts DEF StageSane
<1> QED BY <1>2, <1>4, <1>5, <1>10, <1>11, <1>12, InvFacts, MakeInv

\* The first flight of a client.
LEMMA StartEncryptionStep ==
    ASSUME IInv, StartEncryption
    PROVE  IInv'
<1> DEFINE w == [c EXCEPT !.status = "Connected", !.hs = "going"]
           f == <<<<"flight", 1>>>>
           v == SendTLSData(Make(w, f))
<1>1. c \in ConnType /\ StatusSane(c) /\ StreamSane(c) /\ c.status = "Connecting"
      /\ StageSane /\ PeerSane
    BY InvFacts DEF StartEncryption
<1>2. /\ c.hs = "new" /\ ~c.valid /\ ~c.err /\ ~c.fin /\ ~c.writing /\ c.closes = 0
      /\ c.downs = 0
      /\ c.made = <<>> /\ c.wbio = <<>> /\ stage = "idle"
    BY <1>1, ConnParts, InvFacts DEF StatusSane, StageSane, PeerSane
<1>3. c.wbuf = <<>> /\ c.wire = <<>>
  <2>1. c.made = (c.wire \o c.wbuf) \o c.wbio BY <1>1, <1>2 DEF StreamSane
  <2>2. c.wire \in Seq(Chunk) /\ c.wbuf \in Seq(Chunk) BY <1>1, ConnParts
  <2>3. c.wire \o c.wbuf \in Seq(Chunk) BY <2>2, Regroup
  <2>4. (c.wire \o c.wbuf) \o <<>> = c.wire \o c.wbuf BY <2>3, Regroup
  <2>5. c.wire \o c.wbuf = <<>> BY <1>2, <2>1, <2>4
  <2> QED BY <2>2, <2>5, ConcatEqualIffEmpty
<1>4. /\ w \in ConnType /\ w.status = "Connected" /\ w.hs = "going"
      /\ w.writing = c.writing /\ w.list = c.list /\ w.closeOnEmpty = c.closeOnEmpty
      /\ w.valid = c.valid /\ w.err = c.err /\ w.fin = c.fin /\ w.ups = c.ups
      /\ w.errors = c.errors /\ w.closes = c.closes /\ w.downs = c.downs /\ w.got = c.got
      /\ w.wbio = c.wbio /\ w.wbuf = c.wbuf /\ w.room = c.room /\ w.wire = c.wire
      /\ w.made = c.made
    BY <1>1 DEF ConnType
<1> HIDE DEF w
<1>5. Good(w)
  <2>1. StatusSane(w) BY <1>1, <1>2, <1>4 DEF StatusSane
  <2>2. StreamSane(w) BY <1>1, <1>4 DEF StreamSane
  <2> QED BY <1>4, <2>1, <2>2 DEF Good
<1>6. f \in Seq(Rec) BY RecParts
<1>7. Good(v) /\ Outside(v, w) /\ v.wbio = <<>> BY <1>2, <1>3, <1>4, <1>5, <1>6, SendNewGood
<1>8. c' = IF role = "client" THEN v ELSE w BY DEF StartEncryption, w
<1>9. /\ rbio' = rbio /\ inbox' = inbox /\ stage' = stage /\ role' = role
      /\ sends' = sends /\ inputs' = inputs /\ peer' = peer
    BY DEF StartEncryption
<1> HIDE DEF v, f
<1>10. /\ Good(c') /\ c'.hs = "going" /\ c'.wbio = <<>>
       /\ role = "server" => c'.made = c.made
    BY <1>2, <1>4, <1>5, <1>7, <1>8 DEF Outside
<1>11. PeerSane' BY <1>1, <1>2, <1>9, <1>10 DEF PeerSane
<1>12. StageSane' BY <1>2, <1>9, <1>10 DEF StageSane
<1> QED BY <1>9, <1>10, <1>11, <1>12, InvFacts, MakeInv

LEMMA TakesItem ==
    ASSUME IInv, rbio # <<>>, rbio' = Tail(rbio), inbox' = inbox, peer' = peer
    PROVE  /\ rbio' \in Seq(Item) /\ peer # "hello"
           /\ \A k \in DOMAIN (rbio' \o inbox') : (rbio' \o inbox')[k] \notin {"hello", "finish"}
           /\ peer = "finish" => rbio' \o inbox' = <<>> /\ rbio[1] = "hello"
           /\ rbio[1] = "hello" => c.made = <<>> /\ c.hs \in {"new", "going"}
           /\ rbio[1] = "finish" => c.wire = c.made /\ c.room = Cap
<1> DEFINE s == Tail(rbio) \o inbox
           t == rbio \o inbox
<1>1. rbio \in Seq(Item) /\ inbox \in Seq(Item) BY InvFacts
<1>2. /\ Tail(rbio) \in Seq(Item) /\ s \in Seq(Item) /\ 1 \in DOMAIN t /\ t[1] = rbio[1]
      /\ Len(s) = Len(t) - 1
      /\ \A k \in DOMAIN s : k + 1 \in DOMAIN t /\ k + 1 # 1 /\ s[k] = t[k + 1]
    BY <1>1, TailItems
<1>3. t \in Seq(Item) BY <1>1
<1>4. /\ \A i \in DOMAIN t :
            /\ t[i] = "hello" => i = 1 /\ c.made = <<>> /\ c.hs \in {"new", "going"}
            /\ t[i] = "finish" => i = 1 /\ c.wire = c.made /\ c.room = Cap
      /\ peer = "hello" => t = <<>>
      /\ peer = "finish" => t = <<>> \/ t = <<"hello">>
    BY InvFacts DEF PeerSane
<1>5. rbio' \o inbox' = s BY DEF s
<1> HIDE DEF s, t
<1>6. t # <<>> BY <1>2, <1>3
<1>7. \A k \in DOMAIN s : s[k] \notin {"hello", "finish"} BY <1>2, <1>4
<1>8. t = <<"hello">> => s = <<>> /\ t[1] = "hello"
  <2> SUFFICES ASSUME t = <<"hello">> PROVE s = <<>> /\ t[1] = "hello" OBVIOUS
  <2>1. Len(t) = 1 /\ t[1] = "hello" OBVIOUS
  <2>2. Len(s) = 0 BY <1>2, <2>1
  <2> QED BY <1>2, <2>1, <2>2, EmptySeq
<1> QED BY <1>2, <1>4, <1>5, <1>6, <1>7, <1>8

\* Another state of the handshake.
LEMMA HandshakeIs ==
    ASSUME NEW w \in ConnType, NEW h \in {"new", "going", "done", "failed"}
    PROVE  LET v == [w EXCEPT !.hs = h] IN
           /\ v \in ConnType /\ v.hs = h
           /\ v.status = w.status /\ v.writing = w.writing /\ v.list = w.list
           /\ v.closeOnEmpty = w.closeOnEmpty /\ v.valid = w.valid /\ v.err = w.err
           /\ v.fin = w.fin /\ v.ups = w.ups /\ v.errors = w.errors /\ v.closes = w.closes
           /\ v.downs = w.downs
           /\ v.got = w.got /\ v.wbio = w.wbio /\ v.wbuf = w.wbuf /\ v.room = w.room
           /\ v.wire = w.wire /\ v.made = w.made
BY DEF ConnType

\* The peer is accepted.
LEMMA AcceptIs ==
    ASSUME NEW w \in ConnType, w.ups = 0
    PROVE  LET v == [w EXCEPT !.hs = "done", !.valid = TRUE, !.ups = @ + 1] IN
           /\ v \in ConnType /\ v.hs = "done" /\ v.valid /\ v.ups = 1
           /\ v.status = w.status /\ v.writing = w.writing /\ v.list = w.list
           /\ v.closeOnEmpty = w.closeOnEmpty /\ v.err = w.err
           /\ v.fin = w.fin /\ v.errors = w.errors /\ v.closes = w.closes
           /\ v.downs = w.downs
           /\ v.got = w.got /\ v.wbio = w.wbio /\ v.wbuf = w.wbuf /\ v.room = w.room
           /\ v.wire = w.wire /\ v.made = w.made
<1> DEFINE h == "done"
           b == TRUE
           n == w.ups + 1
           v == [w EXCEPT !.hs = h, !.valid = b, !.ups = n]
<1>1. b \in BOOLEAN /\ n = 1 /\ n \in 0..2 /\ h \in {"new", "going", "done", "failed"}
    OBVIOUS
<1>2. v = [w EXCEPT !.hs = "done", !.valid = TRUE, !.ups = @ + 1] OBVIOUS
<1> HIDE DEF b, n, h
<1>3. v \in ConnType
  <2>1. h \in Handshakes /\ b \in Flags /\ n \in Calls
      BY <1>1 DEF Handshakes, Flags, Calls
  <2> QED BY <2>1, ConnTypeIs
<1>4. v.hs = h /\ v.valid = b /\ v.ups = n BY DEF ConnType
<1>5. /\ v.status = w.status /\ v.writing = w.writing /\ v.list = w.list
      /\ v.closeOnEmpty = w.closeOnEmpty /\ v.err = w.err
      /\ v.fin = w.fin /\ v.errors = w.errors /\ v.closes = w.closes /\ v.downs = w.downs
      /\ v.got = w.got /\ v.wbio = w.wbio /\ v.wbuf = w.wbuf /\ v.room = w.room
      /\ v.wire = w.wire /\ v.made = w.made
    BY DEF ConnType
<1> HIDE DEF v
<1>6. v.valid BY <1>4 DEF b
<1> QED BY <1>1, <1>2, <1>3, <1>4, <1>5, <1>6 DEF h

\* shutdown after a failed handshake makes no alert.
LEMMA FailedShutdown ==
    ASSUME NEW w, Closable(w), w.hs = "failed", ~w.writing
    PROVE  Closable(Shutdown(w)) /\ Shutdown(w).hs = "failed" /\ Shutdown(w).valid = w.valid
<1>1. w \in ConnType BY DEF Closable
<1>2. CASE w.status # "Connected" BY <1>2 DEF Shutdown
<1>3. CASE w.status = "Connected" /\ (w.wbuf # <<>> \/ w.list # <<>>)
  <2> DEFINE b == TRUE
             v == [w EXCEPT !.closeOnEmpty = b]
  <2>1. Shutdown(w) = v BY <1>3 DEF Shutdown
  <2>2. b \in BOOLEAN OBVIOUS
  <2> HIDE DEF b
  <2>3. v \in ConnType BY <1>1, <2>2 DEF ConnType
  <2>4. Closable(v) /\ v.hs = w.hs /\ v.valid = w.valid BY <1>1, <2>3 DEF Closable, ConnType
  <2> QED BY <2>1, <2>4
<1>4. CASE w.status = "Connected" /\ w.wbuf = <<>> /\ w.list = <<>>
  <2> DEFINE d == "Disconnecting"
             b == w.fin \/ ~w.writing
             v == [w EXCEPT !.status = d, !.fin = b]
  <2>1. Shutdown(w) = v BY <1>4 DEF Shutdown
  <2>2. b \in BOOLEAN /\ d \in {"Connecting", "Connected", "Disconnecting", "Disconnected"}
      OBVIOUS
  <2> HIDE DEF b, d
  <2>3. v \in ConnType BY <1>1, <2>2 DEF ConnType
  <2>4. /\ v.status = d /\ v.writing = w.writing /\ v.list = w.list /\ v.hs = w.hs
        /\ v.valid = w.valid /\ v.err = w.err /\ v.ups = w.ups /\ v.errors = w.errors
        /\ v.closes = w.closes /\ v.downs = w.downs /\ v.got = w.got
      BY <1>1 DEF ConnType
  <2> HIDE DEF v
  <2>5. Closable(v) BY <1>4, <2>3, <2>4 DEF Closable, d
  <2> QED BY <2>1, <2>4, <2>5
<1> QED BY <1>2, <1>3, <1>4

LEMMA HandshakeFacts ==
    ASSUME IInv, stage = "handshake"
    PROVE  /\ Good(c) /\ c \in ConnType /\ ListSane(c.list)
           /\ c.hs = "going" /\ c.status = "Connected" /\ ~c.valid /\ ~c.err /\ ~c.fin
           /\ ~c.writing /\ c.closes = 0
           /\ c.downs = 0 /\ c.errors = 0 /\ c.ups = 0 /\ ~(c.got > 0)
           /\ c.wbio = <<>> /\ OneStream(c)
<1>1. /\ Good(c) /\ c \in ConnType /\ StatusSane(c) /\ StreamSane(c) /\ ListSane(c.list)
      /\ c.hs = "going" /\ c.status = "Connected"
    BY InvFacts, ConnectedFacts DEF StageSane
<1>2. c.wbio = <<>> BY Idle
<1>3. ~c.valid /\ ~c.err /\ ~c.fin BY <1>1, ConnParts DEF StatusSane
<1>4. ~c.writing /\ c.closes = 0
                 /\ c.downs = 0 /\ c.errors = 0 /\ c.ups = 0 /\ ~(c.got > 0)
    BY <1>1, <1>3 DEF StatusSane
<1>5. OneStream(c) BY <1>1, <1>3, StreamFacts
<1> QED BY <1>1, <1>2, <1>3, <1>4, <1>5

\* Records are made at the end of the handshake, and then its state is known.
LEMMA EndClosable ==
    ASSUME IInv, stage = "handshake", NEW recs \in Seq(Rec), NEW h \in {"done", "failed"}
    PROVE  LET v == [Make(c, recs) EXCEPT !.hs = h] IN
           Closable(v) /\ v.hs = h /\ ~v.valid /\ ~v.writing
<1> DEFINE u == Make(c, recs)
           v == [u EXCEPT !.hs = h]
<1>1. u \in ConnType /\ Outside(u, c) BY HandshakeFacts, MakeIs
<1> HIDE DEF u
<1>2. /\ v \in ConnType /\ v.hs = h
      /\ v.status = u.status /\ v.writing = u.writing /\ v.list = u.list
      /\ v.valid = u.valid /\ v.err = u.err /\ v.ups = u.ups /\ v.errors = u.errors
      /\ v.closes = u.closes /\ v.downs = u.downs /\ v.got = u.got
  <2>1. h \in {"new", "going", "done", "failed"} OBVIOUS
  <2>2. v \in ConnType BY <1>1, <2>1 DEF ConnType
  <2>3. v.hs = h BY <1>1 DEF ConnType
  <2>4. /\ v.status = u.status /\ v.writing = u.writing /\ v.list = u.list
        /\ v.valid = u.valid /\ v.err = u.err /\ v.ups = u.ups /\ v.errors = u.errors
        /\ v.closes = u.closes /\ v.downs = u.downs /\ v.got = u.got
      BY <1>1 DEF ConnType
  <2> QED BY <2>2, <2>3, <2>4
<1> HIDE DEF v
<1>3. /\ v.status = "Connected" /\ ~v.writing /\ ListSane(v.list) /\ ~v.valid /\ ~v.err
      /\ v.ups = 0 /\ v.errors = 0 /\ v.closes = 0 /\ v.downs = 0 /\ ~(v.got > 0)
    BY <1>1, <1>2, HandshakeFacts DEF Outside
<1>4. Closable(v) BY <1>2, <1>3 DEF Closable
<1> QED BY <1>2, <1>3, <1>4 DEF u, v

\* The handshake ends in an error.
LEMMA FailedStep ==
    ASSUME IInv, stage = "handshake", rbio # <<>>, rbio' = Tail(rbio), inbox' = inbox,
           peer' = peer, role' = role, sends' = sends, inputs' = inputs, stage' = "idle",
           rbio[1] # "hello",
           Good(c'), c'.wbio = <<>>, ~c'.valid, c'.hs \in {"done", "failed"}
    PROVE  IInv'
<1>1. /\ rbio' \in Seq(Item) /\ peer \notin {"hello", "finish"}
      /\ \A k \in DOMAIN (rbio' \o inbox') : (rbio' \o inbox')[k] \notin {"hello", "finish"}
    BY TakesItem
<1>2. Late' BY <1>1 DEF Late, Items
<1>3. PeerSane' BY <1>2, LateIsPrimed
<1>4. StageSane' BY DEF StageSane
<1> QED BY <1>1, <1>3, <1>4, InvFacts, MakeInv

LEMMA FinishFacts ==
    ASSUME IInv, stage = "handshake", rbio # <<>>, rbio' = Tail(rbio), inbox' = inbox,
           peer' = peer, rbio[1] = "finish"
    PROVE  c.wbuf = <<>> /\ c.room = Cap
<1>1. c.wire = c.made /\ c.room = Cap BY TakesItem
<1>2. c.made = (c.wire \o c.wbuf) \o c.wbio /\ c.wbio = <<>> BY HandshakeFacts DEF OneStream
<1>3. c.wire \in Seq(Chunk) /\ c.wbuf \in Seq(Chunk) BY HandshakeFacts, ConnParts
<1>4. c.wire \o c.wbuf \in Seq(Chunk) BY <1>3, Regroup
<1>5. (c.wire \o c.wbuf) \o <<>> = c.wire \o c.wbuf BY <1>4, Regroup
<1>6. c.wire \o c.wbuf = c.wire BY <1>1, <1>2, <1>5
<1>7. c.wbuf = <<>>
  <2>1. Len(c.wire \o c.wbuf) = Len(c.wire) + Len(c.wbuf) BY <1>3, Regroup
  <2>2. Len(c.wire) \in Nat /\ Len(c.wbuf) \in Nat BY <1>3
  <2>3. Len(c.wbuf) = 0
    <3> DEFINE k == Len(c.wire)
               l == Len(c.wbuf)
    <3>1. k \in Nat /\ l \in Nat BY <2>2
    <3>2. Len(c.wire \o c.wbuf) = k BY <1>6
    <3>3. k = k + l BY <2>1, <3>2
    <3> HIDE DEF k, l
    <3>4. l = 0 BY <3>1, <3>3
    <3> QED BY <3>4 DEF l
  <2> QED BY <1>3, <2>3, EmptySeq
<1> QED BY <1>1, <1>7

LEMMA ProcessHandshakeStep ==
    ASSUME IInv, NEW ok \in BOOLEAN, ProcessHandshake(ok)
    PROVE  IInv'
<1>1. /\ stage = "handshake" /\ rbio # <<>> /\ rbio' = Tail(rbio) /\ inbox' = inbox
      /\ peer' = peer /\ role' = role /\ sends' = sends /\ inputs' = inputs
    BY DEF ProcessHandshake
<1>2. /\ rbio' \in Seq(Item) /\ peer # "hello"
      /\ \A k \in DOMAIN (rbio' \o inbox') : (rbio' \o inbox')[k] \notin {"hello", "finish"}
      /\ peer = "finish" => rbio' \o inbox' = <<>> /\ rbio[1] = "hello"
      /\ rbio[1] = "hello" => c.made = <<>>
    BY <1>1, TakesItem
<1>3. /\ Good(c) /\ c \in ConnType /\ c.hs = "going" /\ c.status = "Connected"
      /\ ~c.valid /\ ~c.err /\ ~c.fin /\ ~c.writing /\ c.closes = 0
      /\ c.downs = 0 /\ c.errors = 0
      /\ c.ups = 0 /\ c.wbio = <<>> /\ OneStream(c)
    BY <1>1, HandshakeFacts
<1>4. CASE /\ rbio[1] = "hello" /\ stage' = "idle"
           /\ c' = SendTLSData(Make(c, <<<<"flight", 1>>>>))
  <2> DEFINE f == <<<<"flight", 1>>>>
  <2>1. f \in Seq(Rec) BY RecParts
  <2> HIDE DEF f
  <2>2. c.wbuf = <<>>
    <3>1. c.wire \in Seq(Chunk) /\ c.wbuf \in Seq(Chunk) BY <1>3, ConnParts
    <3>2. c.wire \o c.wbuf \in Seq(Chunk) BY <3>1, Regroup
    <3>3. (c.wire \o c.wbuf) \o <<>> = c.wire \o c.wbuf BY <3>2, Regroup
    <3>4. c.wire \o c.wbuf = <<>> BY <1>2, <1>3, <1>4, <3>3 DEF OneStream
    <3> QED BY <3>1, <3>4, ConcatEqualIffEmpty
  <2>3. c' = SendTLSData(Make(c, f)) BY <1>4 DEF f
  <2>4. Good(c') /\ Outside(c', c) /\ c'.wbio = <<>> BY <1>3, <2>1, <2>2, <2>3, SendNewGood
  <2>5. c'.hs = "going" BY <1>3, <2>4 DEF Outside
  <2>6. PeerSane' BY <1>1, <1>2, <2>5 DEF PeerSane
  <2>7. StageSane' BY <1>4, <2>4 DEF StageSane
  <2> QED BY <1>1, <1>2, <1>4, <2>4, <2>6, <2>7, InvFacts, MakeInv
<1>5. CASE /\ rbio[1] = "finish" /\ ok /\ stage' = "up"
           /\ c' = [Make(c, <<<<"flight", 2>>>>) EXCEPT
                      !.hs = "done", !.valid = TRUE, !.ups = @ + 1]
  <2> DEFINE u == Make(c, LastFlight)
  <2>1. c.wbuf = <<>> /\ c.room = Cap BY <1>1, <1>5, FinishFacts
  <2>2. LastFlight \in Seq(Rec) BY RecParts DEF LastFlight
  <2>3. Chunks(LastFlight) \in Seq(Chunk) BY <2>2, ChunksFacts
  <2>4. /\ u \in ConnType /\ Outside(u, c)
        /\ u.wbio = c.wbio \o Chunks(LastFlight) /\ u.wbuf = c.wbuf /\ u.room = c.room
      BY <1>3, <2>2, MakeIs
  <2>5. u.wbio = Chunks(LastFlight) BY <1>3, <2>3, <2>4, Regroup
  <2>6. OneStream(u) BY <1>3, <2>2, MakeKeeps
  <2>7. u.ups = 0 BY <1>3, <2>4 DEF Outside
  <2>8. c' = [u EXCEPT !.hs = "done", !.valid = TRUE, !.ups = @ + 1]
      BY <1>5 DEF LastFlight
  <2> HIDE DEF u
  <2>9. /\ c' \in ConnType /\ c'.hs = "done" /\ c'.valid /\ c'.ups = 1
        /\ c'.status = u.status /\ c'.writing = u.writing /\ c'.list = u.list
        /\ c'.closeOnEmpty = u.closeOnEmpty /\ c'.err = u.err
        /\ c'.fin = u.fin /\ c'.errors = u.errors /\ c'.closes = u.closes
        /\ c'.downs = u.downs
        /\ c'.got = u.got /\ c'.wbio = u.wbio /\ c'.wbuf = u.wbuf /\ c'.room = u.room
        /\ c'.wire = u.wire /\ c'.made = u.made
      BY <2>4, <2>7, <2>8, AcceptIs
  <2>10. StatusSane(c')
    <3>1. StatusSane(c) BY <1>3 DEF Good
    <3> QED BY <1>3, <2>4, <2>9, <3>1 DEF StatusSane, Outside
  <2>11. StreamSane(c')
      BY <1>3, <2>1, <2>4, <2>5, <2>6, <2>9 DEF StreamSane, OneStream, Outside
  <2>12. Good(c') BY <2>9, <2>10, <2>11 DEF Good
  <2>13. Late' BY <1>1, <1>2, <1>5 DEF Late, Items
  <2>14. PeerSane' BY <2>9, <2>13, LateIsPrimed
  <2>15. StageSane' BY <1>5, <2>9 DEF StageSane
  <2> QED BY <1>1, <1>2, <1>5, <2>12, <2>14, <2>15, InvFacts, MakeInv
<1>6. CASE /\ rbio[1] = "finish" /\ ~ok /\ stage' = "idle"
           /\ \E alert \in BOOLEAN :
                 c' = Reject([Make(c, <<<<"flight", 2>>>>) EXCEPT !.hs = "done"], alert)
  <2> DEFINE h == "done"
             f == <<<<"flight", 2>>>>
             w == [Make(c, f) EXCEPT !.hs = h]
             a == Make(w, <<<<"alert", 1>>>>)
  <2>1. f \in Seq(Rec) /\ h \in {"done", "failed"} BY RecParts
  <2>2. PICK alert \in BOOLEAN : c' = HandleSSLError(IF alert THEN a ELSE w)
      BY <1>6 DEF Reject
  <2> HIDE DEF f, h
  <2>3. Closable(w) /\ w.hs = h /\ ~w.valid BY <1>1, <2>1, EndClosable
  <2> HIDE DEF w
  <2>4. Closable(a) /\ a.valid = w.valid /\ a.hs = w.hs BY <2>3, AlertClosable
  <2> HIDE DEF a
  <2>5. Good(c') /\ c'.wbio = <<>> /\ ~c'.valid /\ c'.hs = "done"
    <3>1. CASE alert
      <4>1. c' = HandleSSLError(a) BY <2>2, <3>1
      <4> QED BY <2>3, <2>4, <4>1, HandleSSLErrorGood DEF h
    <3>2. CASE ~alert
      <4>1. c' = HandleSSLError(w) BY <2>2, <3>2
      <4> QED BY <2>3, <4>1, HandleSSLErrorGood DEF h
    <3> QED BY <3>1, <3>2
  <2> QED BY <1>1, <1>6, <2>5, FailedStep
<1>7. CASE /\ rbio[1] \notin {"hello", "finish"} /\ stage' = "idle"
           /\ c' = HandleSSLError(Shutdown([Make(c, <<<<"alert", 2>>>>) EXCEPT
                                               !.hs = "failed"]))
  <2> DEFINE h == "failed"
             f == <<<<"alert", 2>>>>
             w == [Make(c, f) EXCEPT !.hs = h]
             v == Shutdown(w)
  <2>1. f \in Seq(Rec) /\ h \in {"done", "failed"} BY RecParts
  <2>2. c' = HandleSSLError(v) BY <1>7
  <2> HIDE DEF f, h
  <2>3. Closable(w) /\ w.hs = h /\ ~w.valid /\ ~w.writing BY <1>1, <2>1, EndClosable
  <2> HIDE DEF w
  <2>4. Closable(v) /\ v.hs = "failed" /\ v.valid = w.valid BY <2>3, FailedShutdown DEF h
  <2> HIDE DEF v
  <2>5. Good(c') /\ c'.wbio = <<>> /\ ~c'.valid /\ c'.hs = "failed"
      BY <2>2, <2>3, <2>4, HandleSSLErrorGood
  <2> QED BY <1>1, <1>7, <2>5, FailedStep
<1> QED BY <1>4, <1>5, <1>6, <1>7 DEF ProcessHandshake

-----------------------------------------------------------------------------
(* The theorems *)

LEMMA InitInv == Init => IInv
<1> SUFFICES ASSUME Init PROVE IInv OBVIOUS
<1>1. <<>> \in Seq(Chunk) /\ <<>> \in Seq(Node) /\ Cap \in Nat BY TlsAssumption, EmptySeq
<1>2. c \in ConnType BY <1>1 DEF Init, ConnType, Node
<1>3. TypeOK BY <1>2, TlsAssumption DEF Init, TypeOK
<1>4. StatusSane(c) BY DEF Init, StatusSane
<1>5. StreamSane(c) BY DEF Init, StreamSane
<1>6. StageSane /\ PeerSane BY DEF Init, StageSane, PeerSane
<1> QED BY <1>3, <1>4, <1>5, <1>6 DEF IInv

LEMMA NextInv == IInv /\ [Next]_vars => IInv'
<1> SUFFICES ASSUME IInv, [Next]_vars PROVE IInv' OBVIOUS
<1>1. CASE StartEncryption BY <1>1, StartEncryptionStep
<1>2. CASE \E n \in 1..Len(inbox) : RecvData(n) BY <1>2, RecvDataStep
<1>3. CASE \E ok \in BOOLEAN : ProcessHandshake(ok) BY <1>3, ProcessHandshakeStep
<1>4. CASE HandshakeReturns BY <1>4, HandshakeReturnsStep
<1>5. CASE ProcessApplicationData BY <1>5, ProcessApplicationDataStep
<1>6. CASE EventWrite BY <1>6, EventWriteStep
<1>7. CASE ReadEof BY <1>7, ReadEofStep
<1>8. CASE \E m \in Messages : Send(m) BY <1>8, SendStep
<1>9. CASE CallShutdown BY <1>9, CallShutdownStep
<1>10. CASE CallForceClose BY <1>10, CallForceCloseStep
<1>11. CASE \E item \in Item : PeerSends(item) BY <1>11, PeerSendsStep
<1>12. CASE PeerReads BY <1>12, PeerReadsStep
<1>13. CASE PeerGoes BY <1>13, PeerGoesStep
<1>14. CASE UNCHANGED vars
  <2>1. /\ c' = c /\ role' = role /\ inbox' = inbox /\ rbio' = rbio /\ stage' = stage
        /\ sends' = sends /\ inputs' = inputs /\ peer' = peer
      BY <1>14 DEF vars
  <2>2. TypeOK' BY <2>1 DEF IInv, TypeOK
  <2>3. StatusSane(c)' /\ StreamSane(c)' BY <2>1 DEF IInv, StatusSane, StreamSane
  <2>4. StageSane' BY <2>1 DEF IInv, StageSane
  <2>5. PeerSane' BY <2>1 DEF IInv, PeerSane
  <2> QED BY <2>2, <2>3, <2>4, <2>5 DEF IInv
<1> QED BY <1>1, <1>2, <1>3, <1>4, <1>5, <1>6, <1>7, <1>8, <1>9, <1>10, <1>11, <1>12,
           <1>13, <1>14 DEF Next, Loop

\* The handshake, the callbacks, the write list and the three places of the
\* stream stay consistent, whatever the peer and the program do.
THEOREM Invariance == Spec => []IInv
BY InitInv, NextInv, PTL DEF Spec

\* No connection that is up and no message reaches the program before the handshake
\* is over and the peer was accepted; the end of every connection is reported once,
\* by both callbacks of handleClose, also when the handshake failed; and no other
\* callback comes twice.
THEOREM AcceptedFirst == Spec => []NothingBeforeHandshake
<1>1. IInv => NothingBeforeHandshake
  <2> SUFFICES ASSUME IInv PROVE NothingBeforeHandshake OBVIOUS
  <2>1. TypeOK BY DEF IInv
  <2>2. c \in ConnType /\ StatusSane(c) BY InvFacts
  <2> QED BY <2>1, <2>2, ConnParts DEF NothingBeforeHandshake, StatusSane
<1> QED BY <1>1, Invariance, PTL

\* The records leave in the order OpenSSL made them and without a gap, and when
\* writing is closed at most a close_notify has not left.
THEOREM RecordsWhole == Spec => []TlsWireWhole
<1>1. IInv => TlsWireWhole
  <2> SUFFICES ASSUME IInv, ~c.err PROVE TlsWireWhole
      BY DEF TlsWireWhole, RecordsInOrder, FinAfterMessages
  <2> DEFINE x == c.wire
             y == c.wbuf
             z == c.wbio
             m == c.made
             p == x \o y
  <2>1. c \in ConnType /\ StreamSane(c) BY InvFacts
  <2>2. x \in Seq(Chunk) /\ y \in Seq(Chunk) /\ z \in Seq(Chunk) BY <2>1, ConnParts
  <2>3. m = p \o z /\ (c.fin => z = <<>> /\ \A i \in DOMAIN y : y[i][1][1] = "alert")
      BY <2>1 DEF StreamSane
  <2>4. IsPrefix(c.wire, c.made) <=> IsPrefix(x, m) OBVIOUS
  <2> HIDE DEF x, y, z, m
  <2>5. p \in Seq(Chunk) /\ Len(p) = Len(x) + Len(y)
        /\ \A i \in 1..Len(p) : p[i] = IF i <= Len(x) THEN x[i] ELSE y[i - Len(x)]
      BY <2>2, ConcatProperties
  <2> HIDE DEF p
  <2>6. m \in Seq(Chunk) /\ Len(m) = Len(p) + Len(z)
        /\ \A i \in 1..Len(m) : m[i] = IF i <= Len(p) THEN p[i] ELSE z[i - Len(p)]
    <3>1. p \in Seq(Chunk) BY <2>5
    <3>2. z \in Seq(Chunk) BY <2>2
    <3>3. /\ p \o z \in Seq(Chunk) /\ Len(p \o z) = Len(p) + Len(z)
          /\ \A i \in 1..(Len(p) + Len(z)) :
                (p \o z)[i] = IF i <= Len(p) THEN p[i] ELSE z[i - Len(p)]
        BY <3>1, <3>2, ConcatProperties
    <3> QED BY <2>3, <3>3
  <2>7. Len(x) \in Nat /\ Len(y) \in Nat /\ Len(z) \in Nat /\ DOMAIN m = 1..Len(m)
        /\ DOMAIN y = 1..Len(y)
      BY <2>2, <2>6
  <2>8. IsPrefix(x, m)
    <3>1. Len(x) <= Len(m) BY <2>5, <2>6, <2>7
    <3>2. \A i \in 1..Len(x) : x[i] = m[i] BY <2>5, <2>6, <2>7
    <3>3. SubSeq(x, 1, Len(x)) = SubSeq(m, 1, Len(x)) BY <2>2, <2>6, <2>7, <3>1, <3>2
    <3> QED BY <3>1, <3>3 DEF IsPrefix
  <2>9. ASSUME c.fin, NEW i \in DOMAIN m, m[i][1][1] # "alert"
        PROVE  i <= Len(x)
    <3>1. Len(z) = 0 BY <2>3, <2>9
    <3>2. i \in 1..Len(p) /\ m[i] = p[i] BY <2>5, <2>6, <2>7, <3>1
    <3>3. SUFFICES ASSUME i > Len(x) PROVE FALSE BY <2>7, <3>2
    <3>4. i - Len(x) \in DOMAIN y /\ m[i] = y[i - Len(x)] BY <2>5, <2>7, <3>2, <3>3
    <3> QED BY <2>3, <2>9, <3>4
  <2> QED BY <2>4, <2>8, <2>9 DEF TlsWireWhole, RecordsInOrder, FinAfterMessages, x, m
<1> QED BY <1>1, Invariance, PTL

=============================================================================

----------------------- MODULE TcpClientSoundProofs -------------------------
(***************************************************************************)
(* Proofs about TcpClient, as long as the program calls connect() only     *)
(* when nothing is under way and the loop thread does not destroy the      *)
(* client over a queued start: there is one attempt at a time, no          *)
(* assertion fails and nothing destroyed is used.                          *)
(***************************************************************************)
EXTENDS TcpClientProofs

-----------------------------------------------------------------------------
(* What waits in the queue *)

\* A function more.
LEMMA WaitsAppend ==
    ASSUME NEW q \in Seq(Function), NEW x \in Function
    PROVE  LET p == Append(q, x) IN
           /\ \A op, f : Waits(p, op, f) <=> Waits(q, op, f) \/ x = <<op, f>>
           /\ \A op, f : /\ Once(q, <<op, f>>)
                         /\ x = <<op, f>> => ~Waits(q, op, f)
                         => Once(p, <<op, f>>)
           /\ Followed(q) /\ x # <<"start", 0>> => Followed(p)
           /\ x = <<"remove", 0>> => Followed(p)
<1> DEFINE p == Append(q, x)
           n == Len(q)
<1>1. /\ DOMAIN q = 1..n /\ n \in Nat /\ DOMAIN p = 1..(n + 1)
      /\ p[n + 1] = x /\ \A i \in 1..n : p[i] = q[i]
    BY QueueElements
<1> HIDE DEF p, n
<1>0. /\ n + 1 \in DOMAIN p /\ \A i \in DOMAIN q : i \in DOMAIN p /\ i < n + 1 /\ p[i] = q[i]
      /\ \A i \in DOMAIN p : i = n + 1 \/ i \in DOMAIN q
    BY <1>1
<1>2. ASSUME NEW op, NEW f PROVE Waits(p, op, f) <=> Waits(q, op, f) \/ x = <<op, f>>
  <2> DEFINE y == <<op, f>>
  <2> HIDE DEF y
  <2>1. (\E i \in DOMAIN p : p[i] = y) <=> (\E i \in DOMAIN q : q[i] = y) \/ x = y
      BY <1>0, <1>1
  <2> QED BY <2>1 DEF Waits, y
<1>3. ASSUME NEW op, NEW f, Once(q, <<op, f>>), x = <<op, f>> => ~Waits(q, op, f)
      PROVE  Once(p, <<op, f>>)
  <2> DEFINE y == <<op, f>>
  <2>1. Once(q, y) /\ (x = y => \A i \in DOMAIN q : q[i] # y) BY <1>3 DEF Waits
  <2> HIDE DEF y
  <2>2. Once(p, y) BY <1>0, <1>1, <2>1 DEF Once
  <2> QED BY <2>2 DEF y
<1>4. ASSUME Followed(q), x # <<"start", 0>> PROVE Followed(p)
  <2> SUFFICES ASSUME NEW i \in DOMAIN p, p[i] = <<"start", 0>>
               PROVE  \E j \in DOMAIN p : j > i /\ p[j] = <<"remove", 0>>
      BY DEF Followed
  <2>1. i \in DOMAIN q /\ q[i] = <<"start", 0>> BY <1>0, <1>1, <1>4
  <2>2. PICK j \in DOMAIN q : j > i /\ q[j] = <<"remove", 0>> BY <1>4, <2>1 DEF Followed
  <2> QED BY <1>0, <2>2
<1>5. ASSUME x = <<"remove", 0>> PROVE Followed(p)
  <2> SUFFICES ASSUME NEW i \in DOMAIN p, p[i] = <<"start", 0>>
               PROVE  \E j \in DOMAIN p : j > i /\ p[j] = <<"remove", 0>>
      BY DEF Followed
  <2>1. i \in 1..n BY <1>1, <1>5
  <2>2. n + 1 \in DOMAIN p /\ n + 1 > i /\ p[n + 1] = <<"remove", 0>> BY <1>1, <1>5, <2>1
  <2> QED BY <2>2
<1> QED BY <1>2, <1>3, <1>4, <1>5 DEF p

\* The first function is taken.
LEMMA WaitsTail ==
    ASSUME NEW q \in Seq(Function), q # <<>>
    PROVE  LET p == Tail(q) IN
           /\ \A op, f : Waits(q, op, f) <=> Waits(p, op, f) \/ q[1] = <<op, f>>
           /\ \A op, f : Once(q, <<op, f>>) =>
                 Once(p, <<op, f>>) /\ (q[1] = <<op, f>> => ~Waits(p, op, f))
           /\ Followed(q) => Followed(p)
<1> DEFINE p == Tail(q)
           n == Len(q)
<1>1. /\ DOMAIN q = 1..n /\ n \in Nat /\ n >= 1 /\ DOMAIN p = 1..(n - 1)
      /\ \A i \in 1..(n - 1) : p[i] = q[i + 1]
    BY QueueElements
<1> HIDE DEF p, n
<1>2. \A i \in 2..n : i - 1 \in 1..(n - 1) /\ p[i - 1] = q[i] BY <1>1
<1>3. ASSUME NEW op, NEW f PROVE Waits(q, op, f) <=> Waits(p, op, f) \/ q[1] = <<op, f>>
  <2>1. ASSUME NEW i \in DOMAIN q, q[i] = <<op, f>>, i # 1 PROVE Waits(p, op, f)
    <3>1. i \in 2..n BY <1>1, <2>1
    <3> QED BY <1>1, <1>2, <2>1, <3>1 DEF Waits
  <2>2. ASSUME NEW i \in DOMAIN p, p[i] = <<op, f>> PROVE Waits(q, op, f)
    <3>1. i + 1 \in DOMAIN q /\ q[i + 1] = <<op, f>> BY <1>1, <2>2
    <3> QED BY <3>1 DEF Waits
  <2>3. 1 \in DOMAIN q BY <1>1
  <2> QED BY <2>1, <2>2, <2>3 DEF Waits
<1>4. ASSUME NEW op, NEW f, Once(q, <<op, f>>)
      PROVE  Once(p, <<op, f>>) /\ (q[1] = <<op, f>> => ~Waits(p, op, f))
  <2>1. ASSUME NEW i \in DOMAIN p, NEW j \in DOMAIN p, p[i] = <<op, f>>, p[j] = <<op, f>>
        PROVE  i = j
    <3>1. /\ i + 1 \in DOMAIN q /\ j + 1 \in DOMAIN q
          /\ q[i + 1] = <<op, f>> /\ q[j + 1] = <<op, f>> /\ i \in Nat /\ j \in Nat
        BY <1>1, <2>1
    <3>2. i + 1 = j + 1 BY <1>4, <3>1 DEF Once
    <3> QED BY <3>1, <3>2
  <2>2. ASSUME q[1] = <<op, f>>, NEW i \in DOMAIN p, p[i] = <<op, f>> PROVE FALSE
    <3>1. i + 1 \in DOMAIN q /\ q[i + 1] = <<op, f>> /\ i \in Nat /\ i >= 1 /\ 1 \in DOMAIN q
        BY <1>1, <2>2
    <3>2. i + 1 = 1 BY <1>4, <2>2, <3>1 DEF Once
    <3> QED BY <3>1, <3>2
  <2> QED BY <2>1, <2>2 DEF Once, Waits
<1>5. ASSUME Followed(q) PROVE Followed(p)
  <2> SUFFICES ASSUME NEW i \in DOMAIN p, p[i] = <<"start", 0>>
               PROVE  \E j \in DOMAIN p : j > i /\ p[j] = <<"remove", 0>>
      BY DEF Followed
  <2>1. i + 1 \in DOMAIN q /\ q[i + 1] = <<"start", 0>> /\ i \in Nat BY <1>1
  <2>2. PICK j \in DOMAIN q : j > i + 1 /\ q[j] = <<"remove", 0>> BY <1>5, <2>1 DEF Followed
  <2>3. j \in Nat /\ j - 1 \in DOMAIN p /\ j - 1 > i /\ p[j - 1] = <<"remove", 0>>
      BY <1>1, <1>2, <2>1, <2>2
  <2> QED BY <2>3
<1> QED BY <1>3, <1>4, <1>5 DEF p

\* With no start counted none waits.
LEMMA NoStarts ==
    ASSUME NEW q \in Seq(Function), StartsIn(q) = 0 PROVE ~Waits(q, "start", 0)
<1> DEFINE H == {i \in DOMAIN q : q[i][1] = "start"}
<1>1. IsFiniteSet(H) /\ Cardinality(H) = 0 BY StartsType DEF StartsIn
<1> HIDE DEF H
<1>2. H = {} BY <1>1, FS_EmptySet
<1>3. ASSUME NEW i \in DOMAIN q, q[i] = <<"start", 0>> PROVE FALSE
  <2>1. i \in H BY <1>3 DEF H
  <2> QED BY <1>2, <2>1
<1> QED BY <1>3 DEF Waits

\* What the model's guards say of the queue.
LEMMA RefersWaits ==
    ASSUME NEW w \in StateType
    PROVE  /\ \A op, f : <<op, f>> \in Range(w.queue) <=> Waits(w.queue, op, f)
           /\ \A ops, f : Refers(w, ops, f) <=> \E op \in ops : Waits(w.queue, op, f)
<1>1. ASSUME NEW op, NEW f PROVE <<op, f>> \in Range(w.queue) <=> Waits(w.queue, op, f)
    BY DEF Range, Waits
<1> QED BY <1>1 DEF Refers

\* p differs from q in releases that have been queued, or shutdowns.
Like(p, q) ==
    /\ StartsIn(p) = StartsIn(q)
    /\ \A op \in {"start", "remove", "setClose", "forceClose", "destroy"}, f \in Fds \cup {0} :
          Waits(p, op, f) <=> Waits(q, op, f)
    /\ Waits(q, "release", 0) => Waits(p, "release", 0)
    /\ \A f \in Fds : Once(q, <<"destroy", f>>) => Once(p, <<"destroy", f>>)
    /\ Followed(q) => Followed(p)

LEMMA LikeItself == ASSUME NEW q PROVE Like(q, q) BY DEF Like

LEMMA LikeAppend ==
    ASSUME NEW q \in Seq(Function), NEW x \in Function, x[1] \in {"release", "shutdown"}
    PROVE  Like(Append(q, x), q)
<1> DEFINE p == Append(q, x)
<1>1. StartsIn(p) = StartsIn(q)
  <2>1. StartsIn(p) = StartsIn(q) + 0 BY StartsAppend
  <2>2. StartsIn(q) \in Nat BY StartsType
  <2> QED BY <2>1, <2>2
<1>2. \A op, f : Waits(p, op, f) <=> Waits(q, op, f) \/ x = <<op, f>> BY WaitsAppend
<1>3. \A op, f : Once(q, <<op, f>>) /\ x # <<op, f>> => Once(p, <<op, f>>) BY WaitsAppend
<1>4. Followed(q) => Followed(p)
  <2>1. x # <<"start", 0>> OBVIOUS
  <2> QED BY <2>1, WaitsAppend
<1>5. \A op \in {"start", "remove", "setClose", "forceClose", "destroy"} :
         \A f : x # <<op, f>>
    OBVIOUS
<1> HIDE DEF p
<1> QED BY <1>1, <1>2, <1>3, <1>4, <1>5 DEF Like, p

\* The channel goes into a release.
LEMMA LikeRelease ==
    ASSUME NEW q \in Seq(Function)
    PROVE  /\ Like(Append(q, <<"release", 0>>), q)
           /\ Waits(Append(q, <<"release", 0>>), "release", 0)
<1> DEFINE x == <<"release", 0>>
<1>1. x \in Function /\ x[1] \in {"release", "shutdown"} BY OtherFunctions
<1> HIDE DEF x
<1>2. Like(Append(q, x), q) BY <1>1, LikeAppend
<1>3. Waits(Append(q, x), "release", 0) <=> Waits(q, "release", 0) \/ x = <<"release", 0>>
    BY <1>1, WaitsAppend
<1> QED BY <1>2, <1>3 DEF x

-----------------------------------------------------------------------------
(* Order *)

\* What SoundInv says of a record, with the loop thread at where in handleEvent
\* of at and stop() of the other thread under way if busy.
Sound(w, where, at, busy) ==
    /\ w \in StateType /\ use \in {"client", "connector"}
    /\ (w.client => w.exists) /\ (use = "connector" => w.client)
    /\ Orderly(w, where, at, busy)

\* socketHanded_ alone.
LEMMA HandedFields ==
    ASSUME NEW w \in StateType, NEW t \in BOOLEAN
    PROVE  LET v == [w EXCEPT !.handed = t] IN
           /\ v \in StateType /\ Descriptors(v) = Descriptors(w) /\ Rest(v) = Rest(w)
           /\ More(v) = More(w)
           /\ Core(v) = <<w.status, t, w.fd, w.chan, w.exists, w.client, w.timers, w.conn>>
<1> DEFINE v == [w EXCEPT !.handed = t]
<1>1. v \in StateType BY DEF StateType
<1>2. /\ Descriptors(v) = Descriptors(w) /\ Rest(v) = Rest(w) /\ More(v) = More(w)
      /\ Core(v) = <<w.status, t, w.fd, w.chan, w.exists, w.client, w.timers, w.conn>>
    BY DEF StateType, Core, Rest, Descriptors, More
<1> QED BY <1>1, <1>2

\* A sum of which at most one term is 1.
LEMMA AttemptsSum ==
    ASSUME NEW w \in StateType, NEW where
    PROVE  /\ StartsIn(w.queue) \in Nat /\ w.timers \in Nat /\ w.queue \in Seq(Function)
           /\ Attempts(w, where) = StartsIn(w.queue) + w.timers + One(w.chan # 0)
                                   + One(where = "tested") + One(w.connection # 0)
           /\ One(w.chan # 0) = IF w.chan # 0 THEN 1 ELSE 0
           /\ One(where = "tested") = IF where = "tested" THEN 1 ELSE 0
           /\ One(w.connection # 0) = IF w.connection # 0 THEN 1 ELSE 0
<1>1. w.queue \in Seq(Function) /\ w.timers \in Nat BY DEF StateType
<1>2. StartsIn(w.queue) \in Nat BY <1>1, StartsType
<1> QED BY <1>1, <1>2 DEF Attempts, One

LEMMA SmallerSum ==
    ASSUME NEW m \in Nat, NEW t \in Nat, NEW a \in Nat, NEW b \in Nat, NEW d \in Nat,
           m + t + a + b + d <= 1, NEW n \in Nat, n <= m, NEW e \in Nat, e <= d
    PROVE  n + t + a + b + e <= 1
OBVIOUS

LEMMA NoAttempts ==
    ASSUME NEW w \in StateType, NEW where, Attempts(w, where) = 0
    PROVE  StartsIn(w.queue) = 0 /\ w.timers = 0 /\ w.chan = 0 /\ w.connection = 0
BY AttemptsSum

\* Nothing that matters changes.
LEMMA SoundLike ==
    ASSUME NEW w, NEW where, NEW at, NEW busy, Sound(w, where, at, busy),
           NEW v \in StateType, Core(v) = Core(w), v.opened = w.opened, v.open = w.open,
           v.connection = w.connection, More(v) = More(w), Like(v.queue, w.queue)
    PROVE  Sound(v, where, at, busy)
<1>1. Orderly(w, where, at, busy) /\ w \in StateType BY DEF Sound
<1>2. /\ v.status = w.status /\ v.handed = w.handed /\ v.fd = w.fd /\ v.chan = w.chan
      /\ v.exists = w.exists /\ v.client = w.client /\ v.timers = w.timers /\ v.conn = w.conn
      /\ v.cb = w.cb /\ v.failed = w.failed /\ v.dead = w.dead
    BY DEF Core, More
<1>3. OneAttempt(v, where, busy)
  <2>1. OneAttempt(w, where, busy) BY <1>1 DEF Orderly
  <2> QED BY <1>2, <2>1 DEF OneAttempt, Attempts, Like
<1>4. FreshOnes(v, where, at)
  <2>1. FreshOnes(w, where, at) BY <1>1 DEF Orderly
  <2> QED BY <1>2, <2>1 DEF FreshOnes, Fresh
<1>5. ChannelStays(v, where, at)
  <2>1. ChannelStays(w, where, at) BY <1>1 DEF Orderly
  <2> QED BY <1>2, <2>1 DEF ChannelStays, Like
<1>6. Connections(v)
  <2>1. Connections(w) BY <1>1 DEF Orderly
  <2> QED BY <1>2, <2>1 DEF Connections, ConnectionKept, Like
<1>7. StartsHeld(v, busy)
  <2>1. StartsHeld(w, busy) BY <1>1 DEF Orderly
  <2> QED BY <1>2, <2>1 DEF StartsHeld, Like
<1> QED BY <1>1, <1>2, <1>3, <1>4, <1>5, <1>6, <1>7 DEF Orderly, Sound

\* ~Connector finds its descriptor open, or has none; nobody waits for it.
LEMMA DestroyConnectorSound ==
    ASSUME NEW w, NEW where, NEW at, NEW busy, Sound(w, where, at, busy), w.exists,
           ~ConnectorHeld(w, busy)
    PROVE  Sound(DestroyConnector(w), where, at, busy)
<1> DEFINE c == IF ~w.handed /\ w.fd # 0 THEN CloseFd(w, w.fd) ELSE w
           b == FALSE
           v == [c EXCEPT !.exists = b]
<1>1. w \in StateType /\ w.fd \in Fds \cup {0} /\ Orderly(w, where, at, busy)
    BY DEF Sound, StateType
<1>2. /\ ~w.client /\ ~busy /\ w.chan = 0 /\ ~Waits(w.queue, "remove", 0) /\ use = "client"
    BY <1>1, RefersWaits DEF ConnectorHeld, Sound
<1>3. PICK gone \in SUBSET Fds :
         /\ c \in StateType /\ Core(c) = Core(w) /\ Rest(c) = Rest(w) /\ More(c) = More(w)
         /\ Descriptors(c) = <<w.opened, w.open \ gone, w.lost>>
         /\ \A f \in gone : w.conn[f] = "none"
         /\ w.handed => gone = {}
  <2>1. CASE ~w.handed /\ w.fd # 0
    <3>1. w.fd \in w.open /\ w.conn[w.fd] = "none"
        BY <1>1, <1>2, <2>1 DEF Orderly, FreshOnes, Fresh
    <3>2. {w.fd} \in SUBSET Fds BY <1>1, <2>1
    <3>3. /\ CloseFd(w, w.fd) \in StateType /\ Core(CloseFd(w, w.fd)) = Core(w)
          /\ Rest(CloseFd(w, w.fd)) = Rest(w) /\ More(CloseFd(w, w.fd)) = More(w)
          /\ Descriptors(CloseFd(w, w.fd)) = <<w.opened, w.open \ {w.fd}, w.lost>>
        BY <1>1, <3>1, CloseFdFields
    <3>4. c = CloseFd(w, w.fd) BY <2>1
    <3> HIDE DEF c
    <3> QED BY <2>1, <3>1, <3>2, <3>3, <3>4
  <2>2. CASE ~(~w.handed /\ w.fd # 0)
    <3>1. c = w /\ w.open \ {} = w.open BY <2>2
    <3>2. Descriptors(w) = <<w.opened, w.open \ {}, w.lost>> BY <3>1 DEF Descriptors
    <3> HIDE DEF c
    <3> QED BY <1>1, <3>1, <3>2
  <2> QED BY <2>1, <2>2
<1>4. DestroyConnector(w) = v /\ b \in BOOLEAN /\ ~b BY DEF DestroyConnector
<1> HIDE DEF c, b
<1>5. v \in StateType BY <1>3, <1>4 DEF StateType
<1>6. /\ Core(v) = <<c.status, c.handed, c.fd, c.chan, b, c.client, c.timers, c.conn>>
      /\ Descriptors(v) = Descriptors(c) /\ Rest(v) = Rest(c) /\ More(v) = More(c)
    BY <1>3 DEF StateType, Core, Descriptors, Rest, More
<1> HIDE DEF v
<1>7. /\ v.status = w.status /\ v.handed = w.handed /\ v.fd = w.fd /\ v.chan = w.chan
      /\ v.exists = b /\ v.client = w.client /\ v.timers = w.timers /\ v.conn = w.conn
      /\ v.opened = w.opened /\ v.open = w.open \ gone
      /\ v.queue = w.queue /\ v.connection = w.connection
      /\ v.cb = w.cb /\ v.failed = w.failed /\ v.dead = w.dead
    BY <1>3, <1>6 DEF Core, Descriptors, Rest, More
<1>8. OneAttempt(v, where, busy)
  <2>1. OneAttempt(w, where, busy) BY <1>1 DEF Orderly
  <2> QED BY <1>7, <2>1 DEF OneAttempt, Attempts
<1>9. FreshOnes(v, where, at)
  <2>1. FreshOnes(w, where, at) BY <1>1 DEF Orderly
  <2> QED BY <1>2, <1>3, <1>4, <1>7, <2>1 DEF FreshOnes, Fresh
<1>10. ChannelStays(v, where, at)
  <2>1. ChannelStays(w, where, at) BY <1>1 DEF Orderly
  <2> QED BY <1>7, <2>1 DEF ChannelStays
<1>11. Connections(v)
  <2>1. Connections(w) BY <1>1 DEF Orderly
  <2> QED BY <1>3, <1>7, <2>1 DEF Connections, ConnectionKept
<1>12. StartsHeld(v, busy)
  <2>1. StartsHeld(w, busy) BY <1>1 DEF Orderly
  <2>2. ~Waits(w.queue, "start", 0)
      BY <1>2, <2>1 DEF StartsHeld, Followed, Waits
  <2> QED BY <1>7, <2>2 DEF StartsHeld
<1> QED
    BY <1>1, <1>2, <1>4, <1>5, <1>7, <1>8, <1>9, <1>10, <1>11, <1>12 DEF Orderly, Sound

\* A connection that nothing refers to has been removed, its descriptor is open.
LEMMA DestroyConnsSound ==
    ASSUME NEW w, NEW where, NEW at, NEW busy, Sound(w, where, at, busy),
           NEW gone \in SUBSET Fds,
           \A f \in gone : w.conn[f] \notin {"none", "gone"} /\ ~ConnHeld(w, f)
    PROVE  Sound(DestroyConns(w, gone), where, at, busy)
<1> DEFINE k == [f \in Fds |-> IF f \in gone THEN "gone" ELSE w.conn[f]]
           o == w.open \ gone
           x == w.dead \/ \E f \in gone : f \notin w.open \/ w.conn[f] # "removed"
           v == [w EXCEPT !.conn = k, !.open = o, !.dead = x]
<1>1. w \in StateType /\ Orderly(w, where, at, busy) BY DEF Sound
<1>2. \A f \in gone : w.conn[f] = "removed" /\ f \in w.open /\ w.connection # f
  <2> TAKE f \in gone
  <2>1. /\ w.connection # f /\ ~Waits(w.queue, "forceClose", f)
        /\ ~Waits(w.queue, "destroy", f)
      BY <1>1, RefersWaits DEF ConnHeld
  <2>2. ConnectionKept(w, f) BY <1>1 DEF Orderly, Connections
  <2>3. w.conn[f] \in {"Connected", "Disconnecting", "Disconnected", "removed"}
      BY <1>1 DEF StateType
  <2> QED BY <2>1, <2>2, <2>3 DEF ConnectionKept
<1>3. ~w.dead /\ w.dead \in BOOLEAN BY <1>1 DEF Orderly, StateType
<1>4. x = w.dead BY <1>2, <1>3
<1>5. DestroyConns(w, gone) = v BY DEF DestroyConns
<1>6. k \in [Fds -> {"none", "Connected", "Disconnecting", "Disconnected", "removed", "gone"}]
    BY <1>1 DEF StateType
<1>7. \A f \in Fds : k[f] = IF f \in gone THEN "gone" ELSE w.conn[f] OBVIOUS
<1> HIDE DEF k, x
<1>8. v \in StateType BY <1>1, <1>3, <1>4, <1>6 DEF StateType
<1>9. /\ v.status = w.status /\ v.handed = w.handed /\ v.fd = w.fd /\ v.chan = w.chan
      /\ v.exists = w.exists /\ v.client = w.client /\ v.timers = w.timers /\ v.conn = k
      /\ v.opened = w.opened /\ v.open = o
      /\ v.queue = w.queue /\ v.connection = w.connection
      /\ v.cb = w.cb /\ v.failed = w.failed /\ v.dead = x
    BY <1>1 DEF StateType
<1> HIDE DEF v
<1>10. OneAttempt(v, where, busy)
  <2>1. OneAttempt(w, where, busy) BY <1>1 DEF Orderly
  <2> QED BY <1>9, <2>1 DEF OneAttempt, Attempts
<1>11. FreshOnes(v, where, at)
  <2>1. FreshOnes(w, where, at) BY <1>1 DEF Orderly
  <2>2. w.open \subseteq Fds BY <1>1 DEF StateType
  <2>3. \A f : Fresh(w, f) => Fresh(v, f)
      BY <1>2, <1>7, <1>9, <2>2 DEF Fresh
  <2> QED BY <1>2, <1>7, <1>9, <2>1, <2>3 DEF FreshOnes
<1>12. ChannelStays(v, where, at)
  <2>1. ChannelStays(w, where, at) BY <1>1 DEF Orderly
  <2> QED BY <1>9, <2>1 DEF ChannelStays
<1>13. Connections(v)
  <2>1. Connections(w) BY <1>1 DEF Orderly
  <2>2. w.connection # 0 => w.connection \in Fds /\ w.connection \notin gone
      BY <1>1, <1>2 DEF StateType
  <2>3. \A f \in Fds : ConnectionKept(v, f)
    <3> TAKE f \in Fds
    <3>1. ConnectionKept(w, f) BY <2>1 DEF Connections
    <3>2. CASE f \in gone
      <4>1. v.conn[f] = "gone" /\ w.conn[f] = "removed" BY <1>2, <1>7, <1>9, <3>2
      <4> QED BY <1>9, <3>1, <4>1 DEF ConnectionKept
    <3>3. CASE f \notin gone
      <4>1. v.conn[f] = w.conn[f] /\ (f \in w.open => f \in v.open) BY <1>7, <1>9, <3>3
      <4> QED BY <1>9, <3>1, <4>1 DEF ConnectionKept
    <3> QED BY <3>2, <3>3
  <2> QED BY <1>7, <1>9, <2>1, <2>2, <2>3 DEF Connections
<1>14. StartsHeld(v, busy)
  <2>1. StartsHeld(w, busy) BY <1>1 DEF Orderly
  <2> QED BY <1>9, <2>1 DEF StartsHeld
<1> QED
    BY <1>1, <1>4, <1>5, <1>8, <1>9, <1>10, <1>11, <1>12, <1>13, <1>14 DEF Orderly, Sound

\* The destructors find nothing in use.
LEMMA ReapSound ==
    ASSUME NEW w, NEW where, NEW at, NEW busy, Sound(w, where, at, busy)
    PROVE  Sound(Reap(w, busy), where, at, busy)
<1> DEFINE u == IF w.exists /\ ~ConnectorHeld(w, busy) THEN DestroyConnector(w) ELSE w
           gone == {f \in Fds : u.conn[f] \notin {"none", "gone"} /\ ~ConnHeld(u, f)}
<1>1. Sound(u, where, at, busy)
  <2>1. CASE w.exists /\ ~ConnectorHeld(w, busy) BY <2>1, DestroyConnectorSound
  <2>2. CASE ~(w.exists /\ ~ConnectorHeld(w, busy)) BY <2>2
  <2> QED BY <2>1, <2>2
<1>2. /\ gone \in SUBSET Fds /\ Reap(w, busy) = DestroyConns(u, gone)
      /\ \A f \in gone : u.conn[f] \notin {"none", "gone"} /\ ~ConnHeld(u, f)
    BY Zenon DEF Reap
<1> HIDE DEF u, gone
<1> QED BY <1>1, <1>2, DestroyConnsSound

-----------------------------------------------------------------------------
(* An attempt begins *)

\* Nothing was under way; now the channel f is, or a retry, or nothing, and f is
\* open if the connector still has to close it.
LEMMA AttemptSound ==
    ASSUME NEW w, NEW where, NEW at, NEW busy, Sound(w, where, at, busy),
           where # "tested", Attempts(w, where) = 0, NEW f \in Fds, f = w.opened + 1,
           NEW u \in StateType, u.opened = f, w.open \subseteq u.open,
           u.open \subseteq w.open \cup {f}, u.exists = w.exists, u.client = w.client,
           u.conn = w.conn, u.queue = w.queue, u.connection = w.connection, More(u) = More(w),
           \/ u.status = "Disconnected" /\ u.chan = 0 /\ u.timers \in {0, 1}
           \/ u.status = "Connecting" /\ u.chan = f /\ u.timers = 0 /\ f \in u.open,
           use = "client" /\ ~u.handed => u.fd = f /\ f \in u.open
    PROVE  Sound(u, where, at, busy)
<1>1. w \in StateType /\ Orderly(w, where, at, busy) BY DEF Sound
<1>2. /\ u.cb = w.cb /\ u.failed = w.failed /\ u.dead = w.dead BY DEF More
<1>3. w.opened \in Nat /\ f \in Nat BY <1>1, ClientAssumption DEF StateType, Fds
<1>4. StartsIn(w.queue) = 0 /\ w.timers = 0 /\ w.chan = 0 /\ w.connection = 0
    BY <1>1, NoAttempts
<1>5. f \notin w.open /\ w.conn[f] = "none"
  <2>1. f \notin 1..w.opened BY <1>3
  <2> QED BY <1>1, <2>1 DEF Orderly, FreshOnes
<1>6. OneAttempt(u, where, busy)
  <2>1. Attempts(u, where) = u.timers + One(u.chan # 0)
    <3>1. /\ u.timers \in Nat /\ One(where = "tested") = 0 /\ One(u.connection # 0) = 0
          /\ One(u.chan # 0) \in {0, 1}
        BY <1>4, AttemptsSum
    <3>2. Attempts(u, where) = StartsIn(u.queue) + u.timers + One(u.chan # 0)
                               + One(where = "tested") + One(u.connection # 0)
        BY AttemptsSum
    <3> QED BY <1>4, <3>1, <3>2
  <2>2. Attempts(u, where) <= 1
    <3>1. u.chan = 0 => One(u.chan # 0) = 0 BY DEF One
    <3>2. f # 0 BY DEF Fds
    <3>3. u.chan = f => One(u.chan # 0) = 1 BY <3>2 DEF One
    <3> QED BY <2>1, <3>1, <3>3
  <2>3. f # 0 BY DEF Fds
  <2>4. StartsIn(u.queue) + u.timers > 0 => u.status = "Disconnected" BY <1>4
  <2> QED BY <2>2, <2>3, <2>4 DEF OneAttempt, InEvent
<1>7. FreshOnes(u, where, at)
  <2>1. FreshOnes(w, where, at) BY <1>1 DEF Orderly
  <2>2. 1..w.opened \subseteq 1..f BY <1>3
  <2>3. f \in 1..f BY DEF Fds
  <2>4. u.open \subseteq 1..u.opened BY <2>1, <2>2, <2>3 DEF FreshOnes
  <2>5. \A g \in Fds : u.conn[g] # "none" => g \in 1..u.opened BY <2>1, <2>2 DEF FreshOnes
  <2>6. f \in u.open => Fresh(u, f) BY <1>5 DEF Fresh
  <2>7. Fresh(u, 0) BY DEF Fresh
  <2> QED BY <2>4, <2>5, <2>6, <2>7 DEF FreshOnes
<1>8. ChannelStays(u, where, at) BY <1>1, <1>4 DEF Orderly, ChannelStays
<1>9. Connections(u)
  <2>1. Connections(w) BY <1>1 DEF Orderly
  <2> QED BY <1>2, <2>1 DEF Connections, ConnectionKept
<1>10. StartsHeld(u, busy) BY <1>1 DEF Orderly, StartsHeld
<1> QED BY <1>1, <1>2, <1>6, <1>7, <1>8, <1>9, <1>10 DEF Orderly, Sound

\* connect(), whatever its outcome.
LEMMA ConnectSound ==
    ASSUME NEW w, NEW where, NEW at, NEW busy, Sound(w, where, at, busy),
           where # "tested", Attempts(w, where) = 0, w.status = "Disconnected",
           NEW f \in Fds, f = w.opened + 1, NEW how \in Outcomes
    PROVE  Sound(Connect(w, f, how), where, at, busy)
<1>1. w \in StateType /\ Orderly(w, where, at, busy) BY DEF Sound
<1>2. PICK v : Opened(w, f, v) /\ Connect(w, f, how) = ConnectEnds(v, f, how)
    BY <1>1, ConnectOpens
<1>3. w.timers = 0 /\ w.chan = 0 BY <1>1, NoAttempts
<1>4. f \notin w.open
  <2>1. w.opened \in Nat BY <1>1, ClientAssumption DEF StateType
  <2>2. f \notin 1..w.opened BY <2>1
  <2> QED BY <1>1, <2>2 DEF Orderly, FreshOnes
<1>5. /\ v \in StateType /\ v.status = "Disconnected" /\ ~v.handed /\ v.fd = f /\ v.chan = 0
      /\ v.exists = w.exists /\ v.client = w.client /\ v.timers = 0 /\ v.conn = w.conn
      /\ v.opened = f /\ v.open = w.open \cup {f}
      /\ v.queue = w.queue /\ v.connection = w.connection /\ More(v) = More(w)
    BY <1>2, <1>3 DEF Opened, Core, Rest
<1>6. w.open \subseteq v.open /\ (w.open \cup {f}) \ {f} = w.open BY <1>4, <1>5
<1>7. CASE how = "progress"
  <2> DEFINE u == [v EXCEPT !.status = "Connecting", !.chan = f]
  <2>1. Connect(w, f, how) = u
    <3>1. Assert(v, v.chan = 0) = v BY <1>5, AssertTrue
    <3> QED BY <1>2, <1>7, <3>1 DEF ConnectEnds, Connecting
  <2>2. u \in StateType BY <1>5 DEF StateType
  <2>3. /\ u.status = "Connecting" /\ u.chan = f /\ u.fd = v.fd
        /\ u.exists = v.exists /\ u.client = v.client /\ u.timers = v.timers /\ u.conn = v.conn
        /\ u.opened = v.opened /\ u.open = v.open
        /\ u.queue = v.queue /\ u.connection = v.connection /\ More(u) = More(v)
      BY <1>5 DEF StateType, More
  <2> HIDE DEF u
  <2>4. Sound(u, where, at, busy) BY <1>5, <1>6, <2>2, <2>3, AttemptSound
  <2> QED BY <2>1, <2>4
<1>8. CASE how = "refused" /\ use = "connector"
  <2> DEFINE r == Retry(v, f)
             u == Answer(r, f, "error")
  <2>1. PICK t \in {v.timers, v.timers + 1} :
           Core(r) = <<"Disconnected", v.handed, v.fd, v.chan, v.exists, v.client, t, v.conn>>
      BY <1>5, RetryFields
  <2>2. /\ r \in StateType /\ Rest(r) = Rest(v) /\ More(r) = More(v)
        /\ Descriptors(r) = <<v.opened, v.open \ {f}, v.lost>>
      BY <1>5, RetryFields
  <2>3. Connect(w, f, how) = u BY <1>2, <1>8 DEF ConnectEnds
  <2> HIDE DEF r
  <2>4. /\ u \in StateType /\ Core(u) = Core(r) /\ Descriptors(u) = Descriptors(r)
        /\ Rest(u) = Rest(r) /\ More(u) = More(r)
      BY <2>2, AnswerFields
  <2> HIDE DEF u
  <2>5. /\ u.status = "Disconnected" /\ u.chan = 0
        /\ u.exists = v.exists /\ u.client = v.client /\ u.timers = t /\ u.conn = v.conn
        /\ u.opened = v.opened /\ u.open = w.open
        /\ u.queue = v.queue /\ u.connection = v.connection /\ More(u) = More(v)
      BY <1>5, <1>6, <2>1, <2>2, <2>4 DEF Core, Descriptors, Rest
  <2>6. u.timers \in {0, 1} BY <1>5, <2>5
  <2>7. Sound(u, where, at, busy) BY <1>5, <1>8, <2>4, <2>5, <2>6, AttemptSound
  <2> QED BY <2>3, <2>7
<1>9. CASE how = "refused" /\ use # "connector"
  <2> DEFINE u == Answer(v, f, "silent")
  <2>1. /\ u \in StateType /\ Core(u) = Core(v) /\ Descriptors(u) = Descriptors(v)
        /\ Rest(u) = Rest(v) /\ More(u) = More(v)
      BY <1>5, AnswerFields
  <2>2. Connect(w, f, how) = u BY <1>2, <1>9 DEF ConnectEnds
  <2> HIDE DEF u
  <2>3. /\ u.status = "Disconnected" /\ u.chan = 0 /\ u.fd = f
        /\ u.exists = v.exists /\ u.client = v.client /\ u.timers = 0 /\ u.conn = v.conn
        /\ u.opened = v.opened /\ u.open = v.open
        /\ u.queue = v.queue /\ u.connection = v.connection /\ More(u) = More(v)
      BY <1>5, <2>1 DEF Core, Descriptors, Rest
  <2>4. Sound(u, where, at, busy) BY <1>5, <1>6, <2>1, <2>3, AttemptSound
  <2> QED BY <2>2, <2>4
<1>10. CASE how = "hopeless"
  <2> DEFINE c == CloseFd(v, f)
             t == TRUE
             h == [c EXCEPT !.handed = t]
             u == Answer(h, f, "error")
  <2>1. /\ c \in StateType /\ Core(c) = Core(v) /\ Rest(c) = Rest(v) /\ More(c) = More(v)
        /\ Descriptors(c) = <<v.opened, v.open \ {f}, v.lost>>
      BY <1>5, CloseFdFields
  <2>2. Connect(w, f, how) = u BY <1>2, <1>10 DEF ConnectEnds
  <2>3. t \in BOOLEAN /\ t OBVIOUS
  <2> HIDE DEF c, t
  <2>4. /\ h \in StateType
        /\ Core(h) = <<c.status, t, c.fd, c.chan, c.exists, c.client, c.timers, c.conn>>
        /\ Descriptors(h) = Descriptors(c) /\ Rest(h) = Rest(c) /\ More(h) = More(c)
      BY <2>1, <2>3, HandedFields
  <2> HIDE DEF h
  <2>5. /\ u \in StateType /\ Core(u) = Core(h) /\ Descriptors(u) = Descriptors(h)
        /\ Rest(u) = Rest(h) /\ More(u) = More(h)
      BY <2>4, AnswerFields
  <2> HIDE DEF u
  <2>6. /\ u.status = "Disconnected" /\ u.chan = 0 /\ u.handed = t
        /\ u.exists = v.exists /\ u.client = v.client /\ u.timers = 0 /\ u.conn = v.conn
        /\ u.opened = v.opened /\ u.open = w.open
        /\ u.queue = v.queue /\ u.connection = v.connection /\ More(u) = More(v)
      BY <1>5, <1>6, <2>1, <2>4, <2>5 DEF Core, Descriptors, Rest
  <2>7. Sound(u, where, at, busy) BY <1>5, <2>3, <2>5, <2>6, AttemptSound
  <2> QED BY <2>2, <2>7
<1> QED BY <1>7, <1>8, <1>9, <1>10 DEF Outcomes

\* startInLoop with nothing under way.
LEMMA StartInLoopSound ==
    ASSUME NEW w, NEW where, NEW at, NEW busy, Sound(w, where, at, busy),
           where # "tested", Attempts(w, where) = 0, w.status = "Disconnected",
           w.opened < MaxAttempts, NEW how \in Outcomes
    PROVE  Sound(StartInLoop(w, how), where, at, busy)
<1> DEFINE f == w.opened + 1
<1>1. w \in StateType /\ f \in Fds BY ClientAssumption DEF Sound, StateType, Fds
<1>2. Assert(w, w.status = "Disconnected") = w BY <1>1, AssertTrue
<1>3. StartInLoop(w, how) = IF w.connect /\ ~w.failed THEN Connect(w, f, how) ELSE w
    BY <1>2 DEF StartInLoop
<1>4. Sound(Connect(w, f, how), where, at, busy) BY <1>1, ConnectSound
<1> HIDE DEF f
<1> QED BY <1>3, <1>4

-----------------------------------------------------------------------------
(* The loop takes a function; connections are closed *)

LEMMA TailFields ==
    ASSUME NEW w \in StateType, w.queue # <<>>
    PROVE  LET v == [w EXCEPT !.queue = Tail(@)] IN
           /\ v \in StateType /\ Core(v) = Core(w) /\ Descriptors(v) = Descriptors(w)
           /\ v.queue = Tail(w.queue) /\ v.connect = w.connect /\ v.connection = w.connection
           /\ More(v) = More(w)
<1> DEFINE q == Tail(w.queue)
           v == [w EXCEPT !.queue = q]
<1>1. w.queue \in Seq(Function) BY DEF StateType
<1>2. q \in Seq(Function) BY <1>1, QueueElements
<1> HIDE DEF q
<1>3. v \in StateType BY <1>2 DEF StateType
<1>4. /\ v.queue = q /\ Core(v) = Core(w) /\ Descriptors(v) = Descriptors(w)
      /\ v.connect = w.connect /\ v.connection = w.connection /\ More(v) = More(w)
    BY DEF StateType, Core, Descriptors, More
<1> QED BY <1>3, <1>4 DEF q

\* A function that closes nothing is taken.
LEMMA TailSound ==
    ASSUME NEW w, NEW at, NEW busy, Sound(w, "idle", at, busy), w.queue # <<>>,
           w.queue[1][1] \notin {"forceClose", "destroy"}
    PROVE  Sound([w EXCEPT !.queue = Tail(@)], "idle", at, busy)
<1> DEFINE v == [w EXCEPT !.queue = Tail(@)]
           q == w.queue
           p == Tail(w.queue)
<1>1. w \in StateType /\ Orderly(w, "idle", at, busy) /\ q \in Seq(Function)
    BY DEF Sound, StateType
<1>2. /\ v \in StateType /\ Core(v) = Core(w) /\ Descriptors(v) = Descriptors(w)
      /\ v.queue = p /\ v.connection = w.connection /\ More(v) = More(w)
    BY <1>1, TailFields
<1>3. /\ \A op, f : Waits(p, op, f) => Waits(q, op, f)
      /\ \A f : /\ Waits(p, "forceClose", f) <=> Waits(q, "forceClose", f)
                /\ Waits(p, "destroy", f) <=> Waits(q, "destroy", f)
                /\ Once(q, <<"destroy", f>>) => Once(p, <<"destroy", f>>)
      /\ Followed(q) => Followed(p)
  <2>1. \A f : q[1] # <<"forceClose", f>> /\ q[1] # <<"destroy", f>> OBVIOUS
  <2>2. \A op, f : Waits(q, op, f) <=> Waits(p, op, f) \/ q[1] = <<op, f>> BY <1>1, WaitsTail
  <2>3. \A op, f : Once(q, <<op, f>>) => Once(p, <<op, f>>) BY <1>1, WaitsTail
  <2>4. Followed(q) => Followed(p) BY <1>1, WaitsTail
  <2> HIDE DEF p, q
  <2> QED BY <2>1, <2>2, <2>3, <2>4
<1>4. StartsIn(p) <= StartsIn(q) /\ StartsIn(p) \in Nat /\ StartsIn(q) \in Nat
  <2>1. StartsIn(p) = StartsIn(q) - (IF q[1][1] = "start" THEN 1 ELSE 0) BY <1>1, StartsTail
  <2>2. p \in Seq(Function) BY <1>1, QueueElements
  <2>3. StartsIn(p) \in Nat /\ StartsIn(q) \in Nat BY <1>1, <2>2, StartsType
  <2> QED BY <2>1, <2>3
<1> HIDE DEF v, p
<1>5. /\ v.status = w.status /\ v.handed = w.handed /\ v.fd = w.fd /\ v.chan = w.chan
      /\ v.exists = w.exists /\ v.client = w.client /\ v.timers = w.timers /\ v.conn = w.conn
      /\ v.opened = w.opened /\ v.open = w.open
      /\ v.cb = w.cb /\ v.failed = w.failed /\ v.dead = w.dead
    BY <1>2 DEF Core, Descriptors, More
<1>6. OneAttempt(v, "idle", busy)
  <2>1. OneAttempt(w, "idle", busy) BY <1>1 DEF Orderly
  <2>2. Attempts(v, "idle") <= 1
    <3>1. /\ w.timers \in Nat
          /\ Attempts(w, "idle") = StartsIn(w.queue) + w.timers + One(w.chan # 0)
                                   + One("idle" = "tested") + One(w.connection # 0)
          /\ One(w.chan # 0) \in {0, 1} /\ One("idle" = "tested") \in {0, 1}
          /\ One(w.connection # 0) \in {0, 1}
        BY <1>1, AttemptsSum
    <3>2. Attempts(v, "idle") = StartsIn(p) + w.timers + One(w.chan # 0)
                                   + One("idle" = "tested") + One(w.connection # 0)
        BY <1>2, <1>5 DEF Attempts
    <3>3. Attempts(w, "idle") <= 1 BY <2>1 DEF OneAttempt
    <3> DEFINE a == One(w.chan # 0)
               b == One("idle" = "tested")
               d == One(w.connection # 0)
               m == StartsIn(q)
               n == StartsIn(p)
    <3>4. /\ Attempts(w, "idle") = m + w.timers + a + b + d
          /\ Attempts(v, "idle") = n + w.timers + a + b + d
          /\ a \in Nat /\ b \in Nat /\ d \in Nat /\ w.timers \in Nat
          /\ m \in Nat /\ n \in Nat /\ n <= m /\ d <= d
        BY <1>4, <3>1, <3>2
    <3> HIDE DEF a, b, d, m, n
    <3>5. n + w.timers + a + b + d <= 1 BY <3>3, <3>4, SmallerSum
    <3> QED BY <3>4, <3>5
  <2>3. w.timers \in Nat BY <1>1 DEF StateType
  <2> QED BY <1>2, <1>4, <1>5, <2>1, <2>2, <2>3 DEF OneAttempt, InEvent
<1>7. FreshOnes(v, "idle", at)
  <2>1. FreshOnes(w, "idle", at) BY <1>1 DEF Orderly
  <2> QED BY <1>5, <2>1 DEF FreshOnes, Fresh
<1>8. ChannelStays(v, "idle", at) BY DEF ChannelStays, InEvent
<1>9. Connections(v)
  <2>1. Connections(w) BY <1>1 DEF Orderly
  <2> QED BY <1>2, <1>3, <1>5, <2>1 DEF Connections, ConnectionKept
<1>10. StartsHeld(v, busy)
  <2>1. StartsHeld(w, busy) BY <1>1 DEF Orderly
  <2> QED BY <1>2, <1>3, <1>5, <2>1 DEF StartsHeld
<1>11. Orderly(v, "idle", at, busy)
    BY <1>1, <1>5, <1>6, <1>7, <1>8, <1>9, <1>10 DEF Orderly
<1>12. Sound(v, "idle", at, busy)
    BY <1>2, <1>5, <1>11 DEF Sound
<1> QED BY <1>12 DEF v

\* What is queued, less a forceClose of c.
LessClose(q, p, c) ==
    /\ q \in Seq(Function) /\ StartsIn(q) = StartsIn(p)
    /\ \A op, f : <<op, f>> # <<"forceClose", c>> => (Waits(q, op, f) <=> Waits(p, op, f))
    /\ \A op, f : Waits(q, op, f) => Waits(p, op, f)
    /\ \A op, f : Once(p, <<op, f>>) => Once(q, <<op, f>>)
    /\ Followed(p) => Followed(q)

\* v is w with the connection c closed and q, and then its destruction, queued; the
\* client lets it go, or goes itself.
Closed(w, q, c, v) ==
    /\ v \in StateType /\ v.queue = Append(q, <<"destroy", c>>)
    /\ v.conn = [w.conn EXCEPT ![c] = "Disconnected"]
    /\ v.connection # c /\ (v.connection = w.connection \/ (v.connection = 0 /\ w.connection = c))
    /\ \/ v.client = w.client
       \/ ~v.client /\ use = "client" /\ w.connection = c /\ v.connection = 0
    /\ \A f \in Fds : v.cb[f] = "own" => w.cb[f] = "own" \/ ~v.client
    /\ v.status = w.status /\ v.handed = w.handed /\ v.fd = w.fd /\ v.chan = w.chan
    /\ v.exists = w.exists /\ v.timers = w.timers /\ v.opened = w.opened
    /\ v.open = w.open /\ v.failed = w.failed /\ v.dead = w.dead

\* The connection c is closed and will be destroyed: its closer, the client or a
\* forceClose that has been taken, may go.
LEMMA ClosedSound ==
    ASSUME NEW w, NEW where, NEW at, NEW busy, Sound(w, where, at, busy),
           NEW c \in Fds, w.conn[c] \in {"Connected", "Disconnecting"},
           NEW q, LessClose(q, w.queue, c), NEW v, Closed(w, q, c, v)
    PROVE  Sound(v, where, at, busy)
<1> SUFFICES
        ASSUME q \in Seq(Function), StartsIn(q) = StartsIn(w.queue),
               \A op, f : <<op, f>> # <<"forceClose", c>> =>
                  (Waits(q, op, f) <=> Waits(w.queue, op, f)),
               \A op, f : Waits(q, op, f) => Waits(w.queue, op, f),
               \A op, f : Once(w.queue, <<op, f>>) => Once(q, <<op, f>>),
               Followed(w.queue) => Followed(q),
               v \in StateType, v.queue = Append(q, <<"destroy", c>>),
               v.conn = [w.conn EXCEPT ![c] = "Disconnected"],
               v.connection # c,
               v.connection = w.connection \/ (v.connection = 0 /\ w.connection = c),
               v.client = w.client
                  \/ (~v.client /\ use = "client" /\ w.connection = c /\ v.connection = 0),
               \A f \in Fds : v.cb[f] = "own" => w.cb[f] = "own" \/ ~v.client,
               v.status = w.status, v.handed = w.handed, v.fd = w.fd, v.chan = w.chan,
               v.exists = w.exists, v.timers = w.timers, v.opened = w.opened,
               v.open = w.open, v.failed = w.failed, v.dead = w.dead
        PROVE  Sound(v, where, at, busy)
    BY DEF LessClose, Closed
<1> DEFINE x == <<"destroy", c>>
           p == Append(q, x)
<1>1. w \in StateType /\ Orderly(w, where, at, busy) BY DEF Sound
<1>2. x \in Function /\ x[1] = "destroy" BY OtherFunctions
<1>3. v.queue = p OBVIOUS
<1>4. /\ \A op, f : Waits(p, op, f) <=> Waits(q, op, f) \/ x = <<op, f>>
      /\ \A op, f : Once(q, <<op, f>>) /\ (x = <<op, f>> => ~Waits(q, op, f))
                       => Once(p, <<op, f>>)
      /\ Followed(q) => Followed(p)
  <2>1. x # <<"start", 0>> OBVIOUS
  <2> HIDE DEF x
  <2> QED BY <1>2, <2>1, WaitsAppend
<1>5. StartsIn(p) = StartsIn(w.queue)
  <2> HIDE DEF x
  <2>1. StartsIn(p) = StartsIn(q) + 0 BY <1>2, StartsAppend
  <2>2. StartsIn(q) \in Nat BY StartsType
  <2> QED BY <2>1, <2>2
<1>6. ~Waits(w.queue, "destroy", c)
  <2>1. ConnectionKept(w, c) BY <1>1 DEF Orderly, Connections
  <2> QED BY <2>1 DEF ConnectionKept
<1>7. \A f : Waits(p, "destroy", f) <=> Waits(w.queue, "destroy", f) \/ f = c BY <1>4
<1>8. \A op, f : op # "destroy" => (Waits(p, op, f) <=> Waits(q, op, f)) BY <1>4
<1>9. \A f \in Fds : Once(w.queue, <<"destroy", f>>) => Once(p, <<"destroy", f>>)
    BY <1>4, <1>6
<1>10. \A f \in Fds : v.conn[f] = IF f = c THEN "Disconnected" ELSE w.conn[f]
    BY <1>1 DEF StateType
<1> HIDE DEF p, x
<1>11. OneAttempt(v, where, busy)
  <2>1. OneAttempt(w, where, busy) BY <1>1 DEF Orderly
  <2>2. Attempts(v, where) <= 1
    <3>1. One(v.connection # 0) <= One(w.connection # 0) /\ One(v.connection # 0) \in {0, 1}
        BY DEF One
    <3>2. /\ w.timers \in Nat /\ StartsIn(w.queue) \in Nat
          /\ Attempts(w, where) = StartsIn(w.queue) + w.timers + One(w.chan # 0)
                                   + One(where = "tested") + One(w.connection # 0)
          /\ One(w.chan # 0) \in {0, 1} /\ One(where = "tested") \in {0, 1}
          /\ One(w.connection # 0) \in {0, 1}
        BY <1>1, AttemptsSum
    <3>3. Attempts(v, where) = StartsIn(w.queue) + w.timers + One(w.chan # 0)
                                   + One(where = "tested") + One(v.connection # 0)
        BY <1>3, <1>5 DEF Attempts
    <3>4. Attempts(w, where) <= 1 BY <2>1 DEF OneAttempt
    <3> QED BY <3>1, <3>2, <3>3, <3>4
  <2>3. Waits(v.queue, "remove", 0) <=> Waits(w.queue, "remove", 0) BY <1>3, <1>8
  <2> QED BY <1>3, <1>5, <2>1, <2>2, <2>3 DEF OneAttempt
<1>12. FreshOnes(v, where, at)
  <2>1. FreshOnes(w, where, at) BY <1>1 DEF Orderly
  <2>2. \A f \in Fds \cup {0} : Fresh(w, f) => Fresh(v, f) BY <1>10 DEF Fresh
  <2>3. w.chan \in Fds \cup {0} /\ w.fd \in Fds \cup {0} BY <1>1 DEF StateType
  <2>4. w.open \subseteq Fds BY <1>1 DEF StateType
  <2>5. \A f : f \in w.open \/ f = 0 => f \in Fds \cup {0} BY <2>4
  <2>6. \A f : Fresh(w, f) => f \in Fds \cup {0} BY <2>5 DEF Fresh
  <2>7. \A f : Fresh(w, f) => Fresh(v, f) BY <2>2, <2>6
  <2>8. \A f \in Fds : v.conn[f] # "none" => w.conn[f] # "none" BY <1>10
  <2> QED BY <2>1, <2>7, <2>8 DEF FreshOnes
<1>13. ChannelStays(v, where, at)
  <2>1. ChannelStays(w, where, at) BY <1>1 DEF Orderly
  <2>2. Waits(v.queue, "release", 0) <=> Waits(w.queue, "release", 0) BY <1>3, <1>8
  <2> QED BY <2>1, <2>2 DEF ChannelStays
<1>14. Connections(v)
  <2>1. Connections(w) BY <1>1 DEF Orderly
  <2>2. v.connection # 0 => v.client /\ v.conn[v.connection] \in {"Connected", "Disconnecting"}
    <3>1. v.connection \in Fds \cup {0} BY DEF StateType
    <3> QED BY <1>10, <2>1, <3>1 DEF Connections
  <2>3. \A f \in Fds : ConnectionKept(v, f)
    <3> TAKE f \in Fds
    <3>1. ConnectionKept(w, f) BY <2>1 DEF Connections
    <3>2. v.cb[f] = "own" \/ Waits(v.queue, "setClose", f) \/ Waits(v.queue, "forceClose", f)
             => ~v.client
        BY <1>3, <1>8, <3>1 DEF ConnectionKept
    <3>3. CASE f = c
      <4>1. v.conn[f] = "Disconnected" /\ f \in v.open BY <1>10, <3>1, <3>3 DEF ConnectionKept
      <4> QED BY <1>3, <1>7, <1>9, <3>1, <3>2, <3>3, <4>1 DEF ConnectionKept
    <3>4. CASE f # c
      <4>1. v.conn[f] = w.conn[f] BY <1>10, <3>4
      <4>2. Waits(v.queue, "forceClose", f) <=> Waits(w.queue, "forceClose", f)
          BY <1>3, <1>8, <3>4
      <4>3. Waits(v.queue, "destroy", f) <=> Waits(w.queue, "destroy", f)
          BY <1>3, <1>7, <3>4
      <4>4. Once(v.queue, <<"destroy", f>>) BY <1>3, <1>9, <3>1 DEF ConnectionKept
      <4>5. w.connection = f => v.connection = f BY <3>4
      <4> QED BY <3>1, <3>2, <4>1, <4>2, <4>3, <4>4, <4>5 DEF ConnectionKept
    <3> QED BY <3>3, <3>4
  <2> QED BY <2>2, <2>3 DEF Connections
<1>15. StartsHeld(v, busy)
  <2>1. StartsHeld(w, busy) BY <1>1 DEF Orderly
  <2>2. Waits(v.queue, "start", 0) <=> Waits(w.queue, "start", 0) BY <1>3, <1>8
  <2>3. Followed(w.queue) => Followed(v.queue) BY <1>3, <1>4
  <2>4. v.client # w.client => ~Waits(w.queue, "start", 0)
    <3> SUFFICES ASSUME w.connection = c PROVE ~Waits(w.queue, "start", 0) OBVIOUS
    <3>1. w.connection # 0 BY DEF Fds
    <3>2. Attempts(w, where) <= 1 BY <1>1 DEF Orderly, OneAttempt
    <3>3. StartsIn(w.queue) = 0 /\ w.queue \in Seq(Function) BY <1>1, <3>1, <3>2, AttemptsSum
    <3> QED BY <3>3, NoStarts
  <2> QED BY <2>1, <2>2, <2>3, <2>4 DEF StartsHeld
<1>16. Orderly(v, where, at, busy)
    BY <1>1, <1>11, <1>12, <1>13, <1>14, <1>15 DEF Orderly
<1> QED BY <1>16 DEF Sound

\* Only the connections change.
LEMMA ConnectionsSound ==
    ASSUME NEW w, NEW where, NEW at, NEW busy, Sound(w, where, at, busy), NEW v \in StateType,
           v.status = w.status, v.handed = w.handed, v.fd = w.fd, v.chan = w.chan,
           v.exists = w.exists, v.client = w.client, v.timers = w.timers,
           v.opened = w.opened, v.open = w.open, v.connection = w.connection,
           v.failed = w.failed, v.dead = w.dead,
           StartsIn(v.queue) = StartsIn(w.queue),
           \A op \in {"start", "remove", "release"} :
              Waits(v.queue, op, 0) <=> Waits(w.queue, op, 0),
           Followed(w.queue) => Followed(v.queue),
           \A f \in Fds : v.conn[f] = "none" <=> w.conn[f] = "none",
           Connections(v)
    PROVE  Sound(v, where, at, busy)
<1>1. w \in StateType /\ Orderly(w, where, at, busy) BY DEF Sound
<1>2. OneAttempt(v, where, busy)
  <2>1. OneAttempt(w, where, busy) BY <1>1 DEF Orderly
  <2> QED BY <2>1 DEF OneAttempt, Attempts
<1>3. FreshOnes(v, where, at)
  <2>1. FreshOnes(w, where, at) BY <1>1 DEF Orderly
  <2>2. w.open \subseteq Fds BY <1>1 DEF StateType
  <2>3. \A f : Fresh(w, f) => Fresh(v, f) BY <2>2 DEF Fresh
  <2> QED BY <2>1, <2>3 DEF FreshOnes
<1>4. ChannelStays(v, where, at) BY <1>1 DEF Orderly, ChannelStays
<1>5. StartsHeld(v, busy) BY <1>1 DEF Orderly, StartsHeld
<1>6. Orderly(v, where, at, busy) BY <1>1, <1>2, <1>3, <1>4, <1>5 DEF Orderly
<1> QED BY <1>6 DEF Sound

\* A connection that changes its state alone.
LEMMA ConnFields ==
    ASSUME NEW w \in StateType, NEW f \in Fds,
           NEW c \in {"Connected", "Disconnecting", "Disconnected", "removed"}
    PROVE  LET v == [w EXCEPT !.conn[f] = c] IN
           /\ v \in StateType /\ v.conn = [w.conn EXCEPT ![f] = c]
           /\ v.status = w.status /\ v.handed = w.handed /\ v.fd = w.fd /\ v.chan = w.chan
           /\ v.exists = w.exists /\ v.client = w.client /\ v.timers = w.timers
           /\ Descriptors(v) = Descriptors(w) /\ Rest(v) = Rest(w) /\ More(v) = More(w)
<1> DEFINE k == [w.conn EXCEPT ![f] = c]
           v == [w EXCEPT !.conn = k]
<1>1. [w EXCEPT !.conn[f] = c] = v BY DEF StateType
<1>2. k \in [Fds -> {"none", "Connected", "Disconnecting", "Disconnected", "removed", "gone"}]
    BY DEF StateType
<1> HIDE DEF k
<1>3. v \in StateType BY <1>2 DEF StateType
<1>4. /\ v.conn = k
      /\ v.status = w.status /\ v.handed = w.handed /\ v.fd = w.fd /\ v.chan = w.chan
      /\ v.exists = w.exists /\ v.client = w.client /\ v.timers = w.timers
      /\ Descriptors(v) = Descriptors(w) /\ Rest(v) = Rest(w) /\ More(v) = More(w)
    BY DEF StateType, Descriptors, Rest, More
<1> QED BY <1>1, <1>3, <1>4 DEF k

LEMMA ShutdownSound ==
    ASSUME NEW w, NEW where, NEW at, NEW busy, Sound(w, where, at, busy), NEW c \in Fds
    PROVE  Sound(Shutdown(w, c), where, at, busy)
<1> DEFINE v == [w EXCEPT !.conn[c] = "Disconnecting"]
<1>1. w \in StateType /\ Connections(w) BY DEF Sound, Orderly
<1>2. CASE w.conn[c] = "Connected"
  <2>1. /\ v \in StateType /\ v.conn = [w.conn EXCEPT ![c] = "Disconnecting"]
        /\ v.status = w.status /\ v.handed = w.handed /\ v.fd = w.fd /\ v.chan = w.chan
        /\ v.exists = w.exists /\ v.client = w.client /\ v.timers = w.timers
        /\ Descriptors(v) = Descriptors(w) /\ Rest(v) = Rest(w) /\ More(v) = More(w)
      BY <1>1, ConnFields
  <2>2. Shutdown(w, c) = v BY <1>2 DEF Shutdown
  <2> HIDE DEF v
  <2>3. \A f \in Fds : v.conn[f] = IF f = c THEN "Disconnecting" ELSE w.conn[f]
      BY <1>1, <2>1 DEF StateType
  <2>4. /\ v.opened = w.opened /\ v.open = w.open /\ v.queue = w.queue
        /\ v.connection = w.connection /\ v.cb = w.cb /\ v.failed = w.failed /\ v.dead = w.dead
      BY <2>1 DEF Descriptors, Rest, More
  <2>5. Connections(v)
    <3>1. v.connection # 0 => v.client /\ v.conn[v.connection] \in {"Connected", "Disconnecting"}
      <4>1. v.connection \in Fds \cup {0} BY <2>1 DEF StateType
      <4> QED BY <1>1, <2>1, <2>3, <2>4, <4>1 DEF Connections
    <3>2. \A f \in Fds : ConnectionKept(v, f)
      <4> TAKE f \in Fds
      <4>1. ConnectionKept(w, f) BY <1>1 DEF Connections
      <4>2. CASE f = c
        <5>1. v.conn[f] = "Disconnecting" BY <2>3, <4>2
        <5> QED BY <1>2, <2>1, <2>4, <4>1, <4>2, <5>1 DEF ConnectionKept
      <4>3. CASE f # c
        <5>1. v.conn[f] = w.conn[f] BY <2>3, <4>3
        <5> QED BY <2>1, <2>4, <4>1, <5>1 DEF ConnectionKept
      <4> QED BY <4>2, <4>3
    <3> QED BY <3>1, <3>2 DEF Connections
  <2>6. \A f \in Fds : v.conn[f] = "none" <=> w.conn[f] = "none" BY <1>2, <2>3
  <2>7. Sound(v, where, at, busy) BY <2>1, <2>4, <2>5, <2>6, ConnectionsSound
  <2> QED BY <2>2, <2>7
<1>3. CASE w.conn[c] # "Connected" BY <1>3 DEF Shutdown
<1> QED BY <1>2, <1>3

\* closeCallback_ does without the client, when there is none.
LEMMA CallbackSound ==
    ASSUME NEW w, NEW where, NEW at, NEW busy, Sound(w, where, at, busy), NEW c \in Fds,
           ~w.client
    PROVE  Sound([w EXCEPT !.cb[c] = "own"], where, at, busy)
<1> DEFINE k == [w.cb EXCEPT ![c] = "own"]
           v == [w EXCEPT !.cb = k]
<1>1. w \in StateType /\ Connections(w) BY DEF Sound, Orderly
<1>2. [w EXCEPT !.cb[c] = "own"] = v BY <1>1 DEF StateType
<1>3. k \in [Fds -> {"client", "own"}] BY <1>1 DEF StateType
<1> HIDE DEF k
<1>4. v \in StateType BY <1>1, <1>3 DEF StateType
<1>5. /\ v.status = w.status /\ v.handed = w.handed /\ v.fd = w.fd /\ v.chan = w.chan
      /\ v.exists = w.exists /\ v.client = w.client /\ v.timers = w.timers /\ v.conn = w.conn
      /\ v.opened = w.opened /\ v.open = w.open /\ v.queue = w.queue
      /\ v.connection = w.connection /\ v.failed = w.failed /\ v.dead = w.dead
    BY <1>1 DEF StateType
<1> HIDE DEF v
<1>6. Connections(v) BY <1>1, <1>5 DEF Connections, ConnectionKept
<1>7. Sound(v, where, at, busy) BY <1>4, <1>5, <1>6, ConnectionsSound
<1> QED BY <1>2, <1>7

\* What is left when a forceClose or a destroy is taken.
LEMMA TailOthers ==
    ASSUME NEW q \in Seq(Function), q # <<>>, NEW op, NEW f, op # "start",
           q[1] = <<op, f>>
    PROVE  /\ Tail(q) \in Seq(Function) /\ StartsIn(Tail(q)) = StartsIn(q)
           /\ \A o, g : <<o, g>> # <<op, f>> => (Waits(Tail(q), o, g) <=> Waits(q, o, g))
           /\ \A o, g : Waits(Tail(q), o, g) => Waits(q, o, g)
           /\ \A o, g : Once(q, <<o, g>>) => Once(Tail(q), <<o, g>>)
           /\ Once(q, <<op, f>>) => ~Waits(Tail(q), op, f)
           /\ Followed(q) => Followed(Tail(q)) /\ Waits(q, op, f)
<1> DEFINE p == Tail(q)
<1>1. p \in Seq(Function) BY QueueElements
<1>2. StartsIn(p) = StartsIn(q)
  <2>1. q[1][1] # "start" OBVIOUS
  <2>2. StartsIn(p) = StartsIn(q) - 0 BY <2>1, StartsTail
  <2>3. StartsIn(q) \in Nat BY StartsType
  <2> QED BY <2>2, <2>3
<1>3. /\ \A o, g : Waits(q, o, g) <=> Waits(p, o, g) \/ q[1] = <<o, g>>
      /\ \A o, g : Once(q, <<o, g>>) =>
            Once(p, <<o, g>>) /\ (q[1] = <<o, g>> => ~Waits(p, o, g))
      /\ Followed(q) => Followed(p)
    BY WaitsTail
<1> HIDE DEF p
<1>4. \A o, g : q[1] = <<o, g>> <=> <<o, g>> = <<op, f>> OBVIOUS
<1> QED BY <1>1, <1>2, <1>3, <1>4 DEF p

\* The connection c is destroyed: it is out of the poller, and lives on for those
\* who refer to it.
LEMMA DestroyedSound ==
    ASSUME NEW w, NEW at, NEW busy, Sound(w, "idle", at, busy), w.queue # <<>>,
           NEW c \in Fds, w.queue[1] = <<"destroy", c>>
    PROVE  Sound(ConnectDestroyed([w EXCEPT !.queue = Tail(@)], c), "idle", at, busy)
<1> DEFINE u == [w EXCEPT !.queue = Tail(@)]
           v == [u EXCEPT !.conn[c] = "removed"]
           q == w.queue
           p == Tail(w.queue)
<1>1. w \in StateType /\ Connections(w) /\ q \in Seq(Function) BY DEF Sound, Orderly, StateType
<1>2. /\ u \in StateType /\ Core(u) = Core(w) /\ Descriptors(u) = Descriptors(w)
      /\ u.queue = p /\ u.connection = w.connection /\ More(u) = More(w)
    BY <1>1, TailFields
<1>3. ConnectDestroyed(u, c) = v BY DEF ConnectDestroyed
<1> HIDE DEF u
<1>4. /\ v \in StateType /\ v.conn = [u.conn EXCEPT ![c] = "removed"]
      /\ v.status = u.status /\ v.handed = u.handed /\ v.fd = u.fd /\ v.chan = u.chan
      /\ v.exists = u.exists /\ v.client = u.client /\ v.timers = u.timers
      /\ Descriptors(v) = Descriptors(u) /\ Rest(v) = Rest(u) /\ More(v) = More(u)
    BY <1>2, ConnFields
<1> HIDE DEF v
<1>5. /\ v.status = w.status /\ v.handed = w.handed /\ v.fd = w.fd /\ v.chan = w.chan
      /\ v.exists = w.exists /\ v.client = w.client /\ v.timers = w.timers
      /\ v.opened = w.opened /\ v.open = w.open /\ v.queue = p /\ v.connection = w.connection
      /\ v.cb = w.cb /\ v.failed = w.failed /\ v.dead = w.dead
      /\ v.conn = [w.conn EXCEPT ![c] = "removed"]
    BY <1>2, <1>4 DEF Core, Descriptors, Rest, More
<1>6. /\ p \in Seq(Function) /\ StartsIn(p) = StartsIn(q)
      /\ \A o, g : <<o, g>> # <<"destroy", c>> => (Waits(p, o, g) <=> Waits(q, o, g))
      /\ \A o, g : Once(q, <<o, g>>) => Once(p, <<o, g>>)
      /\ Once(q, <<"destroy", c>>) => ~Waits(p, "destroy", c)
      /\ Followed(q) => Followed(p)
    BY <1>1, TailOthers
<1>7. Waits(q, "destroy", c)
  <2>1. 1 \in DOMAIN q BY <1>1, QueueElements
  <2> QED BY <2>1 DEF Waits
<1> HIDE DEF p, q
<1>8. w.conn[c] = "Disconnected" /\ ~Waits(p, "destroy", c)
    BY <1>1, <1>6, <1>7 DEF Connections, ConnectionKept, q
<1>9. \A f \in Fds : v.conn[f] = IF f = c THEN "removed" ELSE w.conn[f]
    BY <1>1, <1>5 DEF StateType
<1>10. /\ \A op \in {"start", "remove", "release"} : Waits(p, op, 0) <=> Waits(q, op, 0)
       /\ \A op \in {"setClose", "forceClose"} :
             \A f : Waits(p, op, f) <=> Waits(q, op, f)
       /\ \A f : f # c => (Waits(p, "destroy", f) <=> Waits(q, "destroy", f))
    BY <1>6
<1>11. Connections(v)
  <2>1. v.connection # 0 => v.client /\ v.conn[v.connection] \in {"Connected", "Disconnecting"}
    <3>1. v.connection \in Fds \cup {0} BY <1>4 DEF StateType
    <3>2. v.connection # c BY <1>1, <1>5, <1>8 DEF Connections, Fds
    <3> QED BY <1>1, <1>5, <1>9, <3>1, <3>2 DEF Connections
  <2>2. \A f \in Fds : ConnectionKept(v, f)
    <3> TAKE f \in Fds
    <3>1. ConnectionKept(w, f) BY <1>1 DEF Connections
    <3>2. /\ Once(p, <<"destroy", f>>)
          /\ v.cb[f] = "own" \/ Waits(p, "setClose", f) \/ Waits(p, "forceClose", f)
                => ~v.client
        BY <1>5, <1>6, <1>10, <3>1 DEF ConnectionKept, q
    <3>3. CASE f = c
      <4>1. v.conn[f] = "removed" /\ f \in w.open BY <1>8, <1>9, <3>1, <3>3 DEF ConnectionKept
      <4> QED BY <1>5, <1>8, <3>2, <3>3, <4>1 DEF ConnectionKept
    <3>4. CASE f # c
      <4>1. v.conn[f] = w.conn[f] BY <1>9, <3>4
      <4>2. /\ Waits(p, "destroy", f) <=> Waits(q, "destroy", f)
            /\ Waits(p, "forceClose", f) <=> Waits(q, "forceClose", f)
          BY <1>10, <3>4
      <4> QED BY <1>5, <3>1, <3>2, <4>1, <4>2 DEF ConnectionKept, q
    <3> QED BY <3>3, <3>4
  <2> QED BY <2>1, <2>2 DEF Connections
<1>12. \A f \in Fds : v.conn[f] = "none" <=> w.conn[f] = "none" BY <1>8, <1>9
<1>13. Sound(v, "idle", at, busy)
  <2>1. /\ StartsIn(v.queue) = StartsIn(w.queue)
        /\ \A op \in {"start", "remove", "release"} :
              Waits(v.queue, op, 0) <=> Waits(w.queue, op, 0)
        /\ Followed(w.queue) => Followed(v.queue)
      BY <1>5, <1>6, <1>10 DEF q
  <2>2. v \in StateType BY <1>4
  <2>3. /\ v.status = w.status /\ v.handed = w.handed /\ v.fd = w.fd /\ v.chan = w.chan
        /\ v.exists = w.exists /\ v.client = w.client /\ v.timers = w.timers
        /\ v.opened = w.opened /\ v.open = w.open /\ v.connection = w.connection
        /\ v.failed = w.failed /\ v.dead = w.dead
      BY <1>5
  <2> QED BY <1>11, <1>12, <2>1, <2>2, <2>3, ConnectionsSound
<1> QED BY <1>3, <1>13 DEF u

\* handleClose without the client.
LEMMA CloseFields ==
    ASSUME NEW u \in StateType, NEW c \in Fds
    PROVE  LET v == Queue([u EXCEPT !.conn[c] = "Disconnected"], <<"destroy", c>>) IN
           /\ v \in StateType /\ v.conn = [u.conn EXCEPT ![c] = "Disconnected"]
           /\ v.queue = Append(u.queue, <<"destroy", c>>)
           /\ v.connection = u.connection /\ v.client = u.client /\ v.cb = u.cb
           /\ v.status = u.status /\ v.handed = u.handed /\ v.fd = u.fd /\ v.chan = u.chan
           /\ v.exists = u.exists /\ v.timers = u.timers /\ v.opened = u.opened
           /\ v.open = u.open /\ v.failed = u.failed /\ v.dead = u.dead
<1> DEFINE d == [u EXCEPT !.conn[c] = "Disconnected"]
           x == <<"destroy", c>>
           v == Queue(d, x)
<1>1. /\ d \in StateType /\ d.conn = [u.conn EXCEPT ![c] = "Disconnected"]
      /\ d.status = u.status /\ d.handed = u.handed /\ d.fd = u.fd /\ d.chan = u.chan
      /\ d.exists = u.exists /\ d.client = u.client /\ d.timers = u.timers
      /\ Descriptors(d) = Descriptors(u) /\ Rest(d) = Rest(u) /\ More(d) = More(u)
    BY ConnFields
<1>2. x \in Function BY OtherFunctions
<1> HIDE DEF d, x
<1>3. /\ v \in StateType /\ Core(v) = Core(d) /\ Descriptors(v) = Descriptors(d)
      /\ v.queue = Append(d.queue, x) /\ v.connection = d.connection /\ More(v) = More(d)
    BY <1>1, <1>2, QueueFields
<1> HIDE DEF v
<1>4. /\ v \in StateType /\ v.conn = [u.conn EXCEPT ![c] = "Disconnected"]
      /\ v.queue = Append(u.queue, x)
      /\ v.connection = u.connection /\ v.client = u.client /\ v.cb = u.cb
      /\ v.status = u.status /\ v.handed = u.handed /\ v.fd = u.fd /\ v.chan = u.chan
      /\ v.exists = u.exists /\ v.timers = u.timers /\ v.opened = u.opened
      /\ v.open = u.open /\ v.failed = u.failed /\ v.dead = u.dead
    BY <1>1, <1>3 DEF Core, Descriptors, Rest, More
<1> QED BY <1>4 DEF v, d, x

\* handleClose of a connection: the client's, or one whose client is gone.
LEMMA HandleCloseSound ==
    ASSUME NEW w, NEW where, NEW at, NEW busy, Sound(w, where, at, busy),
           NEW c \in Fds, w.conn[c] \in {"Connected", "Disconnecting"}
    PROVE  Sound(HandleClose(w, c), where, at, busy)
<1> DEFINE d == [w EXCEPT !.conn[c] = "Disconnected"]
           x == <<"destroy", c>>
<1>1. w \in StateType /\ w.queue \in Seq(Function) /\ Connections(w)
    BY DEF Sound, Orderly, StateType
<1>2. w.cb[c] = "own" \/ Waits(w.queue, "forceClose", c) => ~w.client
    BY <1>1 DEF Connections, ConnectionKept
<1>3. w.cb[c] \in {"client", "own"}
  <2>1. w \in StateType BY <1>1
  <2> QED BY <2>1 DEF StateType
<1>0. c # 0 BY DEF Fds
<1> DEFINE q == w.queue
<1>6. LessClose(q, w.queue, c) BY <1>1 DEF LessClose
<1> HIDE DEF q
<1>4. CASE w.cb[c] = "client" /\ w.client
  <2> DEFINE z == 0
             u == [w EXCEPT !.connection = z]
             v == Queue([u EXCEPT !.conn[c] = "Disconnected"], x)
  <2>1. w.connection = c BY <1>1, <1>2, <1>4 DEF Connections, ConnectionKept
  <2>2. HandleClose(w, c) = v
    <3>1. d \in StateType /\ d.connection = w.connection BY <1>1, ConnFields DEF Rest
    <3>2. HandleClose(w, c) = RemoveConnection(d, c) BY <1>4 DEF HandleClose
    <3>3. [d EXCEPT !.connection = 0] = [u EXCEPT !.conn[c] = "Disconnected"]
        BY <1>1 DEF StateType
    <3> HIDE DEF d
    <3>4. Assert(d, d.connection = c) = d BY <2>1, <3>1, AssertTrue
    <3>5. RemoveConnection(d, c) = Queue([d EXCEPT !.connection = 0], x)
        BY <3>4 DEF RemoveConnection
    <3> QED BY <3>2, <3>3, <3>5
  <2>3. z \in Fds \cup {0} /\ z = 0 OBVIOUS
  <2> HIDE DEF z
  <2>4. u \in StateType BY <1>1, <2>3 DEF StateType
  <2>5. /\ u.status = w.status /\ u.handed = w.handed /\ u.fd = w.fd /\ u.chan = w.chan
        /\ u.exists = w.exists /\ u.client = w.client /\ u.timers = w.timers /\ u.conn = w.conn
        /\ u.opened = w.opened /\ u.open = w.open /\ u.queue = w.queue /\ u.connection = z
        /\ u.cb = w.cb /\ u.failed = w.failed /\ u.dead = w.dead
      BY <1>1 DEF StateType
  <2> HIDE DEF u
  <2>6. /\ v \in StateType /\ v.conn = [u.conn EXCEPT ![c] = "Disconnected"]
        /\ v.queue = Append(u.queue, x)
        /\ v.connection = u.connection /\ v.client = u.client /\ v.cb = u.cb
        /\ v.status = u.status /\ v.handed = u.handed /\ v.fd = u.fd /\ v.chan = u.chan
        /\ v.exists = u.exists /\ v.timers = u.timers /\ v.opened = u.opened
        /\ v.open = u.open /\ v.failed = u.failed /\ v.dead = u.dead
      BY <2>4, CloseFields
  <2> HIDE DEF v
  <2>7. v \in StateType BY <2>6
  <2>8. /\ v.queue = Append(q, x) /\ v.conn = [w.conn EXCEPT ![c] = "Disconnected"]
        /\ v.connection # c /\ v.connection = 0 /\ v.client = w.client
        /\ \A f \in Fds : v.cb[f] = w.cb[f]
      BY <1>0, <2>3, <2>5, <2>6 DEF q
  <2>9. /\ v.status = w.status /\ v.handed = w.handed /\ v.fd = w.fd /\ v.chan = w.chan
        /\ v.exists = w.exists /\ v.timers = w.timers /\ v.opened = w.opened
        /\ v.open = w.open /\ v.failed = w.failed /\ v.dead = w.dead
      BY <2>5, <2>6
  <2>11. Closed(w, q, c, v) BY <2>1, <2>7, <2>8, <2>9 DEF Closed
  <2> HIDE DEF x
  <2>10. Sound(v, where, at, busy) BY <1>6, <2>11, ClosedSound
  <2> QED BY <2>2, <2>10
<1>5. CASE ~(w.cb[c] = "client" /\ w.client)
  <2> DEFINE v == Queue(d, x)
  <2>1. HandleClose(w, c) = v BY <1>5 DEF HandleClose
  <2>2. ~w.client /\ w.connection = 0 BY <1>1, <1>2, <1>3, <1>5 DEF Connections
  <2>5. w.connection # c BY <1>0, <2>2
  <2>3. /\ v \in StateType /\ v.conn = [w.conn EXCEPT ![c] = "Disconnected"]
        /\ v.queue = Append(w.queue, x)
        /\ v.connection = w.connection /\ v.client = w.client /\ v.cb = w.cb
        /\ v.status = w.status /\ v.handed = w.handed /\ v.fd = w.fd /\ v.chan = w.chan
        /\ v.exists = w.exists /\ v.timers = w.timers /\ v.opened = w.opened
        /\ v.open = w.open /\ v.failed = w.failed /\ v.dead = w.dead
      BY <1>1, CloseFields
  <2> HIDE DEF v
  <2>6. v \in StateType BY <2>3
  <2>7. /\ v.queue = Append(q, x) /\ v.conn = [w.conn EXCEPT ![c] = "Disconnected"]
        /\ v.connection # c /\ v.connection = w.connection /\ v.client = w.client
        /\ \A f \in Fds : v.cb[f] = w.cb[f]
      BY <2>3, <2>5 DEF q
  <2>8. /\ v.status = w.status /\ v.handed = w.handed /\ v.fd = w.fd /\ v.chan = w.chan
        /\ v.exists = w.exists /\ v.timers = w.timers /\ v.opened = w.opened
        /\ v.open = w.open /\ v.failed = w.failed /\ v.dead = w.dead
      BY <2>3
  <2>10. Closed(w, q, c, v) BY <2>6, <2>7, <2>8 DEF Closed
  <2>9. Sound(v, where, at, busy) BY <1>6, <2>10, ClosedSound
  <2> QED BY <2>1, <2>9
<1> QED BY <1>4, <1>5

\* The forceClose that the client has left behind.
LEMMA ForceClosedSound ==
    ASSUME NEW w, NEW at, NEW busy, Sound(w, "idle", at, busy), w.queue # <<>>,
           NEW c \in Fds, w.queue[1] = <<"forceClose", c>>
    PROVE  Sound(ForceClose([w EXCEPT !.queue = Tail(@)], c), "idle", at, busy)
<1> DEFINE u == [w EXCEPT !.queue = Tail(@)]
           p == Tail(w.queue)
           x == <<"destroy", c>>
<1>1. w \in StateType /\ Connections(w) /\ w.queue \in Seq(Function)
    BY DEF Sound, Orderly, StateType
<1>2. /\ u \in StateType /\ Core(u) = Core(w) /\ Descriptors(u) = Descriptors(w)
      /\ u.queue = p /\ u.connection = w.connection /\ More(u) = More(w)
    BY <1>1, TailFields
<1>3. LessClose(p, w.queue, c)
  <2> DEFINE q == w.queue
  <2>1. q \in Seq(Function) /\ q # <<>> /\ q[1] = <<"forceClose", c>> BY <1>1
  <2> HIDE DEF q
  <2>2. /\ Tail(q) \in Seq(Function) /\ StartsIn(Tail(q)) = StartsIn(q)
        /\ \A o, g : <<o, g>> # <<"forceClose", c>> => (Waits(Tail(q), o, g) <=> Waits(q, o, g))
        /\ \A o, g : Waits(Tail(q), o, g) => Waits(q, o, g)
        /\ \A o, g : Once(q, <<o, g>>) => Once(Tail(q), <<o, g>>)
        /\ Followed(q) => Followed(Tail(q))
      BY <2>1, TailOthers
  <2> QED BY <2>2 DEF LessClose, q
<1>4. Waits(w.queue, "forceClose", c)
  <2>1. 1 \in DOMAIN w.queue BY <1>1, QueueElements
  <2> QED BY <2>1 DEF Waits
<1>9. c # 0 BY DEF Fds
<1>10. ~w.client
  <2>1. ConnectionKept(w, c) BY <1>1 DEF Connections
  <2> QED BY <1>4, <2>1 DEF ConnectionKept
<1>5. w.connection = 0 /\ ~w.client BY <1>1, <1>10 DEF Connections
<1> HIDE DEF u, p
<1>6. /\ u.status = w.status /\ u.handed = w.handed /\ u.fd = w.fd /\ u.chan = w.chan
      /\ u.exists = w.exists /\ u.client = w.client /\ u.timers = w.timers /\ u.conn = w.conn
      /\ u.opened = w.opened /\ u.open = w.open
      /\ u.cb = w.cb /\ u.failed = w.failed /\ u.dead = w.dead
    BY <1>2 DEF Core, Descriptors, More
<1>7. CASE w.conn[c] \in {"Connected", "Disconnecting"}
  <2> DEFINE v == Queue([u EXCEPT !.conn[c] = "Disconnected"], x)
  <2>1. ForceClose(u, c) = v
    <3>1. ForceClose(u, c) = HandleClose(u, c) BY <1>6, <1>7 DEF ForceClose
    <3>2. ~u.client BY <1>5, <1>6
    <3> QED BY <3>1, <3>2 DEF HandleClose
  <2>2. /\ v \in StateType /\ v.conn = [u.conn EXCEPT ![c] = "Disconnected"]
        /\ v.queue = Append(u.queue, x)
        /\ v.connection = u.connection /\ v.client = u.client /\ v.cb = u.cb
        /\ v.status = u.status /\ v.handed = u.handed /\ v.fd = u.fd /\ v.chan = u.chan
        /\ v.exists = u.exists /\ v.timers = u.timers /\ v.opened = u.opened
        /\ v.open = u.open /\ v.failed = u.failed /\ v.dead = u.dead
      BY <1>2, CloseFields
  <2> HIDE DEF v
  <2>3. /\ v.conn = [w.conn EXCEPT ![c] = "Disconnected"] /\ v.queue = Append(p, x)
        /\ v.connection = w.connection /\ v.connection # c /\ v.client = w.client
        /\ \A f \in Fds : v.cb[f] = w.cb[f]
      BY <1>2, <1>5, <1>6, <1>9, <2>2
  <2>4. v \in StateType BY <2>2
  <2>6. /\ v.status = w.status /\ v.handed = w.handed /\ v.fd = w.fd /\ v.chan = w.chan
        /\ v.exists = w.exists /\ v.timers = w.timers /\ v.opened = w.opened
        /\ v.open = w.open /\ v.failed = w.failed /\ v.dead = w.dead
      BY <1>6, <2>2
  <2>7. Closed(w, p, c, v) BY <2>3, <2>4, <2>6 DEF Closed
  <2>5. Sound(v, "idle", at, busy) BY <1>3, <1>7, <2>7, ClosedSound
  <2> QED BY <2>1, <2>5 DEF u
<1>8. CASE w.conn[c] \notin {"Connected", "Disconnecting"}
  <2>1. ForceClose(u, c) = u BY <1>6, <1>8 DEF ForceClose
  <2>2. /\ \A op \in {"start", "remove", "release"} :
              Waits(u.queue, op, 0) <=> Waits(w.queue, op, 0)
        /\ StartsIn(u.queue) = StartsIn(w.queue)
        /\ Followed(w.queue) => Followed(u.queue)
        /\ \A op, f : Waits(u.queue, op, f) => Waits(w.queue, op, f)
        /\ \A f : /\ f # c => (Waits(u.queue, "forceClose", f) <=> Waits(w.queue, "forceClose", f))
                  /\ Waits(u.queue, "destroy", f) <=> Waits(w.queue, "destroy", f)
                  /\ Once(w.queue, <<"destroy", f>>) => Once(u.queue, <<"destroy", f>>)
      BY <1>2, <1>3 DEF LessClose
  <2>3. Connections(u)
    <3>1. \A f \in Fds : ConnectionKept(u, f)
      <4> TAKE f \in Fds
      <4>1. ConnectionKept(w, f) BY <1>1 DEF Connections
      <4>2. u.conn[f] \in {"Connected", "Disconnecting"} =>
               u.connection = f \/ Waits(u.queue, "forceClose", f)
          BY <1>2, <1>6, <1>8, <2>2, <4>1 DEF ConnectionKept
      <4> QED BY <1>6, <2>2, <4>1, <4>2 DEF ConnectionKept
    <3>2. u.connection = 0 BY <1>2, <1>5
    <3> QED BY <3>1, <3>2 DEF Connections
  <2>4. u \in StateType /\ u.connection = w.connection BY <1>2
  <2>5. \A f \in Fds : u.conn[f] = "none" <=> w.conn[f] = "none" BY <1>6
  <2>6. Sound(u, "idle", at, busy) BY <1>6, <2>2, <2>3, <2>4, <2>5, ConnectionsSound
  <2> QED BY <2>1, <2>6 DEF u
<1> QED BY <1>7, <1>8

-----------------------------------------------------------------------------
(* stop(), and a start or a removal queued *)

\* A function of the connector is queued: no connection is touched.
LEMMA QueuedSound ==
    ASSUME NEW w, NEW where, NEW at, NEW busy, Sound(w, where, at, busy),
           NEW x \in Function, x[1] \in {"start", "remove"}, NEW b,
           OneAttempt(Queue(w, x), where, b), StartsHeld(Queue(w, x), b)
    PROVE  Sound(Queue(w, x), where, at, b)
<1> DEFINE v == Queue(w, x)
           p == Append(w.queue, x)
<1>1. w \in StateType /\ Orderly(w, where, at, busy) /\ w.queue \in Seq(Function)
    BY DEF Sound, StateType
<1>2. /\ v \in StateType /\ Core(v) = Core(w) /\ Descriptors(v) = Descriptors(w)
      /\ v.queue = p /\ v.connection = w.connection /\ More(v) = More(w)
    BY <1>1, QueueFields
<1>3. /\ \A op, f : Waits(p, op, f) <=> Waits(w.queue, op, f) \/ x = <<op, f>>
      /\ \A op, f : Once(w.queue, <<op, f>>) /\ x # <<op, f>> => Once(p, <<op, f>>)
    BY <1>1, WaitsAppend
<1>4. \A op, f : op \notin {"start", "remove"} => x # <<op, f>> OBVIOUS
<1> HIDE DEF v, p
<1>5. /\ \A op \in {"release", "setClose", "forceClose", "destroy"} :
            \A f : Waits(v.queue, op, f) <=> Waits(w.queue, op, f)
      /\ \A f : Once(w.queue, <<"destroy", f>>) => Once(v.queue, <<"destroy", f>>)
    BY <1>2, <1>3, <1>4
<1>6. /\ v.status = w.status /\ v.handed = w.handed /\ v.fd = w.fd /\ v.chan = w.chan
      /\ v.exists = w.exists /\ v.client = w.client /\ v.timers = w.timers /\ v.conn = w.conn
      /\ v.opened = w.opened /\ v.open = w.open
      /\ v.cb = w.cb /\ v.failed = w.failed /\ v.dead = w.dead
    BY <1>2 DEF Core, Descriptors, More
<1>7. FreshOnes(v, where, at)
  <2>1. FreshOnes(w, where, at) BY <1>1 DEF Orderly
  <2> QED BY <1>6, <2>1 DEF FreshOnes, Fresh
<1>8. ChannelStays(v, where, at)
  <2>1. ChannelStays(w, where, at) BY <1>1 DEF Orderly
  <2> QED BY <1>5, <1>6, <2>1 DEF ChannelStays
<1>9. Connections(v)
  <2>1. Connections(w) BY <1>1 DEF Orderly
  <2> QED BY <1>2, <1>5, <1>6, <2>1 DEF Connections, ConnectionKept
<1>10. OneAttempt(v, where, b) /\ StartsHeld(v, b) BY DEF v
<1>11. Orderly(v, where, at, b) BY <1>1, <1>6, <1>7, <1>8, <1>9, <1>10 DEF Orderly
<1>12. Sound(v, where, at, b) BY <1>2, <1>6, <1>11 DEF Sound
<1> QED BY <1>12 DEF v

\* start() of another thread with nothing under way.
LEMMA QueueStartSound ==
    ASSUME NEW w, NEW where, NEW at, NEW busy, Sound(w, where, at, busy), w.client,
           Attempts(w, where) = 0, w.status = "Disconnected"
    PROVE  Sound(Queue(w, <<"start", 0>>), where, at, busy)
<1> DEFINE x == <<"start", 0>>
           v == Queue(w, x)
           p == Append(w.queue, x)
<1>1. w \in StateType /\ w.queue \in Seq(Function) /\ w.exists BY DEF Sound, StateType
<1>2. x \in Function /\ x[1] = "start" BY OtherFunctions
<1> HIDE DEF x
<1>3. /\ v \in StateType /\ Core(v) = Core(w) /\ v.queue = p /\ v.connection = w.connection
    BY <1>1, <1>2, QueueFields
<1>4. StartsIn(p) = StartsIn(w.queue) + 1 BY <1>1, <1>2, StartsAppend
<1>5. StartsIn(w.queue) = 0 /\ w.timers = 0 /\ w.chan = 0 /\ w.connection = 0
    BY <1>1, NoAttempts
<1>6. where # "tested"
  <2>1. /\ Attempts(w, where) = StartsIn(w.queue) + w.timers + One(w.chan # 0)
                                   + One(where = "tested") + One(w.connection # 0)
        /\ One(w.chan # 0) = 0 /\ One(w.connection # 0) = 0
        /\ One(where = "tested") = IF where = "tested" THEN 1 ELSE 0
      BY <1>1, <1>5, AttemptsSum
  <2> QED BY <1>5, <2>1
<1> HIDE DEF v, p
<1>7. /\ v.status = "Disconnected" /\ v.chan = 0 /\ v.exists /\ v.client /\ v.timers = 0
      /\ v.connection = 0 /\ StartsIn(v.queue) = 1
    BY <1>1, <1>3, <1>4, <1>5 DEF Core
<1>8. OneAttempt(v, where, busy) BY <1>6, <1>7 DEF OneAttempt, Attempts, One
<1>9. StartsHeld(v, busy) BY <1>7 DEF StartsHeld
<1>10. Sound(v, where, at, busy) BY <1>2, <1>8, <1>9, QueuedSound DEF v
<1> QED BY <1>10 DEF v, x

\* stop() of another thread queues the removal.
LEMMA QueueRemoveSound ==
    ASSUME NEW w, NEW where, NEW at, NEW busy, Sound(w, where, at, busy), NEW b
    PROVE  Sound(Queue(w, <<"remove", 0>>), where, at, b)
<1> DEFINE x == <<"remove", 0>>
           v == Queue(w, x)
           p == Append(w.queue, x)
<1>1. w \in StateType /\ w.queue \in Seq(Function) /\ Orderly(w, where, at, busy)
    BY DEF Sound, StateType
<1>2. x \in Function /\ x[1] = "remove" BY OtherFunctions
<1>3. x = <<"remove", 0>> OBVIOUS
<1> HIDE DEF x
<1>4. /\ v \in StateType /\ Core(v) = Core(w) /\ v.queue = p /\ v.connection = w.connection
    BY <1>1, <1>2, QueueFields
<1>5. StartsIn(p) = StartsIn(w.queue)
  <2>1. StartsIn(p) = StartsIn(w.queue) + 0 BY <1>1, <1>2, StartsAppend
  <2>2. StartsIn(w.queue) \in Nat BY <1>1, StartsType
  <2> QED BY <2>1, <2>2
<1>6. /\ \A op, f : Waits(p, op, f) <=> Waits(w.queue, op, f) \/ x = <<op, f>>
      /\ Followed(p)
    BY <1>1, <1>2, <1>3, WaitsAppend
<1>7. Waits(p, "remove", 0) /\ (Waits(p, "start", 0) <=> Waits(w.queue, "start", 0))
  <2>1. x # <<"start", 0>> BY <1>3
  <2> QED BY <1>3, <1>6, <2>1
<1> HIDE DEF v, p
<1>8. /\ v.status = w.status /\ v.chan = w.chan /\ v.exists = w.exists
      /\ v.client = w.client /\ v.timers = w.timers
    BY <1>4 DEF Core
<1>9. OneAttempt(v, where, b)
  <2>1. OneAttempt(w, where, busy) BY <1>1 DEF Orderly
  <2> QED BY <1>4, <1>5, <1>7, <1>8, <2>1 DEF OneAttempt, Attempts
<1>10. StartsHeld(v, b)
  <2>1. StartsHeld(w, busy) BY <1>1 DEF Orderly
  <2> QED BY <1>4, <1>6, <1>7, <1>8, <2>1 DEF StartsHeld
<1>11. Sound(v, where, at, b) BY <1>2, <1>9, <1>10, QueuedSound DEF v
<1> QED BY <1>11 DEF v, x

\* Only the status becomes Disconnected; the removal may follow.
LEMMA StoppedSound ==
    ASSUME NEW w, NEW where, NEW at, NEW busy, Sound(w, where, at, busy), NEW b \in BOOLEAN,
           busy => b, b \/ where # "tested"
    PROVE  Sound([w EXCEPT !.status = "Disconnected"], where, at, b)
<1> DEFINE v == [w EXCEPT !.status = "Disconnected"]
<1>1. w \in StateType /\ Orderly(w, where, at, busy) BY DEF Sound
<1>2. /\ v \in StateType /\ Descriptors(v) = Descriptors(w) /\ Rest(v) = Rest(w)
      /\ More(v) = More(w)
      /\ Core(v) = <<"Disconnected", w.handed, w.fd, w.chan, w.exists, w.client,
                     w.timers, w.conn>>
    BY <1>1, StatusFields
<1> HIDE DEF v
<1>3. /\ v.status = "Disconnected" /\ v.handed = w.handed /\ v.fd = w.fd /\ v.chan = w.chan
      /\ v.exists = w.exists /\ v.client = w.client /\ v.timers = w.timers /\ v.conn = w.conn
      /\ v.opened = w.opened /\ v.open = w.open /\ v.queue = w.queue
      /\ v.connection = w.connection /\ v.cb = w.cb /\ v.failed = w.failed /\ v.dead = w.dead
    BY <1>2 DEF Core, Descriptors, Rest, More
<1>4. OneAttempt(v, where, b)
  <2>1. OneAttempt(w, where, busy) BY <1>1 DEF Orderly
  <2> QED BY <1>3, <2>1 DEF OneAttempt, Attempts
<1>5. FreshOnes(v, where, at)
  <2>1. FreshOnes(w, where, at) BY <1>1 DEF Orderly
  <2> QED BY <1>3, <2>1 DEF FreshOnes, Fresh
<1>6. ChannelStays(v, where, at) BY <1>1, <1>3 DEF Orderly, ChannelStays
<1>7. Connections(v)
  <2>1. Connections(w) BY <1>1 DEF Orderly
  <2> QED BY <1>3, <2>1 DEF Connections, ConnectionKept
<1>8. StartsHeld(v, b)
  <2>1. StartsHeld(w, busy) BY <1>1 DEF Orderly
  <2> QED BY <1>3, <2>1 DEF StartsHeld
<1>9. Orderly(v, where, at, b) BY <1>1, <1>3, <1>4, <1>5, <1>6, <1>7, <1>8 DEF Orderly
<1>10. Sound(v, where, at, b) BY <1>2, <1>3, <1>9 DEF Sound
<1> QED BY <1>10 DEF v

\* The channel goes into a release.
LEMMA ResetSound ==
    ASSUME NEW w, NEW where, NEW at, NEW busy, Sound(w, where, at, busy),
           where \in InEvent => w.status # "Connecting"
    PROVE  Sound(RemoveAndResetChannel(w), where, at, busy)
<1> DEFINE v == RemoveAndResetChannel(w)
<1>1. w \in StateType /\ Orderly(w, where, at, busy) /\ w.queue \in Seq(Function)
    BY DEF Sound, StateType
<1>2. CASE w.chan = 0 BY <1>2 DEF RemoveAndResetChannel
<1>3. CASE w.chan # 0
  <2>1. /\ v \in StateType /\ Descriptors(v) = Descriptors(w)
        /\ Core(v) = <<w.status, w.handed, w.fd, 0, w.exists, w.client, w.timers, w.conn>>
        /\ v.queue = Append(w.queue, <<"release", 0>>)
        /\ More(v) = More(w) /\ v.connection = w.connection
      BY <1>1, <1>3, RemoveAndResetChannelFields
  <2> HIDE DEF v
  <2>2. Like(v.queue, w.queue) /\ Waits(v.queue, "release", 0) BY <1>1, <2>1, LikeRelease
  <2>3. /\ v.status = w.status /\ v.handed = w.handed /\ v.fd = w.fd /\ v.chan = 0
        /\ v.exists = w.exists /\ v.client = w.client /\ v.timers = w.timers /\ v.conn = w.conn
        /\ v.opened = w.opened /\ v.open = w.open
        /\ v.cb = w.cb /\ v.failed = w.failed /\ v.dead = w.dead
      BY <2>1 DEF Core, Descriptors, More
  <2>4. OneAttempt(v, where, busy)
    <3>1. OneAttempt(w, where, busy) BY <1>1 DEF Orderly
    <3>2. StartsIn(v.queue) = StartsIn(w.queue) BY <2>2 DEF Like
    <3>3. Waits(w.queue, "remove", 0) <=> Waits(v.queue, "remove", 0) BY <2>2 DEF Like
    <3>4. Attempts(v, where) <= 1
      <4>1. /\ StartsIn(w.queue) \in Nat /\ w.timers \in Nat
            /\ Attempts(w, where) = StartsIn(w.queue) + w.timers + One(w.chan # 0)
                                    + One(where = "tested") + One(w.connection # 0)
            /\ One(w.chan # 0) = 1
            /\ One(where = "tested") \in {0, 1} /\ One(w.connection # 0) \in {0, 1}
          BY <1>1, <1>3, AttemptsSum
      <4>2. One(v.chan # 0) = 0 BY <2>3 DEF One
      <4>3. Attempts(v, where) = StartsIn(w.queue) + w.timers + 0
                                    + One(where = "tested") + One(w.connection # 0)
          BY <2>1, <2>3, <3>2, <4>2 DEF Attempts
      <4>4. Attempts(w, where) <= 1 BY <3>1 DEF OneAttempt
      <4> QED BY <4>1, <4>3, <4>4
    <3> QED BY <2>3, <3>1, <3>2, <3>3, <3>4 DEF OneAttempt
  <2>5. FreshOnes(v, where, at)
    <3>1. FreshOnes(w, where, at) BY <1>1 DEF Orderly
    <3>2. Fresh(v, v.chan) BY <2>3 DEF Fresh
    <3> QED BY <2>3, <3>1, <3>2 DEF FreshOnes, Fresh
  <2>6. ChannelStays(v, where, at) BY <1>1, <2>2 DEF Orderly, ChannelStays
  <2>7. Connections(v)
    <3>1. Connections(w) BY <1>1 DEF Orderly
    <3> QED BY <2>1, <2>2, <2>3, <3>1 DEF Connections, ConnectionKept, Like
  <2>8. StartsHeld(v, busy)
    <3>1. StartsHeld(w, busy) BY <1>1 DEF Orderly
    <3> QED BY <2>2, <2>3, <3>1 DEF StartsHeld, Like
  <2>9. Orderly(v, where, at, busy)
      BY <1>1, <2>3, <2>4, <2>5, <2>6, <2>7, <2>8 DEF Orderly
  <2>10. Sound(v, where, at, busy) BY <2>1, <2>3, <2>9 DEF Sound
  <2> QED BY <2>10 DEF v
<1> QED BY <1>2, <1>3

\* An answer changes nothing else.
LEMMA AnswerSound ==
    ASSUME NEW w, NEW where, NEW at, NEW busy, Sound(w, where, at, busy),
           NEW f \in Fds \cup {0}, NEW a \in {"connected", "error", "silent", "stopped"}
    PROVE  Sound(Answer(w, f, a), where, at, busy)
<1> DEFINE v == Answer(w, f, a)
<1>1. w \in StateType BY DEF Sound
<1>2. /\ v \in StateType /\ Core(v) = Core(w) /\ Descriptors(v) = Descriptors(w)
      /\ Rest(v) = Rest(w) /\ More(v) = More(w)
    BY <1>1, AnswerFields
<1> HIDE DEF v
<1>3. /\ v.opened = w.opened /\ v.open = w.open /\ v.connection = w.connection
      /\ v.queue = w.queue
    BY <1>2 DEF Descriptors, Rest
<1>4. Like(v.queue, w.queue) BY <1>3, LikeItself
<1>5. Sound(v, where, at, busy) BY <1>2, <1>3, <1>4, SoundLike
<1> QED BY <1>5 DEF v

LEMMA LoseSound ==
    ASSUME NEW w, NEW where, NEW at, NEW busy, Sound(w, where, at, busy),
           NEW f \in Fds \cup {0}
    PROVE  Sound(Lose(w, f), where, at, busy)
<1> DEFINE v == Lose(w, f)
<1>1. w \in StateType BY DEF Sound
<1>2. /\ v \in StateType /\ Core(v) = Core(w) /\ Rest(v) = Rest(w) /\ More(v) = More(w)
      /\ Descriptors(v) = <<w.opened, w.open, w.lost \cup ({f} \cap w.open)>>
    BY <1>1, LoseFields
<1> HIDE DEF v
<1>3. /\ v.opened = w.opened /\ v.open = w.open /\ v.connection = w.connection
      /\ v.queue = w.queue
    BY <1>2 DEF Descriptors, Rest
<1>4. Like(v.queue, w.queue) BY <1>3, LikeItself
<1>5. Sound(v, where, at, busy) BY <1>2, <1>3, <1>4, SoundLike
<1> QED BY <1>5 DEF v

\* stop() in the loop thread.
LEMMA StopHereSound ==
    ASSUME NEW w, NEW where, NEW at, NEW busy \in BOOLEAN, Sound(w, where, at, busy),
           where # "tested"
    PROVE  Sound(StopHere(w), where, at, busy)
<1> DEFINE u == [w EXCEPT !.status = "Disconnected"]
           r == RemoveAndResetChannel(u)
<1>1. w \in StateType /\ w.chan \in Fds \cup {0} BY DEF Sound, StateType
<1>2. Sound(u, where, at, busy) BY StoppedSound
<1>3. u.status # "Connecting" BY <1>1 DEF StateType
<1>4. StopHere(w) = Answer(r, w.chan, "stopped") BY DEF StopHere
<1> HIDE DEF u
<1>5. Sound(r, where, at, busy) BY <1>2, <1>3, ResetSound
<1> HIDE DEF r
<1> QED BY <1>1, <1>4, <1>5, AnswerSound

\* The removal that waited is carried out.
LEMMA RemoveHereSound ==
    ASSUME NEW w, NEW at, NEW busy, Sound(w, "idle", at, busy)
    PROVE  Sound(Answer(RemoveAndResetChannel(w), w.chan, "stopped"), "idle", at, busy)
<1> DEFINE r == RemoveAndResetChannel(w)
<1>1. w \in StateType /\ w.chan \in Fds \cup {0} BY DEF Sound, StateType
<1>2. Sound(r, "idle", at, busy) BY ResetSound DEF InEvent
<1> DEFINE f == w.chan
<1>3. f \in Fds \cup {0} /\ "stopped" \in {"connected", "error", "silent", "stopped"} BY <1>1
<1> HIDE DEF r, f
<1>4. Sound(Answer(r, f, "stopped"), "idle", at, busy) BY <1>2, <1>3, AnswerSound
<1> QED BY <1>4 DEF r, f

\* ~TcpClient without a connection: no start is left without the connector.
LEMMA ClientGoneSound ==
    ASSUME NEW w, NEW where, NEW at, NEW busy, Sound(w, where, at, busy), NEW b \in BOOLEAN,
           busy => b, b \/ ~Waits(w.queue, "start", 0), use = "client", w.connection = 0
    PROVE  Sound([w EXCEPT !.client = FALSE], where, at, b)
<1> DEFINE t == FALSE
           v == [w EXCEPT !.client = t]
<1>1. w \in StateType /\ Orderly(w, where, at, busy) BY DEF Sound
<1>2. t \in BOOLEAN /\ ~t OBVIOUS
<1> HIDE DEF t
<1>3. v \in StateType BY <1>1, <1>2 DEF StateType
<1>4. /\ v.status = w.status /\ v.handed = w.handed /\ v.fd = w.fd /\ v.chan = w.chan
      /\ v.exists = w.exists /\ v.client = t /\ v.timers = w.timers /\ v.conn = w.conn
      /\ v.opened = w.opened /\ v.open = w.open /\ v.queue = w.queue
      /\ v.connection = w.connection /\ v.cb = w.cb /\ v.failed = w.failed /\ v.dead = w.dead
    BY <1>1 DEF StateType
<1> HIDE DEF v
<1>5. OneAttempt(v, where, b)
  <2>1. OneAttempt(w, where, busy) BY <1>1 DEF Orderly
  <2> QED BY <1>4, <2>1 DEF OneAttempt, Attempts
<1>6. FreshOnes(v, where, at)
  <2>1. FreshOnes(w, where, at) BY <1>1 DEF Orderly
  <2> QED BY <1>4, <2>1 DEF FreshOnes, Fresh
<1>7. ChannelStays(v, where, at) BY <1>1, <1>4 DEF Orderly, ChannelStays
<1>8. Connections(v)
  <2>1. Connections(w) BY <1>1 DEF Orderly
  <2> QED BY <1>2, <1>4, <2>1 DEF Connections, ConnectionKept
<1>9. StartsHeld(v, b)
  <2>1. StartsHeld(w, busy) BY <1>1 DEF Orderly
  <2> QED BY <1>4, <2>1 DEF StartsHeld
<1>10. Orderly(v, where, at, b) BY <1>1, <1>4, <1>5, <1>6, <1>7, <1>8, <1>9 DEF Orderly
<1>11. Sound(v, where, at, b) BY <1>2, <1>3, <1>4, <1>10 DEF Sound
<1> QED BY <1>11 DEF v, t

\* ~TcpClient in the loop thread lets its connection go, and closes it.
LEMMA ClientClosesSound ==
    ASSUME NEW w, NEW where, NEW at, NEW busy, Sound(w, where, at, busy), use = "client",
           NEW c, c = w.connection, c # 0,
           NEW u \in StateType, ~u.client, u.connection = 0,
           u.status = w.status, u.handed = w.handed, u.fd = w.fd, u.chan = w.chan,
           u.exists = w.exists, u.timers = w.timers, u.conn = w.conn, u.opened = w.opened,
           u.open = w.open, u.queue = w.queue, u.failed = w.failed, u.dead = w.dead
    PROVE  Sound(ForceClose(u, c), where, at, busy)
<1> DEFINE x == <<"destroy", c>>
           v == Queue([u EXCEPT !.conn[c] = "Disconnected"], x)
           q == w.queue
<1>1. w \in StateType /\ Connections(w) /\ c \in Fds BY DEF Sound, Orderly, StateType
<1>2. w.conn[c] \in {"Connected", "Disconnecting"} BY <1>1 DEF Connections
<1>3. ForceClose(u, c) = v BY <1>2 DEF ForceClose, HandleClose
<1>4. /\ v \in StateType /\ v.conn = [u.conn EXCEPT ![c] = "Disconnected"]
      /\ v.queue = Append(u.queue, x)
      /\ v.connection = u.connection /\ v.client = u.client /\ v.cb = u.cb
      /\ v.status = u.status /\ v.handed = u.handed /\ v.fd = u.fd /\ v.chan = u.chan
      /\ v.exists = u.exists /\ v.timers = u.timers /\ v.opened = u.opened
      /\ v.open = u.open /\ v.failed = u.failed /\ v.dead = u.dead
    BY <1>1, CloseFields
<1> HIDE DEF v
<1>5. LessClose(q, w.queue, c)
  <2>1. q \in Seq(Function) BY <1>1 DEF StateType
  <2> QED BY <2>1 DEF LessClose
<1> HIDE DEF q
<1>6. Closed(w, q, c, v) BY <1>4 DEF Closed, q
<1>7. Sound(v, where, at, busy) BY <1>1, <1>2, <1>5, <1>6, ClosedSound
<1> QED BY <1>3, <1>7

\* A forceClose in the queue, and no start, when the client has left its connection.
LEMMA QueueCloses ==
    ASSUME NEW q \in Seq(Function), NEW c \in Fds
    PROVE  LET p == Append(Append(q, <<"setClose", c>>), <<"forceClose", c>>) IN
           /\ p \in Seq(Function) /\ StartsIn(p) = StartsIn(q)
           /\ \A op \in {"start", "remove", "release", "destroy"} :
                 \A f : Waits(p, op, f) <=> Waits(q, op, f)
           /\ \A op, f : Waits(q, op, f) => Waits(p, op, f)
           /\ Waits(p, "forceClose", c)
           /\ \A f : Once(q, <<"destroy", f>>) => Once(p, <<"destroy", f>>)
<1> DEFINE x == <<"setClose", c>>
           y == <<"forceClose", c>>
           m == Append(q, x)
           p == Append(m, y)
<1>1. x \in Function /\ x[1] = "setClose" /\ y \in Function /\ y[1] = "forceClose"
    BY OtherFunctions
<1>2. y = <<"forceClose", c>> OBVIOUS
<1>3. /\ \A op \in {"start", "remove", "release", "destroy"} :
            \A f : x # <<op, f>> /\ y # <<op, f>>
    OBVIOUS
<1> HIDE DEF x, y
<1>4. m \in Seq(Function) BY <1>1, QueueElements
<1>5. StartsIn(m) = StartsIn(q)
  <2>1. StartsIn(m) = StartsIn(q) + 0 BY <1>1, StartsAppend
  <2>2. StartsIn(q) \in Nat BY StartsType
  <2> QED BY <2>1, <2>2
<1>6. /\ \A op, f : Waits(m, op, f) <=> Waits(q, op, f) \/ x = <<op, f>>
      /\ \A op, f : Once(q, <<op, f>>) /\ x # <<op, f>> => Once(m, <<op, f>>)
    BY <1>1, WaitsAppend
<1> HIDE DEF m
<1>7. p \in Seq(Function) BY <1>1, <1>4, QueueElements
<1>8. StartsIn(p) = StartsIn(m)
  <2>1. StartsIn(p) = StartsIn(m) + 0 BY <1>1, <1>4, StartsAppend
  <2>2. StartsIn(m) \in Nat BY <1>4, StartsType
  <2> QED BY <2>1, <2>2
<1>9. /\ \A op, f : Waits(p, op, f) <=> Waits(m, op, f) \/ y = <<op, f>>
      /\ \A op, f : Once(m, <<op, f>>) /\ y # <<op, f>> => Once(p, <<op, f>>)
    BY <1>1, <1>4, WaitsAppend
<1> HIDE DEF p
<1>10. /\ \A op \in {"start", "remove", "release", "destroy"} :
              \A f : Waits(p, op, f) <=> Waits(q, op, f)
       /\ \A op, f : Waits(q, op, f) => Waits(p, op, f)
       /\ \A f : Once(q, <<"destroy", f>>) => Once(p, <<"destroy", f>>)
    BY <1>3, <1>6, <1>9
<1>11. Waits(p, "forceClose", c) BY <1>2, <1>9
<1> QED BY <1>5, <1>7, <1>8, <1>10, <1>11 DEF p, m, x, y

\* ~TcpClient in another thread leaves its connection to functions it queues.
LEMMA ClientLeavesSound ==
    ASSUME NEW w, NEW where, NEW at, NEW busy, Sound(w, where, at, busy), use = "client",
           NEW c, c = w.connection, c # 0, NEW g, g = [w EXCEPT !.client = FALSE]
    PROVE  Sound(Queue(Queue([g EXCEPT !.connection = 0],
                             <<"setClose", c>>), <<"forceClose", c>>), where, at, busy)
<1> DEFINE t == FALSE
           z == 0
           u == [w EXCEPT !.client = t, !.connection = z]
           x == <<"setClose", c>>
           y == <<"forceClose", c>>
           m == Queue(u, x)
           v == Queue(m, y)
<1>1. /\ w \in StateType /\ Orderly(w, where, at, busy) /\ w.queue \in Seq(Function)
      /\ c \in Fds
    BY DEF Sound, StateType
<1>2. t \in BOOLEAN /\ ~t /\ z \in Fds \cup {0} /\ z = 0 OBVIOUS
<1>3. x \in Function /\ y \in Function BY <1>1, OtherFunctions
<1>4. [g EXCEPT !.connection = 0] = u BY <1>1 DEF StateType
<1> HIDE DEF t, z
<1>5. u \in StateType BY <1>1, <1>2 DEF StateType
<1>6. /\ u.status = w.status /\ u.handed = w.handed /\ u.fd = w.fd /\ u.chan = w.chan
      /\ u.exists = w.exists /\ u.client = t /\ u.timers = w.timers /\ u.conn = w.conn
      /\ u.opened = w.opened /\ u.open = w.open /\ u.queue = w.queue
      /\ u.connection = z /\ u.cb = w.cb /\ u.failed = w.failed /\ u.dead = w.dead
    BY <1>1 DEF StateType
<1> HIDE DEF u, x, y
<1>7. /\ m \in StateType /\ Core(m) = Core(u) /\ Descriptors(m) = Descriptors(u)
      /\ m.queue = Append(u.queue, x) /\ m.connection = u.connection /\ More(m) = More(u)
    BY <1>3, <1>5, QueueFields
<1> HIDE DEF m
<1>8. /\ v \in StateType /\ Core(v) = Core(m) /\ Descriptors(v) = Descriptors(m)
      /\ v.queue = Append(m.queue, y) /\ v.connection = m.connection /\ More(v) = More(m)
    BY <1>3, <1>7, QueueFields
<1> HIDE DEF v
<1>9. /\ v.status = w.status /\ v.handed = w.handed /\ v.fd = w.fd /\ v.chan = w.chan
      /\ v.exists = w.exists /\ v.client = t /\ v.timers = w.timers /\ v.conn = w.conn
      /\ v.opened = w.opened /\ v.open = w.open
      /\ v.connection = z /\ v.cb = w.cb /\ v.failed = w.failed /\ v.dead = w.dead
    BY <1>6, <1>7, <1>8 DEF Core, Descriptors, More
<1> DEFINE p == Append(Append(w.queue, <<"setClose", c>>), <<"forceClose", c>>)
<1>10. v.queue = p BY <1>6, <1>7, <1>8 DEF x, y
<1>11. /\ p \in Seq(Function) /\ StartsIn(p) = StartsIn(w.queue)
       /\ \A op \in {"start", "remove", "release", "destroy"} :
             \A f : Waits(p, op, f) <=> Waits(w.queue, op, f)
       /\ \A op, f : Waits(w.queue, op, f) => Waits(p, op, f)
       /\ Waits(p, "forceClose", c)
       /\ \A f : Once(w.queue, <<"destroy", f>>) => Once(p, <<"destroy", f>>)
    BY <1>1, QueueCloses
<1> HIDE DEF p
<1>12. StartsIn(w.queue) = 0 /\ w.timers = 0 /\ w.chan = 0 /\ where # "tested"
  <2>1. Attempts(w, where) <= 1 BY <1>1 DEF Orderly, OneAttempt
  <2>2. /\ StartsIn(w.queue) \in Nat /\ w.timers \in Nat
        /\ Attempts(w, where) = StartsIn(w.queue) + w.timers + One(w.chan # 0)
                                + One(where = "tested") + One(w.connection # 0)
        /\ One(w.connection # 0) = 1
        /\ One(w.chan # 0) = (IF w.chan # 0 THEN 1 ELSE 0)
        /\ One(where = "tested") = (IF where = "tested" THEN 1 ELSE 0)
      BY <1>1, AttemptsSum
  <2> QED BY <2>1, <2>2
<1>13. ~Waits(p, "start", 0) BY <1>1, <1>11, <1>12, NoStarts
<1>14. OneAttempt(v, where, busy)
  <2>1. OneAttempt(w, where, busy) BY <1>1 DEF Orderly
  <2>2. Attempts(v, where) = 0 BY <1>2, <1>9, <1>10, <1>11, <1>12 DEF Attempts, One
  <2> QED BY <1>9, <1>10, <1>11, <1>12, <2>1, <2>2 DEF OneAttempt
<1>15. FreshOnes(v, where, at)
  <2>1. FreshOnes(w, where, at) BY <1>1 DEF Orderly
  <2> QED BY <1>9, <2>1 DEF FreshOnes, Fresh
<1>16. ChannelStays(v, where, at) BY <1>1, <1>9, <1>10, <1>11 DEF Orderly, ChannelStays
<1>17. Connections(v)
  <2>1. Connections(w) BY <1>1 DEF Orderly
  <2>2. ASSUME NEW f \in Fds PROVE ConnectionKept(v, f)
    <3>1. ConnectionKept(w, f) BY <2>1 DEF Connections
    <3>2. v.conn[f] \in {"Connected", "Disconnecting"} => Waits(v.queue, "forceClose", f)
        BY <1>9, <1>10, <1>11, <3>1 DEF ConnectionKept
    <3> QED BY <1>2, <1>9, <1>10, <1>11, <3>1, <3>2 DEF ConnectionKept
  <2> QED BY <1>2, <1>9, <2>2 DEF Connections
<1>18. StartsHeld(v, busy) BY <1>10, <1>13 DEF StartsHeld
<1>19. Orderly(v, where, at, busy)
    BY <1>1, <1>9, <1>14, <1>15, <1>16, <1>17, <1>18 DEF Orderly
<1>20. Sound(v, where, at, busy) BY <1>2, <1>8, <1>9, <1>19 DEF Sound
<1> QED BY <1>4, <1>20 DEF v, m, x, y

-----------------------------------------------------------------------------
(* handleEvent *)

\* What only asks whether something is alive changes nothing.
LEMMA AliveSame ==
    ASSUME NEW w \in StateType, NEW p, p PROVE [w EXCEPT !.dead = @ \/ ~p] = w
<1>1. (w.dead \/ ~p) = w.dead BY DEF StateType
<1>2. [w EXCEPT !.dead = w.dead] = w BY DEF StateType
<1> QED BY <1>1, <1>2

\* handleEvent goes on to its next stage, or ends.
LEMMA StageSound ==
    ASSUME NEW w, NEW where \in InEvent, NEW at, NEW busy, Sound(w, where, at, busy)
    PROVE  /\ \A to \in InEvent : Sound(w, to, at, busy)
           /\ \A z : Sound(w, "idle", z, busy)
<1>1. Orderly(w, where, at, busy) BY DEF Sound
<1>2. where # "tested" /\ "idle" # "tested" /\ \A to \in InEvent : to # "tested"
    BY DEF InEvent
<1>3. \A to \in InEvent \cup {"idle"} : Attempts(w, to) = Attempts(w, where)
    BY <1>2 DEF Attempts
<1>4. ASSUME NEW to \in InEvent PROVE Sound(w, to, at, busy)
  <2>1. OneAttempt(w, to, busy) BY <1>1, <1>2, <1>3 DEF Orderly, OneAttempt
  <2>2. FreshOnes(w, to, at) BY <1>1, <1>2 DEF Orderly, FreshOnes
  <2>3. ChannelStays(w, to, at) BY <1>1 DEF Orderly, ChannelStays
  <2>4. Orderly(w, to, at, busy) BY <1>1, <2>1, <2>2, <2>3 DEF Orderly
  <2> QED BY <2>4 DEF Sound
<1>5. ASSUME NEW z PROVE Sound(w, "idle", z, busy)
  <2>1. "idle" \notin InEvent BY DEF InEvent
  <2>2. OneAttempt(w, "idle", busy) BY <1>1, <1>2, <1>3, <2>1 DEF Orderly, OneAttempt
  <2>3. FreshOnes(w, "idle", z) BY <1>1, <1>2 DEF Orderly, FreshOnes
  <2>4. ChannelStays(w, "idle", z) BY <2>1 DEF ChannelStays
  <2>5. Orderly(w, "idle", z, busy) BY <1>1, <2>2, <2>3, <2>4 DEF Orderly
  <2> QED BY <2>5 DEF Sound
<1> QED BY <1>4, <1>5

\* The channel that polls is that of the attempt.
LEMMA PollSound ==
    ASSUME NEW w, NEW at, NEW busy, Sound(w, "idle", at, busy), w.chan # 0
    PROVE  Sound(w, "close", w.chan, busy)
<1>1. Orderly(w, "idle", at, busy) BY DEF Sound
<1>2. Attempts(w, "close") = Attempts(w, "idle") BY DEF Attempts
<1>3. OneAttempt(w, "close", busy) BY <1>1, <1>2 DEF Orderly, OneAttempt
<1>4. FreshOnes(w, "close", w.chan) BY <1>1 DEF Orderly, FreshOnes
<1>5. ChannelStays(w, "close", w.chan) BY DEF ChannelStays
<1>6. Orderly(w, "close", w.chan, busy) BY <1>1, <1>3, <1>4, <1>5 DEF Orderly
<1> QED BY <1>6 DEF Sound

\* The descriptor is nobody's to close any more.
LEMMA HandedSound ==
    ASSUME NEW w, NEW where, NEW at, NEW busy, Sound(w, where, at, busy)
    PROVE  /\ Sound([w EXCEPT !.handed = TRUE], where, at, busy)
           /\ [w EXCEPT !.handed = TRUE].handed
<1> DEFINE t == TRUE
           v == [w EXCEPT !.handed = t]
<1>1. w \in StateType /\ Orderly(w, where, at, busy) BY DEF Sound
<1>2. t \in BOOLEAN /\ t OBVIOUS
<1> HIDE DEF t
<1>3. /\ v \in StateType /\ Descriptors(v) = Descriptors(w) /\ Rest(v) = Rest(w)
      /\ More(v) = More(w)
      /\ Core(v) = <<w.status, t, w.fd, w.chan, w.exists, w.client, w.timers, w.conn>>
    BY <1>1, <1>2, HandedFields
<1> HIDE DEF v
<1>4. /\ v.status = w.status /\ v.handed = t /\ v.fd = w.fd /\ v.chan = w.chan
      /\ v.exists = w.exists /\ v.client = w.client /\ v.timers = w.timers /\ v.conn = w.conn
      /\ v.opened = w.opened /\ v.open = w.open /\ v.queue = w.queue
      /\ v.connection = w.connection /\ v.cb = w.cb /\ v.failed = w.failed /\ v.dead = w.dead
    BY <1>3 DEF Core, Descriptors, Rest, More
<1>5. OneAttempt(v, where, busy)
  <2>1. OneAttempt(w, where, busy) BY <1>1 DEF Orderly
  <2> QED BY <1>4, <2>1 DEF OneAttempt, Attempts
<1>6. FreshOnes(v, where, at)
  <2>1. FreshOnes(w, where, at) BY <1>1 DEF Orderly
  <2> QED BY <1>2, <1>4, <2>1 DEF FreshOnes, Fresh
<1>7. ChannelStays(v, where, at) BY <1>1, <1>4 DEF Orderly, ChannelStays
<1>8. Connections(v)
  <2>1. Connections(w) BY <1>1 DEF Orderly
  <2> QED BY <1>4, <2>1 DEF Connections, ConnectionKept
<1>9. StartsHeld(v, busy)
  <2>1. StartsHeld(w, busy) BY <1>1 DEF Orderly
  <2> QED BY <1>4, <2>1 DEF StartsHeld
<1>10. Orderly(v, where, at, busy)
    BY <1>1, <1>4, <1>5, <1>6, <1>7, <1>8, <1>9 DEF Orderly
<1>11. Sound(v, where, at, busy) BY <1>3, <1>4, <1>10 DEF Sound
<1> QED BY <1>2, <1>4, <1>11 DEF v, t

\* The attempt on f has failed: f is closed, and a retry may be set.
LEMMA GiveUpSound ==
    ASSUME NEW w, NEW where, NEW at, NEW busy, Sound(w, where, at, busy),
           Attempts(w, where) = 0, w.handed, NEW f \in Fds \cup {0}, Fresh(w, f)
    PROVE  Sound(GiveUp(w, f), where, at, busy)
<1> DEFINE v == GiveUp(w, f)
<1>1. w \in StateType /\ Orderly(w, where, at, busy) BY DEF Sound
<1>2. StartsIn(w.queue) = 0 /\ w.timers = 0 /\ w.chan = 0 /\ w.connection = 0
    BY <1>1, NoAttempts
<1>3. where # "tested"
  <2>1. /\ Attempts(w, where) = StartsIn(w.queue) + w.timers + One(w.chan # 0)
                                   + One(where = "tested") + One(w.connection # 0)
        /\ One(w.chan # 0) = 0 /\ One(w.connection # 0) = 0
        /\ One(where = "tested") = IF where = "tested" THEN 1 ELSE 0
      BY <1>1, <1>2, AttemptsSum
  <2> QED BY <1>2, <2>1
<1>4. f = 0 \/ f \in w.open BY DEF Fresh
<1>5. PICK s \in {w.status, "Disconnected"}, t \in {w.timers, w.timers + 1} :
         /\ \/ use = "connector" /\ s = "Disconnected"
            \/ use # "connector" /\ s = w.status /\ t = w.timers
         /\ Core(v) = <<s, w.handed, w.fd, w.chan, w.exists, w.client, t, w.conn>>
    BY <1>1, GiveUpFields
<1>6. /\ v \in StateType /\ Rest(v) = Rest(w) /\ More(v) = More(w)
      /\ Descriptors(v) = <<w.opened, w.open \ {f}, w.lost>>
    BY <1>1, <1>4, GiveUpFields
<1> HIDE DEF v
<1>7. /\ v.status = s /\ v.handed /\ v.chan = 0 /\ v.exists = w.exists
      /\ v.client = w.client /\ v.timers = t /\ v.conn = w.conn
      /\ v.opened = w.opened /\ v.open = w.open \ {f} /\ v.queue = w.queue
      /\ v.connection = 0 /\ v.cb = w.cb /\ v.failed = w.failed /\ v.dead = w.dead
    BY <1>2, <1>5, <1>6 DEF Core, Descriptors, Rest, More
<1>8. t \in {0, 1} /\ (t > 0 => s = "Disconnected") BY <1>2, <1>5
<1>9. OneAttempt(v, where, busy)
  <2>1. OneAttempt(w, where, busy) BY <1>1 DEF Orderly
  <2>2. Attempts(v, where) <= 1 BY <1>2, <1>3, <1>7, <1>8 DEF Attempts, One
  <2>3. where \in InEvent => w.status # "Connecting" BY <1>2, <2>1 DEF OneAttempt
  <2> QED BY <1>2, <1>3, <1>5, <1>7, <1>8, <2>1, <2>2, <2>3 DEF OneAttempt
<1>10. FreshOnes(v, where, at)
  <2>1. FreshOnes(w, where, at) BY <1>1 DEF Orderly
  <2>2. Fresh(v, v.chan) BY <1>7 DEF Fresh
  <2> QED BY <1>3, <1>7, <2>1, <2>2 DEF FreshOnes
<1>11. ChannelStays(v, where, at) BY <1>1, <1>2, <1>7 DEF Orderly, ChannelStays
<1>12. Connections(v)
  <2>1. Connections(w) BY <1>1 DEF Orderly
  <2>2. ASSUME NEW g \in Fds PROVE ConnectionKept(v, g)
    <3>1. ConnectionKept(w, g) BY <2>1 DEF Connections
    <3>2. w.conn[g] \notin {"none", "gone"} => g # f BY DEF Fresh, Fds
    <3> QED BY <1>2, <1>7, <3>1, <3>2 DEF ConnectionKept
  <2> QED BY <1>7, <2>2 DEF Connections
<1>13. StartsHeld(v, busy)
  <2>1. StartsHeld(w, busy) BY <1>1 DEF Orderly
  <2> QED BY <1>7, <2>1 DEF StartsHeld
<1>14. Orderly(v, where, at, busy)
    BY <1>1, <1>7, <1>9, <1>10, <1>11, <1>12, <1>13 DEF Orderly
<1>15. Sound(v, where, at, busy) BY <1>6, <1>7, <1>14 DEF Sound
<1> QED BY <1>15 DEF v

\* handleError: the attempt fails, if status_ says that there is one.
LEMMA HandleErrorSound ==
    ASSUME NEW w, NEW where \in InEvent, NEW at, NEW busy \in BOOLEAN,
           Sound(w, where, at, busy)
    PROVE  Sound(HandleError(w), where, at, busy)
<1> DEFINE v == [w EXCEPT !.handed = TRUE]
           l == IF w.handed THEN 0 ELSE w.fd
           f == w.chan
<1>1. w \in StateType /\ Orderly(w, where, at, busy) /\ l \in Fds \cup {0} /\ f \in Fds \cup {0}
    BY DEF Sound, StateType
<1>2. Sound(v, where, at, busy) /\ v.handed BY HandedSound
<1>3. v.status = w.status /\ v.chan = f /\ v.open = w.open /\ v.conn = w.conn
    BY <1>1 DEF StateType
<1> HIDE DEF v, l
<1>4. CASE w.status # "Connecting"
  <2>1. HandleError(w) = Lose(v, l) BY <1>4 DEF HandleError, v, l
  <2> QED BY <1>1, <1>2, <2>1, LoseSound
<1>5. CASE w.status = "Connecting"
  <2> DEFINE s == [v EXCEPT !.status = "Disconnected"]
             r == RemoveAndResetChannel(s)
             g == GiveUp(r, f)
  <2>1. HandleError(w) = Answer(g, f, "error") BY <1>5 DEF HandleError, v
  <2>2. f # 0 /\ where # "tested" BY <1>1, <1>5 DEF Orderly, OneAttempt, InEvent
  <2>3. Fresh(w, f) BY <1>1 DEF Orderly, FreshOnes
  <2>4. v \in StateType BY <1>2 DEF Sound
  <2>5. /\ s \in StateType /\ Descriptors(s) = Descriptors(v)
        /\ Core(s) = <<"Disconnected", v.handed, v.fd, v.chan, v.exists, v.client,
                       v.timers, v.conn>>
      BY <2>4, StatusFields
  <2>6. Sound(s, where, at, busy) BY <1>2, <2>2, StoppedSound
  <2> HIDE DEF s
  <2>7. /\ s.status # "Connecting" /\ s.handed /\ s.chan = f
        /\ s.open = w.open /\ s.conn = w.conn
      BY <1>2, <1>3, <2>5 DEF Core, Descriptors
  <2>8. Sound(r, where, at, busy) BY <2>6, <2>7, ResetSound
  <2>9. /\ Descriptors(r) = Descriptors(s)
        /\ Core(r) = <<s.status, s.handed, s.fd, 0, s.exists, s.client, s.timers, s.conn>>
        /\ r.queue = Append(s.queue, <<"release", 0>>) /\ r.connection = s.connection
      BY <2>2, <2>5, <2>7, RemoveAndResetChannelFields
  <2> HIDE DEF r
  <2>10. r.handed /\ r.open = w.open /\ r.conn = w.conn /\ r.chan = 0 /\ r.timers = s.timers
      BY <2>7, <2>9 DEF Core, Descriptors
  <2>11. Fresh(r, f) BY <2>3, <2>10 DEF Fresh
  <2>12. Attempts(r, where) = 0
    <3>1. s.queue \in Seq(Function) BY <2>5 DEF StateType
    <3>2. StartsIn(r.queue) = StartsIn(s.queue) BY <2>9, <3>1, LikeRelease DEF Like
    <3>3. Attempts(s, where) <= 1 BY <2>6 DEF Sound, Orderly, OneAttempt
    <3>4. /\ StartsIn(s.queue) \in Nat /\ s.timers \in Nat
          /\ Attempts(s, where) = StartsIn(s.queue) + s.timers + One(s.chan # 0)
                                  + One(where = "tested") + One(s.connection # 0)
          /\ One(s.chan # 0) = 1
          /\ One(where = "tested") \in {0, 1} /\ One(s.connection # 0) \in {0, 1}
        BY <2>2, <2>5, <2>7, AttemptsSum
    <3>5. Attempts(r, where) = StartsIn(s.queue) + s.timers + One(r.chan # 0)
                                  + One(where = "tested") + One(s.connection # 0)
        BY <2>9, <2>10, <3>2 DEF Attempts
    <3>6. One(r.chan # 0) = 0 BY <2>10 DEF One
    <3> QED BY <3>3, <3>4, <3>5, <3>6
  <2>13. Sound(g, where, at, busy) BY <1>1, <2>8, <2>10, <2>11, <2>12, GiveUpSound
  <2>14. "error" \in {"connected", "error", "silent", "stopped"} OBVIOUS
  <2> HIDE DEF g
  <2>15. Sound(Answer(g, f, "error"), where, at, busy)
      BY <1>1, <2>13, <2>14, AnswerSound
  <2> QED BY <2>1, <2>15
<1> QED BY <1>4, <1>5

\* handleWrite: the channel goes, and its descriptor is handleWrite's.
LEMMA WriteSound ==
    ASSUME NEW w, NEW where \in InEvent, NEW at, NEW busy \in BOOLEAN,
           Sound(w, where, at, busy), w.status = "Connecting"
    PROVE  Sound(RemoveAndResetChannel([w EXCEPT !.handed = TRUE]), "tested", w.chan, busy)
<1> DEFINE h == [w EXCEPT !.handed = TRUE]
           v == RemoveAndResetChannel(h)
           f == w.chan
<1>1. w \in StateType /\ w.queue \in Seq(Function) BY DEF Sound, StateType
<1>2. Sound(h, where, at, busy) /\ h.handed BY HandedSound
<1>3. h.status = "Connecting" /\ h.chan = f BY <1>1 DEF StateType
<1> HIDE DEF h
<1>4. h \in StateType /\ h.queue \in Seq(Function) /\ Orderly(h, where, at, busy)
    BY <1>2 DEF Sound, StateType
<1>5. f # 0 /\ where # "tested" BY <1>3, <1>4 DEF Orderly, OneAttempt, InEvent
<1>6. /\ v \in StateType /\ Descriptors(v) = Descriptors(h)
      /\ Core(v) = <<h.status, h.handed, h.fd, 0, h.exists, h.client, h.timers, h.conn>>
      /\ v.queue = Append(h.queue, <<"release", 0>>)
      /\ More(v) = More(h) /\ v.connection = h.connection
    BY <1>3, <1>4, <1>5, RemoveAndResetChannelFields
<1> HIDE DEF v, f
<1>7. Like(v.queue, h.queue) BY <1>4, <1>6, LikeRelease
<1>8. /\ v.status = "Connecting" /\ v.handed /\ v.chan = 0
      /\ v.exists = h.exists /\ v.client = h.client /\ v.timers = h.timers /\ v.conn = h.conn
      /\ v.opened = h.opened /\ v.open = h.open
      /\ v.cb = h.cb /\ v.failed = h.failed /\ v.dead = h.dead
    BY <1>2, <1>3, <1>6 DEF Core, Descriptors, More
<1>9. OneAttempt(v, "tested", busy)
  <2>1. OneAttempt(h, where, busy) BY <1>4 DEF Orderly
  <2>2. StartsIn(v.queue) = StartsIn(h.queue) BY <1>7 DEF Like
  <2>3. /\ StartsIn(h.queue) \in Nat /\ h.timers \in Nat
        /\ Attempts(h, where) = StartsIn(h.queue) + h.timers + One(h.chan # 0)
                                + One(where = "tested") + One(h.connection # 0)
        /\ One(h.chan # 0) = 1 /\ One(where = "tested") = 0
        /\ One(h.connection # 0) \in {0, 1}
      BY <1>3, <1>4, <1>5, AttemptsSum
  <2>4. Attempts(h, where) <= 1 BY <2>1 DEF OneAttempt
  <2>5. StartsIn(h.queue) = 0 /\ h.timers = 0 /\ One(h.connection # 0) = 0 BY <2>3, <2>4
  <2>6. Attempts(v, "tested") = 1
    <3>1. One(v.chan # 0) = 0 /\ One("tested" = "tested") = 1 BY <1>8 DEF One
    <3> QED BY <1>6, <1>8, <2>2, <2>5, <3>1 DEF Attempts
  <2>7. StartsIn(v.queue) + v.timers = 0 BY <1>8, <2>2, <2>5
  <2> QED BY <1>8, <2>6, <2>7 DEF OneAttempt, InEvent
<1>10. FreshOnes(v, "tested", f)
  <2>1. FreshOnes(h, where, at) BY <1>4 DEF Orderly
  <2>2. Fresh(v, f) BY <1>3, <1>8, <2>1 DEF FreshOnes, Fresh
  <2>3. Fresh(v, v.chan) BY <1>8 DEF Fresh
  <2> QED BY <1>8, <2>1, <2>2, <2>3 DEF FreshOnes
<1>11. ChannelStays(v, "tested", f) BY DEF ChannelStays, InEvent
<1>12. Connections(v)
  <2>1. Connections(h) BY <1>4 DEF Orderly
  <2> QED BY <1>6, <1>7, <1>8, <2>1 DEF Connections, ConnectionKept, Like
<1>13. StartsHeld(v, busy)
  <2>1. StartsHeld(h, busy) BY <1>4 DEF Orderly
  <2> QED BY <1>7, <1>8, <2>1 DEF StartsHeld, Like
<1>14. Orderly(v, "tested", f, busy)
    BY <1>4, <1>8, <1>9, <1>10, <1>11, <1>12, <1>13 DEF Orderly
<1>15. Sound(v, "tested", f, busy) BY <1>2, <1>6, <1>8, <1>14 DEF Sound
<1> QED BY <1>15 DEF v, h, f

\* The rest of handleWrite is left: the attempt it was is over.
LEMMA TestedEnds ==
    ASSUME NEW w, NEW at, NEW busy, Sound(w, "tested", at, busy), NEW z
    PROVE  /\ Sound(w, "idle", z, busy) /\ Attempts(w, "idle") = 0
           /\ w.handed /\ Fresh(w, at)
<1>1. w \in StateType /\ Orderly(w, "tested", at, busy) BY DEF Sound
<1>2. Attempts(w, "idle") = 0
  <2>1. OneAttempt(w, "tested", busy) BY <1>1 DEF Orderly
  <2>2. /\ StartsIn(w.queue) \in Nat /\ w.timers \in Nat
        /\ Attempts(w, "tested") = StartsIn(w.queue) + w.timers + One(w.chan # 0)
                                + One("tested" = "tested") + One(w.connection # 0)
        /\ Attempts(w, "idle") = StartsIn(w.queue) + w.timers + One(w.chan # 0)
                                + One("idle" = "tested") + One(w.connection # 0)
      BY <1>1, AttemptsSum
  <2>3. /\ One("tested" = "tested") = 1 /\ One("idle" = "tested") = 0
        /\ One(w.chan # 0) \in {0, 1} /\ One(w.connection # 0) \in {0, 1}
      BY DEF One
  <2>4. Attempts(w, "tested") <= 1 BY <2>1 DEF OneAttempt
  <2> QED BY <2>2, <2>3, <2>4
<1>3. "idle" \notin InEvent BY DEF InEvent
<1>4. OneAttempt(w, "idle", busy)
  <2>1. OneAttempt(w, "tested", busy) BY <1>1 DEF Orderly
  <2> QED BY <1>2, <1>3, <2>1 DEF OneAttempt
<1>5. FreshOnes(w, "idle", z) BY <1>1 DEF Orderly, FreshOnes
<1>6. ChannelStays(w, "idle", z) BY <1>3 DEF ChannelStays
<1>7. Orderly(w, "idle", z, busy) BY <1>1, <1>4, <1>5, <1>6 DEF Orderly
<1>8. w.handed /\ Fresh(w, at) BY <1>1 DEF Orderly, FreshOnes
<1> QED BY <1>2, <1>7, <1>8 DEF Sound

\* The descriptor taken, or the connection set.
LEMMA TakenFields ==
    ASSUME NEW w \in StateType
    PROVE  /\ \A o \in SUBSET Fds : [w EXCEPT !.open = o] \in StateType
           /\ \A f \in Fds, k \in [Fds -> {"none", "Connected", "Disconnecting",
                                          "Disconnected", "removed", "gone"}] :
                 [w EXCEPT !.connection = f, !.conn = k] \in StateType
<1>1. ASSUME NEW o \in SUBSET Fds PROVE [w EXCEPT !.open = o] \in StateType
    BY DEF StateType
<1>2. ASSUME NEW f \in Fds,
             NEW k \in [Fds -> {"none", "Connected", "Disconnecting",
                               "Disconnected", "removed", "gone"}]
      PROVE  [w EXCEPT !.connection = f, !.conn = k] \in StateType
    BY DEF StateType
<1> QED BY <1>1, <1>2

\* The new connection is the client's or the program's, or lost with the client.
LEMMA NewConnectionSound ==
    ASSUME NEW w, NEW at, NEW busy, Sound(w, "idle", at, busy), Attempts(w, "idle") = 0,
           w.handed, NEW f \in Fds, Fresh(w, f)
    PROVE  Sound(NewConnection([w EXCEPT !.status = "Connected"], f), "idle", at, busy)
<1> DEFINE s == [w EXCEPT !.status = "Connected"]
<1>1. w \in StateType /\ Orderly(w, "idle", at, busy) BY DEF Sound
<1>2. StartsIn(w.queue) = 0 /\ w.timers = 0 /\ w.chan = 0 /\ w.connection = 0
    BY <1>1, NoAttempts
<1>3. f \in w.open /\ w.conn[f] = "none" /\ f # 0 BY DEF Fresh, Fds
<1>4. /\ s \in StateType /\ Descriptors(s) = Descriptors(w) /\ Rest(s) = Rest(w)
      /\ More(s) = More(w)
      /\ Core(s) = <<"Connected", w.handed, w.fd, w.chan, w.exists, w.client,
                     w.timers, w.conn>>
    BY <1>1, StatusFields
<1>12. s \in StateType BY <1>4
<1> HIDE DEF s
<1>5. /\ s.status = "Connected" /\ s.handed /\ s.fd = w.fd /\ s.chan = 0
      /\ s.exists = w.exists /\ s.client = w.client /\ s.timers = 0 /\ s.conn = w.conn
      /\ s.opened = w.opened /\ s.open = w.open /\ s.queue = w.queue
      /\ s.connection = 0 /\ s.cb = w.cb /\ s.failed = w.failed /\ s.dead = w.dead
    BY <1>2, <1>4 DEF Core, Descriptors, Rest, More
<1> DEFINE Fits(v, n) ==
               /\ v \in StateType
               /\ v.status = "Connected" /\ v.handed /\ v.fd = w.fd /\ v.chan = 0
               /\ v.exists = w.exists /\ v.client = w.client /\ v.timers = 0
               /\ v.opened = w.opened /\ v.queue = w.queue /\ v.connection = n
               /\ v.cb = w.cb /\ v.failed = w.failed /\ v.dead = w.dead
<1> HIDE DEF Fits
<1>6. ASSUME NEW v, NEW n, Fits(v, n), v.open \subseteq w.open, Connections(v),
             \A g \in Fds : v.conn[g] # "none" => w.conn[g] # "none" \/ g \in w.open
      PROVE  Sound(v, "idle", at, busy)
  <2>1. /\ v.status = "Connected" /\ v.handed /\ v.fd = w.fd /\ v.chan = 0
        /\ v.exists = w.exists /\ v.client = w.client /\ v.timers = 0
        /\ v.opened = w.opened /\ v.queue = w.queue /\ v.connection = n
        /\ v.cb = w.cb /\ v.failed = w.failed /\ v.dead = w.dead
      BY <1>6 DEF Fits
  <2>2. OneAttempt(v, "idle", busy) BY <1>2, <2>1 DEF OneAttempt, Attempts, One, InEvent
  <2>3. FreshOnes(v, "idle", at)
    <3>1. FreshOnes(w, "idle", at) BY <1>1 DEF Orderly
    <3>2. Fresh(v, v.chan) BY <2>1 DEF Fresh
    <3>3. \A g \in Fds : v.conn[g] # "none" => g \in 1..v.opened
        BY <1>6, <2>1, <3>1 DEF FreshOnes
    <3> QED BY <1>6, <2>1, <3>1, <3>2, <3>3 DEF FreshOnes
  <2>4. ChannelStays(v, "idle", at) BY DEF ChannelStays, InEvent
  <2>5. StartsHeld(v, busy)
    <3>1. StartsHeld(w, busy) BY <1>1 DEF Orderly
    <3> QED BY <2>1, <3>1 DEF StartsHeld
  <2>6. Orderly(v, "idle", at, busy) BY <1>1, <1>6, <2>1, <2>2, <2>3, <2>4, <2>5 DEF Orderly
  <2>7. v \in StateType BY <1>6 DEF Fits
  <2> QED BY <2>1, <2>6, <2>7 DEF Sound
<1>7. Connections(w) BY <1>1 DEF Orderly
<1>8. CASE use = "connector"
  <2> DEFINE o == s.open \ {f}
             v == [s EXCEPT !.open = o]
  <2>1. NewConnection(s, f) = v BY <1>8 DEF NewConnection
  <2>2. o \in SUBSET Fds BY <1>4 DEF StateType
  <2>3. o = w.open \ {f} BY <1>5
  <2> HIDE DEF o
  <2>4. v \in StateType BY <1>12, <2>2, TakenFields
  <2>5. /\ v.status = s.status /\ v.handed = s.handed /\ v.fd = s.fd /\ v.chan = s.chan
        /\ v.exists = s.exists /\ v.client = s.client /\ v.timers = s.timers /\ v.conn = s.conn
        /\ v.opened = s.opened /\ v.open = o /\ v.queue = s.queue
        /\ v.connection = s.connection /\ v.cb = s.cb /\ v.failed = s.failed /\ v.dead = s.dead
      BY <1>4 DEF StateType
  <2> HIDE DEF v
  <2>6. Connections(v)
    <3>1. ASSUME NEW g \in Fds PROVE ConnectionKept(v, g)
      <4>1. ConnectionKept(w, g) BY <1>7 DEF Connections
      <4>2. w.conn[g] \notin {"none", "gone"} => g # f BY <1>3
      <4> QED BY <1>2, <1>5, <2>3, <2>5, <4>1, <4>2 DEF ConnectionKept
    <3> QED BY <1>5, <2>5, <3>1 DEF Connections
  <2>7. Fits(v, 0) BY <1>5, <2>4, <2>5 DEF Fits
  <2>8. v.open \subseteq w.open /\ v.conn = w.conn BY <1>5, <2>3, <2>5
  <2>9. Sound(v, "idle", at, busy) BY <1>6, <2>6, <2>7, <2>8
  <2> QED BY <2>1, <2>9 DEF s
<1>9. CASE use = "client" /\ ~w.client
  <2>1. NewConnection(s, f) = Lose(s, f) BY <1>5, <1>9 DEF NewConnection
  <2>2. Fits(s, 0) BY <1>4, <1>5 DEF Fits
  <2>3. Connections(s) BY <1>2, <1>5, <1>7 DEF Connections, ConnectionKept
  <2>4. Sound(s, "idle", at, busy) BY <1>5, <1>6, <2>2, <2>3
  <2>5. Sound(Lose(s, f), "idle", at, busy) BY <2>4, LoseSound
  <2> QED BY <2>1, <2>5 DEF s
<1>10. CASE use = "client" /\ w.client
  <2> DEFINE k == [s.conn EXCEPT ![f] = "Connected"]
             v == [s EXCEPT !.connection = f, !.conn = k]
  <2>1. NewConnection(s, f) = v
    <3>1. use # "connector" /\ s.client BY <1>5, <1>10
    <3>2. NewConnection(s, f) = [s EXCEPT !.connection = f, !.conn[f] = "Connected"]
        BY <1>10, <3>1 DEF NewConnection
    <3> QED BY <1>4, <3>2 DEF StateType
  <2>2. k \in [Fds -> {"none", "Connected", "Disconnecting", "Disconnected",
                       "removed", "gone"}]
      BY <1>4 DEF StateType
  <2>3. \A g \in Fds : k[g] = IF g = f THEN "Connected" ELSE w.conn[g]
      BY <1>4, <1>5 DEF StateType
  <2> HIDE DEF k
  <2>4. v \in StateType BY <1>12, <2>2, TakenFields
  <2>5. /\ v.status = s.status /\ v.handed = s.handed /\ v.fd = s.fd /\ v.chan = s.chan
        /\ v.exists = s.exists /\ v.client = s.client /\ v.timers = s.timers /\ v.conn = k
        /\ v.opened = s.opened /\ v.open = s.open /\ v.queue = s.queue
        /\ v.connection = f /\ v.cb = s.cb /\ v.failed = s.failed /\ v.dead = s.dead
      BY <1>4 DEF StateType
  <2> HIDE DEF v
  <2>6. Connections(v)
    <3>1. ASSUME NEW g \in Fds PROVE ConnectionKept(v, g)
      <4>1. ConnectionKept(w, g) BY <1>7 DEF Connections
      <4>2. /\ v.queue = w.queue /\ v.cb = w.cb /\ v.client = w.client /\ v.open = w.open
            /\ v.conn[g] = (IF g = f THEN "Connected" ELSE w.conn[g])
          BY <1>5, <2>3, <2>5
      <4>3. CASE g = f
        <5>1. ~Waits(w.queue, "destroy", g) BY <1>3, <4>1, <4>3 DEF ConnectionKept
        <5> QED BY <1>3, <2>5, <4>1, <4>2, <4>3, <5>1 DEF ConnectionKept
      <4>4. CASE g # f
        <5>1. w.connection # g BY <1>2 DEF Fds
        <5> QED BY <4>1, <4>2, <4>4, <5>1 DEF ConnectionKept
      <4> QED BY <4>3, <4>4
    <3>2. v.client /\ v.connection = f /\ v.conn[f] = "Connected" BY <1>5, <1>10, <2>3, <2>5
    <3> QED BY <3>1, <3>2 DEF Connections
  <2>7. Fits(v, f) BY <1>5, <2>4, <2>5 DEF Fits
  <2>8. v.open \subseteq w.open BY <1>5, <2>5
  <2>9. \A g \in Fds : v.conn[g] # "none" => w.conn[g] # "none" \/ g \in w.open
      BY <1>3, <2>3, <2>5
  <2>10. Sound(v, "idle", at, busy) BY <1>6, <2>6, <2>7, <2>8, <2>9
  <2> QED BY <2>1, <2>10 DEF s
<1>11. use \in {"client", "connector"} BY DEF Sound
<1> QED BY <1>8, <1>9, <1>10, <1>11

\* The retry that waited is taken.
LEMMA TimerSound ==
    ASSUME NEW w, NEW at, NEW busy, Sound(w, "idle", at, busy), w.timers > 0
    PROVE  LET v == [w EXCEPT !.timers = @ - 1] IN
           /\ Sound(v, "idle", at, busy) /\ Attempts(v, "idle") = 0
           /\ v.status = "Disconnected" /\ v.opened = w.opened /\ v.queue = w.queue
<1> DEFINE t == w.timers - 1
           v == [w EXCEPT !.timers = t]
<1>1. w \in StateType /\ Orderly(w, "idle", at, busy) BY DEF Sound
<1>2. w.timers \in Nat BY <1>1 DEF StateType
<1>3. t \in Nat /\ t = w.timers - 1 BY <1>2
<1>4. OneAttempt(w, "idle", busy) BY <1>1 DEF Orderly
<1>5. /\ StartsIn(w.queue) = 0 /\ w.timers = 1 /\ w.chan = 0 /\ w.connection = 0
      /\ w.status = "Disconnected"
  <2>1. Attempts(w, "idle") <= 1 BY <1>4 DEF OneAttempt
  <2>2. /\ StartsIn(w.queue) \in Nat
        /\ Attempts(w, "idle") = StartsIn(w.queue) + w.timers + One(w.chan # 0)
                                 + One("idle" = "tested") + One(w.connection # 0)
        /\ One(w.chan # 0) = (IF w.chan # 0 THEN 1 ELSE 0)
        /\ One("idle" = "tested") \in {0, 1}
        /\ One(w.connection # 0) = (IF w.connection # 0 THEN 1 ELSE 0)
      BY <1>1, AttemptsSum
  <2>3. StartsIn(w.queue) = 0 /\ w.timers = 1 /\ w.chan = 0 /\ w.connection = 0
      BY <1>2, <2>1, <2>2
  <2> QED BY <1>4, <2>3 DEF OneAttempt
<1> HIDE DEF t
<1>6. v \in StateType BY <1>1, <1>3 DEF StateType
<1>7. /\ v.status = w.status /\ v.handed = w.handed /\ v.fd = w.fd /\ v.chan = w.chan
      /\ v.exists = w.exists /\ v.client = w.client /\ v.timers = t /\ v.conn = w.conn
      /\ v.opened = w.opened /\ v.open = w.open /\ v.queue = w.queue
      /\ v.connection = w.connection /\ v.cb = w.cb /\ v.failed = w.failed /\ v.dead = w.dead
    BY <1>1 DEF StateType
<1> HIDE DEF v
<1>8. Attempts(v, "idle") = 0 BY <1>3, <1>5, <1>7 DEF Attempts, One
<1>9. OneAttempt(v, "idle", busy) BY <1>4, <1>5, <1>7, <1>8 DEF OneAttempt, InEvent
<1>10. FreshOnes(v, "idle", at)
  <2>1. FreshOnes(w, "idle", at) BY <1>1 DEF Orderly
  <2> QED BY <1>7, <2>1 DEF FreshOnes, Fresh
<1>11. ChannelStays(v, "idle", at) BY DEF ChannelStays, InEvent
<1>12. Connections(v)
  <2>1. Connections(w) BY <1>1 DEF Orderly
  <2> QED BY <1>7, <2>1 DEF Connections, ConnectionKept
<1>13. StartsHeld(v, busy)
  <2>1. StartsHeld(w, busy) BY <1>1 DEF Orderly
  <2> QED BY <1>7, <2>1 DEF StartsHeld
<1>14. Orderly(v, "idle", at, busy)
    BY <1>1, <1>7, <1>9, <1>10, <1>11, <1>12, <1>13 DEF Orderly
<1>15. Sound(v, "idle", at, busy) BY <1>6, <1>7, <1>14 DEF Sound
<1> QED BY <1>5, <1>7, <1>8, <1>15 DEF v, t

\* The start that waited is taken, and finds the connector.
LEMMA TakenSound ==
    ASSUME NEW w, NEW at, NEW busy, Sound(w, "idle", at, busy), w.queue # <<>>,
           w.queue[1][1] = "start"
    PROVE  LET v == [w EXCEPT !.queue = Tail(@)] IN
           /\ Sound(v, "idle", at, busy) /\ Attempts(v, "idle") = 0
           /\ v.status = "Disconnected" /\ v.opened = w.opened
           /\ w.exists /\ StartsIn(w.queue) >= 1
<1> DEFINE v == [w EXCEPT !.queue = Tail(@)]
           q == w.queue
<1>1. w \in StateType /\ Orderly(w, "idle", at, busy) /\ q \in Seq(Function)
    BY DEF Sound, StateType
<1>2. Sound(v, "idle", at, busy) BY TailSound
<1>3. /\ v \in StateType /\ Core(v) = Core(w) /\ Descriptors(v) = Descriptors(w)
      /\ v.queue = Tail(q) /\ v.connection = w.connection
    BY <1>1, TailFields
<1> HIDE DEF v
<1>4. q[1] = <<"start", 0>> /\ 1 \in DOMAIN q
  <2>1. q[1] \in Function /\ 1 \in DOMAIN q BY <1>1, QueueElements
  <2>2. \A x \in Function : x[1] = "start" => x = <<"start", 0>> BY DEF Function
  <2> QED BY <2>1, <2>2
<1>5. Waits(q, "start", 0) BY <1>4 DEF Waits
<1>6. w.exists BY <1>1, <1>5 DEF Orderly, StartsHeld
<1>7. StartsIn(Tail(q)) = StartsIn(q) - 1 BY <1>1, <1>4, StartsTail
<1>8. StartsIn(q) \in Nat /\ StartsIn(Tail(q)) \in Nat
  <2>1. Tail(q) \in Seq(Function) BY <1>1, QueueElements
  <2> QED BY <1>1, <2>1, StartsType
<1>9. OneAttempt(w, "idle", busy) BY <1>1 DEF Orderly
<1>10. /\ StartsIn(Tail(q)) = 0 /\ w.timers = 0 /\ w.chan = 0 /\ w.connection = 0
       /\ w.status = "Disconnected" /\ StartsIn(q) >= 1
  <2>1. Attempts(w, "idle") <= 1 BY <1>9 DEF OneAttempt
  <2>2. /\ w.timers \in Nat
        /\ Attempts(w, "idle") = StartsIn(q) + w.timers + One(w.chan # 0)
                                 + One("idle" = "tested") + One(w.connection # 0)
        /\ One(w.chan # 0) = (IF w.chan # 0 THEN 1 ELSE 0)
        /\ One("idle" = "tested") \in {0, 1}
        /\ One(w.connection # 0) = (IF w.connection # 0 THEN 1 ELSE 0)
      BY <1>1, AttemptsSum
  <2> DEFINE m == StartsIn(q)
             n == StartsIn(Tail(q))
  <2>3. m \in Nat /\ n \in Nat /\ n = m - 1 BY <1>7, <1>8
  <2>4. Attempts(w, "idle") = m + w.timers + One(w.chan # 0)
                                 + One("idle" = "tested") + One(w.connection # 0)
      BY <2>2
  <2> HIDE DEF m, n
  <2>5. n = 0 /\ m >= 1 /\ w.timers = 0 /\ w.chan = 0 /\ w.connection = 0
      BY <2>1, <2>2, <2>3, <2>4
  <2>6. StartsIn(q) + w.timers > 0 BY <2>5, <2>3 DEF m
  <2> QED BY <1>9, <2>5, <2>6 DEF OneAttempt, m, n
<1>11. v.status = "Disconnected" /\ v.opened = w.opened /\ v.timers = 0 /\ v.chan = 0
    BY <1>3, <1>10 DEF Core, Descriptors
<1>12. Attempts(v, "idle") = 0 BY <1>3, <1>10, <1>11 DEF Attempts, One
<1> QED BY <1>2, <1>6, <1>10, <1>11, <1>12 DEF v, q

-----------------------------------------------------------------------------
(* The steps keep the order *)

InOrder == Orderly(st, stage, evfd, stopping)

LEMMA SoundNow == ASSUME IInv, InOrder PROVE Sound(st, stage, evfd, stopping)
<1>1. /\ Safe(st, stage, evfd) /\ use \in {"client", "connector"} /\ st \in StateType
    BY IInvParts
<1>2. (st.client => st.exists) /\ (use = "connector" => st.client) BY <1>1 DEF Safe, Kept
<1> QED BY <1>1, <1>2 DEF Sound, InOrder

LEMMA InOrderNext ==
    ASSUME UNCHANGED use, Orderly(st', stage', evfd', stopping') PROVE InOrder'
<1>1. /\ ~st'.failed /\ ~st'.dead /\ OneAttempt(st', stage', stopping')
      /\ FreshOnes(st', stage', evfd') /\ ChannelStays(st', stage', evfd')
      /\ Connections(st') /\ StartsHeld(st', stopping')
    BY DEF Orderly
<1>2. OneAttempt(st, stage, stopping)' BY <1>1 DEF OneAttempt, Attempts, StartsIn, Waits
<1>3. FreshOnes(st, stage, evfd)' BY <1>1 DEF FreshOnes, Fresh
<1>4. ChannelStays(st, stage, evfd)' BY <1>1 DEF ChannelStays, Waits
<1>5. Connections(st)' BY <1>1 DEF Connections, ConnectionKept, Waits, Once
<1>6. StartsHeld(st, stopping)' BY <1>1 DEF StartsHeld, Waits, Followed
<1> QED BY <1>1, <1>2, <1>3, <1>4, <1>5, <1>6 DEF InOrder, Orderly

\* A handler has made w of the record, and the destructors run.
LEMMA BecomesSound ==
    ASSUME UNCHANGED use, NEW w, NEW busy, Sound(w, stage', evfd', busy),
           st' = Reap(w, busy), stopping' = busy
    PROVE  InOrder'
<1>1. Sound(st', stage', evfd', stopping') BY ReapSound
<1> QED BY <1>1, InOrderNext DEF Sound

LEMMA ConnectFlagSound ==
    ASSUME NEW w, NEW where, NEW at, NEW busy, Sound(w, where, at, busy)
    PROVE  LET v == [w EXCEPT !.connect = TRUE] IN
           /\ Sound(v, where, at, busy) /\ v.opened = w.opened /\ v.status = w.status
           /\ v.client = w.client /\ Attempts(v, where) = Attempts(w, where)
<1> DEFINE t == TRUE
           v == [w EXCEPT !.connect = t]
<1>1. w \in StateType BY DEF Sound
<1>2. t \in BOOLEAN OBVIOUS
<1> HIDE DEF t
<1>3. v \in StateType BY <1>1, <1>2 DEF StateType
<1>4. /\ Core(v) = Core(w) /\ v.opened = w.opened /\ v.open = w.open
      /\ v.connection = w.connection /\ More(v) = More(w) /\ v.queue = w.queue
    BY <1>1 DEF StateType, Core, More
<1> HIDE DEF v
<1>5. Like(v.queue, w.queue) BY <1>4, LikeItself
<1>6. Sound(v, where, at, busy) BY <1>3, <1>4, <1>5, SoundLike
<1>7. /\ v.status = w.status /\ v.client = w.client /\ v.chan = w.chan
      /\ v.timers = w.timers
    BY <1>4 DEF Core
<1>8. Attempts(v, where) = Attempts(w, where) BY <1>4, <1>7 DEF Attempts
<1> QED BY <1>4, <1>6, <1>7, <1>8 DEF v, t

LEMMA CallConnectSound ==
    ASSUME IInv, InOrder, NEW here \in BOOLEAN, NEW how \in Outcomes,
           CallConnect(here, how), ~Excused'
    PROVE  InOrder'
<1> DEFINE w == [st EXCEPT !.connect = TRUE]
           x == <<"start", 0>>
<1>1. /\ st \in StateType /\ Starts = StartsIn(st.queue) /\ Starts \in Nat
      /\ st.opened \in Nat
    BY IInvParts
<1>2. /\ \/ st' = Reap(StartInLoop(w, how), stopping)
         \/ st' = Reap(Queue(w, x), stopping)
      /\ st.client /\ st.opened + Starts < MaxAttempts
      /\ UNCHANGED <<use, stage, evfd, stopping>>
    BY DEF CallConnect, Becomes, BecomesWhile
<1>3. /\ st.status = "Disconnected" /\ ~(Starts > 0) /\ st.connection = 0
      /\ ~(st.timers > 0) /\ ~stopping /\ st.chan = 0
      /\ stage # "tested"
    BY DEF CallConnect, Excused, UnderWay
<1>4. Sound(st, stage, evfd, stopping) BY SoundNow
<1>5. st.timers = 0 /\ StartsIn(st.queue) = 0
  <2>1. st.timers \in Nat BY <1>1 DEF StateType
  <2> QED BY <1>1, <1>3, <2>1
<1>6. stage # "tested" BY <1>3
<1>7. Attempts(st, stage) = 0 BY <1>3, <1>5, <1>6 DEF Attempts, One
<1>8. /\ Sound(w, stage, evfd, stopping) /\ w.opened = st.opened /\ w.status = st.status
      /\ w.client = st.client /\ Attempts(w, stage) = 0
    BY <1>4, <1>7, ConnectFlagSound
<1> HIDE DEF w
<1>9. w.opened < MaxAttempts BY <1>1, <1>2, <1>8, ClientAssumption
<1>10. CASE st' = Reap(StartInLoop(w, how), stopping)
  <2>1. w.status = "Disconnected" BY <1>3, <1>8
  <2>2. Sound(StartInLoop(w, how), stage, evfd, stopping)
      BY <1>6, <1>8, <1>9, <2>1, StartInLoopSound
  <2>3. Sound(StartInLoop(w, how), stage', evfd', stopping) BY <1>2, <2>2
  <2> QED BY <1>2, <1>10, <2>3, BecomesSound
<1>11. CASE st' = Reap(Queue(w, x), stopping)
  <2>1. w.status = "Disconnected" /\ w.client BY <1>2, <1>3, <1>8
  <2>2. Sound(Queue(w, x), stage, evfd, stopping) BY <1>8, <2>1, QueueStartSound
  <2>3. Sound(Queue(w, x), stage', evfd', stopping) BY <1>2, <2>2
  <2> QED BY <1>2, <1>11, <2>3, BecomesSound
<1> QED BY <1>2, <1>10, <1>11

LEMMA CallDisconnectSound ==
    ASSUME IInv, InOrder, NEW here \in BOOLEAN, CallDisconnect(here)
    PROVE  InOrder'
<1> DEFINE c == st.connection
           x == <<"shutdown", c>>
           v == Queue(st, x)
<1>1. /\ st' = Reap(IF here THEN Shutdown(st, c) ELSE v, stopping)
      /\ c # 0 /\ UNCHANGED <<use, stage, evfd, stopping>>
    BY DEF CallDisconnect, Becomes, BecomesWhile
<1>2. Sound(st, stage, evfd, stopping) BY SoundNow
<1>3. st \in StateType /\ st.queue \in Seq(Function) BY IInvParts
<1>4. c \in Fds BY <1>1, <1>3 DEF StateType
<1>5. Sound(Shutdown(st, c), stage, evfd, stopping) BY <1>2, <1>4, ShutdownSound
<1>6. x \in Function /\ x[1] \in {"release", "shutdown"} BY <1>4, OtherFunctions
<1> HIDE DEF c, x
<1>7. Sound(v, stage, evfd, stopping)
  <2>1. /\ v \in StateType /\ Core(v) = Core(st) /\ Descriptors(v) = Descriptors(st)
        /\ v.queue = Append(st.queue, x) /\ v.connection = st.connection /\ More(v) = More(st)
      BY <1>3, <1>6, QueueFields
  <2> HIDE DEF v
  <2>2. v.opened = st.opened /\ v.open = st.open BY <2>1 DEF Descriptors
  <2>3. Like(v.queue, st.queue) BY <1>3, <1>6, <2>1, LikeAppend
  <2> QED BY <1>2, <2>1, <2>2, <2>3, SoundLike
<1> HIDE DEF v
<1> DEFINE u == IF here THEN Shutdown(st, c) ELSE v
<1>8. Sound(u, stage', evfd', stopping) BY <1>1, <1>5, <1>7
<1>9. st' = Reap(u, stopping) BY <1>1
<1> HIDE DEF u
<1> QED BY <1>1, <1>8, <1>9, BecomesSound

\* The loop thread calls nothing in the middle of handleWrite.
LEMMA NotTested ==
    ASSUME EventsFit, MayCall(TRUE) PROVE stage # "tested"
BY DEF EventsFit, MayCall, LoopInUserCode

LEMMA CallStopSound ==
    ASSUME IInv, EventsFit, InOrder, NEW here \in BOOLEAN, CallStop(here)
    PROVE  InOrder'
<1> DEFINE d == [st EXCEPT !.status = "Disconnected"]
<1>1. Sound(st, stage, evfd, stopping) /\ stopping \in BOOLEAN
    BY SoundNow, IInvParts DEF OtherTypes
<1>2. /\ MayCall(here) /\ UNCHANGED <<use, stage, evfd>>
      /\ \/ here /\ stopping' = stopping /\ st' = Reap(StopHere(st), stopping)
         \/ ~here /\ stopping' = TRUE /\ st' = Reap(d, TRUE)
    BY DEF CallStop, Stop, Becomes, BecomesWhile
<1>3. CASE here /\ stopping' = stopping /\ st' = Reap(StopHere(st), stopping)
  <2>1. stage # "tested" BY <1>2, <1>3, NotTested
  <2>2. Sound(StopHere(st), stage, evfd, stopping) BY <1>1, <2>1, StopHereSound
  <2>3. Sound(StopHere(st), stage', evfd', stopping) BY <1>2, <2>2
  <2> QED BY <1>2, <1>3, <2>3, BecomesSound
<1>4. CASE stopping' = TRUE /\ st' = Reap(d, TRUE)
  <2>1. Sound(d, stage, evfd, TRUE) BY <1>1, StoppedSound
  <2> HIDE DEF d
  <2>2. Sound(d, stage', evfd', TRUE) BY <1>2, <2>1
  <2> QED BY <1>2, <1>4, <2>2, BecomesSound
<1> QED BY <1>2, <1>3, <1>4

LEMMA StopQueuesSound == ASSUME IInv, InOrder, StopQueues PROVE InOrder'
<1> DEFINE v == Queue(st, <<"remove", 0>>)
<1>1. Sound(st, stage, evfd, stopping) BY SoundNow
<1>2. st' = Reap(v, FALSE) /\ stopping' = FALSE /\ UNCHANGED <<use, stage, evfd>>
    BY DEF StopQueues, BecomesWhile
<1> DEFINE b == FALSE
<1>5. st' = Reap(v, b) /\ stopping' = b /\ UNCHANGED use BY <1>2
<1> HIDE DEF b
<1>3. Sound(v, stage, evfd, b) BY <1>1, QueueRemoveSound
<1> HIDE DEF v
<1>4. Sound(v, stage', evfd', b) BY <1>2, <1>3
<1> QED BY <1>4, <1>5, BecomesSound

LEMMA DestroySound ==
    ASSUME IInv, EventsFit, InOrder, NEW here \in BOOLEAN, Destroy(here), use = "client",
           ~Excused'
    PROVE  InOrder'
<1> DEFINE w == [st EXCEPT !.client = FALSE]
           c == st.connection
           d == [w EXCEPT !.status = "Disconnected"]
           e == ForceClose([w EXCEPT !.cb[c] = "own", !.connection = 0], c)
           l == Queue(Queue([w EXCEPT !.connection = 0], <<"setClose", c>>),
                      <<"forceClose", c>>)
<1>1. /\ Sound(st, stage, evfd, stopping) /\ stopping \in BOOLEAN /\ st \in StateType
      /\ st.queue \in Seq(Function) /\ Starts = StartsIn(st.queue) /\ Starts \in Nat
    BY SoundNow, IInvParts DEF OtherTypes
<1>2. /\ MayCall(here) /\ UNCHANGED <<use, stage, evfd>>
      /\ \/ c = 0 /\ here /\ stopping' = stopping /\ st' = Reap(StopHere(w), stopping)
         \/ c = 0 /\ ~here /\ stopping' = TRUE /\ st' = Reap(d, TRUE)
         \/ c # 0 /\ here /\ stopping' = stopping /\ st' = Reap(e, stopping)
         \/ c # 0 /\ ~here /\ stopping' = stopping /\ st' = Reap(l, stopping)
  <2>1. /\ MayCall(here) /\ UNCHANGED <<use, stage, evfd>>
        /\ \/ c = 0 /\ Stop(w, here)
           \/ c # 0 /\ Becomes(IF here THEN e ELSE l)
      BY DEF Destroy
  <2> HIDE DEF w, c, d, e, l
  <2>2. Stop(w, here) => \/ here /\ stopping' = stopping /\ st' = Reap(StopHere(w), stopping)
                         \/ ~here /\ stopping' = TRUE /\ st' = Reap(d, TRUE)
      BY DEF Stop, Becomes, BecomesWhile, d
  <2>3. Becomes(IF here THEN e ELSE l) =>
           /\ stopping' = stopping
           /\ st' = Reap(IF here THEN e ELSE l, stopping)
      BY DEF Becomes, BecomesWhile
  <2> QED BY <2>1, <2>2, <2>3
<1>3. here => ~Waits(st.queue, "start", 0)
  <2>1. here => ~(Starts > 0) BY DEF Destroy, Excused
  <2>2. here => StartsIn(st.queue) = 0 BY <1>1, <2>1
  <2> QED BY <1>1, <2>2, NoStarts
<1>4. CASE c = 0 /\ here /\ stopping' = stopping /\ st' = Reap(StopHere(w), stopping)
  <2>1. stage # "tested" BY <1>2, <1>4, NotTested
  <2>2. Sound(w, stage, evfd, stopping) BY <1>1, <1>3, <1>4, ClientGoneSound
  <2> HIDE DEF w
  <2>3. Sound(StopHere(w), stage, evfd, stopping) BY <1>1, <2>1, <2>2, StopHereSound
  <2>4. Sound(StopHere(w), stage', evfd', stopping) BY <1>2, <2>3
  <2> QED BY <1>2, <1>4, <2>4, BecomesSound
<1>5. CASE c = 0 /\ stopping' = TRUE /\ st' = Reap(d, TRUE)
  <2> DEFINE b == TRUE
  <2>1. b \in BOOLEAN /\ b OBVIOUS
  <2> HIDE DEF b
  <2>2. Sound(w, stage, evfd, b) BY <1>1, <1>5, <2>1, ClientGoneSound
  <2> HIDE DEF w
  <2>3. Sound(d, stage, evfd, b) BY <2>1, <2>2, StoppedSound
  <2> HIDE DEF d
  <2>4. Sound(d, stage', evfd', b) BY <1>2, <2>3
  <2> QED BY <1>2, <1>5, <2>4, BecomesSound DEF b
<1>6. CASE c # 0 /\ stopping' = stopping /\ st' = Reap(e, stopping)
  <2> DEFINE t == FALSE
             z == 0
             k == [st.cb EXCEPT ![c] = "own"]
             u == [st EXCEPT !.client = t, !.cb = k, !.connection = z]
  <2>3. e = ForceClose(u, c)
    <3>1. [w EXCEPT !.cb[c] = "own", !.connection = 0] = u BY <1>1 DEF StateType
    <3> QED BY <3>1
  <2>4. t \in BOOLEAN /\ ~t /\ z \in Fds \cup {0} /\ z = 0 OBVIOUS
  <2>5. st \in StateType /\ c \in Fds BY <1>1, <1>6 DEF StateType
  <2>6. k \in [Fds -> {"client", "own"}] BY <2>5 DEF StateType
  <2>7. c = st.connection /\ c # 0 /\ Sound(st, stage, evfd, stopping) BY <1>1, <1>6
  <2> HIDE DEF w, c, e, t, z, k
  <2>8. u \in StateType BY <2>4, <2>5, <2>6 DEF StateType
  <2>9. /\ u.status = st.status /\ u.handed = st.handed /\ u.fd = st.fd
        /\ u.chan = st.chan /\ u.exists = st.exists /\ u.client = t
        /\ u.timers = st.timers /\ u.conn = st.conn /\ u.opened = st.opened
        /\ u.open = st.open /\ u.queue = st.queue /\ u.connection = z
        /\ u.failed = st.failed /\ u.dead = st.dead
      BY <2>5 DEF StateType
  <2> HIDE DEF u
  <2>10. ~u.client /\ u.connection = 0 BY <2>4, <2>9
  <2>11. Sound(ForceClose(u, c), stage, evfd, stopping)
      BY <2>7, <2>8, <2>9, <2>10, ClientClosesSound
  <2>1. Sound(e, stage, evfd, stopping) BY <2>3, <2>11
  <2> HIDE DEF e
  <2>2. Sound(e, stage', evfd', stopping) BY <1>2, <2>1
  <2> QED BY <1>2, <1>6, <2>2, BecomesSound
<1>7. CASE c # 0 /\ stopping' = stopping /\ st' = Reap(l, stopping)
  <2>3. w = [st EXCEPT !.client = FALSE] /\ c = st.connection OBVIOUS
  <2> HIDE DEF w, c
  <2>1. Sound(l, stage, evfd, stopping) BY <1>1, <1>7, <2>3, ClientLeavesSound
  <2> HIDE DEF l
  <2>2. Sound(l, stage', evfd', stopping) BY <1>2, <2>1
  <2> QED BY <1>2, <1>7, <2>2, BecomesSound
<1> HIDE DEF w, c, d, e, l
<1> QED BY <1>2, <1>4, <1>5, <1>6, <1>7

LEMMA RunStartSound ==
    ASSUME IInv, InOrder, NEW how \in Outcomes, RunStart(how) PROVE InOrder'
<1> DEFINE q == Tail(st.queue)
           w == [st EXCEPT !.queue = Tail(@), !.dead = @ \/ ~st.exists]
           v == [st EXCEPT !.queue = Tail(@)]
<1>1. /\ st \in StateType /\ Starts = StartsIn(st.queue) /\ Starts \in Nat
      /\ st.opened \in Nat /\ st.opened + Starts <= MaxAttempts
    BY IInvParts
<1>2. stage = "idle" /\ st.queue # <<>> /\ st.queue[1][1] = "start" BY DEF RunStart, LoopIs
<1>3. Sound(st, "idle", evfd, stopping) BY <1>2, SoundNow
<1>4. /\ Sound(v, "idle", evfd, stopping) /\ Attempts(v, "idle") = 0
      /\ v.status = "Disconnected" /\ v.opened = st.opened
      /\ st.exists /\ StartsIn(st.queue) >= 1
    BY <1>2, <1>3, TakenSound
<1>5. w = v
  <2>1. (st.dead \/ ~st.exists) = st.dead BY <1>1, <1>4 DEF StateType
  <2> HIDE DEF q
  <2>2. [st EXCEPT !.queue = q, !.dead = st.dead] = [st EXCEPT !.queue = q]
      BY <1>1 DEF StateType
  <2> QED BY <2>1, <2>2 DEF q
<1>6. st' = Reap(StartInLoop(v, how), stopping) /\ UNCHANGED <<use, stage, evfd, stopping>>
  <2>1. /\ Becomes(IF st.exists THEN StartInLoop(w, how) ELSE w)
        /\ UNCHANGED <<use, stage, evfd>>
      BY DEF RunStart
  <2> HIDE DEF w, v
  <2>2. Becomes(StartInLoop(v, how)) BY <1>4, <1>5, <2>1
  <2> QED BY <2>1, <2>2 DEF Becomes, BecomesWhile
<1> HIDE DEF v, w
<1>7. v.opened < MaxAttempts BY <1>1, <1>4, ClientAssumption
<1>8. Sound(StartInLoop(v, how), "idle", evfd, stopping) BY <1>4, <1>7, StartInLoopSound
<1>9. Sound(StartInLoop(v, how), stage', evfd', stopping) BY <1>2, <1>6, <1>8
<1> QED BY <1>6, <1>9, BecomesSound

LEMMA RunTimerSound ==
    ASSUME IInv, InOrder, NEW how \in Outcomes, RunTimer(how) PROVE InOrder'
<1> DEFINE v == [st EXCEPT !.timers = @ - 1]
<1>1. Starts \in Nat /\ st.opened \in Nat BY IInvParts
<1>2. /\ stage = "idle" /\ st.timers > 0 /\ st.opened + Starts < MaxAttempts
      /\ UNCHANGED <<use, stage, evfd, stopping>>
      /\ st' = Reap(StartInLoop(v, how), stopping)
    BY DEF RunTimer, LoopIs, Becomes, BecomesWhile
<1>3. Sound(st, "idle", evfd, stopping) BY <1>2, SoundNow
<1>4. /\ Sound(v, "idle", evfd, stopping) /\ Attempts(v, "idle") = 0
      /\ v.status = "Disconnected" /\ v.opened = st.opened
    BY <1>2, <1>3, TimerSound
<1> HIDE DEF v
<1>5. v.opened < MaxAttempts BY <1>1, <1>2, <1>4, ClientAssumption
<1>6. Sound(StartInLoop(v, how), "idle", evfd, stopping) BY <1>4, <1>5, StartInLoopSound
<1>7. Sound(StartInLoop(v, how), stage', evfd', stopping) BY <1>2, <1>6
<1> QED BY <1>2, <1>7, BecomesSound

LEMMA RunFuncSound == ASSUME IInv, InOrder, RunFunc PROVE InOrder'
<1> DEFINE op == st.queue[1][1]
           c == st.queue[1][2]
           w == [st EXCEPT !.queue = Tail(@)]
           u == CASE op = "remove" -> Answer(RemoveAndResetChannel(w), w.chan, "stopped")
                  [] op = "release" -> w
                  [] op = "shutdown" -> Shutdown(w, c)
                  [] op = "setClose" -> [w EXCEPT !.cb[c] = "own"]
                  [] op = "forceClose" -> ForceClose(w, c)
                  [] op = "destroy" -> ConnectDestroyed(w, c)
<1>1. /\ st' = Reap(u, stopping) /\ stage = "idle" /\ st.queue # <<>> /\ op # "start"
      /\ UNCHANGED <<use, stage, evfd, stopping>>
    BY DEF RunFunc, LoopIs, Becomes, BecomesWhile
<1>2. /\ Sound(st, "idle", evfd, stopping) /\ st \in StateType /\ st.queue \in Seq(Function)
    BY <1>1, SoundNow, IInvParts
<1>3. /\ st.queue[1] = <<op, c>>
      /\ \/ op \in {"start", "remove", "release"}
         \/ op \in {"shutdown", "setClose", "forceClose", "destroy"} /\ c \in Fds
  <2>1. st.queue[1] \in Function BY <1>1, <1>2, QueueElements
  <2> QED BY <2>1 DEF Function
<1>4. op \notin {"forceClose", "destroy"} => Sound(w, "idle", evfd, stopping)
  <2>1. Sound(st, "idle", evfd, stopping) /\ st.queue # <<>> BY <1>1, <1>2
  <2> QED BY <2>1, TailSound
<1>5. Sound(u, "idle", evfd, stopping)
  <2>1. CASE op = "remove"
    <3>1. u = Answer(RemoveAndResetChannel(w), w.chan, "stopped") BY <2>1
    <3> HIDE DEF w, u
    <3> QED BY <1>4, <2>1, <3>1, RemoveHereSound
  <2>2. CASE op = "release" BY <1>4, <2>2
  <2>3. CASE op = "shutdown"
    <3>1. u = Shutdown(w, c) /\ c \in Fds BY <1>3, <2>3
    <3> HIDE DEF w, u, c
    <3> QED BY <1>4, <2>3, <3>1, ShutdownSound
  <2>4. CASE op = "setClose"
    <3>1. u = [w EXCEPT !.cb[c] = "own"] /\ c \in Fds BY <1>3, <2>4
    <3>2. ~w.client
      <4>1. Connections(st) /\ w.client = st.client
          BY <1>2 DEF Sound, Orderly, StateType
      <4>2. 1 \in DOMAIN st.queue BY <1>1, <1>2, QueueElements
      <4>3. Waits(st.queue, "setClose", c) BY <1>3, <2>4, <4>2 DEF Waits
      <4> HIDE DEF w, u, c, op
      <4>4. ConnectionKept(st, c) BY <3>1, <4>1 DEF Connections
      <4> QED BY <4>1, <4>3, <4>4 DEF ConnectionKept
    <3>3. Sound(w, "idle", evfd, stopping) BY <1>4, <2>4
    <3> HIDE DEF w, u, c, op
    <3> QED BY <3>1, <3>2, <3>3, CallbackSound
  <2>5. CASE op = "forceClose"
    <3>1. u = ForceClose(w, c) /\ c \in Fds /\ st.queue[1] = <<"forceClose", c>>
        BY <1>3, <2>5
    <3> HIDE DEF u, c, op
    <3>2. Sound(ForceClose(w, c), "idle", evfd, stopping)
        BY <1>1, <1>2, <3>1, ForceClosedSound
    <3> QED BY <3>1, <3>2
  <2>6. CASE op = "destroy"
    <3>1. u = ConnectDestroyed(w, c) /\ c \in Fds /\ st.queue[1] = <<"destroy", c>>
        BY <1>3, <2>6
    <3> HIDE DEF u, c, op
    <3>2. Sound(ConnectDestroyed(w, c), "idle", evfd, stopping)
        BY <1>1, <1>2, <3>1, DestroyedSound
    <3> QED BY <3>1, <3>2
  <2>7. op \in {"remove", "release", "shutdown", "setClose", "forceClose", "destroy"}
      BY <1>1, <1>3
  <2> HIDE DEF u, w, c, op
  <2> QED BY <2>1, <2>2, <2>3, <2>4, <2>5, <2>6, <2>7
<1> HIDE DEF u, w, c, op
<1>6. Sound(u, stage', evfd', stopping) BY <1>1, <1>5
<1> QED BY <1>1, <1>6, BecomesSound

LEMMA ConnectionEndsSound ==
    ASSUME IInv, InOrder, NEW c \in Fds, ConnectionEnds(c) PROVE InOrder'
<1>1. /\ st' = Reap(HandleClose(st, c), stopping) /\ st.conn[c] \in {"Connected", "Disconnecting"}
      /\ UNCHANGED <<use, stage, evfd, stopping>>
    BY DEF ConnectionEnds, Becomes, BecomesWhile
<1>2. Sound(st, stage, evfd, stopping) BY SoundNow
<1>3. Sound(HandleClose(st, c), stage, evfd, stopping) BY <1>1, <1>2, HandleCloseSound
<1>4. Sound(HandleClose(st, c), stage', evfd', stopping) BY <1>1, <1>3
<1> QED BY <1>1, <1>4, BecomesSound

LEMMA PollKeepsOrder == ASSUME IInv, InOrder, Poll PROVE InOrder'
<1>1. /\ stage = "idle" /\ st.chan # 0 /\ stage' = "close" /\ evfd' = st.chan
      /\ UNCHANGED <<use, st, stopping>>
    BY DEF Poll, LoopIs
<1>2. Sound(st, "idle", evfd, stopping) BY <1>1, SoundNow
<1>3. Sound(st, "close", st.chan, stopping) BY <1>1, <1>2, PollSound
<1>4. Orderly(st', stage', evfd', stopping') BY <1>1, <1>3 DEF Sound
<1> QED BY <1>1, <1>4, InOrderNext

\* The channel in handleEvent is an object.
LEMMA ChannelAlive ==
    ASSUME IInv, InOrder, stage \in InEvent
    PROVE  [st EXCEPT !.dead = @ \/ ~ChannelHeld(st)] = st
<1>1. st \in StateType BY IInvParts
<1>2. ChannelStays(st, stage, evfd) BY DEF InOrder, Orderly
<1>3. ChannelHeld(st) BY <1>1, <1>2, RefersWaits DEF ChannelStays, ChannelHeld
<1> QED BY <1>1, <1>3, AliveSame

LEMMA EventErrorSound ==
    ASSUME IInv, InOrder, NEW from \in InEvent, NEW bit, NEW to \in InEvent,
           EventError(from, bit, to)
    PROVE  InOrder'
<1> DEFINE w == [st EXCEPT !.dead = @ \/ ~ChannelHeld(st)]
<1>1. /\ stage = from /\ stage' = to /\ UNCHANGED <<use, evfd, stopping>>
      /\ st' = Reap(IF bit \in revents THEN HandleError(w) ELSE w, stopping)
    BY DEF EventError, LoopIs, Becomes, BecomesWhile
<1>2. Sound(st, from, evfd, stopping) /\ stopping \in BOOLEAN
    BY <1>1, SoundNow, IInvParts DEF OtherTypes
<1>3. w = st BY <1>1, ChannelAlive
<1> HIDE DEF w
<1> DEFINE v == IF bit \in revents THEN HandleError(st) ELSE st
<1>4. Sound(HandleError(st), from, evfd, stopping) BY <1>2, HandleErrorSound
<1>5. Sound(v, from, evfd, stopping) BY <1>2, <1>4
<1>6. st' = Reap(v, stopping) BY <1>1, <1>3
<1> HIDE DEF v
<1>7. Sound(v, to, evfd, stopping) BY <1>5, StageSound
<1>8. Sound(v, stage', evfd', stopping) BY <1>1, <1>7
<1> QED BY <1>1, <1>6, <1>8, BecomesSound

LEMMA EventCloseSound == ASSUME IInv, InOrder, EventClose PROVE InOrder'
<1>1. CASE EventError("close", "hup", "error") BY <1>1, EventErrorSound DEF InEvent
<1>2. CASE /\ LoopIs("close") /\ st' = [st EXCEPT !.dead = @ \/ ~ChannelHeld(st)]
           /\ stage' = "idle" /\ evfd' = 0 /\ UNCHANGED <<use, stopping>>
  <2>1. stage \in InEvent BY <1>2 DEF LoopIs, InEvent
  <2>2. st' = st BY <1>2, <2>1, ChannelAlive
  <2>3. Sound(st, stage, evfd, stopping) BY SoundNow
  <2>4. Sound(st, "idle", 0, stopping) BY <2>1, <2>3, StageSound
  <2>5. Orderly(st', stage', evfd', stopping') BY <1>2, <2>2, <2>4 DEF Sound
  <2> QED BY <1>2, <2>5, InOrderNext
<1> QED BY <1>1, <1>2 DEF EventClose

LEMMA EventWriteSound == ASSUME IInv, InOrder, EventWrite PROVE InOrder'
<1> DEFINE w == [st EXCEPT !.dead = @ \/ ~ChannelHeld(st), !.handed = TRUE]
           h == [st EXCEPT !.handed = TRUE]
           l == IF st.handed THEN 0 ELSE st.fd
           a == Assert(Lose(w, l), st.status = "Disconnected")
<1>1. /\ stage = "write" /\ UNCHANGED <<use, stopping>>
      /\ \/ /\ st.status = "Connecting" /\ stage' = "tested" /\ evfd' = st.chan
            /\ st' = Reap(RemoveAndResetChannel(w), stopping)
         \/ /\ st.status # "Connecting" /\ stage' = "idle" /\ evfd' = 0
            /\ st' = Reap(a, stopping)
    BY DEF EventWrite, LoopIs, Becomes, BecomesWhile
<1>2. /\ Sound(st, "write", evfd, stopping) /\ stopping \in BOOLEAN /\ st \in StateType
      /\ l \in Fds \cup {0}
  <2>1. st \in StateType /\ stopping \in BOOLEAN BY IInvParts DEF OtherTypes
  <2> QED BY <1>1, <2>1, SoundNow DEF StateType
<1>3. "write" \in InEvent BY DEF InEvent
<1>4. w = h
  <2>1. [st EXCEPT !.dead = @ \/ ~ChannelHeld(st)] = st BY <1>1, <1>3, ChannelAlive
  <2>2. w = [[st EXCEPT !.dead = @ \/ ~ChannelHeld(st)] EXCEPT !.handed = TRUE]
      BY <1>2 DEF StateType
  <2> QED BY <2>1, <2>2
<1> HIDE DEF w, l
<1>5. CASE /\ st.status = "Connecting" /\ stage' = "tested" /\ evfd' = st.chan
           /\ st' = Reap(RemoveAndResetChannel(w), stopping)
  <2> DEFINE v == RemoveAndResetChannel(h)
  <2>1. Sound(v, "tested", st.chan, stopping) BY <1>2, <1>3, <1>5, WriteSound
  <2>2. st' = Reap(v, stopping) BY <1>4, <1>5
  <2> HIDE DEF v
  <2>3. Sound(v, stage', evfd', stopping) BY <1>5, <2>1
  <2> QED BY <1>1, <2>2, <2>3, BecomesSound
<1>6. CASE /\ st.status # "Connecting" /\ stage' = "idle" /\ evfd' = 0
           /\ st' = Reap(a, stopping)
  <2> DEFINE v == Lose(h, l)
  <2>1. Sound(h, "write", evfd, stopping) BY <1>2, HandedSound
  <2>2. st.status = "Disconnected"
    <3>1. OneAttempt(st, "write", stopping) BY <1>2 DEF Sound, Orderly
    <3>2. st.status \in {"Disconnected", "Connecting", "Connected"} BY <1>2 DEF StateType
    <3> QED BY <1>3, <1>6, <3>1, <3>2 DEF OneAttempt
  <2> HIDE DEF h
  <2>3. Sound(v, "write", evfd, stopping) BY <1>2, <2>1, LoseSound
  <2> HIDE DEF v
  <2>4. Sound(v, "idle", 0, stopping) BY <1>3, <2>3, StageSound
  <2>5. v \in StateType BY <2>4 DEF Sound
  <2>6. a = v BY <1>4, <2>2, <2>5, AssertTrue DEF v
  <2> HIDE DEF a
  <2>7. Sound(v, stage', evfd', stopping) BY <1>6, <2>4
  <2>8. st' = Reap(v, stopping) BY <1>6, <2>6
  <2> QED BY <1>1, <2>7, <2>8, BecomesSound
<1> HIDE DEF a
<1> QED BY <1>1, <1>5, <1>6

LEMMA HandleWriteRestSound == ASSUME IInv, InOrder, HandleWriteRest PROVE InOrder'
<1> DEFINE g == Answer(GiveUp(st, evfd), evfd, "error")
           s == [st EXCEPT !.status = "Connected"]
           n == Answer(NewConnection(s, evfd), evfd, "connected")
           d == evfd = 0 \/ kernel[evfd] \in {"failed", "self"}
<1>1. /\ stage = "tested" /\ stage' = "idle" /\ evfd' = 0 /\ UNCHANGED <<use, stopping>>
      /\ st' = Reap(IF d THEN g ELSE n, stopping)
    BY DEF HandleWriteRest, LoopIs, Becomes, BecomesWhile
<1>2. Sound(st, "tested", evfd, stopping) /\ evfd \in Fds \cup {0}
    BY <1>1, SoundNow, IInvParts DEF OtherTypes
<1>3. /\ Sound(st, "idle", 0, stopping) /\ Attempts(st, "idle") = 0
      /\ st.handed /\ Fresh(st, evfd)
    BY <1>2, TestedEnds
<1>4. /\ "error" \in {"connected", "error", "silent", "stopped"}
      /\ "connected" \in {"connected", "error", "silent", "stopped"}
    OBVIOUS
<1>5. CASE d
  <2> DEFINE v == GiveUp(st, evfd)
  <2>1. Sound(v, "idle", 0, stopping) BY <1>2, <1>3, GiveUpSound
  <2> HIDE DEF v
  <2>2. Sound(Answer(v, evfd, "error"), "idle", 0, stopping) BY <1>2, <1>4, <2>1, AnswerSound
  <2>3. st' = Reap(g, stopping) BY <1>1, <1>5
  <2>4. Sound(g, "idle", 0, stopping) BY <2>2 DEF v
  <2> HIDE DEF g
  <2>5. Sound(g, stage', evfd', stopping) BY <1>1, <2>4
  <2> QED BY <1>1, <2>3, <2>5, BecomesSound
<1>6. CASE ~d
  <2> DEFINE v == NewConnection(s, evfd)
  <2>1. evfd \in Fds BY <1>2, <1>6
  <2>2. Sound(v, "idle", 0, stopping) BY <1>3, <2>1, NewConnectionSound
  <2> HIDE DEF v
  <2>3. Sound(Answer(v, evfd, "connected"), "idle", 0, stopping)
      BY <1>2, <1>4, <2>2, AnswerSound
  <2>4. st' = Reap(n, stopping) BY <1>1, <1>6
  <2>5. Sound(n, "idle", 0, stopping) BY <2>3 DEF v
  <2> HIDE DEF n
  <2>6. Sound(n, stage', evfd', stopping) BY <1>1, <2>5
  <2> QED BY <1>1, <2>4, <2>6, BecomesSound
<1> QED BY <1>5, <1>6

-----------------------------------------------------------------------------
(* Every step keeps the order, unless it is excused *)

\* What is excused stays excused.
LEMMA ExcusesGrow == ASSUME [Next]_vars, Excused PROVE Excused'
<1>1. excuses \subseteq excuses'
  <2>1. ASSUME NEW here \in BOOLEAN, Program(here) PROVE excuses \subseteq excuses'
      BY <2>1 DEF Program, CallConnect, CallDisconnect, Destroy, CallStop
  <2>2. CASE StopQueues BY <2>2 DEF StopQueues
  <2>3. CASE Loop
    <3>1. ASSUME NEW how \in Outcomes, RunStart(how) \/ RunTimer(how)
          PROVE  excuses \subseteq excuses'
        BY <3>1 DEF RunStart, RunTimer
    <3>2. CASE RunFunc \/ Poll BY <3>2 DEF RunFunc, Poll
    <3>3. CASE EventClose \/ EventError("error", "err", "write")
        BY <3>3 DEF EventClose, EventError
    <3>4. CASE EventWrite \/ HandleWriteRest BY <3>4 DEF EventWrite, HandleWriteRest
    <3> QED BY <2>3, <3>1, <3>2, <3>3, <3>4 DEF Loop
  <2>4. ASSUME NEW c \in Fds, ConnectionEnds(c) PROVE excuses \subseteq excuses'
      BY <2>4 DEF ConnectionEnds
  <2>5. ASSUME NEW f \in Fds, NEW what \in {"up", "self", "failed"}, Network(f, what)
        PROVE  excuses \subseteq excuses'
      BY <2>5 DEF Network
  <2>6. CASE UNCHANGED vars BY <2>6 DEF vars
  <2> QED BY <2>1, <2>2, <2>3, <2>4, <2>5, <2>6 DEF Next
<1> QED BY <1>1 DEF Excused

LEMMA StillSound ==
    ASSUME InOrder, UNCHANGED <<use, st, stage, evfd, stopping>> PROVE InOrder'
<1>1. Orderly(st', stage', evfd', stopping') BY DEF InOrder
<1> QED BY <1>1, InOrderNext

LEMMA OrderKept ==
    ASSUME IInv, EventsFit, InOrder, [Next]_vars, ~Excused' PROVE InOrder'
<1>1. ASSUME NEW here \in BOOLEAN, Program(here) PROVE InOrder'
  <2>1. CASE \E how \in Outcomes : CallConnect(here, how) BY <2>1, CallConnectSound
  <2>2. CASE use = "client" /\ CallDisconnect(here) BY <2>2, CallDisconnectSound
  <2>3. CASE use = "client" /\ Destroy(here) BY <2>3, DestroySound
  <2>4. CASE CallStop(here) BY <2>4, CallStopSound
  <2> QED BY <1>1, <2>1, <2>2, <2>3, <2>4 DEF Program
<1>2. CASE StopQueues BY <1>2, StopQueuesSound
<1>3. CASE Loop
  <2>1. CASE \E how \in Outcomes : RunStart(how) BY <2>1, RunStartSound
  <2>2. CASE \E how \in Outcomes : RunTimer(how) BY <2>2, RunTimerSound
  <2>3. CASE RunFunc BY <2>3, RunFuncSound
  <2>4. CASE Poll BY <2>4, PollKeepsOrder
  <2>5. CASE EventClose BY <2>5, EventCloseSound
  <2>6. CASE EventError("error", "err", "write")
    <3> DEFINE from == "error"
               to == "write"
    <3>1. from \in InEvent /\ to \in InEvent BY DEF InEvent
    <3>2. EventError(from, "err", to) BY <2>6
    <3> HIDE DEF from, to
    <3> QED BY <3>1, <3>2, EventErrorSound
  <2>7. CASE EventWrite BY <2>7, EventWriteSound
  <2>8. CASE HandleWriteRest BY <2>8, HandleWriteRestSound
  <2> QED BY <1>3, <2>1, <2>2, <2>3, <2>4, <2>5, <2>6, <2>7, <2>8 DEF Loop
<1>4. ASSUME NEW c \in Fds, ConnectionEnds(c) PROVE InOrder' BY <1>4, ConnectionEndsSound
<1>5. ASSUME NEW f \in Fds, NEW what \in {"up", "self", "failed"}, Network(f, what)
      PROVE  InOrder'
  <2>1. UNCHANGED <<use, st, stage, evfd, stopping>> BY <1>5 DEF Network
  <2> QED BY <2>1, StillSound
<1>6. CASE UNCHANGED vars
  <2>1. UNCHANGED <<use, st, stage, evfd, stopping>> BY <1>6 DEF vars
  <2> QED BY <2>1, StillSound
<1> QED BY <1>1, <1>2, <1>3, <1>4, <1>5, <1>6 DEF Next

LEMMA NextSound == ASSUME SoundInv, [Next]_vars PROVE SoundInv'
<1>1. IInv /\ EventsFit /\ ConnectedMeansConnected BY DEF SoundInv
<1>2. IInv' BY <1>1, NextKeeps
<1>3. Fit' BY <1>1, NextFits DEF Fit
<1>4. Excused' \/ InOrder'
  <2>1. CASE Excused BY <2>1, ExcusesGrow
  <2>2. CASE ~Excused
    <3>1. InOrder BY <2>2 DEF SoundInv, InOrder
    <3> QED BY <1>1, <3>1, OrderKept
  <2> QED BY <2>1, <2>2
<1> QED BY <1>2, <1>3, <1>4 DEF SoundInv, Fit, InOrder

LEMMA InitSound == ASSUME Init PROVE SoundInv
<1>1. IInv BY InitIInv
<1>2. /\ st.status = "Disconnected" /\ ~st.handed /\ st.fd = 0 /\ st.chan = 0 /\ st.exists
      /\ st.client /\ st.connection = 0 /\ st.queue = <<>> /\ st.timers = 0
      /\ st.opened = 0 /\ st.open = {} /\ ~st.failed /\ ~st.dead
      /\ \A f \in Fds : st.conn[f] = "none" /\ st.cb[f] = "client" /\ st.answer[f] = "none"
    BY DEF Init
<1>3. stage = "idle" /\ evfd = 0 /\ ~user BY DEF Init
<1>4. DOMAIN st.queue = {} BY <1>2
<1>5. EventsFit /\ ConnectedMeansConnected
    BY <1>2, <1>3 DEF EventsFit, ConnectedMeansConnected
<1>6. OneAttempt(st, stage, stopping)
  <2>1. StartsIn(st.queue) = 0
    <3>1. {i \in DOMAIN st.queue : st.queue[i][1] = "start"} = {} BY <1>4
    <3> QED BY <3>1, FS_EmptySet DEF StartsIn
  <2>2. Attempts(st, stage) = 0 BY <1>2, <1>3, <2>1 DEF Attempts, One
  <2> QED BY <1>2, <1>3, <2>1, <2>2 DEF OneAttempt, InEvent
<1>7. FreshOnes(st, stage, evfd) BY <1>2, <1>3 DEF FreshOnes, Fresh
<1>8. ChannelStays(st, stage, evfd) BY <1>3 DEF ChannelStays, InEvent
<1>9. Connections(st)
  <2>1. ASSUME NEW f \in Fds PROVE ConnectionKept(st, f)
      BY <1>2, <1>4 DEF ConnectionKept, Waits, Once
  <2> QED BY <1>2, <2>1 DEF Connections
<1>10. StartsHeld(st, stopping) BY <1>4 DEF StartsHeld, Waits
<1> QED BY <1>1, <1>2, <1>5, <1>6, <1>7, <1>8, <1>9, <1>10 DEF SoundInv, Orderly

-----------------------------------------------------------------------------
(* The theorems *)

\* As long as nothing of what Excuse names has happened there is one attempt at a
\* time, its descriptor is open, its channel and its connector are objects, and
\* every connection has somebody who closes and destroys it; the event that is
\* taken for the attempt's is the attempt's.
THEOREM SoundInvariance == Spec => []SoundInv
<1>1. Init => SoundInv BY InitSound
<1>2. SoundInv /\ [Next]_vars => SoundInv' BY NextSound
<1> QED BY <1>1, <1>2, PTL DEF Spec

\* No assertion of Connector.cpp and TcpClient.cpp fails, nothing destroyed is used
\* and no descriptor is closed twice, unless the program has called connect() over
\* an attempt or with a status_ that was not reset, or destroyed the client over a
\* queued start; and a connection that is reported has been made, unless it was
\* begun inside an error callback.
THEOREM ClientIsSound == Spec => []ClientSound
<1>1. SoundInv => ClientSound BY DEF SoundInv, ClientSound, ClientSafe, Orderly
<1> QED BY <1>1, SoundInvariance, PTL

=============================================================================

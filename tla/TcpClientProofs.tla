--------------------------- MODULE TcpClientProofs --------------------------
(***************************************************************************)
(* Proofs about TcpClient: whatever the program calls and the network      *)
(* answers, and however many attempts there are, an open descriptor has    *)
(* somebody who closes it, but for those that Lose names, and the event    *)
(* that is taken for an attempt's is the attempt's.                        *)
(***************************************************************************)
EXTENDS TcpClient, SequenceTheorems, FunctionTheorems, FiniteSetTheorems, TLAPS

-----------------------------------------------------------------------------
(* The record and the operators on it *)

\* What the ownership of descriptors depends on, apart from the descriptors.
Core(w) == <<w.status, w.handed, w.fd, w.chan, w.exists, w.client, w.timers, w.conn>>
Descriptors(w) == <<w.opened, w.open, w.lost>>

\* What else the handlers look at.
Rest(w) == <<w.queue, w.connect, w.connection>>
More(w) == <<w.cb, w.failed, w.dead>>

LEMMA AssertFields ==
    ASSUME NEW w \in StateType, NEW p
    PROVE  /\ Assert(w, p) \in StateType
           /\ Core(Assert(w, p)) = Core(w) /\ Descriptors(Assert(w, p)) = Descriptors(w)
           /\ Rest(Assert(w, p)) = Rest(w)
           /\ Assert(w, p).failed = (w.failed \/ ~p)
<1> DEFINE x == w.failed \/ ~p
           v == [w EXCEPT !.failed = x]
<1>1. x \in BOOLEAN /\ Assert(w, p) = v BY DEF Assert
<1>2. x = (w.failed \/ ~p) OBVIOUS
<1> HIDE DEF x
<1>3. v \in StateType BY <1>1 DEF StateType
<1>4. v.failed = x /\ Core(v) = Core(w) /\ Descriptors(v) = Descriptors(w) /\ Rest(v) = Rest(w)
    BY DEF StateType, Core, Descriptors, Rest
<1> QED BY <1>1, <1>2, <1>3, <1>4

\* An assertion that holds changes nothing.
LEMMA AssertTrue == ASSUME NEW w \in StateType, NEW p, p PROVE Assert(w, p) = w
<1>1. (w.failed \/ ~p) = w.failed BY DEF StateType
<1>2. Assert(w, p) = [w EXCEPT !.failed = w.failed] BY <1>1 DEF Assert
<1>3. w = [x \in DOMAIN w |-> w[x]] BY DEF StateType
<1>4. [w EXCEPT !.failed = w.failed] = [x \in DOMAIN w |-> w[x]] OBVIOUS
<1> QED BY <1>2, <1>3, <1>4

LEMMA QueueFields ==
    ASSUME NEW w \in StateType, NEW f \in Function
    PROVE  /\ Queue(w, f) \in StateType /\ Core(Queue(w, f)) = Core(w)
           /\ Descriptors(Queue(w, f)) = Descriptors(w)
           /\ Queue(w, f).queue = Append(w.queue, f)
           /\ Queue(w, f).connect = w.connect /\ Queue(w, f).connection = w.connection
           /\ More(Queue(w, f)) = More(w)
<1> DEFINE F == Function
           q == Append(w.queue, f)
           v == [w EXCEPT !.queue = q]
<1>1. w.queue \in Seq(F) BY DEF StateType
<1> HIDE DEF F
<1>2. q \in Seq(Function) BY <1>1 DEF F
<1>3. Queue(w, f) = v BY DEF Queue
<1> HIDE DEF q
<1>4. v \in StateType BY <1>2 DEF StateType
<1>5. /\ v.queue = q /\ Core(v) = Core(w) /\ Descriptors(v) = Descriptors(w)
      /\ v.connect = w.connect /\ v.connection = w.connection /\ More(v) = More(w)
    BY DEF StateType, Core, Descriptors, More
<1> QED BY <1>3, <1>4, <1>5 DEF q

LEMMA AnswerFields ==
    ASSUME NEW w \in StateType, NEW f \in Fds \cup {0},
           NEW a \in {"connected", "error", "silent", "stopped"}
    PROVE  /\ Answer(w, f, a) \in StateType
           /\ Core(Answer(w, f, a)) = Core(w) /\ Descriptors(Answer(w, f, a)) = Descriptors(w)
           /\ Rest(Answer(w, f, a)) = Rest(w) /\ More(Answer(w, f, a)) = More(w)
<1>1. CASE f # 0 /\ w.answer[f] = "pending"
  <2> DEFINE g == [w.answer EXCEPT ![f] = a]
             v == [w EXCEPT !.answer = g]
  <2>1. Answer(w, f, a) = v BY <1>1 DEF Answer, StateType
  <2>2. g \in [Fds -> {"none", "pending", "connected", "error", "silent", "stopped"}]
      BY <1>1 DEF StateType
  <2> HIDE DEF g
  <2>3. v \in StateType BY <2>2 DEF StateType
  <2>4. Core(v) = Core(w) /\ Descriptors(v) = Descriptors(w) /\ Rest(v) = Rest(w)
        /\ More(v) = More(w)
      BY DEF StateType, Core, Descriptors, Rest, More
  <2> QED BY <2>1, <2>3, <2>4
<1>2. CASE ~(f # 0 /\ w.answer[f] = "pending") BY <1>2 DEF Answer
<1> QED BY <1>1, <1>2

\* close
LEMMA CloseFdFields ==
    ASSUME NEW w \in StateType, NEW f \in Fds \cup {0}
    PROVE  /\ CloseFd(w, f) \in StateType
           /\ Core(CloseFd(w, f)) = Core(w) /\ Rest(CloseFd(w, f)) = Rest(w)
           /\ Descriptors(CloseFd(w, f)) = <<w.opened, w.open \ {f}, w.lost>>
           /\ f = 0 \/ f \in w.open => More(CloseFd(w, f)) = More(w)
<1>1. CASE f = 0
  <2>1. 0 \notin w.open BY DEF StateType, Fds
  <2> QED BY <1>1, <2>1 DEF CloseFd, Descriptors
<1>2. CASE f # 0
  <2> DEFINE x == w.dead \/ f \notin w.open
             o == w.open \ {f}
             v == [w EXCEPT !.open = o, !.dead = x]
  <2>1. CloseFd(w, f) = v BY <1>2 DEF CloseFd
  <2>2. x \in BOOLEAN /\ (f \in w.open => x = w.dead) BY DEF StateType
  <2>3. o \in SUBSET Fds BY DEF StateType
  <2> HIDE DEF x, o
  <2>4. v \in StateType BY <2>2, <2>3 DEF StateType
  <2>5. /\ Core(v) = Core(w) /\ Rest(v) = Rest(w) /\ Descriptors(v) = <<w.opened, o, w.lost>>
        /\ More(v) = <<w.cb, w.failed, x>>
      BY <2>2 DEF StateType, Core, Rest, Descriptors, More
  <2> QED BY <1>2, <2>1, <2>2, <2>4, <2>5 DEF o, More
<1> QED BY <1>1, <1>2

\* Lose marks the descriptor, if it is open.
LEMMA LoseFields ==
    ASSUME NEW w \in StateType, NEW f \in Fds \cup {0}
    PROVE  /\ Lose(w, f) \in StateType
           /\ Core(Lose(w, f)) = Core(w) /\ Rest(Lose(w, f)) = Rest(w)
           /\ Descriptors(Lose(w, f)) = <<w.opened, w.open, w.lost \cup ({f} \cap w.open)>>
           /\ Lose(w, f).failed = w.failed /\ More(Lose(w, f)) = More(w)
<1>1. CASE f \notin w.open
  <2>1. w.lost = w.lost \cup ({f} \cap w.open) BY <1>1
  <2> QED BY <1>1, <2>1 DEF Lose, Descriptors
<1>2. CASE f \in w.open
  <2> DEFINE l == w.lost \cup {f}
             v == [w EXCEPT !.lost = l]
  <2>1. Lose(w, f) = v /\ l = w.lost \cup ({f} \cap w.open) BY <1>2 DEF Lose
  <2>2. l \in SUBSET Fds BY <1>2 DEF StateType
  <2> HIDE DEF l
  <2>3. v \in StateType BY <2>2 DEF StateType
  <2>4. /\ Core(v) = Core(w) /\ Rest(v) = Rest(w) /\ Descriptors(v) = <<w.opened, w.open, l>>
        /\ v.failed = w.failed /\ More(v) = More(w)
      BY DEF StateType, Core, Rest, Descriptors, More
  <2> QED BY <2>1, <2>3, <2>4
<1> QED BY <1>1, <1>2

\* The status alone.
LEMMA StatusFields ==
    ASSUME NEW w \in StateType, NEW s \in {"Disconnected", "Connecting", "Connected"}
    PROVE  LET v == [w EXCEPT !.status = s] IN
           /\ v \in StateType /\ Descriptors(v) = Descriptors(w) /\ Rest(v) = Rest(w)
           /\ More(v) = More(w)
           /\ Core(v) = <<s, w.handed, w.fd, w.chan, w.exists, w.client, w.timers, w.conn>>
<1> DEFINE v == [w EXCEPT !.status = s]
<1>1. v \in StateType BY DEF StateType
<1>2. /\ Descriptors(v) = Descriptors(w) /\ Rest(v) = Rest(w) /\ More(v) = More(w)
      /\ Core(v) = <<s, w.handed, w.fd, w.chan, w.exists, w.client, w.timers, w.conn>>
    BY DEF StateType, Core, Rest, Descriptors, More
<1> QED BY <1>1, <1>2

\* retry: the descriptor is closed; a timer perhaps started.
LEMMA RetryFields ==
    ASSUME NEW w \in StateType, NEW f \in Fds \cup {0}
    PROVE  /\ Retry(w, f) \in StateType /\ Rest(Retry(w, f)) = Rest(w)
           /\ Descriptors(Retry(w, f)) = <<w.opened, w.open \ {f}, w.lost>>
           /\ f = 0 \/ f \in w.open => More(Retry(w, f)) = More(w)
           /\ \E t \in {w.timers, w.timers + 1} : Core(Retry(w, f)) =
                  <<"Disconnected", w.handed, w.fd, w.chan, w.exists, w.client, t, w.conn>>
<1> DEFINE c == CloseFd(w, f)
           v == [c EXCEPT !.status = "Disconnected"]
<1>1. /\ c \in StateType /\ Core(c) = Core(w) /\ Rest(c) = Rest(w)
      /\ Descriptors(c) = <<w.opened, w.open \ {f}, w.lost>>
      /\ f = 0 \/ f \in w.open => More(c) = More(w)
    BY CloseFdFields
<1> HIDE DEF c
<1>2. /\ v \in StateType /\ Descriptors(v) = Descriptors(c) /\ Rest(v) = Rest(c)
      /\ More(v) = More(c)
      /\ Core(v) = <<"Disconnected", c.handed, c.fd, c.chan, c.exists, c.client, c.timers, c.conn>>
    BY <1>1, StatusFields
<1> HIDE DEF v
<1>3. Core(v) = <<"Disconnected", w.handed, w.fd, w.chan, w.exists, w.client, w.timers, w.conn>>
    BY <1>1, <1>2 DEF Core
<1>4. w.timers \in Nat BY DEF StateType
<1>5. CASE ~w.connect
  <2>1. Retry(w, f) = v BY <1>5 DEF Retry, v, c
  <2> QED BY <1>1, <1>2, <1>3, <1>4, <2>1
<1>6. CASE w.connect
  <2> DEFINE t == v.timers + 1
             i == IF v.interval * 2 > kMaxRetryDelay THEN kMaxRetryDelay ELSE v.interval * 2
             u == [v EXCEPT !.timers = t, !.interval = i]
  <2>1. Retry(w, f) = u BY <1>6 DEF Retry, v, c
  <2>2. v.timers \in Nat /\ v.interval \in Nat BY <1>2 DEF StateType
  <2> HIDE DEF v
  <2>3. t \in Nat /\ i \in Nat BY <2>2, ClientAssumption
  <2>4. t = w.timers + 1 BY <1>3 DEF Core
  <2> HIDE DEF t, i
  <2>5. u \in StateType BY <1>2, <2>3 DEF StateType
  <2>6. /\ Descriptors(u) = Descriptors(v) /\ Rest(u) = Rest(v) /\ More(u) = More(v)
        /\ Core(u) = <<v.status, v.handed, v.fd, v.chan, v.exists, v.client, t, v.conn>>
      BY <1>2, <2>3 DEF StateType, Core, Rest, Descriptors, More
  <2> HIDE DEF u
  <2>7. Core(u) = <<"Disconnected", w.handed, w.fd, w.chan, w.exists, w.client, t, w.conn>>
      BY <1>3, <2>6 DEF Core
  <2> QED BY <1>1, <1>2, <2>1, <2>3, <2>5, <2>6, <2>7, <2>4
<1>7. w.connect \in BOOLEAN BY DEF StateType
<1> QED BY <1>5, <1>6, <1>7

\* The channel goes into a queued function, which is not a start.
LEMMA RemoveAndResetChannelFields ==
    ASSUME NEW w \in StateType
    PROVE  LET v == RemoveAndResetChannel(w) IN
           /\ v \in StateType /\ Descriptors(v) = Descriptors(w)
           /\ Core(v) = <<w.status, w.handed, w.fd, 0, w.exists, w.client, w.timers, w.conn>>
           /\ v.queue \in {w.queue, Append(w.queue, <<"release", 0>>)}
           /\ w.chan # 0 => v.queue = Append(w.queue, <<"release", 0>>)
           /\ More(v) = More(w) /\ v.connect = w.connect /\ v.connection = w.connection
<1>1. CASE w.chan = 0 BY <1>1 DEF RemoveAndResetChannel, Core
<1>2. CASE w.chan # 0
  <2> DEFINE u == [w EXCEPT !.chan = 0]
             r == <<"release", 0>>
  <2>1. RemoveAndResetChannel(w) = Queue(u, r) BY <1>2 DEF RemoveAndResetChannel
  <2>2. r \in Function BY DEF Function
  <2>3. u \in StateType BY DEF StateType
  <2>4. /\ Descriptors(u) = Descriptors(w) /\ Rest(u) = Rest(w) /\ More(u) = More(w)
        /\ Core(u) = <<w.status, w.handed, w.fd, 0, w.exists, w.client, w.timers, w.conn>>
      BY DEF StateType, Core, Rest, Descriptors, More
  <2> HIDE DEF u, r
  <2>5. /\ Queue(u, r) \in StateType /\ Core(Queue(u, r)) = Core(u)
        /\ Descriptors(Queue(u, r)) = Descriptors(u) /\ Queue(u, r).queue = Append(u.queue, r)
        /\ Queue(u, r).connect = u.connect /\ Queue(u, r).connection = u.connection
        /\ More(Queue(u, r)) = More(u)
      BY <2>2, <2>3, QueueFields
  <2>6. u.queue = w.queue /\ u.connect = w.connect /\ u.connection = w.connection
      BY <2>4 DEF Rest
  <2> QED BY <2>1, <2>4, <2>5, <2>6 DEF r
<1> QED BY <1>1, <1>2

-----------------------------------------------------------------------------
(* The queued starts *)

LEMMA StartsType ==
    ASSUME NEW q \in Seq(Function)
    PROVE  /\ IsFiniteSet({i \in DOMAIN q : q[i][1] = "start"}) /\ StartsIn(q) \in Nat
<1> DEFINE F == Function
           H == {i \in DOMAIN q : q[i][1] = "start"}
<1>1. DOMAIN q = 1..Len(q) /\ Len(q) \in Nat
  <2>1. q \in Seq(F) OBVIOUS
  <2> HIDE DEF F
  <2> QED BY <2>1
<1>2. IsFiniteSet(1..Len(q)) BY <1>1, FS_Interval
<1>3. H \in SUBSET (1..Len(q)) BY <1>1
<1>4. IsFiniteSet(H) BY <1>2, <1>3, FS_Subset
<1>5. Cardinality(H) \in Nat BY <1>4, FS_CardinalityType
<1> QED BY <1>4, <1>5 DEF StartsIn

\* A function more: one more start or none.
LEMMA StartsAppend ==
    ASSUME NEW q \in Seq(Function), NEW x \in Function
    PROVE  StartsIn(Append(q, x)) = StartsIn(q) + (IF x[1] = "start" THEN 1 ELSE 0)
<1> DEFINE F == Function
           H == {i \in DOMAIN q : q[i][1] = "start"}
           p == Append(q, x)
           G == {i \in DOMAIN p : p[i][1] = "start"}
           n == Len(q)
<1>1. /\ DOMAIN q = 1..n /\ n \in Nat /\ DOMAIN p = 1..(n + 1)
      /\ p[n + 1] = x /\ \A i \in 1..n : p[i] = q[i]
  <2>1. q \in Seq(F) /\ x \in F OBVIOUS
  <2> HIDE DEF F
  <2> QED BY <2>1
<1> HIDE DEF p, n
<1>2. x[1] # "start" => G = H BY <1>1
<1>3. x[1] = "start" => G = H \cup {n + 1} BY <1>1
<1>4. n + 1 \notin H BY <1>1
<1>5. IsFiniteSet(H) /\ StartsIn(q) \in Nat BY StartsType
<1>6. StartsIn(q) = Cardinality(H) /\ StartsIn(p) = Cardinality(G) BY DEF StartsIn
<1> HIDE DEF H, G
<1>7. Cardinality(H \cup {n + 1}) = Cardinality(H) + 1 BY <1>4, <1>5, FS_AddElement
<1>8. CASE x[1] = "start" BY <1>3, <1>5, <1>6, <1>7, <1>8 DEF p
<1>9. CASE x[1] # "start"
  <2>1. StartsIn(p) = StartsIn(q) BY <1>2, <1>6, <1>9
  <2> QED BY <1>5, <1>9, <2>1 DEF p
<1> QED BY <1>8, <1>9

\* The first function is taken.
LEMMA StartsTail ==
    ASSUME NEW q \in Seq(Function), q # <<>>
    PROVE  StartsIn(Tail(q)) = StartsIn(q) - (IF q[1][1] = "start" THEN 1 ELSE 0)
<1> DEFINE F == Function
           H == {i \in DOMAIN q : q[i][1] = "start"}
           p == Tail(q)
           G == {i \in DOMAIN p : p[i][1] = "start"}
           n == Len(q)
           K == H \ {1}
           m == [i \in K |-> i - 1]
<1>1. /\ DOMAIN q = 1..n /\ n \in Nat /\ n >= 1 /\ DOMAIN p = 1..(n - 1)
      /\ \A i \in 1..(n - 1) : p[i] = q[i + 1]
  <2>1. q \in Seq(F) OBVIOUS
  <2> HIDE DEF F
  <2> QED BY <2>1
<1>2. IsFiniteSet(H) /\ StartsIn(q) \in Nat BY StartsType
<1>3. StartsIn(q) = Cardinality(H) /\ StartsIn(p) = Cardinality(G) BY DEF StartsIn
<1> HIDE DEF p, n
<1>4. m \in Bijection(K, G)
  <2>1. m \in [K -> G] BY <1>1
  <2>2. \A a, b \in K : m[a] = m[b] => a = b BY <1>1
  <2>3. \A t \in G : \E s \in K : m[s] = t
    <3> TAKE t \in G
    <3>1. t \in 1..(n - 1) /\ p[t][1] = "start" BY <1>1
    <3>2. t + 1 \in K BY <1>1, <3>1
    <3>3. m[t + 1] = t BY <3>1, <3>2
    <3> QED BY <3>2, <3>3
  <2> HIDE DEF m, K, G
  <2> QED BY <2>1, <2>2, <2>3, Fun_IsBij
<1>5. ExistsBijection(K, G) BY <1>4 DEF ExistsBijection
<1>6. q[1][1] = "start" <=> 1 \in H BY <1>1
<1> HIDE DEF H, G, m
<1>7. IsFiniteSet(K) /\ Cardinality(K) = IF 1 \in H THEN Cardinality(H) - 1 ELSE Cardinality(H)
    BY <1>2, FS_RemoveElement
<1> HIDE DEF K
<1>8. Cardinality(G) = Cardinality(K) BY <1>5, <1>7, FS_Bijection
<1> QED BY <1>2, <1>3, <1>6, <1>7, <1>8 DEF p

\* A queue by its elements.
LEMMA QueueElements ==
    ASSUME NEW q \in Seq(Function)
    PROVE  /\ Len(q) \in Nat /\ DOMAIN q = 1..Len(q) /\ \A i \in DOMAIN q : q[i] \in Function
           /\ \A x \in Function :
                 /\ Append(q, x) \in Seq(Function) /\ Len(Append(q, x)) = Len(q) + 1
                 /\ DOMAIN Append(q, x) = 1..(Len(q) + 1) /\ Append(q, x)[Len(q) + 1] = x
                 /\ \A i \in 1..Len(q) : Append(q, x)[i] = q[i]
           /\ q # <<>> =>
                 /\ Tail(q) \in Seq(Function) /\ Len(q) >= 1 /\ q[1] \in Function
                 /\ DOMAIN Tail(q) = 1..(Len(q) - 1)
                 /\ \A i \in 1..(Len(q) - 1) : Tail(q)[i] = q[i + 1]
<1> DEFINE F == Function
<1>1. q \in Seq(F) OBVIOUS
<1> HIDE DEF F
<1>2. /\ Len(q) \in Nat /\ DOMAIN q = 1..Len(q) /\ \A i \in DOMAIN q : q[i] \in F BY <1>1
<1>3. \A x \in F :
         /\ Append(q, x) \in Seq(F) /\ Len(Append(q, x)) = Len(q) + 1
         /\ DOMAIN Append(q, x) = 1..(Len(q) + 1) /\ Append(q, x)[Len(q) + 1] = x
         /\ \A i \in 1..Len(q) : Append(q, x)[i] = q[i]
    BY <1>1
<1>4. q # <<>> =>
         /\ Tail(q) \in Seq(F) /\ Len(q) >= 1 /\ q[1] \in F
         /\ DOMAIN Tail(q) = 1..(Len(q) - 1)
         /\ \A i \in 1..(Len(q) - 1) : Tail(q)[i] = q[i + 1]
    BY <1>1
<1> QED BY <1>2, <1>3, <1>4 DEF F

-----------------------------------------------------------------------------
(* Ownership *)

\* IInv of a record, with the loop thread at where in handleEvent of at.
Safe(w, where, at) ==
    /\ w \in StateType /\ Kept(w) /\ ChannelIsFd(w, where)
    /\ \A f \in w.open \ w.lost : OwnedIn(w, where, at, f)

\* What Core and the descriptors say is all that matters.
LEMMA SafeCore ==
    ASSUME NEW w, NEW where, NEW at, Safe(w, where, at), NEW v \in StateType,
           Core(v) = Core(w), v.open = w.open, v.lost = w.lost
    PROVE  Safe(v, where, at)
BY DEF Safe, Kept, ChannelIsFd, OwnedIn, Core

\* A connection that changes does not go.
LEMMA SafeConn ==
    ASSUME NEW w, NEW where, NEW at, Safe(w, where, at), NEW v \in StateType,
           v.status = w.status, v.handed = w.handed, v.fd = w.fd, v.chan = w.chan,
           v.exists = w.exists, v.client = w.client, v.timers = w.timers,
           v.open = w.open, v.lost = w.lost,
           \A f \in Fds : v.conn[f] \in {"none", "gone"} => w.conn[f] \in {"none", "gone"}
    PROVE  Safe(v, where, at)
<1>1. w.open \subseteq Fds BY DEF Safe, StateType
<1> QED BY <1>1 DEF Safe, Kept, ChannelIsFd, OwnedIn

\* ~Connector closes fd_ if it has not been handed over.
LEMMA DestroyConnectorSafe ==
    ASSUME NEW w, NEW where, NEW at, Safe(w, where, at), ~w.client
    PROVE  LET v == DestroyConnector(w) IN
           Safe(v, where, at) /\ v.opened = w.opened /\ Rest(v) = Rest(w)
<1> DEFINE c == IF ~w.handed /\ w.fd # 0 THEN CloseFd(w, w.fd) ELSE w
           b == FALSE
           v == [c EXCEPT !.exists = b]
<1>1. w \in StateType /\ w.fd \in Fds \cup {0} /\ w.open \subseteq Fds BY DEF Safe, StateType
<1>2. /\ c \in StateType /\ Core(c) = Core(w) /\ Rest(c) = Rest(w)
      /\ c.opened = w.opened /\ c.lost = w.lost
      /\ c.open = IF w.handed THEN w.open ELSE w.open \ {w.fd}
  <2>1. CASE ~w.handed /\ w.fd # 0
    <3>1. /\ CloseFd(w, w.fd) \in StateType
          /\ Core(CloseFd(w, w.fd)) = Core(w) /\ Rest(CloseFd(w, w.fd)) = Rest(w)
          /\ Descriptors(CloseFd(w, w.fd)) = <<w.opened, w.open \ {w.fd}, w.lost>>
        BY <1>1, CloseFdFields
    <3> QED BY <2>1, <3>1 DEF Descriptors
  <2>2. CASE ~(~w.handed /\ w.fd # 0)
    <3>1. c = w BY <2>2
    <3>2. ~w.handed => w.open \ {w.fd} = w.open BY <1>1, <2>2 DEF Fds
    <3> QED BY <1>1, <3>1, <3>2
  <2> QED BY <2>1, <2>2
<1>3. DestroyConnector(w) = v /\ b \in BOOLEAN /\ ~b BY DEF DestroyConnector
<1> HIDE DEF c, b
<1>4. v \in StateType BY <1>2, <1>3 DEF StateType
<1>5. /\ Core(v) = <<c.status, c.handed, c.fd, c.chan, b, c.client, c.timers, c.conn>>
      /\ Descriptors(v) = Descriptors(c) /\ Rest(v) = Rest(c)
    BY <1>2 DEF StateType, Core, Descriptors, Rest
<1> HIDE DEF v
<1>6. /\ Core(v) = <<w.status, w.handed, w.fd, w.chan, b, w.client, w.timers, w.conn>>
      /\ v.open = c.open /\ v.lost = w.lost /\ v.opened = w.opened
    BY <1>2, <1>5 DEF Core, Descriptors
<1>7. Safe(v, where, at)
  <2>1. Kept(v) BY <1>3, <1>6 DEF Safe, Kept, Core
  <2>2. ChannelIsFd(v, where) BY <1>2, <1>6 DEF Safe, ChannelIsFd, Core
  <2>3. \A f \in v.open \ v.lost : OwnedIn(v, where, at, f)
      BY <1>2, <1>6 DEF Safe, OwnedIn, Core
  <2> QED BY <1>4, <2>1, <2>2, <2>3 DEF Safe
<1> QED BY <1>2, <1>3, <1>5, <1>6, <1>7

\* Connections that nothing refers to close their descriptors.
LEMMA DestroyConnsSafe ==
    ASSUME NEW w, NEW where, NEW at, Safe(w, where, at), NEW gone \in SUBSET Fds
    PROVE  LET v == DestroyConns(w, gone) IN
           Safe(v, where, at) /\ v.opened = w.opened /\ Rest(v) = Rest(w)
<1> DEFINE k == [f \in Fds |-> IF f \in gone THEN "gone" ELSE w.conn[f]]
           o == w.open \ gone
           x == w.dead \/ \E f \in gone : f \notin w.open \/ w.conn[f] # "removed"
           v == [w EXCEPT !.conn = k, !.open = o, !.dead = x]
<1>1. w \in StateType /\ w.open \subseteq Fds BY DEF Safe, StateType
<1>2. k \in [Fds -> {"none", "Connected", "Disconnecting", "Disconnected", "removed", "gone"}]
    BY <1>1 DEF StateType
<1>3. o \in SUBSET Fds BY <1>1
<1>4. x \in BOOLEAN OBVIOUS
<1>5. DestroyConns(w, gone) = v BY DEF DestroyConns
<1>6. \A f \in o \ w.lost : k[f] = w.conn[f] BY <1>1
<1>7. o \subseteq w.open OBVIOUS
<1> HIDE DEF k, o, x
<1>8. v \in StateType BY <1>1, <1>2, <1>3, <1>4 DEF StateType
<1>9. /\ Core(v) = <<w.status, w.handed, w.fd, w.chan, w.exists, w.client, w.timers, k>>
      /\ v.open = o /\ v.lost = w.lost /\ v.opened = w.opened /\ Rest(v) = Rest(w)
    BY <1>1 DEF StateType, Core, Rest
<1> HIDE DEF v
<1>10. Safe(v, where, at)
  <2>1. Kept(v) BY <1>9 DEF Safe, Kept, Core
  <2>2. ChannelIsFd(v, where) BY <1>7, <1>9 DEF Safe, ChannelIsFd, Core
  <2>3. \A f \in v.open \ v.lost : OwnedIn(v, where, at, f)
      BY <1>6, <1>7, <1>9 DEF Safe, OwnedIn, Core
  <2> QED BY <1>8, <2>1, <2>2, <2>3 DEF Safe
<1> QED BY <1>5, <1>9, <1>10

\* The destructors leave the rest to its owners.
LEMMA ReapSafe ==
    ASSUME NEW w, NEW where, NEW at, Safe(w, where, at), NEW busy
    PROVE  LET v == Reap(w, busy) IN
           Safe(v, where, at) /\ v.opened = w.opened /\ v.queue = w.queue
<1> DEFINE u == IF w.exists /\ ~ConnectorHeld(w, busy) THEN DestroyConnector(w) ELSE w
           gone == {f \in Fds : u.conn[f] \notin {"none", "gone"} /\ ~ConnHeld(u, f)}
<1>1. Safe(u, where, at) /\ u.opened = w.opened /\ Rest(u) = Rest(w)
  <2>1. CASE w.exists /\ ~ConnectorHeld(w, busy)
    <3>1. ~w.client BY <2>1 DEF ConnectorHeld
    <3> QED BY <2>1, <3>1, DestroyConnectorSafe
  <2>2. CASE ~(w.exists /\ ~ConnectorHeld(w, busy))
    <3>1. u = w BY <2>2
    <3> QED BY <3>1
  <2> QED BY <2>1, <2>2
<1>2. gone \in SUBSET Fds /\ Reap(w, busy) = DestroyConns(u, gone) BY Zenon DEF Reap
<1> HIDE DEF u, gone
<1>3. LET v == DestroyConns(u, gone) IN
      Safe(v, where, at) /\ v.opened = u.opened /\ Rest(v) = Rest(u)
    BY <1>1, <1>2, DestroyConnsSafe
<1> QED BY <1>1, <1>2, <1>3 DEF Rest

\* The outcome of connect() on the descriptor f, which is fd_ by now.
ConnectEnds(v, f, how) ==
    CASE how = "progress" -> Connecting(v, f)
      [] how = "refused" ->
            IF use = "connector" THEN Answer(Retry(v, f), f, "error")
            ELSE Answer(v, f, "silent")
      [] how = "hopeless" ->
            Answer([CloseFd(v, f) EXCEPT !.handed = TRUE], f, "error")

\* v is w with the new descriptor: what fd_ named before is lost, unless it was
\* handed over.
Opened(w, f, v) ==
    /\ v \in StateType /\ ~v.handed
    /\ Core(v) = <<w.status, v.handed, f, w.chan, w.exists, w.client, w.timers, w.conn>>
    /\ v.opened = f /\ v.open = w.open \cup {f}
    /\ v.lost = w.lost \cup ({IF w.handed THEN 0 ELSE w.fd} \cap w.open)
    /\ Rest(v) = Rest(w) /\ More(v) = More(w)

\* connect: the descriptor is opened, whatever its outcome is then.
LEMMA ConnectOpens ==
    ASSUME NEW w \in StateType, NEW f \in Fds, NEW how
    PROVE  \E v : Opened(w, f, v) /\ Connect(w, f, how) = ConnectEnds(v, f, how)
<1> DEFINE old == IF w.handed THEN 0 ELSE w.fd
           l == Lose(w, old)
           b == FALSE
           o == l.open \cup {f}
           a == [l.answer EXCEPT ![f] = "pending"]
           v == [l EXCEPT !.handed = b, !.fd = f, !.opened = f, !.open = o, !.answer = a]
<1>1. old \in Fds \cup {0} /\ f \in 0..MaxAttempts BY DEF StateType, Fds
<1>2. /\ l \in StateType /\ Core(l) = Core(w) /\ Rest(l) = Rest(w) /\ More(l) = More(w)
      /\ Descriptors(l) = <<w.opened, w.open, w.lost \cup ({old} \cap w.open)>>
  <2> HIDE DEF old
  <2> QED BY <1>1, LoseFields
<1>3. Connect(w, f, how) = ConnectEnds(v, f, how)
  <2>1. v = [Lose(w, IF w.handed THEN 0 ELSE w.fd) EXCEPT
                 !.handed = FALSE, !.fd = f, !.opened = f,
                 !.open = @ \cup {f}, !.answer[f] = "pending"]
    <3> HIDE DEF l
    <3>1. v = [l EXCEPT !.handed = FALSE, !.fd = f, !.opened = f,
                        !.open = @ \cup {f}, !.answer[f] = "pending"]
        BY <1>2 DEF StateType
    <3> QED BY <3>1 DEF l
  <2> HIDE DEF v
  <2> QED BY <2>1 DEF Connect, ConnectEnds
<1>4. b \in BOOLEAN /\ ~b OBVIOUS
<1> HIDE DEF l, b
<1>5. o \in SUBSET Fds BY <1>2 DEF StateType
<1>6. a \in [Fds -> {"none", "pending", "connected", "error", "silent", "stopped"}]
    BY <1>2 DEF StateType
<1>7. /\ o = w.open \cup {f} /\ l.lost = w.lost \cup ({old} \cap w.open)
    BY <1>2 DEF Descriptors
<1> HIDE DEF o, a
<1>8. v \in StateType BY <1>1, <1>2, <1>4, <1>5, <1>6 DEF StateType
<1>9. /\ Core(v) = <<l.status, b, f, l.chan, l.exists, l.client, l.timers, l.conn>>
      /\ Descriptors(v) = <<f, o, l.lost>> /\ Rest(v) = Rest(l) /\ More(v) = More(l)
      /\ v.handed = b
    BY <1>2 DEF StateType, Core, Rest, Descriptors, More
<1> HIDE DEF v
<1>10. /\ Core(v) = <<w.status, v.handed, f, w.chan, w.exists, w.client, w.timers, w.conn>>
       /\ v.opened = f /\ v.open = w.open \cup {f} /\ v.lost = w.lost \cup ({old} \cap w.open)
       /\ Rest(v) = Rest(w) /\ More(v) = More(w) /\ ~v.handed
  <2>1. /\ l.status = w.status /\ l.chan = w.chan /\ l.exists = w.exists
        /\ l.client = w.client /\ l.timers = w.timers /\ l.conn = w.conn
      BY <1>2 DEF Core
  <2>2. v.opened = f /\ v.open = o /\ v.lost = l.lost BY <1>9 DEF Descriptors
  <2> QED BY <1>2, <1>4, <1>7, <1>9, <2>1, <2>2
<1>11. Opened(w, f, v) BY <1>8, <1>10 DEF Opened
<1> QED BY <1>3, <1>11

\* A new attempt: the new descriptor is the connector's, or it is closed.
LEMMA ConnectSafe ==
    ASSUME NEW w, NEW where, NEW at, Safe(w, where, at), w.status = "Disconnected", w.exists,
           NEW f \in Fds, NEW how \in Outcomes, use \in {"client", "connector"}
    PROVE  LET v == Connect(w, f, how) IN
           Safe(v, where, at) /\ v.opened = f /\ v.queue = w.queue
<1> DEFINE old == IF w.handed THEN 0 ELSE w.fd
<1>1. w \in StateType BY DEF Safe
<1> HIDE DEF old
<1>2. PICK v : Opened(w, f, v) /\ Connect(w, f, how) = ConnectEnds(v, f, how)
    BY <1>1, ConnectOpens
<1>3. /\ v \in StateType /\ ~v.handed
      /\ Core(v) = <<"Disconnected", v.handed, f, w.chan, w.exists, w.client, w.timers, w.conn>>
      /\ v.opened = f /\ v.open = w.open \cup {f} /\ v.lost = w.lost \cup ({old} \cap w.open)
      /\ v.status = "Disconnected" /\ v.exists /\ v.fd = f /\ v.queue = w.queue
    BY <1>2 DEF Opened, Core, Rest, old
<1>4. Safe(v, where, at)
  <2> USE DEF old
  <2>1. Kept(v) BY <1>3 DEF Safe, Kept, Core
  <2>2. ChannelIsFd(v, where) BY <1>3 DEF ChannelIsFd, Core
  <2>3. \A g \in v.open \ v.lost : OwnedIn(v, where, at, g)
    <3> TAKE g \in v.open \ v.lost
    <3>1. CASE g = f BY <1>3, <3>1 DEF OwnedIn, Core
    <3>2. CASE g # f
      <4>1. g \in w.open \ w.lost /\ ~(~w.handed /\ w.fd = g) BY <1>3, <3>2
      <4>2. OwnedIn(w, where, at, g) BY <4>1 DEF Safe
      <4> QED BY <1>3, <4>1, <4>2 DEF OwnedIn, Core
    <3> QED BY <3>1, <3>2
  <2> QED BY <1>3, <2>1, <2>2, <2>3 DEF Safe
<1>5. CASE how = "progress"
  <2> DEFINE s == Assert(v, v.chan = 0)
             u == [s EXCEPT !.status = "Connecting", !.chan = f]
  <2>1. /\ s \in StateType /\ Core(s) = Core(v) /\ Descriptors(s) = Descriptors(v)
        /\ Rest(s) = Rest(v)
    <3> DEFINE p == v.chan = 0
    <3> HIDE DEF p
    <3>1. /\ Assert(v, p) \in StateType /\ Core(Assert(v, p)) = Core(v)
          /\ Descriptors(Assert(v, p)) = Descriptors(v) /\ Rest(Assert(v, p)) = Rest(v)
        BY <1>3, AssertFields
    <3> QED BY <3>1 DEF p
  <2>2. Connect(w, f, how) = u BY <1>2, <1>5 DEF ConnectEnds, Connecting
  <2> HIDE DEF s
  <2>3. u \in StateType BY <2>1 DEF StateType
  <2>4. /\ Core(u) = <<"Connecting", s.handed, s.fd, f, s.exists, s.client, s.timers, s.conn>>
        /\ Descriptors(u) = Descriptors(s) /\ Rest(u) = Rest(s)
      BY <2>1 DEF StateType, Core, Descriptors, Rest
  <2> HIDE DEF u
  <2>5. /\ Core(u) = <<"Connecting", v.handed, f, f, v.exists, v.client, v.timers, v.conn>>
        /\ u.open = v.open /\ u.lost = v.lost /\ u.opened = f /\ u.queue = v.queue /\ v.fd = f
      BY <1>3, <2>1, <2>4 DEF Core, Descriptors, Rest
  <2>6. Kept(u) BY <1>4, <2>5 DEF Safe, Kept, Core
  <2>7. ChannelIsFd(u, where) BY <2>5 DEF ChannelIsFd, Core
  <2>8. \A g \in u.open \ u.lost : OwnedIn(u, where, at, g)
      BY <1>4, <2>5 DEF Safe, OwnedIn, Core
  <2>9. Safe(u, where, at) BY <2>3, <2>6, <2>7, <2>8 DEF Safe
  <2> QED BY <1>3, <2>2, <2>5, <2>9
<1>6. CASE how = "refused" /\ use = "connector"
  <2> DEFINE r == Retry(v, f)
             u == Answer(r, f, "error")
  <2>1. PICK t \in {v.timers, v.timers + 1} :
           Core(r) = <<"Disconnected", v.handed, v.fd, v.chan, v.exists, v.client, t, v.conn>>
      BY <1>3, RetryFields
  <2>2. r \in StateType /\ Rest(r) = Rest(v) /\ Descriptors(r) = <<v.opened, v.open \ {f}, v.lost>>
      BY <1>3, RetryFields
  <2> HIDE DEF r
  <2>3. Safe(r, where, at)
    <3>1. r.open \subseteq v.open /\ r.lost = v.lost BY <2>2 DEF Descriptors
    <3>2. Kept(r) BY <1>4, <1>6, <2>1 DEF Safe, Kept, Core
    <3>3. ChannelIsFd(r, where) BY <2>1 DEF ChannelIsFd, Core
    <3>4. \A g \in r.open \ r.lost : OwnedIn(r, where, at, g)
        BY <1>4, <2>1, <3>1 DEF Safe, OwnedIn, Core
    <3> QED BY <2>2, <3>2, <3>3, <3>4 DEF Safe
  <2>4. /\ u \in StateType /\ Core(u) = Core(r) /\ Descriptors(u) = Descriptors(r)
        /\ Rest(u) = Rest(r)
      BY <2>2, AnswerFields
  <2>5. Connect(w, f, how) = u BY <1>2, <1>6 DEF ConnectEnds, r
  <2> HIDE DEF u
  <2>6. u.open = r.open /\ u.lost = r.lost /\ u.opened = r.opened BY <2>4 DEF Descriptors
  <2>7. Safe(u, where, at) BY <2>3, <2>4, <2>6, SafeCore
  <2>8. r.opened = f /\ u.queue = w.queue BY <1>3, <2>2, <2>4 DEF Descriptors, Rest
  <2> QED BY <2>5, <2>6, <2>7, <2>8
<1>7. CASE how = "refused" /\ use # "connector"
  <2> DEFINE u == Answer(v, f, "silent")
  <2>1. /\ u \in StateType /\ Core(u) = Core(v) /\ Descriptors(u) = Descriptors(v)
        /\ Rest(u) = Rest(v)
      BY <1>3, AnswerFields
  <2>2. Connect(w, f, how) = u BY <1>2, <1>7 DEF ConnectEnds
  <2> HIDE DEF u
  <2>3. u.open = v.open /\ u.lost = v.lost /\ u.opened = v.opened /\ u.queue = v.queue
      BY <2>1 DEF Descriptors, Rest
  <2>4. Safe(u, where, at) BY <1>4, <2>1, <2>3, SafeCore
  <2> QED BY <1>3, <2>2, <2>3, <2>4
<1>8. CASE how = "hopeless"
  <2> DEFINE c == CloseFd(v, f)
             t == TRUE
             h == [c EXCEPT !.handed = t]
             u == Answer(h, f, "error")
  <2>1. /\ c \in StateType /\ Core(c) = Core(v) /\ Rest(c) = Rest(v)
        /\ Descriptors(c) = <<v.opened, v.open \ {f}, v.lost>>
      BY <1>3, CloseFdFields
  <2>2. Connect(w, f, how) = u BY <1>2, <1>8 DEF ConnectEnds
  <2>3. t \in BOOLEAN /\ t OBVIOUS
  <2> HIDE DEF c, t
  <2>4. h \in StateType BY <2>1, <2>3 DEF StateType
  <2>5. /\ Core(h) = <<c.status, t, c.fd, c.chan, c.exists, c.client, c.timers, c.conn>>
        /\ Descriptors(h) = Descriptors(c) /\ Rest(h) = Rest(c)
      BY <2>1 DEF StateType, Core, Descriptors, Rest
  <2> HIDE DEF h
  <2>6. /\ Core(h) = <<v.status, t, v.fd, v.chan, v.exists, v.client, v.timers, v.conn>>
        /\ h.open = v.open \ {f} /\ h.lost = v.lost /\ h.opened = f /\ h.queue = w.queue
        /\ v.fd = f
      BY <1>3, <2>1, <2>5 DEF Core, Descriptors, Rest
  <2>7. Safe(h, where, at)
    <3>1. Kept(h) BY <1>4, <2>6 DEF Safe, Kept, Core
    <3>2. ChannelIsFd(h, where) BY <2>3, <2>6 DEF ChannelIsFd, Core
    <3>3. \A g \in h.open \ h.lost : OwnedIn(h, where, at, g)
        BY <1>4, <2>6 DEF Safe, OwnedIn, Core
    <3> QED BY <2>4, <3>1, <3>2, <3>3 DEF Safe
  <2>8. /\ u \in StateType /\ Core(u) = Core(h) /\ Descriptors(u) = Descriptors(h)
        /\ Rest(u) = Rest(h)
      BY <2>4, AnswerFields
  <2> HIDE DEF u
  <2>9. u.open = h.open /\ u.lost = h.lost /\ u.opened = h.opened /\ u.queue = h.queue
      BY <2>8 DEF Descriptors, Rest
  <2>10. Safe(u, where, at) BY <2>7, <2>8, <2>9, SafeCore
  <2> QED BY <2>2, <2>6, <2>9, <2>10
<1> QED BY <1>5, <1>6, <1>7, <1>8 DEF Outcomes

\* startInLoop opens at most one descriptor, the next one.
LEMMA StartInLoopSafe ==
    ASSUME NEW w, NEW where, NEW at, Safe(w, where, at), w.exists, w.opened < MaxAttempts,
           NEW how \in Outcomes, use \in {"client", "connector"}
    PROVE  LET v == StartInLoop(w, how) IN
           Safe(v, where, at) /\ v.opened \in {w.opened, w.opened + 1} /\ v.queue = w.queue
<1> DEFINE v == Assert(w, w.status = "Disconnected")
           f == w.opened + 1
<1>1. w \in StateType /\ f \in Fds BY ClientAssumption DEF Safe, StateType, Fds
<1>2. /\ v \in StateType /\ Core(v) = Core(w) /\ Descriptors(v) = Descriptors(w)
      /\ Rest(v) = Rest(w) /\ v.failed = (w.failed \/ ~(w.status = "Disconnected"))
    BY <1>1, AssertFields
<1>3. StartInLoop(w, how) = IF v.connect /\ ~v.failed THEN Connect(v, f, how) ELSE v
    BY DEF StartInLoop
<1> HIDE DEF v
<1>4. /\ v.open = w.open /\ v.lost = w.lost /\ v.opened = w.opened /\ v.queue = w.queue
      /\ v.exists = w.exists /\ v.status = w.status
    BY <1>2 DEF Core, Descriptors, Rest
<1>5. Safe(v, where, at) BY <1>2, <1>4, SafeCore
<1>6. CASE v.connect /\ ~v.failed
  <2>1. v.status = "Disconnected" /\ v.exists BY <1>2, <1>4, <1>6
  <2> HIDE DEF f
  <2>2. LET u == Connect(v, f, how) IN
        Safe(u, where, at) /\ u.opened = f /\ u.queue = v.queue
      BY <1>1, <1>5, <2>1, ConnectSafe
  <2> QED BY <1>3, <1>4, <1>6, <2>2 DEF f
<1>7. CASE ~(v.connect /\ ~v.failed) BY <1>3, <1>4, <1>5, <1>7
<1> QED BY <1>6, <1>7

\* An attempt that has failed is closed, and perhaps retried.
LEMMA GiveUpFields ==
    ASSUME NEW w \in StateType, NEW f \in Fds \cup {0}
    PROVE  /\ GiveUp(w, f) \in StateType /\ Rest(GiveUp(w, f)) = Rest(w)
           /\ Descriptors(GiveUp(w, f)) = <<w.opened, w.open \ {f}, w.lost>>
           /\ f = 0 \/ f \in w.open => More(GiveUp(w, f)) = More(w)
           /\ \E s \in {w.status, "Disconnected"}, t \in {w.timers, w.timers + 1} :
                 /\ \/ use = "connector" /\ s = "Disconnected"
                    \/ use # "connector" /\ s = w.status /\ t = w.timers
                 /\ Core(GiveUp(w, f)) =
                       <<s, w.handed, w.fd, w.chan, w.exists, w.client, t, w.conn>>
<1>1. CASE use = "connector"
  <2>1. GiveUp(w, f) = Retry(w, f) BY <1>1 DEF GiveUp
  <2>2. PICK t \in {w.timers, w.timers + 1} : Core(Retry(w, f)) =
              <<"Disconnected", w.handed, w.fd, w.chan, w.exists, w.client, t, w.conn>>
      BY RetryFields
  <2>3. /\ Retry(w, f) \in StateType /\ Rest(Retry(w, f)) = Rest(w)
        /\ f = 0 \/ f \in w.open => More(Retry(w, f)) = More(w)
        /\ Descriptors(Retry(w, f)) = <<w.opened, w.open \ {f}, w.lost>>
      BY RetryFields
  <2> QED BY <1>1, <2>1, <2>2, <2>3
<1>2. CASE use # "connector"
  <2>1. GiveUp(w, f) = CloseFd(w, f) BY <1>2 DEF GiveUp
  <2>2. /\ CloseFd(w, f) \in StateType
        /\ Core(CloseFd(w, f)) = Core(w) /\ Rest(CloseFd(w, f)) = Rest(w)
        /\ Descriptors(CloseFd(w, f)) = <<w.opened, w.open \ {f}, w.lost>>
        /\ f = 0 \/ f \in w.open => More(CloseFd(w, f)) = More(w)
      BY CloseFdFields
  <2>3. w.timers \in Nat BY DEF StateType
  <2>4. Core(w) = <<w.status, w.handed, w.fd, w.chan, w.exists, w.client, w.timers, w.conn>>
      BY DEF Core
  <2> QED BY <1>2, <2>1, <2>2, <2>3, <2>4
<1> QED BY <1>1, <1>2

\* handleError: fd_ is closed when status_ is Connecting, and lost otherwise.
LEMMA HandleErrorSafe ==
    ASSUME NEW w, NEW where \in {"close", "error"}, NEW at, Safe(w, where, at),
           NEW to \in {"error", "write"}
    PROVE  LET v == HandleError(w) IN
           /\ Safe(v, to, at) /\ v.opened = w.opened
           /\ v.queue \in {w.queue, Append(w.queue, <<"release", 0>>)}
<1> DEFINE t == TRUE
           v == [w EXCEPT !.handed = t]
<1>1. /\ w \in StateType /\ w.fd \in Fds \cup {0} /\ w.chan \in Fds \cup {0}
      /\ w.handed \in BOOLEAN
    BY DEF Safe, StateType
<1>2. t \in BOOLEAN /\ t OBVIOUS
<1> DEFINE old == IF w.handed THEN 0 ELSE w.fd
<1>3. HandleError(w) =
        IF w.status # "Connecting" THEN Lose(v, old)
        ELSE Answer(GiveUp(RemoveAndResetChannel([v EXCEPT !.status = "Disconnected"]),
                           w.chan), w.chan, "error")
    BY DEF HandleError
<1> HIDE DEF t
<1>4. v \in StateType BY <1>1, <1>2 DEF StateType
<1>5. /\ Core(v) = <<w.status, t, w.fd, w.chan, w.exists, w.client, w.timers, w.conn>>
      /\ Descriptors(v) = Descriptors(w) /\ Rest(v) = Rest(w)
    BY <1>1 DEF StateType, Core, Descriptors, Rest
<1> HIDE DEF v
<1>6. CASE w.status # "Connecting"
  <2> DEFINE l == Lose(v, old)
  <2>1. HandleError(w) = l BY <1>3, <1>6
  <2>2. /\ l \in StateType /\ Core(l) = Core(v) /\ Rest(l) = Rest(v)
        /\ Descriptors(l) = <<v.opened, v.open, v.lost \cup ({old} \cap v.open)>>
    <3>1. old \in Fds \cup {0} BY <1>1
    <3> HIDE DEF old
    <3> QED BY <1>4, <3>1, LoseFields
  <2> HIDE DEF l
  <2>3. /\ Core(l) = <<w.status, t, w.fd, w.chan, w.exists, w.client, w.timers, w.conn>>
        /\ l.opened = w.opened /\ l.open = w.open /\ l.queue = w.queue
        /\ l.lost = w.lost \cup ({old} \cap w.open)
      BY <1>5, <2>2 DEF Descriptors, Rest
  <2>4. Kept(l) BY <2>3 DEF Safe, Kept, Core
  <2>5. ChannelIsFd(l, to) BY <1>6, <2>3 DEF ChannelIsFd, Core
  <2>6. \A g \in l.open \ l.lost : OwnedIn(l, to, at, g)
    <3> TAKE g \in l.open \ l.lost
    <3>1. g \in w.open \ w.lost /\ ~(~w.handed /\ w.fd = g) BY <2>3
    <3>2. OwnedIn(w, where, at, g) BY <3>1 DEF Safe
    <3> QED BY <2>3, <3>1, <3>2 DEF OwnedIn, Core
  <2>7. Safe(l, to, at) BY <2>2, <2>4, <2>5, <2>6 DEF Safe
  <2> QED BY <2>1, <2>3, <2>7
<1>7. CASE w.status = "Connecting"
  <2> DEFINE d == [v EXCEPT !.status = "Disconnected"]
             r == RemoveAndResetChannel(d)
             g == GiveUp(r, w.chan)
             u == Answer(g, w.chan, "error")
  <2>1. HandleError(w) = u BY <1>3, <1>7
  <2>2. /\ d \in StateType /\ Descriptors(d) = Descriptors(v) /\ Rest(d) = Rest(v)
        /\ Core(d) = <<"Disconnected", v.handed, v.fd, v.chan, v.exists, v.client, v.timers, v.conn>>
      BY <1>4, StatusFields
  <2> HIDE DEF d
  <2>3. /\ r \in StateType /\ Descriptors(r) = Descriptors(d)
        /\ Core(r) = <<d.status, d.handed, d.fd, 0, d.exists, d.client, d.timers, d.conn>>
        /\ r.queue \in {d.queue, Append(d.queue, <<"release", 0>>)}
      BY <2>2, RemoveAndResetChannelFields
  <2> HIDE DEF r
  <2>4. PICK s \in {r.status, "Disconnected"}, n \in {r.timers, r.timers + 1} :
           /\ \/ use = "connector" /\ s = "Disconnected"
              \/ use # "connector" /\ s = r.status /\ n = r.timers
           /\ Core(g) = <<s, r.handed, r.fd, r.chan, r.exists, r.client, n, r.conn>>
      BY <1>1, <2>3, GiveUpFields
  <2>5. /\ g \in StateType /\ Rest(g) = Rest(r)
        /\ Descriptors(g) = <<r.opened, r.open \ {w.chan}, r.lost>>
      BY <1>1, <2>3, GiveUpFields
  <2> HIDE DEF g
  <2>6. /\ u \in StateType /\ Core(u) = Core(g) /\ Descriptors(u) = Descriptors(g)
        /\ Rest(u) = Rest(g)
      BY <1>1, <2>5, AnswerFields
  <2> HIDE DEF u
  <2>7. /\ r.status = "Disconnected" /\ r.timers = w.timers
        /\ Core(r) = <<"Disconnected", t, w.fd, 0, w.exists, w.client, w.timers, w.conn>>
      BY <1>5, <2>2, <2>3 DEF Core
  <2>8. Core(u) = <<"Disconnected", t, w.fd, 0, w.exists, w.client, n, w.conn>>
      BY <2>4, <2>6, <2>7 DEF Core
  <2>9. u.opened = w.opened /\ u.open = w.open \ {w.chan} /\ u.lost = w.lost
      BY <1>5, <2>2, <2>3, <2>5, <2>6 DEF Descriptors
  <2>10. u.queue \in {w.queue, Append(w.queue, <<"release", 0>>)}
      BY <1>5, <2>2, <2>3, <2>5, <2>6 DEF Rest
  <2>11. Kept(u) BY <2>4, <2>7, <2>8 DEF Safe, Kept, Core
  <2>12. ChannelIsFd(u, to) BY <2>8 DEF ChannelIsFd, Core
  <2>13. \A h \in u.open \ u.lost : OwnedIn(u, to, at, h)
    <3> TAKE h \in u.open \ u.lost
    <3>1. h \in w.open \ w.lost /\ h # w.chan BY <2>9
    <3>2. OwnedIn(w, where, at, h) BY <3>1 DEF Safe
    <3>3. ~(~w.handed /\ w.fd = h)
      <4> SUFFICES ASSUME ~w.handed, w.fd = h PROVE FALSE OBVIOUS
      <4>1. w.chan = w.fd BY <1>7, <3>1 DEF Safe, ChannelIsFd
      <4> QED BY <3>1, <4>1
    <3> QED BY <2>8, <3>2, <3>3 DEF OwnedIn, Core
  <2>14. Safe(u, to, at) BY <2>6, <2>11, <2>12, <2>13 DEF Safe
  <2> QED BY <2>1, <2>9, <2>10, <2>14
<1> QED BY <1>6, <1>7

\* The channel is removed while no handler of its is under way, or status_ is
\* not Connecting any more.
LEMMA RemoveSafe ==
    ASSUME NEW w, NEW where, NEW at, Safe(w, where, at),
           w.status # "Connecting" \/ where \notin {"close", "error", "write"}
    PROVE  LET v == RemoveAndResetChannel(w) IN
           /\ Safe(v, where, at) /\ v.opened = w.opened
           /\ v.queue \in {w.queue, Append(w.queue, <<"release", 0>>)}
<1> DEFINE v == RemoveAndResetChannel(w)
<1>1. /\ v \in StateType /\ Descriptors(v) = Descriptors(w)
      /\ Core(v) = <<w.status, w.handed, w.fd, 0, w.exists, w.client, w.timers, w.conn>>
      /\ v.queue \in {w.queue, Append(w.queue, <<"release", 0>>)}
    BY RemoveAndResetChannelFields DEF Safe
<1> HIDE DEF v
<1>2. v.opened = w.opened /\ v.open = w.open /\ v.lost = w.lost BY <1>1 DEF Descriptors
<1>3. Kept(v) BY <1>1 DEF Safe, Kept, Core
<1>4. ChannelIsFd(v, where) BY <1>1 DEF ChannelIsFd, Core
<1>5. \A f \in v.open \ v.lost : OwnedIn(v, where, at, f) BY <1>1, <1>2 DEF Safe, OwnedIn, Core
<1> QED BY <1>1, <1>2, <1>3, <1>4, <1>5 DEF Safe, v

\* status_ alone, not to Connecting.
LEMMA StatusSafe ==
    ASSUME NEW w, NEW where, NEW at, Safe(w, where, at), NEW s \in {"Disconnected", "Connected"}
    PROVE  LET v == [w EXCEPT !.status = s] IN
           Safe(v, where, at) /\ v.opened = w.opened /\ v.queue = w.queue
<1> DEFINE v == [w EXCEPT !.status = s]
<1>1. /\ v \in StateType /\ Descriptors(v) = Descriptors(w) /\ Rest(v) = Rest(w)
      /\ Core(v) = <<s, w.handed, w.fd, w.chan, w.exists, w.client, w.timers, w.conn>>
    BY StatusFields DEF Safe
<1> HIDE DEF v
<1>2. v.opened = w.opened /\ v.open = w.open /\ v.lost = w.lost /\ v.queue = w.queue
    BY <1>1 DEF Descriptors, Rest
<1>3. Kept(v) BY <1>1 DEF Safe, Kept, Core
<1>4. ChannelIsFd(v, where) BY <1>1 DEF ChannelIsFd, Core
<1>5. \A f \in v.open \ v.lost : OwnedIn(v, where, at, f) BY <1>1, <1>2 DEF Safe, OwnedIn, Core
<1> QED BY <1>1, <1>2, <1>3, <1>4, <1>5 DEF Safe, v

\* The program's answer changes nothing else.
LEMMA AnswerSafe ==
    ASSUME NEW w, NEW where, NEW at, Safe(w, where, at), NEW f \in Fds \cup {0},
           NEW a \in {"connected", "error", "silent", "stopped"}
    PROVE  LET v == Answer(w, f, a) IN
           Safe(v, where, at) /\ v.opened = w.opened /\ v.queue = w.queue
<1> DEFINE v == Answer(w, f, a)
<1>1. /\ v \in StateType /\ Core(v) = Core(w) /\ Descriptors(v) = Descriptors(w)
      /\ Rest(v) = Rest(w)
    BY AnswerFields DEF Safe
<1> HIDE DEF v
<1>2. v.opened = w.opened /\ v.open = w.open /\ v.lost = w.lost /\ v.queue = w.queue
    BY <1>1 DEF Descriptors, Rest
<1>3. Safe(v, where, at) BY <1>1, <1>2, SafeCore
<1> QED BY <1>2, <1>3 DEF v

\* A function is queued.
LEMMA QueueSafe ==
    ASSUME NEW w, NEW where, NEW at, Safe(w, where, at), NEW f \in Function
    PROVE  LET v == Queue(w, f) IN
           /\ Safe(v, where, at) /\ v.opened = w.opened
           /\ StartsIn(v.queue) = StartsIn(w.queue) + (IF f[1] = "start" THEN 1 ELSE 0)
<1> DEFINE v == Queue(w, f)
<1>1. /\ v \in StateType /\ Core(v) = Core(w) /\ Descriptors(v) = Descriptors(w)
      /\ v.queue = Append(w.queue, f)
    BY QueueFields DEF Safe
<1> HIDE DEF v
<1>2. v.opened = w.opened /\ v.open = w.open /\ v.lost = w.lost BY <1>1 DEF Descriptors
<1>3. Safe(v, where, at) BY <1>1, <1>2, SafeCore
<1>4. w.queue \in Seq(Function) BY DEF Safe, StateType
<1>5. StartsIn(v.queue) = StartsIn(w.queue) + (IF f[1] = "start" THEN 1 ELSE 0)
    BY <1>1, <1>4, StartsAppend
<1> QED BY <1>2, <1>3, <1>5 DEF v

\* The functions that are queued, other than starts.
LEMMA OtherFunctions ==
    /\ <<"release", 0>> \in Function /\ <<"remove", 0>> \in Function
    /\ <<"start", 0>> \in Function
    /\ \A f \in Fds : /\ <<"shutdown", f>> \in Function /\ <<"setClose", f>> \in Function
                      /\ <<"forceClose", f>> \in Function /\ <<"destroy", f>> \in Function
BY DEF Function

\* The release of a channel is no start.
LEMMA ReleaseStarts ==
    ASSUME NEW q \in Seq(Function), NEW p \in {q, Append(q, <<"release", 0>>)}
    PROVE  StartsIn(p) = StartsIn(q)
<1>1. StartsIn(q) \in Nat BY StartsType
<1> DEFINE x == <<"release", 0>>
<1>2. x \in Function /\ x[1] # "start" BY OtherFunctions
<1> HIDE DEF x
<1>3. StartsIn(Append(q, x)) = StartsIn(q) + 0 BY <1>2, StartsAppend
<1>4. CASE p = q BY <1>4
<1>5. CASE p = Append(q, x) BY <1>1, <1>3, <1>5
<1> QED BY <1>4, <1>5 DEF x

\* Connector::stop in the loop thread.
LEMMA StopHereSafe ==
    ASSUME NEW w, NEW where, NEW at, Safe(w, where, at)
    PROVE  LET v == StopHere(w) IN
           /\ Safe(v, where, at) /\ v.opened = w.opened
           /\ StartsIn(v.queue) = StartsIn(w.queue)
<1> DEFINE d == [w EXCEPT !.status = "Disconnected"]
           r == RemoveAndResetChannel(d)
           v == Answer(r, w.chan, "stopped")
<1>1. w \in StateType /\ w.chan \in Fds \cup {0} /\ w.queue \in Seq(Function)
    BY DEF Safe, StateType
<1>2. Safe(d, where, at) /\ d.opened = w.opened /\ d.queue = w.queue BY StatusSafe
<1>3. d.status # "Connecting" BY <1>1 DEF StateType
<1> HIDE DEF d
<1>4. /\ Safe(r, where, at) /\ r.opened = d.opened
      /\ r.queue \in {d.queue, Append(d.queue, <<"release", 0>>)}
    BY <1>2, <1>3, RemoveSafe
<1> HIDE DEF r
<1>5. Safe(v, where, at) /\ v.opened = r.opened /\ v.queue = r.queue BY <1>1, <1>4, AnswerSafe
<1>6. StartsIn(r.queue) = StartsIn(w.queue) BY <1>1, <1>2, <1>4, ReleaseStarts
<1>7. StopHere(w) = v BY DEF StopHere, r, d
<1> HIDE DEF v
<1> QED BY <1>2, <1>4, <1>5, <1>6, <1>7

-----------------------------------------------------------------------------
(* The connections *)

\* The state of one connection changes.
LEMMA ConnSafe ==
    ASSUME NEW w, NEW where, NEW at, Safe(w, where, at), NEW f \in Fds,
           NEW c \in {"Connected", "Disconnecting", "Disconnected", "removed"},
           NEW u, u = [w EXCEPT !.conn[f] = c]
    PROVE  /\ Safe(u, where, at) /\ u.opened = w.opened /\ Rest(u) = Rest(w)
           /\ u.client = w.client /\ u.cb = w.cb
<1> DEFINE k == [w.conn EXCEPT ![f] = c]
           v == [w EXCEPT !.conn = k]
<1>1. w \in StateType BY DEF Safe
<1>2. u = v BY <1>1 DEF StateType
<1>3. k \in [Fds -> {"none", "Connected", "Disconnecting", "Disconnected", "removed", "gone"}]
    BY <1>1 DEF StateType
<1>4. \A g \in Fds : k[g] \in {"none", "gone"} => w.conn[g] \in {"none", "gone"}
    BY <1>1 DEF StateType
<1> HIDE DEF k
<1>5. v \in StateType BY <1>1, <1>3 DEF StateType
<1>6. /\ v.status = w.status /\ v.handed = w.handed /\ v.fd = w.fd /\ v.chan = w.chan
      /\ v.exists = w.exists /\ v.client = w.client /\ v.timers = w.timers
      /\ v.open = w.open /\ v.lost = w.lost /\ v.conn = k
      /\ v.opened = w.opened /\ Rest(v) = Rest(w) /\ v.cb = w.cb
    BY <1>1 DEF StateType, Rest
<1> HIDE DEF v
<1>7. Safe(v, where, at) BY <1>4, <1>5, <1>6, SafeConn
<1> QED BY <1>2, <1>6, <1>7

\* connection_ alone.
LEMMA ConnectionSafe ==
    ASSUME NEW w, NEW where, NEW at, Safe(w, where, at), NEW f \in Fds \cup {0}
    PROVE  LET v == [w EXCEPT !.connection = f] IN
           Safe(v, where, at) /\ v.opened = w.opened /\ v.queue = w.queue
<1> DEFINE v == [w EXCEPT !.connection = f]
<1>1. w \in StateType BY DEF Safe
<1>2. v \in StateType BY <1>1 DEF StateType
<1>3. /\ Core(v) = Core(w) /\ v.open = w.open /\ v.lost = w.lost /\ v.opened = w.opened
      /\ v.queue = w.queue
    BY <1>1 DEF StateType, Core
<1> HIDE DEF v
<1>4. Safe(v, where, at) BY <1>2, <1>3, SafeCore
<1> QED BY <1>3, <1>4 DEF v

\* closeCallback_ alone.
LEMMA CallbackSafe ==
    ASSUME NEW w, NEW where, NEW at, Safe(w, where, at), NEW f \in Fds
    PROVE  LET v == [w EXCEPT !.cb[f] = "own"] IN
           Safe(v, where, at) /\ v.opened = w.opened /\ v.queue = w.queue
<1> DEFINE k == [w.cb EXCEPT ![f] = "own"]
           v == [w EXCEPT !.cb = k]
<1>1. w \in StateType BY DEF Safe
<1>2. [w EXCEPT !.cb[f] = "own"] = v BY <1>1 DEF StateType
<1>3. k \in [Fds -> {"client", "own"}] BY <1>1 DEF StateType
<1> HIDE DEF k
<1>4. v \in StateType BY <1>1, <1>3 DEF StateType
<1>5. /\ Core(v) = Core(w) /\ v.open = w.open /\ v.lost = w.lost /\ v.opened = w.opened
      /\ v.queue = w.queue
    BY <1>1 DEF StateType, Core
<1> HIDE DEF v
<1>6. Safe(v, where, at) BY <1>4, <1>5, SafeCore
<1> QED BY <1>2, <1>5, <1>6

\* handleClose of the connection, with the client or without it.
LEMMA HandleCloseSafe ==
    ASSUME NEW w, NEW where, NEW at, Safe(w, where, at), NEW f \in Fds
    PROVE  LET v == HandleClose(w, f) IN
           /\ Safe(v, where, at) /\ v.opened = w.opened
           /\ StartsIn(v.queue) = StartsIn(w.queue)
<1> DEFINE v == [w EXCEPT !.conn[f] = "Disconnected"]
           x == <<"destroy", f>>
<1>1. Safe(v, where, at) /\ v.opened = w.opened /\ Rest(v) = Rest(w)
  <2> DEFINE u == v
  <2>1. "Disconnected" \in {"Connected", "Disconnecting", "Disconnected", "removed"}
        /\ u = [w EXCEPT !.conn[f] = "Disconnected"]
      OBVIOUS
  <2> HIDE DEF u
  <2>2. Safe(u, where, at) /\ u.opened = w.opened /\ Rest(u) = Rest(w) BY <2>1, ConnSafe
  <2> QED BY <2>2 DEF u
<1>2. x \in Function /\ x[1] # "start" BY OtherFunctions
<1>3. HandleClose(w, f) \in {RemoveConnection(v, f), Queue(v, x)} BY DEF HandleClose
<1> HIDE DEF v, x
<1>4. v \in StateType /\ v.queue = w.queue /\ StartsIn(w.queue) \in Nat
  <2>1. v \in StateType /\ v.queue \in Seq(Function) /\ v.queue = w.queue
      BY <1>1 DEF Safe, StateType, Rest
  <2> QED BY <2>1, StartsType
<1>5. ASSUME NEW u, Safe(u, where, at), u.opened = w.opened, u.queue = w.queue
      PROVE  /\ Safe(Queue(u, x), where, at) /\ Queue(u, x).opened = w.opened
             /\ StartsIn(Queue(u, x).queue) = StartsIn(w.queue)
  <2>1. /\ Safe(Queue(u, x), where, at) /\ Queue(u, x).opened = u.opened
        /\ StartsIn(Queue(u, x).queue) = StartsIn(u.queue) + 0
      BY <1>2, <1>5, QueueSafe
  <2> QED BY <1>4, <1>5, <2>1
<1>6. CASE HandleClose(w, f) = Queue(v, x) BY <1>1, <1>4, <1>5, <1>6
<1>7. CASE HandleClose(w, f) = RemoveConnection(v, f)
  <2> DEFINE s == Assert(v, v.connection = f)
             u == [s EXCEPT !.connection = 0]
  <2>1. /\ s \in StateType /\ Core(s) = Core(v) /\ Descriptors(s) = Descriptors(v)
        /\ Rest(s) = Rest(v)
      BY <1>4, AssertFields
  <2>2. RemoveConnection(v, f) = Queue(u, x) BY DEF RemoveConnection, x
  <2> HIDE DEF s
  <2>3. s.open = v.open /\ s.lost = v.lost /\ s.opened = v.opened /\ s.queue = v.queue
      BY <2>1 DEF Descriptors, Rest
  <2>4. Safe(s, where, at) BY <1>1, <2>1, <2>3, SafeCore
  <2>5. Safe(u, where, at) /\ u.opened = s.opened /\ u.queue = s.queue BY <2>4, ConnectionSafe
  <2> HIDE DEF u
  <2>6. u.opened = w.opened /\ u.queue = w.queue BY <1>1, <1>4, <2>3, <2>5
  <2> QED BY <1>5, <1>7, <2>2, <2>5, <2>6
<1> QED BY <1>3, <1>6, <1>7

\* forceClose, shutdown and connectDestroyed.
LEMMA ForceCloseSafe ==
    ASSUME NEW w, NEW where, NEW at, Safe(w, where, at), NEW f \in Fds,
           NEW v \in {ForceClose(w, f), Shutdown(w, f), ConnectDestroyed(w, f)}
    PROVE  /\ Safe(v, where, at) /\ v.opened = w.opened
           /\ StartsIn(v.queue) = StartsIn(w.queue)
<1>2. CASE v = w BY <1>2
<1>3. CASE v = HandleClose(w, f) BY <1>3, HandleCloseSafe
<1>4. ASSUME NEW c \in {"Disconnecting", "removed"}, v = [w EXCEPT !.conn[f] = c]
      PROVE  /\ Safe(v, where, at) /\ v.opened = w.opened
             /\ StartsIn(v.queue) = StartsIn(w.queue)
  <2>1. c \in {"Connected", "Disconnecting", "Disconnected", "removed"} OBVIOUS
  <2>2. Safe(v, where, at) /\ v.opened = w.opened /\ Rest(v) = Rest(w)
      BY <1>4, <2>1, ConnSafe
  <2> QED BY <2>2 DEF Rest
<1>5. \/ v = w \/ v = HandleClose(w, f)
      \/ \E c \in {"Disconnecting", "removed"} : v = [w EXCEPT !.conn[f] = c]
    BY DEF ForceClose, Shutdown, ConnectDestroyed
<1> QED BY <1>2, <1>3, <1>4, <1>5

-----------------------------------------------------------------------------
(* The steps *)

OtherTypes ==
    /\ stage \in {"idle", "close", "error", "write", "tested"}
    /\ revents \in SUBSET {"hup", "err", "out"}
    /\ evfd \in Fds \cup {0} /\ user \in BOOLEAN /\ stopping \in BOOLEAN
    /\ kernel \in [Fds -> {"new", "progress", "up", "self", "failed"}]
    /\ calls \in 0..MaxCalls
    /\ excuses \subseteq Excuse

\* The parts of IInv.
LEMMA IInvParts ==
    ASSUME IInv
    PROVE  /\ Safe(st, stage, evfd) /\ OtherTypes /\ use \in Uses /\ use \in {"client", "connector"}
           /\ st \in StateType /\ st.queue \in Seq(Function) /\ Starts = StartsIn(st.queue)
           /\ Starts \in Nat /\ st.opened \in Nat /\ st.opened + Starts <= MaxAttempts
<1>1. Safe(st, stage, evfd) /\ OtherTypes /\ use \in Uses /\ st \in StateType
    BY DEF IInv, TypeOK, Safe, OtherTypes
<1>2. st.queue \in Seq(Function) /\ st.opened \in Nat BY <1>1 DEF StateType
<1>3. Starts = StartsIn(st.queue) BY DEF Starts, StartsIn
<1> QED BY <1>1, <1>2, <1>3, StartsType, ClientAssumption DEF IInv

LEMMA IInvFromParts ==
    ASSUME use \in Uses, UNCHANGED use, OtherTypes', Safe(st', stage', evfd'),
           st'.opened + StartsIn(st'.queue) <= MaxAttempts
    PROVE  IInv'
<1>1. TypeOK' BY DEF TypeOK, OtherTypes, Safe
<1>2. Kept(st)' BY DEF Safe, Kept
<1>3. ChannelIsFd(st, stage)' BY DEF Safe, ChannelIsFd
<1>4. (\A f \in st.open \ st.lost : OwnedIn(st, stage, evfd, f))' BY DEF Safe, OwnedIn
<1>5. (st.opened + Starts <= MaxAttempts)' BY DEF Starts, StartsIn
<1> QED BY <1>1, <1>2, <1>3, <1>4, <1>5 DEF IInv

\* A handler has made w of the record, and the destructors run.
LEMMA BecomesKeeps ==
    ASSUME use \in Uses, UNCHANGED use, OtherTypes', NEW w, Safe(w, stage', evfd'),
           w.opened + StartsIn(w.queue) <= MaxAttempts, NEW busy, st' = Reap(w, busy)
    PROVE  IInv'
<1>1. LET v == Reap(w, busy) IN
      Safe(v, stage', evfd') /\ v.opened = w.opened /\ v.queue = w.queue
    BY ReapSafe
<1>2. Safe(st', stage', evfd') /\ st'.opened = w.opened /\ st'.queue = w.queue BY <1>1
<1> QED BY <1>2, IInvFromParts

\* Fields that nothing of IInv depends on.
LEMMA FlagSafe ==
    ASSUME NEW w, NEW where, NEW at, Safe(w, where, at), NEW x \in BOOLEAN,
           NEW v \in {[w EXCEPT !.connect = x], [w EXCEPT !.dead = x]}
    PROVE  /\ Safe(v, where, at) /\ v.opened = w.opened /\ v.queue = w.queue
           /\ v.exists = w.exists /\ v.chan = w.chan /\ v.status = w.status
<1>1. w \in StateType BY DEF Safe
<1>2. v \in StateType BY <1>1 DEF StateType
<1>3. /\ Core(v) = Core(w) /\ v.open = w.open /\ v.lost = w.lost /\ v.opened = w.opened
      /\ v.queue = w.queue
    BY <1>1 DEF StateType, Core
<1>4. v.exists = w.exists /\ v.chan = w.chan /\ v.status = w.status BY <1>3 DEF Core
<1> HIDE DEF Core
<1> QED BY <1>2, <1>3, <1>4, SafeCore

\* Where the loop thread is matters only for its channel and for handleWrite.
LEMMA SafeIdle ==
    ASSUME NEW w, NEW where \in {"idle", "close", "error", "write"}, NEW at, Safe(w, where, at)
    PROVE  \A a : Safe(w, "idle", a)
BY DEF Safe, ChannelIsFd, OwnedIn

LEMMA CallConnectKeeps ==
    ASSUME IInv, NEW here \in BOOLEAN, NEW how \in Outcomes, CallConnect(here, how)
    PROVE  IInv'
<1> DEFINE t == TRUE
           w == [st EXCEPT !.connect = t]
           x == <<"start", 0>>
<1>1. /\ Safe(st, stage, evfd) /\ OtherTypes /\ use \in Uses /\ use \in {"client", "connector"}
      /\ st \in StateType /\ st.queue \in Seq(Function) /\ Starts = StartsIn(st.queue)
      /\ Starts \in Nat /\ st.opened \in Nat
    BY IInvParts
<1>2. /\ \/ Becomes(StartInLoop(w, how))
         \/ Becomes(Queue(w, x))
      /\ st.client /\ st.opened + Starts < MaxAttempts
      /\ UNCHANGED <<use, stage, revents, evfd, user, calls>>
    BY DEF CallConnect
<1>3. t \in BOOLEAN OBVIOUS
<1>4. OtherTypes'
  <2>1. excuses' \subseteq Excuse BY <1>1 DEF CallConnect, OtherTypes, Excuse
  <2>2. kernel' \in [Fds -> {"new", "progress", "up", "self", "failed"}]
      BY <1>1 DEF CallConnect, OtherTypes
  <2>3. stopping' = stopping BY <1>2 DEF Becomes, BecomesWhile
  <2> QED BY <1>1, <1>2, <2>1, <2>2, <2>3 DEF OtherTypes
<1> HIDE DEF t
<1>5. /\ Safe(w, stage, evfd) /\ w.opened = st.opened /\ w.queue = st.queue
      /\ w.exists = st.exists
    BY <1>1, <1>3, FlagSafe
<1> HIDE DEF w
<1>6. w.exists BY <1>1, <1>2, <1>5 DEF Safe, Kept
<1>7. CASE Becomes(StartInLoop(w, how))
  <2> DEFINE v == StartInLoop(w, how)
  <2>1. w.opened < MaxAttempts BY <1>1, <1>2, <1>5, ClientAssumption
  <2>2. /\ Safe(v, stage, evfd) /\ v.opened \in {w.opened, w.opened + 1}
        /\ v.queue = w.queue
      BY <1>1, <1>5, <1>6, <2>1, StartInLoopSafe
  <2>3. st' = Reap(v, stopping) BY <1>7 DEF Becomes, BecomesWhile
  <2> HIDE DEF v
  <2>4. v.opened + StartsIn(v.queue) <= MaxAttempts BY <1>1, <1>2, <1>5, <2>2, ClientAssumption
  <2>5. Safe(v, stage', evfd') BY <1>2, <2>2
  <2> QED BY <1>1, <1>2, <1>4, <2>3, <2>4, <2>5, BecomesKeeps
<1>8. CASE Becomes(Queue(w, x))
  <2> DEFINE v == Queue(w, x)
  <2>1. x \in Function /\ x[1] = "start" BY OtherFunctions
  <2> HIDE DEF x
  <2>2. /\ Safe(v, stage, evfd) /\ v.opened = w.opened
        /\ StartsIn(v.queue) = StartsIn(w.queue) + 1
      BY <1>5, <2>1, QueueSafe
  <2>3. st' = Reap(v, stopping) BY <1>8 DEF Becomes, BecomesWhile
  <2> HIDE DEF v
  <2>4. v.opened + StartsIn(v.queue) <= MaxAttempts BY <1>1, <1>2, <1>5, <2>2, ClientAssumption
  <2>5. Safe(v, stage', evfd') BY <1>2, <2>2
  <2> QED BY <1>1, <1>2, <1>4, <2>3, <2>4, <2>5, BecomesKeeps
<1> QED BY <1>2, <1>7, <1>8

\* A step that queues no start and opens nothing.
LEMMA CalmKeeps ==
    ASSUME IInv, UNCHANGED use, OtherTypes', NEW w, Safe(w, stage', evfd'),
           w.opened = st.opened, StartsIn(w.queue) = StartsIn(st.queue),
           NEW busy, st' = Reap(w, busy)
    PROVE  IInv'
<1>1. /\ use \in Uses /\ Starts = StartsIn(st.queue) /\ st.opened + Starts <= MaxAttempts
    BY IInvParts
<1>2. w.opened + StartsIn(w.queue) <= MaxAttempts BY <1>1
<1> QED BY <1>1, <1>2, BecomesKeeps

LEMMA CallDisconnectKeeps ==
    ASSUME IInv, NEW here \in BOOLEAN, CallDisconnect(here)
    PROVE  IInv'
<1> DEFINE c == st.connection
           w == IF here THEN Shutdown(st, c) ELSE Queue(st, <<"shutdown", c>>)
           x == <<"shutdown", c>>
<1>1. /\ Safe(st, stage, evfd) /\ OtherTypes /\ st \in StateType
      /\ Starts = StartsIn(st.queue) /\ Starts \in Nat
    BY IInvParts
<1>2. /\ Becomes(w) /\ c # 0 /\ calls < MaxCalls /\ calls' = calls + 1
      /\ UNCHANGED <<use, stage, revents, evfd, user, kernel, excuses>>
    BY DEF CallDisconnect
<1>3. c \in Fds BY <1>1, <1>2 DEF StateType
<1> HIDE DEF c
<1>4. st' = Reap(w, stopping) /\ stopping' = stopping BY <1>2 DEF Becomes, BecomesWhile
<1>5. OtherTypes' BY <1>1, <1>2, <1>4, ClientAssumption DEF OtherTypes
<1>6. /\ Safe(w, stage, evfd) /\ w.opened = st.opened
      /\ StartsIn(w.queue) = StartsIn(st.queue)
  <2>1. CASE here
    <3>1. w \in {ForceClose(st, c), Shutdown(st, c), ConnectDestroyed(st, c)} BY <2>1
    <3> HIDE DEF w
    <3> QED BY <1>1, <1>3, <3>1, ForceCloseSafe
  <2>2. CASE ~here
    <3>1. w = Queue(st, x) /\ x \in Function /\ x[1] # "start" BY <1>3, <2>2, OtherFunctions
    <3> HIDE DEF w, x
    <3>2. /\ Safe(w, stage, evfd) /\ w.opened = st.opened
          /\ StartsIn(w.queue) = StartsIn(st.queue) + 0
        BY <1>1, <3>1, QueueSafe
    <3> QED BY <1>1, <3>2
  <2> QED BY <2>1, <2>2
<1> HIDE DEF w
<1>7. Safe(w, stage', evfd') BY <1>2, <1>6
<1> QED BY <1>2, <1>4, <1>5, <1>6, <1>7, CalmKeeps

\* stop of the connector, from either thread.
LEMMA StopKeeps ==
    ASSUME IInv, NEW w, Safe(w, stage, evfd), w.opened = st.opened,
           StartsIn(w.queue) = StartsIn(st.queue),
           NEW here \in BOOLEAN, Stop(w, here), UNCHANGED <<use, stage, evfd>>,
           stopping' \in BOOLEAN => OtherTypes'
    PROVE  IInv'
<1> DEFINE d == [w EXCEPT !.status = "Disconnected"]
           v == StopHere(w)
<1>1. Safe(d, stage, evfd) /\ d.opened = w.opened /\ d.queue = w.queue BY StatusSafe
<1>2. /\ Safe(v, stage, evfd) /\ v.opened = w.opened
      /\ StartsIn(v.queue) = StartsIn(w.queue)
    BY StopHereSafe
<1>3. stopping \in BOOLEAN BY IInvParts DEF OtherTypes
<1>4. \/ stopping' = stopping /\ st' = Reap(v, stopping)
      \/ stopping' = TRUE /\ st' = Reap(d, TRUE)
    BY DEF Stop, Becomes, BecomesWhile
<1>5. OtherTypes' BY <1>3, <1>4
<1> HIDE DEF d, v
<1>6. CASE st' = Reap(v, stopping)
  <2>1. /\ Safe(v, stage', evfd') /\ v.opened = st.opened
        /\ StartsIn(v.queue) = StartsIn(st.queue)
      BY <1>2
  <2> QED BY <1>5, <1>6, <2>1, CalmKeeps
<1>7. CASE st' = Reap(d, TRUE)
  <2>1. /\ Safe(d, stage', evfd') /\ d.opened = st.opened
        /\ StartsIn(d.queue) = StartsIn(st.queue)
      BY <1>1
  <2> QED BY <1>5, <1>7, <2>1, CalmKeeps
<1> QED BY <1>4, <1>6, <1>7

LEMMA CallStopKeeps ==
    ASSUME IInv, NEW here \in BOOLEAN, CallStop(here)
    PROVE  IInv'
<1>1. Safe(st, stage, evfd) /\ OtherTypes BY IInvParts
<1>2. /\ Stop(st, here) /\ calls < MaxCalls /\ calls' = calls + 1
      /\ UNCHANGED <<use, stage, revents, evfd, user, kernel, excuses>>
    BY DEF CallStop
<1>3. stopping' \in BOOLEAN => OtherTypes' BY <1>1, <1>2, ClientAssumption DEF OtherTypes
<1> QED BY <1>1, <1>2, <1>3, StopKeeps

LEMMA StopQueuesKeeps == ASSUME IInv, StopQueues PROVE IInv'
<1> DEFINE x == <<"remove", 0>>
           w == Queue(st, x)
<1>1. /\ Safe(st, stage, evfd) /\ OtherTypes /\ Starts = StartsIn(st.queue) /\ Starts \in Nat
    BY IInvParts
<1>2. x \in Function /\ x[1] # "start" BY OtherFunctions
<1>3. /\ st' = Reap(w, FALSE) /\ stopping' = FALSE
      /\ UNCHANGED <<use, stage, revents, evfd, user, kernel, calls, excuses>>
    BY DEF StopQueues, BecomesWhile
<1>4. OtherTypes' BY <1>1, <1>3 DEF OtherTypes
<1> HIDE DEF x
<1>5. /\ Safe(w, stage, evfd) /\ w.opened = st.opened
      /\ StartsIn(w.queue) = StartsIn(st.queue) + 0
    BY <1>1, <1>2, QueueSafe
<1> HIDE DEF w
<1>6. Safe(w, stage', evfd') /\ StartsIn(w.queue) = StartsIn(st.queue) BY <1>1, <1>3, <1>5
<1> QED BY <1>3, <1>4, <1>5, <1>6, CalmKeeps

\* ~TcpClient
LEMMA DestroyKeeps ==
    ASSUME IInv, NEW here \in BOOLEAN, use = "client", Destroy(here)
    PROVE  IInv'
<1> DEFINE b == FALSE
           w == [st EXCEPT !.client = b]
           c == st.connection
           z == [w EXCEPT !.connection = 0]
           own == ForceClose([w EXCEPT !.cb[c] = "own", !.connection = 0], c)
           queued == Queue(Queue(z, <<"setClose", c>>), <<"forceClose", c>>)
<1>1. /\ Safe(st, stage, evfd) /\ OtherTypes /\ st \in StateType
      /\ Starts = StartsIn(st.queue) /\ Starts \in Nat
    BY IInvParts
<1>2. /\ \/ Stop(w, here)
         \/ c # 0 /\ Becomes(IF here THEN own ELSE queued)
      /\ excuses' \subseteq Excuse
      /\ UNCHANGED <<use, stage, revents, evfd, user, kernel, calls>>
    BY <1>1 DEF Destroy, OtherTypes, Excuse
<1>3. stopping' \in BOOLEAN => OtherTypes' BY <1>1, <1>2 DEF OtherTypes
<1>4. b \in BOOLEAN /\ ~b OBVIOUS
<1> HIDE DEF b
<1>5. Safe(w, stage, evfd) /\ w.opened = st.opened /\ w.queue = st.queue
  <2>1. w \in StateType BY <1>1, <1>4 DEF StateType
  <2>2. /\ Core(w) = <<st.status, st.handed, st.fd, st.chan, st.exists, b, st.timers, st.conn>>
        /\ w.open = st.open /\ w.lost = st.lost /\ w.opened = st.opened /\ w.queue = st.queue
      BY <1>1 DEF StateType, Core
  <2> HIDE DEF w
  <2>3. Kept(w) BY <1>1, <1>4, <2>2 DEF Safe, Kept, Core
  <2>4. ChannelIsFd(w, stage) BY <1>1, <2>2 DEF Safe, ChannelIsFd, Core
  <2>5. \A f \in w.open \ w.lost : OwnedIn(w, stage, evfd, f)
      BY <1>1, <2>2 DEF Safe, OwnedIn, Core
  <2> QED BY <2>1, <2>2, <2>3, <2>4, <2>5 DEF Safe
<1>6. CASE Stop(w, here)
  <2> HIDE DEF w
  <2> QED BY <1>2, <1>3, <1>5, <1>6, StopKeeps
<1>7. CASE c # 0 /\ Becomes(IF here THEN own ELSE queued)
  <2>1. c \in Fds BY <1>1, <1>7 DEF StateType
  <2> HIDE DEF c
  <2>2. OtherTypes'
    <3>1. stopping \in BOOLEAN BY <1>1 DEF OtherTypes
    <3> HIDE DEF own, queued
    <3>2. stopping' = stopping BY <1>7 DEF Becomes, BecomesWhile
    <3> QED BY <1>3, <3>1, <3>2
  <2>3. ASSUME NEW v, v \in {own, queued}
        PROVE  /\ Safe(v, stage, evfd) /\ v.opened = st.opened
               /\ StartsIn(v.queue) = StartsIn(st.queue)
    <3>1. CASE v = own
      <4> DEFINE k == [w EXCEPT !.cb[c] = "own"]
                 u == [k EXCEPT !.connection = 0]
      <4>1. u = [w EXCEPT !.cb[c] = "own", !.connection = 0] BY <1>5 DEF Safe, StateType
      <4>2. own = ForceClose(u, c) BY <4>1
      <4> HIDE DEF w, own
      <4>3. Safe(k, stage, evfd) /\ k.opened = w.opened /\ k.queue = w.queue
          BY <1>5, <2>1, CallbackSafe
      <4> HIDE DEF k
      <4>4. Safe(u, stage, evfd) /\ u.opened = k.opened /\ u.queue = k.queue
          BY <4>3, ConnectionSafe
      <4> HIDE DEF u
      <4>5. v \in {ForceClose(u, c), Shutdown(u, c), ConnectDestroyed(u, c)} BY <3>1, <4>2
      <4>6. /\ Safe(v, stage, evfd) /\ v.opened = u.opened
            /\ StartsIn(v.queue) = StartsIn(u.queue)
          BY <2>1, <4>4, <4>5, ForceCloseSafe
      <4> QED BY <1>5, <4>3, <4>4, <4>6
    <3>2. CASE v = queued
      <4> DEFINE x == <<"setClose", c>>
                 y == <<"forceClose", c>>
                 q == Queue(z, x)
      <4>1. x \in Function /\ x[1] # "start" /\ y \in Function /\ y[1] # "start"
          BY <2>1, OtherFunctions
      <4>2. v = Queue(q, y) BY <3>2
      <4> HIDE DEF w, own, queued, x, y
      <4>3. Safe(z, stage, evfd) /\ z.opened = w.opened /\ z.queue = w.queue
          BY <1>5, ConnectionSafe
      <4> HIDE DEF z
      <4>4. /\ Safe(q, stage, evfd) /\ q.opened = z.opened
            /\ StartsIn(q.queue) = StartsIn(z.queue) + 0
          BY <4>1, <4>3, QueueSafe
      <4> HIDE DEF q
      <4>5. /\ Safe(v, stage, evfd) /\ v.opened = q.opened
            /\ StartsIn(v.queue) = StartsIn(q.queue) + 0
          BY <4>1, <4>2, <4>4, QueueSafe
      <4> QED BY <1>1, <1>5, <4>3, <4>4, <4>5
    <3> QED BY <2>3, <3>1, <3>2
  <2> DEFINE v == IF here THEN own ELSE queued
  <2>4. v \in {own, queued} /\ st' = Reap(v, stopping)
    <3> HIDE DEF own, queued
    <3> QED BY <1>7 DEF Becomes, BecomesWhile
  <2> HIDE DEF v, own, queued
  <2>5. Safe(v, stage', evfd') /\ v.opened = st.opened /\ StartsIn(v.queue) = StartsIn(st.queue)
      BY <1>2, <2>3, <2>4
  <2> QED BY <1>2, <2>2, <2>4, <2>5, CalmKeeps
<1> QED BY <1>2, <1>6, <1>7

\* The loop takes a function from its queue.
LEMMA TailSafe ==
    ASSUME NEW w, NEW where, NEW at, Safe(w, where, at), w.queue # <<>>
    PROVE  LET v == [w EXCEPT !.queue = Tail(@)] IN
           /\ Safe(v, where, at) /\ v.opened = w.opened /\ v.exists = w.exists /\ v.chan = w.chan
           /\ v.queue = Tail(w.queue)
<1> DEFINE F == Function
           q == Tail(w.queue)
           v == [w EXCEPT !.queue = q]
<1>1. w \in StateType /\ w.queue \in Seq(F) BY DEF Safe, StateType
<1>2. q \in Seq(F)
  <2> HIDE DEF F
  <2> QED BY <1>1
<1> HIDE DEF q
<1>3. v \in StateType BY <1>1, <1>2 DEF StateType
<1>4. /\ Core(v) = Core(w) /\ v.open = w.open /\ v.lost = w.lost /\ v.opened = w.opened
      /\ v.exists = w.exists /\ v.chan = w.chan /\ v.queue = q
    BY <1>1 DEF StateType, Core
<1> HIDE DEF v
<1>5. Safe(v, where, at) BY <1>3, <1>4, SafeCore
<1> QED BY <1>4, <1>5 DEF v, q

LEMMA RunStartKeeps ==
    ASSUME IInv, NEW how \in Outcomes, RunStart(how)
    PROVE  IInv'
<1> DEFINE x == st.dead \/ ~st.exists
           q == [st EXCEPT !.queue = Tail(@)]
           w == [q EXCEPT !.dead = x]
           v == IF st.exists THEN StartInLoop(w, how) ELSE w
<1>1. /\ Safe(st, stage, evfd) /\ OtherTypes /\ use \in Uses /\ use \in {"client", "connector"}
      /\ st \in StateType /\ st.queue \in Seq(Function) /\ Starts = StartsIn(st.queue)
      /\ Starts \in Nat /\ st.opened \in Nat /\ st.opened + Starts <= MaxAttempts
    BY IInvParts
<1>2. /\ st.queue # <<>> /\ st.queue[1][1] = "start"
      /\ UNCHANGED <<use, stage, revents, evfd, user, calls, excuses>>
      /\ kernel' \in [Fds -> {"new", "progress", "up", "self", "failed"}]
    BY <1>1 DEF RunStart, OtherTypes
<1>3. st' = Reap(v, stopping) /\ stopping' = stopping
  <2>1. w = [st EXCEPT !.queue = Tail(@), !.dead = @ \/ ~st.exists] BY <1>1 DEF StateType
  <2> HIDE DEF w
  <2> QED BY <2>1 DEF RunStart, Becomes, BecomesWhile
<1>4. OtherTypes' BY <1>1, <1>2, <1>3 DEF OtherTypes
<1>5. StartsIn(Tail(st.queue)) = StartsIn(st.queue) - 1 /\ StartsIn(Tail(st.queue)) \in Nat
  <2>1. StartsIn(Tail(st.queue)) = StartsIn(st.queue) - 1 BY <1>1, <1>2, StartsTail
  <2>2. Tail(st.queue) \in Seq(Function)
    <3> DEFINE F == Function
    <3>1. st.queue \in Seq(F) BY <1>1
    <3> HIDE DEF F
    <3>2. Tail(st.queue) \in Seq(F) BY <1>2, <3>1
    <3> QED BY <3>2 DEF F
  <2> QED BY <2>1, <2>2, StartsType
<1>6. /\ Safe(q, stage, evfd) /\ q.opened = st.opened /\ q.exists = st.exists
      /\ q.queue = Tail(st.queue)
    BY <1>1, <1>2, TailSafe
<1>7. x \in BOOLEAN OBVIOUS
<1> HIDE DEF q, x
<1>8. /\ Safe(w, stage, evfd) /\ w.opened = st.opened /\ w.queue = Tail(st.queue)
      /\ w.exists = st.exists
    BY <1>6, <1>7, FlagSafe
<1> HIDE DEF w
<1>9. /\ Safe(v, stage, evfd) /\ v.opened + StartsIn(v.queue) <= MaxAttempts
  <2>1. CASE ~st.exists
    <3>1. v = w BY <2>1
    <3> HIDE DEF v
    <3> QED BY <1>1, <1>5, <1>8, <3>1, ClientAssumption
  <2>2. CASE st.exists
    <3>1. v = StartInLoop(w, how) BY <2>2
    <3>2. w.opened < MaxAttempts BY <1>1, <1>5, <1>8, ClientAssumption
    <3> HIDE DEF v
    <3>3. /\ Safe(v, stage, evfd) /\ v.opened \in {w.opened, w.opened + 1}
          /\ v.queue = w.queue
        BY <1>1, <1>8, <2>2, <3>1, <3>2, StartInLoopSafe
    <3> QED BY <1>1, <1>5, <1>8, <3>3, ClientAssumption
  <2> QED BY <2>1, <2>2
<1> HIDE DEF v
<1>10. Safe(v, stage', evfd') BY <1>2, <1>9
<1> QED BY <1>1, <1>2, <1>3, <1>4, <1>9, <1>10, BecomesKeeps

LEMMA RunTimerKeeps ==
    ASSUME IInv, NEW how \in Outcomes, RunTimer(how)
    PROVE  IInv'
<1> DEFINE t == st.timers - 1
           w == [st EXCEPT !.timers = t]
           v == StartInLoop(w, how)
<1>1. /\ Safe(st, stage, evfd) /\ OtherTypes /\ use \in Uses /\ use \in {"client", "connector"}
      /\ st \in StateType /\ Starts = StartsIn(st.queue)
      /\ Starts \in Nat /\ st.opened \in Nat
    BY IInvParts
<1>2. /\ st.timers > 0 /\ st.opened + Starts < MaxAttempts
      /\ UNCHANGED <<use, stage, revents, evfd, user, calls, excuses>>
      /\ kernel' \in [Fds -> {"new", "progress", "up", "self", "failed"}]
    BY <1>1 DEF RunTimer, OtherTypes
<1>3. st' = Reap(v, stopping) /\ stopping' = stopping
    BY DEF RunTimer, Becomes, BecomesWhile
<1>4. OtherTypes' BY <1>1, <1>2, <1>3 DEF OtherTypes
<1>5. t \in Nat BY <1>1, <1>2 DEF StateType
<1>6. use = "connector" /\ st.exists BY <1>1, <1>2 DEF Safe, Kept
<1> HIDE DEF t
<1>7. w \in StateType BY <1>1, <1>5 DEF StateType
<1>8. /\ Core(w) = <<st.status, st.handed, st.fd, st.chan, st.exists, st.client, t, st.conn>>
      /\ w.open = st.open /\ w.lost = st.lost /\ w.opened = st.opened /\ w.queue = st.queue
    BY <1>1 DEF StateType, Core
<1> HIDE DEF w
<1>9. Safe(w, stage, evfd)
  <2>1. Kept(w) BY <1>1, <1>6, <1>8 DEF Safe, Kept, Core
  <2>2. ChannelIsFd(w, stage) BY <1>1, <1>8 DEF Safe, ChannelIsFd, Core
  <2>3. \A f \in w.open \ w.lost : OwnedIn(w, stage, evfd, f)
      BY <1>1, <1>8 DEF Safe, OwnedIn, Core
  <2> QED BY <1>7, <2>1, <2>2, <2>3 DEF Safe
<1>10. w.exists /\ w.opened < MaxAttempts
    BY <1>1, <1>2, <1>6, <1>8, ClientAssumption DEF Core
<1>11. /\ Safe(v, stage, evfd) /\ v.opened \in {w.opened, w.opened + 1}
       /\ v.queue = w.queue
    BY <1>1, <1>9, <1>10, StartInLoopSafe
<1> HIDE DEF v
<1>12. v.opened + StartsIn(v.queue) <= MaxAttempts BY <1>1, <1>2, <1>8, <1>11, ClientAssumption
<1>13. Safe(v, stage', evfd') BY <1>2, <1>11
<1> QED BY <1>1, <1>2, <1>3, <1>4, <1>12, <1>13, BecomesKeeps

LEMMA RunFuncKeeps == ASSUME IInv, RunFunc PROVE IInv'
<1> DEFINE op == st.queue[1][1]
           c == st.queue[1][2]
           w == [st EXCEPT !.queue = Tail(@)]
           v == CASE op = "remove" -> Answer(RemoveAndResetChannel(w), w.chan, "stopped")
                  [] op = "release" -> w
                  [] op = "shutdown" -> Shutdown(w, c)
                  [] op = "setClose" -> [w EXCEPT !.cb[c] = "own"]
                  [] op = "forceClose" -> ForceClose(w, c)
                  [] op = "destroy" -> ConnectDestroyed(w, c)
<1>1. /\ Safe(st, stage, evfd) /\ OtherTypes /\ st \in StateType /\ st.queue \in Seq(Function)
      /\ Starts = StartsIn(st.queue) /\ Starts \in Nat
    BY IInvParts
<1>2. /\ stage = "idle" /\ st.queue # <<>> /\ op # "start"
      /\ st' = Reap(v, stopping) /\ stopping' = stopping
      /\ UNCHANGED <<use, stage, revents, evfd, user, kernel, calls, excuses>>
    BY DEF RunFunc, Becomes, BecomesWhile, LoopIs
<1>3. OtherTypes' BY <1>1, <1>2 DEF OtherTypes
<1>4. \/ op \in {"remove", "release"}
      \/ op \in {"shutdown", "setClose", "forceClose", "destroy"} /\ c \in Fds
  <2>1. st.queue[1] \in Function
    <3> DEFINE F == Function
    <3>1. st.queue \in Seq(F) BY <1>1
    <3> HIDE DEF F
    <3>2. st.queue[1] \in F BY <1>2, <3>1
    <3> QED BY <3>2 DEF F
  <2> QED BY <1>2, <2>1 DEF Function
<1>5. StartsIn(Tail(st.queue)) = StartsIn(st.queue)
  <2>1. StartsIn(Tail(st.queue)) = StartsIn(st.queue) - 0 BY <1>1, <1>2, StartsTail
  <2> QED BY <1>1, <2>1
<1>6. /\ Safe(w, stage, evfd) /\ w.opened = st.opened /\ w.chan = st.chan
      /\ w.queue = Tail(st.queue)
    BY <1>1, <1>2, TailSafe
<1> HIDE DEF op, c, w
<1>7. w.chan \in Fds \cup {0} /\ w.queue \in Seq(Function) BY <1>6 DEF Safe, StateType
<1>8. /\ Safe(v, stage, evfd) /\ v.opened = w.opened
      /\ StartsIn(v.queue) = StartsIn(w.queue)
  <2>1. CASE op = "remove"
    <3> DEFINE r == RemoveAndResetChannel(w)
               u == Answer(r, w.chan, "stopped")
    <3>1. v = u BY <2>1
    <3>2. /\ Safe(r, stage, evfd) /\ r.opened = w.opened
          /\ r.queue \in {w.queue, Append(w.queue, <<"release", 0>>)}
        BY <1>2, <1>6, RemoveSafe
    <3> HIDE DEF r
    <3>3. Safe(u, stage, evfd) /\ u.opened = r.opened /\ u.queue = r.queue
        BY <1>7, <3>2, AnswerSafe
    <3>4. StartsIn(r.queue) = StartsIn(w.queue) BY <1>7, <3>2, ReleaseStarts
    <3> HIDE DEF u, v
    <3> QED BY <3>1, <3>2, <3>3, <3>4
  <2>2. CASE op = "release"
    <3>1. v = w BY <2>2
    <3> HIDE DEF v
    <3> QED BY <1>6, <3>1
  <2>3. CASE op \in {"shutdown", "forceClose", "destroy"} /\ c \in Fds
    <3>1. v \in {ForceClose(w, c), Shutdown(w, c), ConnectDestroyed(w, c)} BY <2>3
    <3> HIDE DEF v
    <3> QED BY <1>6, <2>3, <3>1, ForceCloseSafe
  <2>4. CASE op = "setClose" /\ c \in Fds
    <3> DEFINE u == [w EXCEPT !.cb[c] = "own"]
    <3>1. v = u BY <2>4
    <3>2. Safe(u, stage, evfd) /\ u.opened = w.opened /\ u.queue = w.queue
        BY <1>6, <2>4, CallbackSafe
    <3> HIDE DEF v, u
    <3> QED BY <3>1, <3>2
  <2> QED BY <1>4, <2>1, <2>2, <2>3, <2>4
<1> HIDE DEF v
<1>9. /\ Safe(v, stage', evfd') /\ v.opened = st.opened
      /\ StartsIn(v.queue) = StartsIn(st.queue)
    BY <1>2, <1>5, <1>6, <1>8
<1> QED BY <1>2, <1>3, <1>9, CalmKeeps

LEMMA ConnectionEndsKeeps == ASSUME IInv, NEW c \in Fds, ConnectionEnds(c) PROVE IInv'
<1> DEFINE v == HandleClose(st, c)
<1>1. Safe(st, stage, evfd) /\ OtherTypes BY IInvParts
<1>2. /\ st' = Reap(v, stopping) /\ stopping' = stopping
      /\ UNCHANGED <<use, stage, revents, evfd, user, kernel, calls, excuses>>
    BY DEF ConnectionEnds, Becomes, BecomesWhile
<1>3. OtherTypes' BY <1>1, <1>2 DEF OtherTypes
<1>4. /\ Safe(v, stage, evfd) /\ v.opened = st.opened
      /\ StartsIn(v.queue) = StartsIn(st.queue)
    BY <1>1, HandleCloseSafe
<1> HIDE DEF v
<1>5. Safe(v, stage', evfd') BY <1>2, <1>4
<1> QED BY <1>2, <1>3, <1>4, <1>5, CalmKeeps

\* Steps that do not touch the record.
LEMMA QuietKeeps ==
    ASSUME IInv, UNCHANGED <<use, st>>, OtherTypes',
           \/ UNCHANGED <<stage, evfd>>
           \/ stage = "idle" /\ stage' = "close" /\ st.chan # 0
    PROVE  IInv'
<1>1. /\ Safe(st, stage, evfd) /\ use \in Uses /\ Starts = StartsIn(st.queue)
      /\ st.opened + Starts <= MaxAttempts
    BY IInvParts
<1>2. Safe(st, stage', evfd') BY <1>1 DEF Safe, ChannelIsFd, OwnedIn
<1>3. Safe(st', stage', evfd') /\ st'.opened + StartsIn(st'.queue) <= MaxAttempts BY <1>1, <1>2
<1> QED BY <1>1, <1>3, IInvFromParts

LEMMA PollKeeps == ASSUME IInv, Poll PROVE IInv'
<1>1. OtherTypes /\ st \in StateType BY IInvParts
<1>2. /\ UNCHANGED <<use, st, user, stopping, kernel, calls, excuses>>
      /\ stage = "idle" /\ stage' = "close" /\ st.chan # 0 /\ evfd' = st.chan
      /\ revents' \in SUBSET {"hup", "err", "out"}
    BY DEF Poll, LoopIs
<1>3. OtherTypes' BY <1>1, <1>2 DEF OtherTypes, StateType
<1> QED BY <1>2, <1>3, QuietKeeps

LEMMA NetworkKeeps ==
    ASSUME IInv, NEW f \in Fds, NEW what \in {"up", "self", "failed"}, Network(f, what)
    PROVE  IInv'
<1>1. OtherTypes BY IInvParts
<1>2. /\ UNCHANGED <<use, st, stage, revents, evfd, user, stopping, calls, excuses>>
      /\ kernel' = [kernel EXCEPT ![f] = what]
    BY DEF Network
<1>3. OtherTypes' BY <1>1, <1>2 DEF OtherTypes
<1> QED BY <1>2, <1>3, QuietKeeps

\* A stage of handleEvent in which the callback is handleError.
LEMMA EventErrorKeeps ==
    ASSUME IInv, NEW from \in {"close", "error"}, NEW bit, NEW to \in {"error", "write"},
           EventError(from, bit, to)
    PROVE  IInv'
<1> DEFINE x == st.dead \/ ~ChannelHeld(st)
           w == [st EXCEPT !.dead = x]
           v == IF bit \in revents THEN HandleError(w) ELSE w
<1>1. Safe(st, stage, evfd) /\ OtherTypes /\ st.queue \in Seq(Function) BY IInvParts
<1>2. /\ stage = from /\ stage' = to /\ st' = Reap(v, stopping) /\ stopping' = stopping
      /\ UNCHANGED <<use, revents, evfd, kernel, calls, excuses>>
    BY DEF EventError, LoopIs, Becomes, BecomesWhile
<1>3. user' \in BOOLEAN BY DEF EventError
<1>4. OtherTypes' BY <1>1, <1>2, <1>3 DEF OtherTypes
<1>5. x \in BOOLEAN OBVIOUS
<1> HIDE DEF x
<1>6. Safe(w, from, evfd) /\ w.opened = st.opened /\ w.queue = st.queue BY <1>1, <1>2, <1>5, FlagSafe
<1> HIDE DEF w
<1>7. /\ Safe(v, to, evfd) /\ v.opened = w.opened
      /\ v.queue \in {w.queue, Append(w.queue, <<"release", 0>>)}
  <2>1. CASE bit \in revents
    <3>1. v = HandleError(w) BY <2>1
    <3>2. LET u == HandleError(w) IN
          /\ Safe(u, to, evfd) /\ u.opened = w.opened
          /\ u.queue \in {w.queue, Append(w.queue, <<"release", 0>>)}
        BY <1>6, HandleErrorSafe
    <3> HIDE DEF v
    <3> QED BY <3>1, <3>2
  <2>2. CASE bit \notin revents
    <3>1. v = w BY <2>2
    <3>2. Safe(w, to, evfd) BY <1>6 DEF Safe, ChannelIsFd, OwnedIn
    <3> HIDE DEF v
    <3> QED BY <3>1, <3>2
  <2> QED BY <2>1, <2>2
<1> HIDE DEF v
<1>8. StartsIn(v.queue) = StartsIn(st.queue) BY <1>1, <1>6, <1>7, ReleaseStarts
<1>9. Safe(v, stage', evfd') /\ v.opened = st.opened BY <1>2, <1>6, <1>7
<1> QED BY <1>2, <1>4, <1>8, <1>9, CalmKeeps

LEMMA EventCloseKeeps == ASSUME IInv, EventClose PROVE IInv'
<1>1. CASE EventError("close", "hup", "error") BY <1>1, EventErrorKeeps
<1>2. CASE ~EventError("close", "hup", "error")
  <2> DEFINE x == st.dead \/ ~ChannelHeld(st)
             w == [st EXCEPT !.dead = x]
  <2>1. /\ Safe(st, stage, evfd) /\ OtherTypes /\ use \in Uses /\ Starts = StartsIn(st.queue)
        /\ st.opened + Starts <= MaxAttempts
      BY IInvParts
  <2>2. /\ stage = "close" /\ st' = w /\ stage' = "idle" /\ revents' = {} /\ evfd' = 0
        /\ UNCHANGED <<use, user, stopping, kernel, calls, excuses>>
      BY <1>2 DEF EventClose, LoopIs
  <2>3. OtherTypes' BY <2>1, <2>2 DEF OtherTypes
  <2>4. x \in BOOLEAN OBVIOUS
  <2> HIDE DEF x
  <2>5. Safe(w, "close", evfd) /\ w.opened = st.opened /\ w.queue = st.queue
      BY <2>1, <2>2, <2>4, FlagSafe
  <2> HIDE DEF w
  <2>6. Safe(w, "idle", 0) BY <2>5, SafeIdle
  <2>7. Safe(st', stage', evfd') /\ st'.opened + StartsIn(st'.queue) <= MaxAttempts
      BY <2>1, <2>2, <2>5, <2>6
  <2> QED BY <2>1, <2>2, <2>3, <2>7, IInvFromParts
<1> QED BY <1>1, <1>2

\* handleWrite up to the test: fd_ becomes the handler's, or it is lost.
LEMMA EventWriteKeeps == ASSUME IInv, EventWrite PROVE IInv'
<1> DEFINE x == st.dead \/ ~ChannelHeld(st)
           t == TRUE
           w == [st EXCEPT !.dead = x, !.handed = t]
           old == IF st.handed THEN 0 ELSE st.fd
           r == RemoveAndResetChannel(w)
           l == Lose(w, old)
           a == Assert(l, st.status = "Disconnected")
<1>1. /\ Safe(st, stage, evfd) /\ OtherTypes /\ use \in Uses /\ st \in StateType
      /\ st.queue \in Seq(Function)
    BY IInvParts
<1>2. /\ stage = "write" /\ user' = FALSE /\ revents' = {} /\ stopping' = stopping
      /\ UNCHANGED <<use, kernel, calls, excuses>>
      /\ \/ /\ st.status = "Connecting" /\ stage' = "tested" /\ evfd' = st.chan
            /\ st' = Reap(r, stopping)
         \/ /\ st.status # "Connecting" /\ stage' = "idle" /\ evfd' = 0
            /\ st' = Reap(a, stopping)
    BY DEF EventWrite, LoopIs, Becomes, BecomesWhile
<1>3. st.chan \in Fds \cup {0} /\ old \in Fds \cup {0} BY <1>1 DEF StateType
<1>4. OtherTypes' BY <1>1, <1>2, <1>3 DEF OtherTypes
<1>5. x \in BOOLEAN /\ t \in BOOLEAN /\ t OBVIOUS
<1> HIDE DEF x, t
<1>6. w \in StateType BY <1>1, <1>5 DEF StateType
<1>7. /\ Core(w) = <<st.status, t, st.fd, st.chan, st.exists, st.client, st.timers, st.conn>>
      /\ w.open = st.open /\ w.lost = st.lost /\ w.opened = st.opened /\ w.queue = st.queue
    BY <1>1 DEF StateType, Core
<1> HIDE DEF w
<1>8. CASE /\ st.status = "Connecting" /\ stage' = "tested" /\ evfd' = st.chan
           /\ st' = Reap(r, stopping)
  <2>1. Safe(w, "tested", st.chan)
    <3>1. Kept(w) BY <1>1, <1>7 DEF Safe, Kept, Core
    <3>2. ChannelIsFd(w, "tested") BY <1>5, <1>7 DEF ChannelIsFd, Core
    <3>3. \A f \in w.open \ w.lost : OwnedIn(w, "tested", st.chan, f)
      <4> TAKE f \in w.open \ w.lost
      <4>1. f \in st.open \ st.lost BY <1>7
      <4>2. OwnedIn(st, stage, evfd, f) BY <1>1, <4>1 DEF Safe
      <4>3. ~st.handed /\ st.fd = f => st.chan = f
          BY <1>1, <1>2, <1>8, <4>1 DEF Safe, ChannelIsFd
      <4> QED BY <1>2, <1>7, <4>2, <4>3 DEF OwnedIn, Core
    <3> QED BY <1>6, <3>1, <3>2, <3>3 DEF Safe
  <2>2. /\ Safe(r, "tested", st.chan) /\ r.opened = w.opened
        /\ r.queue \in {w.queue, Append(w.queue, <<"release", 0>>)}
      BY <2>1, RemoveSafe
  <2> HIDE DEF r
  <2>3. StartsIn(r.queue) = StartsIn(st.queue) BY <1>1, <1>7, <2>2, ReleaseStarts
  <2>4. Safe(r, stage', evfd') /\ r.opened = st.opened BY <1>7, <1>8, <2>2
  <2> QED BY <1>2, <1>4, <1>8, <2>3, <2>4, CalmKeeps
<1>9. CASE /\ st.status # "Connecting" /\ stage' = "idle" /\ evfd' = 0
           /\ st' = Reap(a, stopping)
  <2>1. /\ l \in StateType /\ Core(l) = Core(w) /\ Rest(l) = Rest(w)
        /\ Descriptors(l) = <<w.opened, w.open, w.lost \cup ({old} \cap w.open)>>
    <3> HIDE DEF old
    <3> QED BY <1>3, <1>6, LoseFields
  <2> HIDE DEF l
  <2>2. /\ Core(l) = <<st.status, t, st.fd, st.chan, st.exists, st.client, st.timers, st.conn>>
        /\ l.open = st.open /\ l.lost = st.lost \cup ({old} \cap st.open)
        /\ l.opened = st.opened /\ l.queue = st.queue
      BY <1>7, <2>1 DEF Descriptors, Rest
  <2>3. Safe(l, "idle", 0)
    <3>1. Kept(l) BY <1>1, <2>2 DEF Safe, Kept, Core
    <3>2. ChannelIsFd(l, "idle") BY <1>9, <2>2 DEF ChannelIsFd, Core
    <3>3. \A f \in l.open \ l.lost : OwnedIn(l, "idle", 0, f)
      <4> TAKE f \in l.open \ l.lost
      <4>1. f \in st.open \ st.lost /\ ~(~st.handed /\ st.fd = f) BY <2>2
      <4>2. OwnedIn(st, stage, evfd, f) BY <1>1, <4>1 DEF Safe
      <4> QED BY <1>2, <2>2, <4>1, <4>2 DEF OwnedIn, Core
    <3> QED BY <2>1, <3>1, <3>2, <3>3 DEF Safe
  <2>4. /\ a \in StateType /\ Core(a) = Core(l) /\ Descriptors(a) = Descriptors(l)
        /\ Rest(a) = Rest(l)
      BY <2>1, AssertFields
  <2> HIDE DEF a
  <2>5. a.open = l.open /\ a.lost = l.lost /\ a.opened = l.opened /\ a.queue = l.queue
      BY <2>4 DEF Descriptors, Rest
  <2>6. Safe(a, "idle", 0) BY <2>3, <2>4, <2>5, SafeCore
  <2>7. /\ Safe(a, stage', evfd') /\ a.opened = st.opened
        /\ StartsIn(a.queue) = StartsIn(st.queue)
      BY <1>9, <2>2, <2>5, <2>6
  <2> QED BY <1>2, <1>4, <1>9, <2>7, CalmKeeps
<1> QED BY <1>2, <1>8, <1>9

\* The rest of handleWrite: its descriptor is closed or gets a connection, or the
\* program takes it, or it is lost because the client is gone.
LEMMA HandleWriteRestKeeps == ASSUME IInv, HandleWriteRest PROVE IInv'
<1> DEFINE g == GiveUp(st, evfd)
           d == [st EXCEPT !.status = "Connected"]
           n == NewConnection(d, evfd)
<1>1. /\ Safe(st, stage, evfd) /\ OtherTypes /\ use \in {"client", "connector"}
      /\ st \in StateType /\ evfd \in Fds \cup {0}
    BY IInvParts DEF OtherTypes
<1>2. /\ stage = "tested" /\ stage' = "idle" /\ evfd' = 0 /\ stopping' = stopping
      /\ UNCHANGED <<use, revents, user, kernel, calls, excuses>>
      /\ \/ st' = Reap(Answer(g, evfd, "error"), stopping)
         \/ evfd # 0 /\ st' = Reap(Answer(n, evfd, "connected"), stopping)
    BY DEF HandleWriteRest, LoopIs, Becomes, BecomesWhile
<1>3. OtherTypes' BY <1>1, <1>2 DEF OtherTypes
<1>4. ASSUME NEW v, Safe(v, "idle", 0), v.opened = st.opened, v.queue = st.queue,
             NEW e \in {"error", "connected"}, st' = Reap(Answer(v, evfd, e), stopping)
      PROVE  IInv'
  <2> DEFINE u == Answer(v, evfd, e)
  <2>1. Safe(u, "idle", 0) /\ u.opened = v.opened /\ u.queue = v.queue
    <3> DEFINE where == "idle"
               at == 0
               to == Fds \cup {0}
               all == {"connected", "error", "silent", "stopped"}
    <3>1. e \in all /\ evfd \in to /\ Safe(v, where, at) BY <1>1, <1>4
    <3> HIDE DEF where, at, to, all
    <3>2. LET x == Answer(v, evfd, e) IN
          Safe(x, where, at) /\ x.opened = v.opened /\ x.queue = v.queue
        BY <3>1, AnswerSafe DEF to, all
    <3> QED BY <3>2 DEF where, at
  <2>2. st' = Reap(u, stopping) BY <1>4
  <2> HIDE DEF u
  <2>3. /\ Safe(u, stage', evfd') /\ u.opened = st.opened
        /\ StartsIn(u.queue) = StartsIn(st.queue)
      BY <1>2, <1>4, <2>1
  <2> QED BY <1>2, <1>3, <2>2, <2>3, CalmKeeps
<1>5. CASE st' = Reap(Answer(g, evfd, "error"), stopping)
  <2>1. PICK s \in {st.status, "Disconnected"}, i \in {st.timers, st.timers + 1} :
           /\ \/ use = "connector" /\ s = "Disconnected"
              \/ use # "connector" /\ s = st.status /\ i = st.timers
           /\ Core(g) = <<s, st.handed, st.fd, st.chan, st.exists, st.client, i, st.conn>>
      BY <1>1, GiveUpFields
  <2>2. /\ g \in StateType /\ Rest(g) = Rest(st)
        /\ Descriptors(g) = <<st.opened, st.open \ {evfd}, st.lost>>
      BY <1>1, GiveUpFields
  <2> HIDE DEF g
  <2>3. /\ g.opened = st.opened /\ g.open = st.open \ {evfd} /\ g.lost = st.lost
        /\ g.queue = st.queue
      BY <2>2 DEF Descriptors, Rest
  <2>4. Kept(g) BY <1>1, <2>1 DEF Safe, Kept, Core
  <2>5. ChannelIsFd(g, "idle") BY <1>1, <2>1, <2>3 DEF Safe, ChannelIsFd, Core
  <2>6. \A f \in g.open \ g.lost : OwnedIn(g, "idle", 0, f)
      BY <1>1, <2>1, <2>3 DEF Safe, OwnedIn, Core
  <2>7. Safe(g, "idle", 0) BY <2>2, <2>4, <2>5, <2>6 DEF Safe
  <2> QED BY <1>4, <1>5, <2>3, <2>7
<1>6. CASE evfd # 0 /\ st' = Reap(Answer(n, evfd, "connected"), stopping)
  <2>1. Safe(d, stage, evfd) /\ d.opened = st.opened /\ d.queue = st.queue BY <1>1, StatusSafe
  <2>2. d \in StateType /\ evfd \in Fds /\ d.status = "Connected"
      BY <1>1, <1>6, <2>1 DEF Safe, StateType
  <2> HIDE DEF d
  <2>3. ASSUME NEW v \in StateType, v.status = d.status, v.handed = d.handed, v.fd = d.fd,
               v.exists = d.exists, v.client = d.client, v.timers = d.timers,
               \A f \in v.open \ v.lost :
                  /\ f \in d.open \ d.lost
                  /\ v.conn[f] \notin {"none", "gone"} \/ (f # evfd /\ v.conn[f] = d.conn[f])
        PROVE  Safe(v, "idle", 0)
    <3>1. Kept(v) BY <2>1, <2>3 DEF Safe, Kept
    <3>2. ChannelIsFd(v, "idle") BY <2>2, <2>3 DEF ChannelIsFd
    <3>3. \A f \in v.open \ v.lost : OwnedIn(v, "idle", 0, f)
        BY <2>1, <2>3 DEF Safe, OwnedIn
    <3> QED BY <3>1, <3>2, <3>3 DEF Safe
  <2>4. Safe(n, "idle", 0) /\ n.opened = d.opened /\ n.queue = d.queue
    <3>1. CASE use = "connector"
      <4> DEFINE o == d.open \ {evfd}
                 v == [d EXCEPT !.open = o]
      <4>1. n = v BY <3>1 DEF NewConnection
      <4>2. o \in SUBSET Fds BY <2>2 DEF StateType
      <4>3. \A f \in o : f \in d.open /\ f # evfd OBVIOUS
      <4> HIDE DEF o
      <4>4. v \in StateType BY <2>2, <4>2 DEF StateType
      <4>5. /\ Core(v) = Core(d) /\ v.open = o /\ v.lost = d.lost /\ v.opened = d.opened
            /\ v.queue = d.queue
          BY <2>2 DEF StateType, Core
      <4> HIDE DEF v
      <4>6. Safe(v, "idle", 0) BY <2>3, <4>3, <4>4, <4>5 DEF Core
      <4> HIDE DEF n
      <4> QED BY <4>1, <4>5, <4>6
    <3>2. CASE use = "client" /\ ~d.client
      <4> DEFINE v == Lose(d, evfd)
      <4>1. n = v BY <3>2 DEF NewConnection
      <4>2. /\ v \in StateType /\ Core(v) = Core(d) /\ Rest(v) = Rest(d)
            /\ Descriptors(v) = <<d.opened, d.open, d.lost \cup ({evfd} \cap d.open)>>
          BY <2>2, LoseFields
      <4> HIDE DEF v, n
      <4>3. /\ v.open = d.open /\ v.lost = d.lost \cup ({evfd} \cap d.open)
            /\ v.opened = d.opened /\ v.queue = d.queue
          BY <4>2 DEF Descriptors, Rest
      <4>4. Safe(v, "idle", 0) BY <2>3, <4>2, <4>3 DEF Core
      <4> QED BY <4>1, <4>3, <4>4
    <3>3. CASE use = "client" /\ d.client
      <4> DEFINE k == [d.conn EXCEPT ![evfd] = "Connected"]
                 v == [d EXCEPT !.connection = evfd, !.conn = k]
      <4>1. n = v
        <5>1. n = [d EXCEPT !.connection = evfd, !.conn[evfd] = "Connected"]
            BY <3>3 DEF NewConnection
        <5> QED BY <2>2, <5>1 DEF StateType
      <4>2. k \in [Fds -> {"none", "Connected", "Disconnecting", "Disconnected", "removed", "gone"}]
          BY <2>2 DEF StateType
      <4>3. k[evfd] = "Connected" /\ \A f \in Fds : f # evfd => k[f] = d.conn[f]
          BY <2>2 DEF StateType
      <4> HIDE DEF k
      <4>4. v \in StateType BY <2>2, <4>2 DEF StateType
      <4>5. /\ v.status = d.status /\ v.handed = d.handed /\ v.fd = d.fd /\ v.exists = d.exists
            /\ v.client = d.client /\ v.timers = d.timers /\ v.conn = k
            /\ v.open = d.open /\ v.lost = d.lost /\ v.opened = d.opened /\ v.queue = d.queue
          BY <2>2 DEF StateType
      <4>6. d.open \subseteq Fds BY <2>2 DEF StateType
      <4> HIDE DEF v, n
      <4>7. Safe(v, "idle", 0) BY <2>3, <4>3, <4>4, <4>5, <4>6
      <4> QED BY <4>1, <4>5, <4>7
    <3>4. d.client \in BOOLEAN BY <2>2 DEF StateType
    <3> QED BY <1>1, <3>1, <3>2, <3>3, <3>4
  <2> HIDE DEF n
  <2>5. n.opened = st.opened /\ n.queue = st.queue BY <2>1, <2>4
  <2> QED BY <1>4, <1>6, <2>4, <2>5
<1> QED BY <1>2, <1>5, <1>6

\* In the initial state nothing is open.
LEMMA InitIInv == ASSUME Init PROVE IInv
<1>1. st \in StateType
  <2>1. /\ [f \in Fds |-> "none"] \in
              [Fds -> {"none", "Connected", "Disconnecting", "Disconnected", "removed", "gone"}]
        /\ [f \in Fds |-> "client"] \in [Fds -> {"client", "own"}]
        /\ [f \in Fds |-> "none"] \in
              [Fds -> {"none", "pending", "connected", "error", "silent", "stopped"}]
      OBVIOUS
  <2>2. <<>> \in Seq(Function) BY EmptySeq
  <2>3. kInitRetryDelay \in Nat /\ 0 \in 0..MaxAttempts BY ClientAssumption
  <2>4. \A x, y \in BOOLEAN,
           c \in [Fds -> {"none", "Connected", "Disconnecting", "Disconnected", "removed", "gone"}],
           k \in [Fds -> {"client", "own"}],
           a \in [Fds -> {"none", "pending", "connected", "error", "silent", "stopped"}],
           q \in Seq(Function), i \in Nat, o \in 0..MaxAttempts :
           [status |-> "Disconnected", connect |-> x, interval |-> i, handed |-> x, fd |-> 0,
            chan |-> 0, exists |-> y, client |-> y, connection |-> 0, conn |-> c, cb |-> k,
            queue |-> q, timers |-> 0, opened |-> o, open |-> {}, answer |-> a, lost |-> {},
            failed |-> x, dead |-> x] \in StateType
      BY DEF StateType
  <2>5. TRUE \in BOOLEAN /\ FALSE \in BOOLEAN OBVIOUS
  <2> QED BY <2>1, <2>2, <2>3, <2>4, <2>5, Zenon DEF Init
<1>2. /\ st.open = {} /\ st.status = "Disconnected" /\ st.timers = 0 /\ st.opened = 0
      /\ st.queue = <<>> /\ st.exists = TRUE /\ st.client = TRUE
    BY DEF Init
<1>3. TypeOK
  <2>1. kernel \in [Fds -> {"new", "progress", "up", "self", "failed"}] BY DEF Init
  <2>2. calls \in 0..MaxCalls BY ClientAssumption DEF Init
  <2>3. user \in BOOLEAN /\ stopping \in BOOLEAN BY DEF Init
  <2> QED BY <1>1, <2>1, <2>2, <2>3 DEF Init, TypeOK
<1>4. Starts = 0
  <2>1. {i \in DOMAIN st.queue : st.queue[i][1] = "start"} = {} BY <1>2
  <2> QED BY <2>1, FS_EmptySet DEF Starts
<1>5. Kept(st) /\ ChannelIsFd(st, stage) BY <1>2 DEF Kept, ChannelIsFd
<1> QED BY <1>2, <1>3, <1>4, <1>5, ClientAssumption DEF IInv

\* Every step keeps IInv.
LEMMA NextKeeps == ASSUME IInv, [Next]_vars PROVE IInv'
<1>1. ASSUME NEW here \in BOOLEAN, Program(here) PROVE IInv'
  <2>1. CASE \E how \in Outcomes : CallConnect(here, how) BY <2>1, CallConnectKeeps
  <2>2. CASE use = "client" /\ CallDisconnect(here) BY <2>2, CallDisconnectKeeps
  <2>3. CASE use = "client" /\ Destroy(here) BY <2>3, DestroyKeeps
  <2>4. CASE CallStop(here) BY <2>4, CallStopKeeps
  <2> QED BY <1>1, <2>1, <2>2, <2>3, <2>4 DEF Program
<1>2. CASE StopQueues BY <1>2, StopQueuesKeeps
<1>3. CASE Loop
  <2>1. CASE \E how \in Outcomes : RunStart(how) BY <2>1, RunStartKeeps
  <2>2. CASE \E how \in Outcomes : RunTimer(how) BY <2>2, RunTimerKeeps
  <2>3. CASE RunFunc BY <2>3, RunFuncKeeps
  <2>4. CASE Poll BY <2>4, PollKeeps
  <2>5. CASE EventClose BY <2>5, EventCloseKeeps
  <2>6. CASE EventError("error", "err", "write") BY <2>6, EventErrorKeeps
  <2>7. CASE EventWrite BY <2>7, EventWriteKeeps
  <2>8. CASE HandleWriteRest BY <2>8, HandleWriteRestKeeps
  <2> QED BY <1>3, <2>1, <2>2, <2>3, <2>4, <2>5, <2>6, <2>7, <2>8 DEF Loop
<1>4. ASSUME NEW c \in Fds, ConnectionEnds(c) PROVE IInv' BY <1>4, ConnectionEndsKeeps
<1>5. ASSUME NEW f \in Fds, NEW what \in {"up", "self", "failed"}, Network(f, what) PROVE IInv'
    BY <1>5, NetworkKeeps
<1>6. CASE UNCHANGED vars
  <2>1. OtherTypes BY IInvParts
  <2>2. OtherTypes' BY <1>6, <2>1 DEF vars, OtherTypes
  <2> QED BY <1>6, <2>2, QuietKeeps DEF vars
<1> QED BY <1>1, <1>2, <1>3, <1>4, <1>5, <1>6 DEF Next

-----------------------------------------------------------------------------
(* The events fit the channel *)

\* The fields that count here are there.
Traced(w) ==
    /\ {"chan", "opened", "open", "answer", "failed"} \subseteq DOMAIN w
    /\ DOMAIN w.answer = Fds

\* v opens nothing, keeps the channel or has none, and answers "connected" to
\* nobody new.
Quiet(w, v) ==
    /\ Traced(v) /\ v.opened = w.opened /\ v.chan \in {0, w.chan}
    /\ \A f \in Fds : v.answer[f] = "connected" => w.answer[f] = "connected"
    /\ w.failed => v.failed

LEMMA QuietItself == ASSUME NEW w, Traced(w) PROVE Quiet(w, w) BY DEF Quiet

LEMMA QuietTrans ==
    ASSUME NEW w, NEW u, NEW v, Quiet(w, u), Quiet(u, v) PROVE Quiet(w, v)
BY DEF Quiet

\* The answer of f changes, or nothing.
LEMMA AnswerTraced ==
    ASSUME NEW w, Traced(w), NEW f \in Fds \cup {0}, NEW a
    PROVE  LET v == Answer(w, f, a) IN
           /\ Traced(v) /\ v.opened = w.opened /\ v.chan = w.chan /\ v.failed = w.failed
           /\ \A g \in Fds : v.answer[g] = w.answer[g] \/ (g = f /\ v.answer[g] = a)
<1> DEFINE k == [w.answer EXCEPT ![f] = a]
           v == [w EXCEPT !.answer = k]
<1>1. CASE f # 0 /\ w.answer[f] = "pending"
  <2>1. Answer(w, f, a) = v BY <1>1 DEF Answer
  <2>2. DOMAIN k = Fds /\ \A g \in Fds : k[g] = IF g = f THEN a ELSE w.answer[g]
      BY <1>1 DEF Traced
  <2> HIDE DEF k
  <2>3. /\ Traced(v) /\ v.opened = w.opened /\ v.chan = w.chan /\ v.failed = w.failed
        /\ v.answer = k
      BY <2>2 DEF Traced
  <2> HIDE DEF v
  <2> QED BY <2>1, <2>2, <2>3
<1>2. CASE ~(f # 0 /\ w.answer[f] = "pending") BY <1>2 DEF Answer
<1> QED BY <1>1, <1>2

LEMMA QuietAnswer ==
    ASSUME NEW w, Traced(w), NEW f \in Fds \cup {0}, NEW a, a # "connected"
    PROVE  Quiet(w, Answer(w, f, a))
BY AnswerTraced DEF Quiet

LEMMA QuietParts ==
    ASSUME NEW w, Traced(w), NEW f, NEW x, NEW p
    PROVE  /\ Quiet(w, Queue(w, x)) /\ Quiet(w, Assert(w, p)) /\ Quiet(w, CloseFd(w, f))
           /\ Quiet(w, Lose(w, f)) /\ Quiet(w, RemoveAndResetChannel(w))
<1>1. ASSUME NEW v, Traced(v), NEW y PROVE Quiet(v, Queue(v, y))
  <2> DEFINE q == Append(v.queue, y)
             u == [v EXCEPT !.queue = q]
  <2>1. Queue(v, y) = u BY DEF Queue
  <2> HIDE DEF q
  <2>2. Quiet(v, u) BY <1>1 DEF Quiet, Traced
  <2> QED BY <2>1, <2>2
<1>2. Quiet(w, Assert(w, p))
  <2> DEFINE b == w.failed \/ ~p
             v == [w EXCEPT !.failed = b]
  <2>1. Assert(w, p) = v BY DEF Assert
  <2>2. w.failed => b OBVIOUS
  <2> HIDE DEF b
  <2>3. Quiet(w, v) BY <2>2 DEF Quiet, Traced
  <2> QED BY <2>1, <2>3
<1>3. Quiet(w, CloseFd(w, f))
  <2> DEFINE o == w.open \ {f}
             d == w.dead \/ f \notin w.open
             v == [w EXCEPT !.open = o, !.dead = d]
  <2>1. CloseFd(w, f) = IF f = 0 THEN w ELSE v BY DEF CloseFd
  <2> HIDE DEF o, d
  <2>2. Quiet(w, v) BY DEF Quiet, Traced
  <2> QED BY <2>1, <2>2, QuietItself
<1>4. Quiet(w, Lose(w, f))
  <2> DEFINE o == w.lost \cup {f}
             v == [w EXCEPT !.lost = o]
  <2>1. Lose(w, f) = IF f \in w.open THEN v ELSE w BY DEF Lose
  <2> HIDE DEF o
  <2>2. Quiet(w, v) BY DEF Quiet, Traced
  <2> QED BY <2>1, <2>2, QuietItself
<1>5. Quiet(w, RemoveAndResetChannel(w))
  <2> DEFINE u == [w EXCEPT !.chan = 0]
             r == <<"release", 0>>
  <2>1. Quiet(w, u) BY DEF Quiet, Traced
  <2>2. RemoveAndResetChannel(w) = IF w.chan = 0 THEN w ELSE Queue(u, r)
      BY DEF RemoveAndResetChannel
  <2> HIDE DEF u, r
  <2>3. Traced(u) BY <2>1 DEF Quiet
  <2>4. Quiet(u, Queue(u, r)) BY <1>1, <2>3
  <2>5. Quiet(w, Queue(u, r)) BY <2>1, <2>4, QuietTrans
  <2> QED BY <2>2, <2>5, QuietItself
<1> QED BY <1>1, <1>2, <1>3, <1>4, <1>5

LEMMA QuietGiveUp ==
    ASSUME NEW w, Traced(w), NEW f PROVE Quiet(w, Retry(w, f)) /\ Quiet(w, GiveUp(w, f))
<1> DEFINE c == CloseFd(w, f)
           v == [c EXCEPT !.status = "Disconnected"]
<1>1. Quiet(w, c) BY QuietParts
<1>2. Retry(w, f) =
          IF ~w.connect THEN v
          ELSE [v EXCEPT !.timers = @ + 1,
                         !.interval = IF @ * 2 > kMaxRetryDelay THEN kMaxRetryDelay
                                      ELSE @ * 2]
    BY DEF Retry, CloseFd
<1> HIDE DEF c
<1>3. Traced(c) BY <1>1 DEF Quiet
<1>4. Quiet(c, v) BY <1>3 DEF Quiet, Traced
<1>5. Quiet(w, v) BY <1>1, <1>4, QuietTrans
<1> DEFINE t == v.timers + 1
           i == IF v.interval * 2 > kMaxRetryDelay THEN kMaxRetryDelay
                ELSE v.interval * 2
           u == [v EXCEPT !.timers = t, !.interval = i]
<1> HIDE DEF v
<1>6. Retry(w, f) = IF ~w.connect THEN v ELSE u BY <1>2
<1>7. Traced(v) BY <1>5 DEF Quiet
<1> HIDE DEF t, i
<1>8. Quiet(v, u) BY <1>7 DEF Quiet, Traced
<1>9. Quiet(w, u) BY <1>5, <1>8, QuietTrans
<1> HIDE DEF u
<1>10. Quiet(w, Retry(w, f)) BY <1>5, <1>6, <1>9
<1>11. Quiet(w, GiveUp(w, f)) BY <1>1, <1>10 DEF GiveUp, c
<1> QED BY <1>10, <1>11

LEMMA QuietHandleError ==
    ASSUME NEW w, Traced(w), w.chan \in Fds \cup {0} PROVE Quiet(w, HandleError(w))
<1> DEFINE v == [w EXCEPT !.handed = TRUE]
           s == [v EXCEPT !.status = "Disconnected"]
           r == RemoveAndResetChannel(s)
           g == GiveUp(r, w.chan)
           a == Answer(g, w.chan, "error")
           n == IF w.handed THEN 0 ELSE w.fd
           l == Lose(v, n)
<1>1. HandleError(w) = IF w.status # "Connecting" THEN l ELSE a BY DEF HandleError
<1>2. Quiet(w, v) BY DEF Quiet, Traced
<1> HIDE DEF v, n
<1>3. Traced(v) BY <1>2 DEF Quiet
<1>4. Quiet(v, l) BY <1>3, QuietParts
<1>5. Quiet(w, l) BY <1>2, <1>4, QuietTrans
<1>6. Quiet(v, s) BY <1>3 DEF Quiet, Traced
<1>7. Quiet(w, s) BY <1>2, <1>6, QuietTrans
<1> HIDE DEF s, l
<1>8. Traced(s) BY <1>6 DEF Quiet
<1>9. Quiet(s, r) BY <1>8, QuietParts
<1>10. Quiet(w, r) BY <1>7, <1>9, QuietTrans
<1> HIDE DEF r
<1>11. Traced(r) BY <1>9 DEF Quiet
<1>12. Quiet(r, g) BY <1>11, QuietGiveUp
<1>13. Quiet(w, g) BY <1>10, <1>12, QuietTrans
<1> HIDE DEF g
<1>14. Traced(g) BY <1>12 DEF Quiet
<1>15. Quiet(g, a) BY <1>14, QuietAnswer
<1>16. Quiet(w, a) BY <1>13, <1>15, QuietTrans
<1> HIDE DEF a
<1> QED BY <1>1, <1>5, <1>16

LEMMA QuietStopHere ==
    ASSUME NEW w, Traced(w), w.chan \in Fds \cup {0}
    PROVE  /\ Quiet(w, StopHere(w))
           /\ Quiet(w, Answer(RemoveAndResetChannel(w), w.chan, "stopped"))
<1> DEFINE s == [w EXCEPT !.status = "Disconnected"]
<1>1. StopHere(w) = Answer(RemoveAndResetChannel(s), w.chan, "stopped") BY DEF StopHere
<1>2. Quiet(w, s) BY DEF Quiet, Traced
<1> HIDE DEF s
<1>3. ASSUME NEW u, Quiet(w, u)
      PROVE  Quiet(w, Answer(RemoveAndResetChannel(u), w.chan, "stopped"))
  <2> DEFINE r == RemoveAndResetChannel(u)
             a == Answer(r, w.chan, "stopped")
  <2>1. Traced(u) BY <1>3 DEF Quiet
  <2>2. Quiet(u, r) BY <2>1, QuietParts
  <2>3. Quiet(w, r) BY <1>3, <2>2, QuietTrans
  <2> HIDE DEF r
  <2>4. Traced(r) BY <2>2 DEF Quiet
  <2>5. Quiet(r, a) BY <2>4, QuietAnswer
  <2> HIDE DEF a
  <2>6. Quiet(w, a) BY <2>3, <2>5, QuietTrans
  <2> QED BY <2>6 DEF a, r
<1> QED BY <1>1, <1>2, <1>3, QuietItself

LEMMA QuietConnections ==
    ASSUME NEW w, Traced(w), NEW f
    PROVE  /\ Quiet(w, HandleClose(w, f)) /\ Quiet(w, ForceClose(w, f))
           /\ Quiet(w, Shutdown(w, f)) /\ Quiet(w, ConnectDestroyed(w, f))
           /\ Quiet(w, [w EXCEPT !.cb[f] = "own"])
<1>1. ASSUME NEW y PROVE Quiet(w, [w EXCEPT !.conn[f] = y])
  <2> DEFINE k == [w.conn EXCEPT ![f] = y]
             u == [w EXCEPT !.conn = k]
  <2>1. [w EXCEPT !.conn[f] = y] = u OBVIOUS
  <2> HIDE DEF k
  <2>2. Quiet(w, u) BY DEF Quiet, Traced
  <2> QED BY <2>1, <2>2
<1>2. Quiet(w, Shutdown(w, f)) /\ Quiet(w, ConnectDestroyed(w, f))
    BY <1>1, QuietItself DEF Shutdown, ConnectDestroyed
<1>3. Quiet(w, [w EXCEPT !.cb[f] = "own"])
  <2> DEFINE k == [w.cb EXCEPT ![f] = "own"]
             u == [w EXCEPT !.cb = k]
  <2>1. [w EXCEPT !.cb[f] = "own"] = u OBVIOUS
  <2> HIDE DEF k
  <2>2. Quiet(w, u) BY DEF Quiet, Traced
  <2> QED BY <2>1, <2>2
<1> DEFINE v == [w EXCEPT !.conn[f] = "Disconnected"]
           x == <<"destroy", f>>
           p == v.connection = f
           a == Assert(v, p)
           b == [a EXCEPT !.connection = 0]
<1>4. HandleClose(w, f) = IF w.cb[f] = "client" /\ w.client THEN Queue(b, x) ELSE Queue(v, x)
    BY DEF HandleClose, RemoveConnection
<1>5. Quiet(w, v) BY <1>1
<1> HIDE DEF v, x, p
<1>6. Traced(v) BY <1>5 DEF Quiet
<1>7. Quiet(v, Queue(v, x)) /\ Quiet(v, a) BY <1>6, QuietParts
<1>8. Quiet(w, Queue(v, x)) /\ Quiet(w, a) BY <1>5, <1>7, QuietTrans
<1> HIDE DEF a
<1>9. Traced(a) BY <1>7 DEF Quiet
<1>10. Quiet(a, b) BY <1>9 DEF Quiet, Traced
<1>11. Quiet(w, b) BY <1>8, <1>10, QuietTrans
<1> HIDE DEF b
<1>12. Traced(b) BY <1>10 DEF Quiet
<1>13. Quiet(b, Queue(b, x)) BY <1>12, QuietParts
<1>14. Quiet(w, Queue(b, x)) BY <1>11, <1>13, QuietTrans
<1>15. Quiet(w, HandleClose(w, f)) BY <1>4, <1>8, <1>14
<1>16. Quiet(w, ForceClose(w, f)) BY <1>15, QuietItself DEF ForceClose
<1> QED BY <1>2, <1>3, <1>15, <1>16

LEMMA QuietNewConnection ==
    ASSUME NEW w, Traced(w), NEW f, use \in {"client", "connector"}
    PROVE  Quiet(w, NewConnection(w, f))
<1>1. CASE use = "connector"
  <2> DEFINE o == w.open \ {f}
             v == [w EXCEPT !.open = o]
  <2>1. NewConnection(w, f) = v BY <1>1 DEF NewConnection
  <2> HIDE DEF o
  <2>2. Quiet(w, v) BY DEF Quiet, Traced
  <2> QED BY <2>1, <2>2
<1>2. CASE use = "client" /\ ~w.client
  <2>1. NewConnection(w, f) = Lose(w, f) BY <1>2 DEF NewConnection
  <2> QED BY <2>1, QuietParts
<1>3. CASE use = "client" /\ w.client
  <2> DEFINE k == [w.conn EXCEPT ![f] = "Connected"]
             v == [w EXCEPT !.connection = f, !.conn = k]
  <2>1. NewConnection(w, f) = v BY <1>3 DEF NewConnection
  <2> HIDE DEF k
  <2>2. Quiet(w, v) BY DEF Quiet, Traced
  <2> QED BY <2>1, <2>2
<1> QED BY <1>1, <1>2, <1>3

LEMMA QuietReap ==
    ASSUME NEW w, Traced(w), NEW b
    PROVE  Quiet(w, Reap(w, b)) /\ Reap(w, b).chan = w.chan
<1> DEFINE c == IF ~w.handed /\ w.fd # 0 THEN CloseFd(w, w.fd) ELSE w
           d == [c EXCEPT !.exists = FALSE]
           u == IF w.exists /\ ~ConnectorHeld(w, b) THEN d ELSE w
           gone == {f \in Fds : u.conn[f] \notin {"none", "gone"} /\ ~ConnHeld(u, f)}
           v == DestroyConns(u, gone)
<1>1. Reap(w, b) = v BY DEF Reap, DestroyConnector
<1>2. Quiet(w, c) /\ c.chan = w.chan
  <2>1. Quiet(w, c) BY QuietItself, QuietParts
  <2>2. c.chan = w.chan BY DEF CloseFd, Traced
  <2> QED BY <2>1, <2>2
<1> HIDE DEF c
<1>3. Quiet(c, d) /\ d.chan = c.chan
  <2>1. Traced(c) BY <1>2 DEF Quiet
  <2> QED BY <2>1 DEF Quiet, Traced
<1>4. Quiet(w, d) BY <1>2, <1>3, QuietTrans
<1> HIDE DEF d
<1>5. Quiet(w, u) /\ u.chan = w.chan BY <1>2, <1>3, <1>4, QuietItself
<1> HIDE DEF u, gone
<1>6. Quiet(u, v) /\ v.chan = u.chan
  <2> DEFINE k == [f \in Fds |-> IF f \in gone THEN "gone" ELSE u.conn[f]]
             o == u.open \ gone
             e == u.dead \/ \E f \in gone : f \notin u.open \/ u.conn[f] # "removed"
             n == [u EXCEPT !.conn = k, !.open = o, !.dead = e]
  <2>1. v = n BY DEF DestroyConns
  <2>2. Traced(u) BY <1>5 DEF Quiet
  <2> HIDE DEF k, o, e
  <2>3. Quiet(u, n) /\ n.chan = u.chan BY <2>2 DEF Quiet, Traced
  <2> QED BY <2>1, <2>3
<1> HIDE DEF v
<1>7. Quiet(w, v) BY <1>5, <1>6, QuietTrans
<1> QED BY <1>1, <1>5, <1>6, <1>7

\* v has opened one more descriptor, which may be the channel's now.
Opens(w, v) ==
    /\ Traced(v) /\ v.opened = w.opened + 1 /\ v.chan \in {0, w.chan, v.opened}
    /\ \A f \in Fds : v.answer[f] = "connected" =>
                          f # v.opened /\ w.answer[f] = "connected"
    /\ w.failed => v.failed

LEMMA OpensQuiet ==
    ASSUME NEW w, NEW u, NEW v, Opens(w, u), Quiet(u, v) PROVE Opens(w, v)
BY DEF Opens, Quiet

LEMMA QuietOpens ==
    ASSUME NEW w, NEW u, NEW v, Quiet(w, u), Opens(u, v) PROVE Opens(w, v)
BY DEF Opens, Quiet

LEMMA ConnectOpensOne ==
    ASSUME NEW w, Traced(w), NEW how \in Outcomes, w.opened + 1 \in Fds
    PROVE  Opens(w, Connect(w, w.opened + 1, how))
<1> DEFINE f == w.opened + 1
           n == IF w.handed THEN 0 ELSE w.fd
           l == Lose(w, n)
           p == l.open \cup {f}
           k == [l.answer EXCEPT ![f] = "pending"]
           b == FALSE
           v == [l EXCEPT !.handed = b, !.fd = f, !.opened = f, !.open = p, !.answer = k]
           c == [CloseFd(v, f) EXCEPT !.handed = ~b]
           a == v.chan = 0
           d == [Assert(v, a) EXCEPT !.status = "Connecting", !.chan = f]
<1>1. Quiet(w, l) BY QuietParts
<1>2. Traced(l) /\ l.opened + 1 = f BY <1>1 DEF Quiet
<1>3. Connect(w, f, how) =
          CASE how = "progress" -> d
            [] how = "refused" ->
                  IF use = "connector" THEN Answer(Retry(v, f), f, "error")
                  ELSE Answer(v, f, "silent")
            [] how = "hopeless" -> Answer(c, f, "error")
  <2>1. v = [l EXCEPT !.handed = FALSE, !.fd = f, !.opened = f,
                      !.open = @ \cup {f}, !.answer[f] = "pending"]
    <3> HIDE DEF l
    <3> QED BY <1>2 DEF Traced
  <2> HIDE DEF v
  <2> QED BY <2>1 DEF Connect, Connecting
<1>4. DOMAIN k = Fds /\ \A g \in Fds : k[g] = "connected" => g # f /\ l.answer[g] = "connected"
    BY <1>2 DEF Traced
<1> HIDE DEF l, n, p, k, b
<1>5. Opens(l, v)
  <2>1. /\ Traced(v) /\ v.opened = f /\ v.chan = l.chan /\ v.answer = k
        /\ v.failed = l.failed
      BY <1>2, <1>4 DEF Traced
  <2> HIDE DEF f, v
  <2> QED BY <1>2, <1>4, <2>1 DEF Opens
<1>6. Opens(w, v) BY <1>1, <1>5, QuietOpens
<1>7. Traced(v) /\ v.opened = f BY <1>6 DEF Opens
<1>8. f \in Fds \cup {0} OBVIOUS
<1> HIDE DEF v
<1>9. ASSUME NEW u, Quiet(v, u), NEW y \in {"error", "silent"}
      PROVE  Opens(w, Answer(u, f, y))
  <2>1. Traced(u) BY <1>9 DEF Quiet
  <2>2. Quiet(u, Answer(u, f, y)) BY <1>8, <1>9, <2>1, QuietAnswer
  <2>3. Opens(w, u) BY <1>6, <1>9, OpensQuiet
  <2> QED BY <2>2, <2>3, OpensQuiet
<1>10. Opens(w, d)
  <2> DEFINE e == Assert(v, a)
  <2>1. Quiet(v, e) BY <1>7, QuietParts
  <2>2. Opens(w, e) BY <1>6, <2>1, OpensQuiet
  <2>3. e.opened = f BY <1>7, <2>1 DEF Quiet
  <2> HIDE DEF e, f
  <2>4. Opens(w, [e EXCEPT !.status = "Connecting", !.chan = f])
      BY <2>2, <2>3 DEF Opens, Traced
  <2> QED BY <2>4 DEF e, f
<1>11. Quiet(v, c)
  <2> DEFINE e == CloseFd(v, f)
             x == ~b
  <2>1. Quiet(v, e) BY <1>7, QuietParts
  <2> HIDE DEF e, x
  <2>2. Traced(e) BY <2>1 DEF Quiet
  <2>3. Quiet(e, [e EXCEPT !.handed = x]) BY <2>2 DEF Quiet, Traced
  <2>4. Quiet(v, [e EXCEPT !.handed = x]) BY <2>1, <2>3, QuietTrans
  <2> QED BY <2>4 DEF e, x
<1>12. Quiet(v, Retry(v, f)) /\ Quiet(v, v) BY <1>7, QuietGiveUp, QuietItself
<1> HIDE DEF c, d
<1>13. /\ Opens(w, Answer(Retry(v, f), f, "error")) /\ Opens(w, Answer(v, f, "silent"))
       /\ Opens(w, Answer(c, f, "error"))
    BY <1>9, <1>11, <1>12
<1>14. how \in {"progress", "refused", "hopeless"} BY DEF Outcomes
<1> HIDE DEF f
<1>15. Opens(w, Connect(w, f, how)) BY <1>3, <1>10, <1>13, <1>14
<1> QED BY <1>15 DEF f

LEMMA StartOpensOne ==
    ASSUME NEW w, Traced(w), NEW how \in Outcomes, w.opened + 1 \in Fds
    PROVE  LET v == StartInLoop(w, how) IN Quiet(w, v) \/ Opens(w, v)
<1> DEFINE p == w.status = "Disconnected"
           v == Assert(w, p)
           c == Connect(v, v.opened + 1, how)
<1>1. Quiet(w, v) BY QuietParts
<1>2. v.opened = w.opened /\ Traced(v) BY <1>1 DEF Quiet
<1>3. StartInLoop(w, how) = IF v.connect /\ ~v.failed THEN c ELSE v
    BY <1>2 DEF StartInLoop
<1> HIDE DEF v
<1>4. Opens(v, c)
  <2>1. v.opened + 1 \in Fds BY <1>2
  <2> QED BY <1>2, <2>1, ConnectOpensOne
<1> HIDE DEF c
<1>5. Opens(w, c) BY <1>1, <1>4, QuietOpens
<1> QED BY <1>1, <1>3, <1>5

-----------------------------------------------------------------------------

(* The steps keep the events fitting *)

Fit == EventsFit /\ ConnectedMeansConnected

LEMMA FitFields ==
    ASSUME IInv
    PROVE  /\ Traced(st) /\ st.chan \in Fds \cup {0} /\ evfd \in Fds \cup {0}
           /\ st.opened \in Nat /\ kernel \in [Fds -> {"new", "progress", "up", "self", "failed"}]
           /\ use \in {"client", "connector"}
<1>1. st \in StateType /\ evfd \in Fds \cup {0} /\ use \in Uses
      /\ kernel \in [Fds -> {"new", "progress", "up", "self", "failed"}]
    BY DEF IInv, TypeOK
<1>2. Traced(st) /\ st.chan \in Fds \cup {0} /\ st.opened \in 0..MaxAttempts
    BY <1>1 DEF StateType, Traced
<1> QED BY <1>1, <1>2, ClientAssumption

LEMMA QuietBecomes ==
    ASSUME IInv, NEW w, Quiet(st, w), NEW busy, st' = Reap(w, busy) PROVE Quiet(st, st')
<1>1. Quiet(w, Reap(w, busy))
  <2>1. Traced(w) BY DEF Quiet
  <2> QED BY <2>1, QuietReap
<1> HIDE DEF Reap
<1> QED BY <1>1, QuietTrans

\* A step outside handleEvent that opens nothing.
LEMMA FitStays ==
    ASSUME IInv, Fit, Quiet(st, st'), UNCHANGED <<stage, evfd, user, kernel>>,
           excuses \subseteq excuses'
    PROVE  Fit'
<1>1. /\ st'.opened = st.opened /\ st'.chan \in {0, st.chan}
      /\ st.failed => st'.failed
      /\ \A f \in Fds : st'.answer[f] = "connected" => st.answer[f] = "connected"
    BY DEF Quiet
<1>2. ConnectedMeansConnected' BY <1>1 DEF Fit, ConnectedMeansConnected
<1>3. st'.chan <= st'.opened /\ evfd' <= st'.opened
  <2>1. st.chan <= st.opened /\ evfd <= st.opened BY DEF Fit, EventsFit
  <2>2. st.opened \in Nat BY FitFields
  <2> QED BY <1>1, <2>1, <2>2
<1>4. \/ st'.failed \/ "reentered" \in excuses'
      \/ /\ stage # "idle" /\ evfd # 0 => kernel[evfd] # "progress"
         /\ stage \in {"error", "write"} => st'.chan \in {0, evfd}
  <2>1. \/ st.failed \/ "reentered" \in excuses
        \/ /\ stage # "idle" /\ evfd # 0 => kernel[evfd] # "progress"
           /\ stage \in {"error", "write"} => st.chan \in {0, evfd}
      BY DEF Fit, EventsFit
  <2> QED BY <1>1, <2>1
<1>5. user' => stage' \in {"error", "write"} BY DEF Fit, EventsFit
<1>6. EventsFit' BY <1>3, <1>4, <1>5 DEF EventsFit
<1> QED BY <1>2, <1>6 DEF Fit

\* A new attempt is not begun between the events of a channel, but by an error
\* callback.
LEMMA FitOpens ==
    ASSUME IInv, Fit, Opens(st, st'), UNCHANGED <<stage, evfd, user>>,
           excuses \subseteq excuses', ~st.failed, st.opened < MaxAttempts,
           stage \in {"error", "write"} => "reentered" \in excuses',
           kernel' \in {kernel, [kernel EXCEPT ![st'.opened] = "progress"]}
    PROVE  Fit'
<1> DEFINE f == st'.opened
<1>1. /\ f = st.opened + 1 /\ st'.chan \in {0, st.chan, f}
      /\ \A g \in Fds : st'.answer[g] = "connected" => g # f /\ st.answer[g] = "connected"
    BY DEF Opens
<1>2. st.opened \in Nat /\ evfd \in Fds \cup {0} /\ st.chan \in Fds \cup {0}
      /\ kernel \in [Fds -> {"new", "progress", "up", "self", "failed"}]
    BY FitFields
<1>3. st.chan <= st.opened /\ evfd <= st.opened BY DEF Fit, EventsFit
<1>4. \A g \in Fds : g # f => kernel'[g] = kernel[g] BY <1>2
<1> HIDE DEF f
<1>5. st'.chan <= f /\ evfd' <= f /\ evfd # f
  <2>1. evfd \in Nat /\ st.chan \in Nat BY <1>2 DEF Fds
  <2> QED BY <1>1, <1>2, <1>3, <2>1
<1>6. ConnectedMeansConnected' BY <1>1, <1>4 DEF Fit, ConnectedMeansConnected
<1>7. \/ "reentered" \in excuses'
      \/ /\ stage # "idle" /\ evfd # 0 => kernel'[evfd] # "progress"
         /\ stage \notin {"error", "write"}
    BY <1>2, <1>4, <1>5 DEF Fit, EventsFit
<1>8. user' => stage' \in {"error", "write"} BY DEF Fit, EventsFit
<1>9. EventsFit' BY <1>5, <1>7, <1>8 DEF EventsFit, f
<1> QED BY <1>6, <1>9 DEF Fit

LEMMA StartFits ==
    ASSUME IInv, Fit, NEW w, Quiet(st, w), NEW how \in Outcomes,
           st.opened < MaxAttempts, ~st.failed, NEW busy,
           st' = Reap(StartInLoop(w, how), busy),
           kernel' = IF st'.opened > st.opened /\ how = "progress"
                     THEN [kernel EXCEPT ![st'.opened] = "progress"] ELSE kernel,
           UNCHANGED <<stage, evfd, user>>, excuses \subseteq excuses',
           stage \in {"error", "write"} => "reentered" \in excuses'
    PROVE  Fit'
<1> DEFINE v == StartInLoop(w, how)
<1>1. Traced(w) /\ w.opened = st.opened BY DEF Quiet
<1>2. w.opened + 1 \in Fds
  <2>1. st.opened \in Nat BY FitFields
  <2> QED BY <1>1, <2>1, ClientAssumption DEF Fds
<1>3. Quiet(w, v) \/ Opens(w, v) BY <1>1, <1>2, StartOpensOne
<1> HIDE DEF v
<1>4. CASE Quiet(w, v)
  <2>1. Quiet(st, v) BY <1>4, QuietTrans
  <2>2. st' = Reap(v, busy) BY DEF v
  <2>3. Quiet(st, st') BY <2>1, <2>2, QuietBecomes
  <2>4. kernel' = kernel
    <3>1. st'.opened = st.opened /\ st.opened \in Nat BY <2>3, FitFields DEF Quiet
    <3> QED BY <3>1
  <2> QED BY <2>3, <2>4, FitStays
<1>5. CASE Opens(w, v)
  <2>1. Opens(st, v) BY <1>5, QuietOpens
  <2>2. Traced(v) BY <1>5 DEF Opens
  <2>3. st' = Reap(v, busy) BY DEF v
  <2>4. Quiet(v, st') BY <2>2, <2>3, QuietReap
  <2>5. Opens(st, st') BY <2>1, <2>4, OpensQuiet
  <2> QED BY <2>5, FitOpens
<1> QED BY <1>3, <1>4, <1>5

LEMMA CalmFits ==
    ASSUME IInv, Fit, NEW w, NEW busy, Quiet(st, w), st' = Reap(w, busy),
           UNCHANGED <<stage, evfd, user, kernel>>, excuses \subseteq excuses'
    PROVE  Fit'
<1>1. Quiet(st, st') BY QuietBecomes
<1> QED BY <1>1, FitStays

LEMMA CallConnectFits ==
    ASSUME IInv, Fit, NEW here \in BOOLEAN, NEW how \in Outcomes, CallConnect(here, how)
    PROVE  Fit'
<1> DEFINE w == [st EXCEPT !.connect = TRUE]
           x == <<"start", 0>>
<1>1. /\ \/ here /\ st' = Reap(StartInLoop(w, how), stopping)
         \/ ~here /\ st' = Reap(Queue(w, x), stopping)
      /\ ~st.failed /\ st.opened + Starts < MaxAttempts
      /\ UNCHANGED <<stage, evfd, user>> /\ excuses \subseteq excuses'
      /\ here => LoopInUserCode /\ (user => "reentered" \in excuses')
      /\ kernel' = IF here /\ st'.opened > st.opened /\ how = "progress"
                   THEN [kernel EXCEPT ![st'.opened] = "progress"] ELSE kernel
    BY DEF CallConnect, Becomes, BecomesWhile, MayCall
<1>2. Traced(st) /\ Starts \in Nat /\ st.opened \in Nat BY FitFields, IInvParts
<1>3. Quiet(st, w) /\ Traced(w) BY <1>2 DEF Quiet, Traced
<1>4. st.opened < MaxAttempts BY <1>1, <1>2, ClientAssumption
<1> HIDE DEF w, x
<1>5. CASE here /\ st' = Reap(StartInLoop(w, how), stopping)
  <2>1. stage \in {"error", "write"} => "reentered" \in excuses'
      BY <1>1, <1>5 DEF LoopInUserCode
  <2>2. kernel' = IF st'.opened > st.opened /\ how = "progress"
                  THEN [kernel EXCEPT ![st'.opened] = "progress"] ELSE kernel
      BY <1>1, <1>5
  <2> QED BY <1>1, <1>3, <1>4, <1>5, <2>1, <2>2, StartFits
<1>6. CASE ~here /\ st' = Reap(Queue(w, x), stopping)
  <2>1. Quiet(w, Queue(w, x)) BY <1>3, QuietParts
  <2>2. Quiet(st, Queue(w, x)) BY <1>3, <2>1, QuietTrans
  <2>3. kernel' = kernel BY <1>1, <1>6
  <2> QED BY <1>1, <1>6, <2>2, <2>3, CalmFits
<1> QED BY <1>1, <1>5, <1>6

LEMMA CallDisconnectFits ==
    ASSUME IInv, Fit, NEW here \in BOOLEAN, CallDisconnect(here) PROVE Fit'
<1> DEFINE w == IF here THEN Shutdown(st, st.connection)
                ELSE Queue(st, <<"shutdown", st.connection>>)
<1>1. st' = Reap(w, stopping) /\ UNCHANGED <<stage, evfd, user, kernel, excuses>>
    BY DEF CallDisconnect, Becomes, BecomesWhile
<1>2. Quiet(st, w) BY FitFields, QuietParts, QuietConnections
<1> HIDE DEF w
<1> QED BY <1>1, <1>2, CalmFits

\* stop(), of the client's destructor too.
LEMMA StopFits ==
    ASSUME IInv, Fit, NEW w, Quiet(st, w), w.chan = st.chan, NEW here \in BOOLEAN,
           Stop(w, here), UNCHANGED <<stage, evfd, user, kernel>>, excuses \subseteq excuses'
    PROVE  Fit'
<1> DEFINE d == [w EXCEPT !.status = "Disconnected"]
<1>1. st' = Reap(StopHere(w), stopping) \/ st' = Reap(d, TRUE)
    BY DEF Stop, Becomes, BecomesWhile
<1>2. Traced(w) /\ w.chan \in Fds \cup {0} BY FitFields DEF Quiet
<1>3. Quiet(w, d) BY <1>2 DEF Quiet, Traced
<1>4. Quiet(w, StopHere(w)) BY <1>2, QuietStopHere
<1> HIDE DEF d
<1>5. Quiet(st, d) /\ Quiet(st, StopHere(w)) BY <1>3, <1>4, QuietTrans
<1>6. CASE st' = Reap(StopHere(w), stopping) BY <1>5, <1>6, CalmFits
<1>7. CASE st' = Reap(d, TRUE)
  <2> DEFINE b == TRUE
  <2>1. st' = Reap(d, b) BY <1>7
  <2> HIDE DEF b
  <2> QED BY <1>5, <2>1, CalmFits
<1> QED BY <1>1, <1>6, <1>7

LEMMA CallStopFits ==
    ASSUME IInv, Fit, NEW here \in BOOLEAN, CallStop(here) PROVE Fit'
<1>1. /\ Stop(st, here) /\ UNCHANGED <<stage, evfd, user, kernel>> /\ excuses \subseteq excuses'
    BY DEF CallStop
<1>2. Quiet(st, st) BY FitFields, QuietItself
<1> QED BY <1>1, <1>2, StopFits

LEMMA StopQueuesFits == ASSUME IInv, Fit, StopQueues PROVE Fit'
<1> DEFINE x == <<"remove", 0>>
           b == FALSE
<1>1. st' = Reap(Queue(st, x), b) /\ UNCHANGED <<stage, evfd, user, kernel, excuses>>
    BY DEF StopQueues, BecomesWhile
<1> HIDE DEF x, b
<1>2. Quiet(st, Queue(st, x)) BY FitFields, QuietParts
<1> QED BY <1>1, <1>2, CalmFits

LEMMA DestroyFits ==
    ASSUME IInv, Fit, NEW here \in BOOLEAN, Destroy(here) PROVE Fit'
<1> DEFINE b == FALSE
           w == [st EXCEPT !.client = b]
           c == st.connection
           k == [w.cb EXCEPT ![c] = "own"]
           u == [w EXCEPT !.cb = k, !.connection = 0]
           v == [w EXCEPT !.connection = 0]
           x == <<"setClose", c>>
           y == <<"forceClose", c>>
           q == Queue(Queue(v, x), y)
<1>1. /\ UNCHANGED <<stage, evfd, user, kernel>> /\ excuses \subseteq excuses'
      /\ \/ Stop(w, here)
         \/ st' = Reap(IF here THEN ForceClose(u, c) ELSE q, stopping)
  <2>1. /\ UNCHANGED <<stage, evfd, user, kernel>> /\ excuses \subseteq excuses'
        /\ \/ Stop(w, here)
           \/ Becomes(IF here
                      THEN ForceClose([w EXCEPT !.cb[c] = "own", !.connection = 0], c)
                      ELSE q)
      BY DEF Destroy
  <2>2. [w EXCEPT !.cb[c] = "own", !.connection = 0] = u OBVIOUS
  <2> HIDE DEF w, u, c, q
  <2> QED BY <2>1, <2>2 DEF Becomes, BecomesWhile
<1>2. Quiet(st, w) /\ Traced(w) /\ w.chan = st.chan
  <2>1. Traced(st) BY FitFields
  <2> HIDE DEF b
  <2> QED BY <2>1 DEF Quiet, Traced
<1> HIDE DEF b, w, c, k, x, y
<1>3. Quiet(w, u) /\ Quiet(w, v) BY <1>2 DEF Quiet, Traced
<1>4. Traced(u) /\ Traced(v) BY <1>3 DEF Quiet
<1> HIDE DEF u, v
<1>5. Quiet(st, ForceClose(u, c))
  <2>1. Quiet(u, ForceClose(u, c)) BY <1>4, QuietConnections
  <2>2. Quiet(w, ForceClose(u, c)) BY <1>3, <2>1, QuietTrans
  <2> QED BY <1>2, <2>2, QuietTrans
<1>6. Quiet(st, q)
  <2>1. Quiet(v, Queue(v, x)) BY <1>4, QuietParts
  <2>2. Traced(Queue(v, x)) BY <2>1 DEF Quiet
  <2>3. Quiet(Queue(v, x), q) BY <2>2, QuietParts
  <2> HIDE DEF q
  <2>4. Quiet(v, q) BY <2>1, <2>3, QuietTrans
  <2>5. Quiet(w, q) BY <1>3, <2>4, QuietTrans
  <2> QED BY <1>2, <2>5, QuietTrans
<1>7. CASE Stop(w, here) BY <1>1, <1>2, <1>7, StopFits
<1>8. CASE st' = Reap(IF here THEN ForceClose(u, c) ELSE q, stopping)
  <2> DEFINE z == IF here THEN ForceClose(u, c) ELSE q
  <2>1. Quiet(st, z) BY <1>5, <1>6
  <2>2. st' = Reap(z, stopping) BY <1>8
  <2> HIDE DEF z
  <2> QED BY <1>1, <2>1, <2>2, CalmFits
<1> QED BY <1>1, <1>7, <1>8

LEMMA RunStartFits ==
    ASSUME IInv, Fit, NEW how \in Outcomes, RunStart(how) PROVE Fit'
<1> DEFINE q == Tail(st.queue)
           d == st.dead \/ ~st.exists
           w == [st EXCEPT !.queue = q, !.dead = d]
<1>1. /\ st \in StateType /\ st.queue \in Seq(Function) /\ Starts = StartsIn(st.queue)
      /\ st.opened \in Nat /\ st.opened + Starts <= MaxAttempts
    BY IInvParts
<1>2. /\ stage = "idle" /\ ~st.failed /\ st.queue # <<>> /\ st.queue[1][1] = "start"
      /\ UNCHANGED <<stage, evfd, user, excuses>>
      /\ kernel' = IF st'.opened > st.opened /\ how = "progress"
                   THEN [kernel EXCEPT ![st'.opened] = "progress"] ELSE kernel
    BY DEF RunStart, LoopIs
<1>3. st' = Reap(IF st.exists THEN StartInLoop(w, how) ELSE w, stopping)
  <2>1. w = [st EXCEPT !.queue = Tail(@), !.dead = @ \/ ~st.exists] BY <1>1 DEF StateType
  <2> HIDE DEF w
  <2> QED BY <2>1 DEF RunStart, Becomes, BecomesWhile
<1>4. Traced(st) BY FitFields
<1>5. st.opened < MaxAttempts
  <2>1. StartsIn(q) = StartsIn(st.queue) - 1 BY <1>1, <1>2, StartsTail
  <2>2. q \in Seq(Function) BY <1>1, <1>2, QueueElements
  <2>3. StartsIn(q) \in Nat BY <2>2, StartsType
  <2>4. Starts \in Nat BY <1>1, StartsType
  <2> HIDE DEF q
  <2> QED BY <1>1, <2>1, <2>3, <2>4, ClientAssumption
<1> HIDE DEF q, d
<1>6. Quiet(st, w) BY <1>4 DEF Quiet, Traced
<1> HIDE DEF w
<1>7. CASE st.exists
  <2>1. st' = Reap(StartInLoop(w, how), stopping) BY <1>3, <1>7
  <2> QED BY <1>2, <1>5, <1>6, <2>1, StartFits
<1>8. CASE ~st.exists
  <2>1. st' = Reap(w, stopping) BY <1>3, <1>8
  <2>2. Quiet(st, st') BY <1>6, <2>1, QuietBecomes
  <2>3. kernel' = kernel
    <3>1. st'.opened = st.opened BY <2>2 DEF Quiet
    <3> QED BY <1>1, <1>2, <3>1
  <2> QED BY <1>2, <2>2, <2>3, FitStays
<1> QED BY <1>7, <1>8

LEMMA RunTimerFits ==
    ASSUME IInv, Fit, NEW how \in Outcomes, RunTimer(how) PROVE Fit'
<1> DEFINE t == st.timers - 1
           w == [st EXCEPT !.timers = t]
<1>1. /\ stage = "idle" /\ ~st.failed /\ st.opened + Starts < MaxAttempts
      /\ st' = Reap(StartInLoop(w, how), stopping)
      /\ UNCHANGED <<stage, evfd, user, excuses>>
      /\ kernel' = IF st'.opened > st.opened /\ how = "progress"
                   THEN [kernel EXCEPT ![st'.opened] = "progress"] ELSE kernel
    BY DEF RunTimer, LoopIs, Becomes, BecomesWhile
<1>2. Traced(st) /\ Starts \in Nat /\ st.opened \in Nat BY FitFields, IInvParts
<1>3. st.opened < MaxAttempts BY <1>1, <1>2, ClientAssumption
<1> HIDE DEF t
<1>4. Quiet(st, w) BY <1>2 DEF Quiet, Traced
<1> HIDE DEF w
<1> QED BY <1>1, <1>3, <1>4, StartFits

LEMMA RunFuncFits == ASSUME IInv, Fit, RunFunc PROVE Fit'
<1> DEFINE op == st.queue[1][1]
           c == st.queue[1][2]
           q == Tail(st.queue)
           w == [st EXCEPT !.queue = q]
           v == CASE op = "remove" -> Answer(RemoveAndResetChannel(w), w.chan, "stopped")
                  [] op = "release" -> w
                  [] op = "shutdown" -> Shutdown(w, c)
                  [] op = "setClose" -> [w EXCEPT !.cb[c] = "own"]
                  [] op = "forceClose" -> ForceClose(w, c)
                  [] op = "destroy" -> ConnectDestroyed(w, c)
<1>1. st.queue # <<>> /\ op # "start" /\ st.queue \in Seq(Function)
  <2>1. st.queue # <<>> /\ op # "start" BY DEF RunFunc
  <2> HIDE DEF op
  <2> QED BY <2>1, IInvParts
<1>2. st' = Reap(v, stopping) /\ UNCHANGED <<stage, evfd, user, kernel, excuses>>
    BY DEF RunFunc, Becomes, BecomesWhile
<1>3. op \in {"remove", "release", "shutdown", "setClose", "forceClose", "destroy"}
  <2>1. st.queue[1] \in Function BY <1>1, QueueElements
  <2> QED BY <1>1, <2>1 DEF Function
<1>4. Traced(st) /\ st.chan \in Fds \cup {0} BY FitFields
<1> HIDE DEF q, op, c
<1>5. Quiet(st, w) /\ Traced(w) /\ w.chan \in Fds \cup {0} BY <1>4 DEF Quiet, Traced
<1> HIDE DEF w
<1>6. /\ Quiet(w, Answer(RemoveAndResetChannel(w), w.chan, "stopped"))
      /\ Quiet(w, w) /\ Quiet(w, Shutdown(w, c)) /\ Quiet(w, [w EXCEPT !.cb[c] = "own"])
      /\ Quiet(w, ForceClose(w, c)) /\ Quiet(w, ConnectDestroyed(w, c))
    BY <1>5, QuietStopHere, QuietConnections, QuietItself
<1>7. Quiet(w, v) BY <1>3, <1>6
<1> HIDE DEF v
<1>8. Quiet(st, v) BY <1>5, <1>7, QuietTrans
<1> QED BY <1>2, <1>8, CalmFits

LEMMA ConnectionEndsFits ==
    ASSUME IInv, Fit, NEW c \in Fds, ConnectionEnds(c) PROVE Fit'
<1>1. st' = Reap(HandleClose(st, c), stopping) /\ UNCHANGED <<stage, evfd, user, kernel, excuses>>
    BY DEF ConnectionEnds, Becomes, BecomesWhile
<1>2. Quiet(st, HandleClose(st, c)) BY FitFields, QuietConnections
<1> QED BY <1>1, <1>2, CalmFits

\* A step of handleEvent, to the next stage.
LEMMA EventFits ==
    ASSUME IInv, Fit, Quiet(st, st'), UNCHANGED <<kernel, excuses>>,
           evfd' \in {0, evfd, st.chan}, user' => stage' \in {"error", "write"},
           \/ "reentered" \in excuses
           \/ /\ stage' # "idle" /\ evfd' # 0 => kernel[evfd'] # "progress"
              /\ stage' \in {"error", "write"} => st.chan \in {0, evfd'}
    PROVE  Fit'
<1>1. /\ st'.opened = st.opened /\ st'.chan \in {0, st.chan}
      /\ \A f \in Fds : st'.answer[f] = "connected" => st.answer[f] = "connected"
    BY DEF Quiet
<1>2. ConnectedMeansConnected' BY <1>1 DEF Fit, ConnectedMeansConnected
<1>3. st'.chan <= st'.opened /\ evfd' <= st'.opened
  <2>1. st.chan <= st.opened /\ evfd <= st.opened BY DEF Fit, EventsFit
  <2>2. st.opened \in Nat BY FitFields
  <2> QED BY <1>1, <2>1, <2>2
<1>4. \/ "reentered" \in excuses'
      \/ /\ stage' # "idle" /\ evfd' # 0 => kernel'[evfd'] # "progress"
         /\ stage' \in {"error", "write"} => st'.chan \in {0, evfd'}
    BY <1>1
<1>5. EventsFit' BY <1>3, <1>4 DEF EventsFit
<1> QED BY <1>2, <1>5 DEF Fit

LEMMA PollFits == ASSUME IInv, Fit, Poll PROVE Fit'
<1>1. /\ stage = "idle" /\ st' = st /\ stage' = "close" /\ evfd' = st.chan
      /\ kernel[st.chan] # "progress" /\ UNCHANGED <<user, kernel, excuses>>
    BY DEF Poll, LoopIs
<1>2. Quiet(st, st') BY <1>1, FitFields, QuietItself
<1>3. ~user' BY <1>1 DEF Fit, EventsFit
<1>4. stage' # "idle" /\ evfd' # 0 => kernel[evfd'] # "progress" BY <1>1
<1> QED BY <1>1, <1>2, <1>3, <1>4, EventFits

LEMMA EventErrorFits ==
    ASSUME IInv, Fit, NEW from, NEW bit, NEW to \in {"error", "write"},
           EventError(from, bit, to), from # "idle",
           "reentered" \in excuses \/ st.chan \in {0, evfd}
    PROVE  Fit'
<1> DEFINE d == st.dead \/ ~ChannelHeld(st)
           w == [st EXCEPT !.dead = d]
           v == IF bit \in revents THEN HandleError(w) ELSE w
<1>1. /\ stage = from /\ ~st.failed /\ stage' = to /\ UNCHANGED <<evfd, kernel, excuses>>
      /\ st' = Reap(v, stopping)
    BY DEF EventError, LoopIs, Becomes, BecomesWhile
<1>2. Traced(st) /\ st.chan \in Fds \cup {0} BY FitFields
<1> HIDE DEF d
<1>3. Quiet(st, w) /\ Traced(w) /\ w.chan \in Fds \cup {0} BY <1>2 DEF Quiet, Traced
<1> HIDE DEF w
<1>4. Quiet(w, HandleError(w)) BY <1>3, QuietHandleError
<1>5. Quiet(st, HandleError(w)) BY <1>3, <1>4, QuietTrans
<1>6. Quiet(st, v) BY <1>3, <1>5
<1> HIDE DEF v
<1>7. Quiet(st, st') BY <1>1, <1>6, QuietBecomes
<1>8. \/ "reentered" \in excuses
      \/ /\ stage' # "idle" /\ evfd' # 0 => kernel[evfd'] # "progress"
         /\ stage' \in {"error", "write"} => st.chan \in {0, evfd'}
    BY <1>1 DEF Fit, EventsFit
<1> QED BY <1>1, <1>7, <1>8, EventFits

LEMMA EventCloseFits == ASSUME IInv, Fit, EventClose PROVE Fit'
<1>1. CASE st.chan = evfd /\ EventError("close", "hup", "error")
  <2> DEFINE from == "close"
             to == "error"
  <2>1. from # "idle" /\ to \in {"error", "write"} OBVIOUS
  <2>2. EventError(from, "hup", to) BY <1>1
  <2> HIDE DEF from, to
  <2> QED BY <1>1, <2>1, <2>2, EventErrorFits
<1>2. CASE ~(st.chan = evfd /\ EventError("close", "hup", "error"))
  <2> DEFINE d == st.dead \/ ~ChannelHeld(st)
             w == [st EXCEPT !.dead = d]
  <2>1. /\ stage = "close" /\ st' = w /\ stage' = "idle" /\ evfd' = 0
        /\ UNCHANGED <<user, kernel, excuses>>
      BY <1>2 DEF EventClose, LoopIs
  <2>2. Traced(st) BY FitFields
  <2> HIDE DEF d
  <2>3. Quiet(st, w) BY <2>2 DEF Quiet, Traced
  <2> HIDE DEF w
  <2>4. Quiet(st, st') BY <2>1, <2>3
  <2>5. ~user' BY <2>1 DEF Fit, EventsFit
  <2> QED BY <2>1, <2>4, <2>5, EventFits
<1> QED BY <1>1, <1>2

LEMMA EventWriteFits == ASSUME IInv, Fit, EventWrite PROVE Fit'
<1> DEFINE d == st.dead \/ ~ChannelHeld(st)
           b == TRUE
           w == [st EXCEPT !.dead = d, !.handed = b]
           r == RemoveAndResetChannel(w)
           n == IF st.handed THEN 0 ELSE st.fd
           l == Lose(w, n)
           p == st.status = "Disconnected"
           a == Assert(l, p)
<1>1. /\ stage = "write" /\ ~st.failed /\ user' = FALSE /\ UNCHANGED <<kernel, excuses>>
      /\ \/ stage' = "tested" /\ evfd' = st.chan /\ st' = Reap(r, stopping)
         \/ stage' = "idle" /\ evfd' = 0 /\ st' = Reap(a, stopping)
    BY DEF EventWrite, LoopIs, Becomes, BecomesWhile
<1>2. Traced(st) /\ st.chan \in Fds \cup {0} BY FitFields
<1> HIDE DEF d, b, n, p
<1>3. Quiet(st, w) /\ Traced(w) BY <1>2 DEF Quiet, Traced
<1> HIDE DEF w
<1>4. Quiet(w, r) /\ Quiet(w, l) BY <1>3, QuietParts
<1>5. Traced(l) BY <1>4 DEF Quiet
<1> HIDE DEF r, l
<1>6. Quiet(l, a) BY <1>5, QuietParts
<1> HIDE DEF a
<1>7. Quiet(w, a) BY <1>4, <1>6, QuietTrans
<1>8. Quiet(st, r) /\ Quiet(st, a) BY <1>3, <1>4, <1>7, QuietTrans
<1>9. Quiet(st, st')
  <2>1. CASE st' = Reap(r, stopping) BY <1>8, <2>1, QuietBecomes
  <2>2. CASE st' = Reap(a, stopping) BY <1>8, <2>2, QuietBecomes
  <2> QED BY <1>1, <2>1, <2>2
<1>10. \/ "reentered" \in excuses
       \/ (evfd # 0 => kernel[evfd] # "progress") /\ st.chan \in {0, evfd}
    BY <1>1 DEF Fit, EventsFit
<1>11. \/ "reentered" \in excuses
       \/ /\ stage' # "idle" /\ evfd' # 0 => kernel[evfd'] # "progress"
          /\ stage' \notin {"error", "write"}
    BY <1>1, <1>10
<1>12. evfd' \in {0, evfd, st.chan} /\ ~user' BY <1>1
<1> QED BY <1>1, <1>9, <1>11, <1>12, EventFits

\* "connected" is said of the descriptor that handleWrite has tested.
LEMMA HandleWriteRestFits == ASSUME IInv, Fit, HandleWriteRest PROVE Fit'
<1> DEFINE g == GiveUp(st, evfd)
           e == Answer(g, evfd, "error")
           s == [st EXCEPT !.status = "Connected"]
           n == NewConnection(s, evfd)
           a == Answer(n, evfd, "connected")
<1>1. /\ stage = "tested" /\ ~st.failed /\ stage' = "idle" /\ evfd' = 0
      /\ UNCHANGED <<user, kernel, excuses>>
      /\ \/ st' = Reap(e, stopping)
         \/ evfd # 0 /\ st' = Reap(a, stopping)
    BY DEF HandleWriteRest, LoopIs, Becomes, BecomesWhile
<1>2. /\ Traced(st) /\ st.chan \in Fds \cup {0} /\ evfd \in Fds \cup {0}
      /\ use \in {"client", "connector"} /\ st.opened \in Nat
    BY FitFields
<1>3. ~user' BY <1>1 DEF Fit, EventsFit
<1>4. CASE st' = Reap(e, stopping)
  <2>1. Quiet(st, g) BY <1>2, QuietGiveUp
  <2>2. Traced(g) BY <2>1 DEF Quiet
  <2> HIDE DEF g
  <2>3. Quiet(g, e) BY <1>2, <2>2, QuietAnswer
  <2> HIDE DEF e
  <2>4. Quiet(st, e) BY <2>1, <2>3, QuietTrans
  <2>5. Quiet(st, st') BY <1>4, <2>4, QuietBecomes
  <2> QED BY <1>1, <1>3, <2>5, EventFits
<1>5. CASE evfd # 0 /\ st' = Reap(a, stopping)
  <2>1. Quiet(st, s) BY <1>2 DEF Quiet, Traced
  <2> HIDE DEF s
  <2>2. Traced(s) BY <2>1 DEF Quiet
  <2>3. Quiet(s, n) BY <1>2, <2>2, QuietNewConnection
  <2> HIDE DEF n
  <2>4. Quiet(st, n) BY <2>1, <2>3, QuietTrans
  <2>5. Traced(n) BY <2>3 DEF Quiet
  <2>6. /\ Traced(a) /\ a.opened = n.opened /\ a.chan = n.chan
        /\ \A f \in Fds : a.answer[f] = n.answer[f] \/ f = evfd
      BY <1>2, <2>5, AnswerTraced
  <2> HIDE DEF a
  <2>7. Quiet(a, st') BY <1>5, <2>6, QuietReap
  <2>8. /\ st'.opened = st.opened /\ st'.chan \in {0, st.chan}
        /\ \A f \in Fds : st'.answer[f] = "connected" =>
               f = evfd \/ st.answer[f] = "connected"
    <3>1. /\ n.opened = st.opened /\ n.chan \in {0, st.chan}
          /\ \A f \in Fds : n.answer[f] = "connected" => st.answer[f] = "connected"
        BY <2>4 DEF Quiet
    <3>2. /\ st'.opened = a.opened /\ st'.chan \in {0, a.chan}
          /\ \A f \in Fds : st'.answer[f] = "connected" => a.answer[f] = "connected"
        BY <2>7 DEF Quiet
    <3>3. \A f \in Fds : st'.answer[f] = "connected" =>
              f = evfd \/ st.answer[f] = "connected"
        BY <2>6, <3>1, <3>2
    <3> QED BY <2>6, <3>1, <3>2, <3>3
  <2>9. kernel[evfd] # "progress" \/ "reentered" \in excuses
      BY <1>1, <1>5 DEF Fit, EventsFit
  <2>10. ConnectedMeansConnected'
      BY <1>1, <2>8, <2>9 DEF Fit, ConnectedMeansConnected
  <2>11. st'.chan <= st'.opened /\ evfd' <= st'.opened
    <3>1. st.chan <= st.opened BY DEF Fit, EventsFit
    <3> QED BY <1>1, <1>2, <2>8, <3>1
  <2>12. EventsFit' BY <1>1, <1>3, <2>11 DEF EventsFit
  <2> QED BY <2>10, <2>12 DEF Fit
<1> QED BY <1>1, <1>4, <1>5

LEMMA NetworkFits ==
    ASSUME IInv, Fit, NEW f \in Fds, NEW what \in {"up", "self", "failed"}, Network(f, what)
    PROVE  Fit'
<1>1. /\ kernel' = [kernel EXCEPT ![f] = what]
      /\ UNCHANGED <<st, stage, evfd, user, excuses>>
    BY DEF Network
<1>2. kernel \in [Fds -> {"new", "progress", "up", "self", "failed"}] /\ evfd \in Fds \cup {0}
    BY FitFields
<1>3. \A g \in Fds : kernel[g] # "progress" => kernel'[g] # "progress" BY <1>1, <1>2
<1>4. ConnectedMeansConnected' BY <1>1, <1>3 DEF Fit, ConnectedMeansConnected
<1>5. \/ st.failed \/ "reentered" \in excuses
      \/ /\ stage # "idle" /\ evfd # 0 => kernel'[evfd] # "progress"
         /\ stage \in {"error", "write"} => st.chan \in {0, evfd}
    BY <1>2, <1>3 DEF Fit, EventsFit
<1>6. EventsFit' BY <1>1, <1>5 DEF Fit, EventsFit
<1> QED BY <1>4, <1>6 DEF Fit

LEMMA NextFits == ASSUME IInv, Fit, [Next]_vars PROVE Fit'
<1>1. ASSUME NEW here \in BOOLEAN, Program(here) PROVE Fit'
  <2>1. CASE \E how \in Outcomes : CallConnect(here, how) BY <2>1, CallConnectFits
  <2>2. CASE use = "client" /\ CallDisconnect(here) BY <2>2, CallDisconnectFits
  <2>3. CASE use = "client" /\ Destroy(here) BY <2>3, DestroyFits
  <2>4. CASE CallStop(here) BY <2>4, CallStopFits
  <2> QED BY <1>1, <2>1, <2>2, <2>3, <2>4 DEF Program
<1>2. CASE StopQueues BY <1>2, StopQueuesFits
<1>3. CASE Loop
  <2>1. CASE \E how \in Outcomes : RunStart(how) BY <2>1, RunStartFits
  <2>2. CASE \E how \in Outcomes : RunTimer(how) BY <2>2, RunTimerFits
  <2>3. CASE RunFunc BY <2>3, RunFuncFits
  <2>4. CASE Poll BY <2>4, PollFits
  <2>5. CASE EventClose BY <2>5, EventCloseFits
  <2>6. CASE EventError("error", "err", "write")
    <3> DEFINE from == "error"
               to == "write"
    <3>1. from # "idle" /\ to \in {"error", "write"} OBVIOUS
    <3>2. EventError(from, "err", to) BY <2>6
    <3>3. "reentered" \in excuses \/ st.chan \in {0, evfd}
        BY <2>6 DEF EventError, LoopIs, Fit, EventsFit
    <3> HIDE DEF from, to
    <3> QED BY <3>1, <3>2, <3>3, EventErrorFits
  <2>7. CASE EventWrite BY <2>7, EventWriteFits
  <2>8. CASE HandleWriteRest BY <2>8, HandleWriteRestFits
  <2> QED BY <1>3, <2>1, <2>2, <2>3, <2>4, <2>5, <2>6, <2>7, <2>8 DEF Loop
<1>4. ASSUME NEW c \in Fds, ConnectionEnds(c) PROVE Fit' BY <1>4, ConnectionEndsFits
<1>5. ASSUME NEW f \in Fds, NEW what \in {"up", "self", "failed"}, Network(f, what) PROVE Fit'
    BY <1>5, NetworkFits
<1>6. CASE UNCHANGED vars
  <2>1. Quiet(st, st') BY <1>6, FitFields, QuietItself DEF vars
  <2> QED BY <1>6, <2>1, FitStays DEF vars
<1> QED BY <1>1, <1>2, <1>3, <1>4, <1>5, <1>6 DEF Next

-----------------------------------------------------------------------------
(* The theorems *)

\* In every state an open descriptor has an owner, the channel that an event
\* finds is that of fd_, and the client keeps the connector.
THEOREM Invariance == Spec => []IInv
<1>1. Init => IInv BY InitIInv
<1>2. IInv /\ [Next]_vars => IInv' BY NextKeeps
<1> QED BY <1>1, <1>2, PTL DEF Spec

\* Whatever the program calls from either thread and however the attempts end,
\* an open descriptor belongs to the connector, to its channel, to handleWrite or
\* to a connection, unless it is one of those that Lose names.
THEOREM OwnersOfDescriptors == Spec => []DescriptorsOwned
<1>1. IInv => DescriptorsOwned BY DEF IInv, DescriptorsOwned, OwnedIn
<1> QED BY <1>1, Invariance, PTL

=============================================================================

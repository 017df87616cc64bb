-------------------------- MODULE TcpServerProofs ---------------------------
(***************************************************************************)
(* Proofs about TcpServer, for any number of connections, loops and        *)
(* descriptors and any interleaving of the loops with stop(): no assertion *)
(* fails, a connection that waits in a list of active channels exists, the *)
(* pollers hold what they should, and what stop() has destroyed is used    *)
(* only in the cases that NothingDeadIsUsed names.                         *)
(***************************************************************************)
EXTENDS TcpServer, SequenceTheorems, TLAPS

-----------------------------------------------------------------------------
(* The inductive invariant *)

\* The functions that wait in loop l.
Waiting(w, l) == Range(w.queue[l])

Ops == {"established", "forceClose", "destroy", "close"}

\* No function waits for c but those of ops: a close in the server's loop, the
\* others in the connection's.
Only(w, c, ops) ==
    \A l \in AllLoops : \A op \in Ops :
        <<op, c>> \in Waiting(w, l) =>
            op \in ops /\ l = (IF op = "close" THEN Main ELSE w.conn[c].loop)

\* The connection's channel.
Channel(w, c, st, reading, index) ==
    /\ w.conn[c].st = st /\ w.conn[c].reading = reading /\ w.conn[c].index = index

\* The function that comes next, unless the loop has ended.
Comes(w, ph, op, c) ==
    \/ ph[w.conn[c].loop] = "ended"
    \/ <<op, c>> \in Waiting(w, w.conn[c].loop)

\* The life of a connection, from stage to stage.
Unused(w, c) ==
    Channel(w, c, "None", FALSE, "new") /\ c \notin w.connSet /\ Only(w, c, {})

Opening(w, ph, c) ==
    /\ Channel(w, c, "Connecting", FALSE, "new") /\ c \in w.connSet
    /\ w.conn[c].loop # Main /\ Comes(w, ph, "established", c)
    /\ Only(w, c, {"established", "forceClose"})

Open(w, c) ==
    /\ Channel(w, c, "Connected", TRUE, "added") /\ c \in w.connSet
    /\ Only(w, c, {"forceClose"})

Reported(w, c) ==
    /\ Channel(w, c, "Disconnected", FALSE, "deleted") /\ c \in w.connSet
    /\ w.conn[c].loop # Main /\ <<"close", c>> \in Waiting(w, Main)
    /\ Only(w, c, {"close", "forceClose"})

Leaving(w, ph, c) ==
    /\ Channel(w, c, "Disconnected", FALSE, "deleted") /\ c \notin w.connSet
    /\ Comes(w, ph, "destroy", c) /\ Only(w, c, {"destroy", "forceClose"})

Removed(w, c) ==
    /\ Channel(w, c, "Disconnected", FALSE, "new") /\ c \notin w.connSet
    /\ Only(w, c, {"forceClose"})

InStage(w, ph, c) ==
    \/ Unused(w, c) \/ Opening(w, ph, c) \/ Open(w, c)
    \/ Reported(w, c) \/ Leaving(w, ph, c) \/ Removed(w, c)

\* No function waits twice, but for forceClose.
Once(q) ==
    \A i, j \in DOMAIN q : q[i] = q[j] /\ q[i][1] \notin {"forceClose", "wheel"} => i = j

\* connSet_ or a function refers to c.
Referred(w, c) ==
    c \in w.connSet \/ \E l \in AllLoops, op \in Ops : <<op, c>> \in Waiting(w, l)

\* Two connections that exist have two descriptors.
FdsDiffer(w) ==
    \A c, d \in Conns :
        c # d /\ Referred(w, c) /\ Referred(w, d) => w.conn[c].fd # w.conn[d].fd

\* A world.
Sane(w, ph) ==
    /\ \A c \in Conns : InStage(w, ph, c)
    /\ \A l \in AllLoops : Once(w.queue[l])
    /\ FdsDiffer(w)

\* A connection in a list of active channels is one of the loop's, and is not
\* destroyed while the loop goes through the list.
ActiveOK(w, ph, act, l) ==
    /\ act[l] # {} => ph[l] = "active"
    /\ \A c \in act[l] \ {Listener} :
          /\ w.conn[c].loop = l
          /\ c \in w.connSet \/ <<"destroy", c>> \in Waiting(w, l)

\* What stop() has done so far.
Stopping == spc \notin {"no", "asked"}

StopOK ==
    /\ acceptor = "gone" <=> Stopping
    /\ ~Stopping => ~dead /\ ~inCallback
    /\ spc # "closing" => closing = {}
    /\ closing \subseteq connSet
    /\ quit # {} => setup.own /\ quit \subseteq IoLoops /\ Stopping /\ spc # "closing"
    /\ \A l \in AllLoops : Ended(l) => l \in quit
    /\ \A l \in AllLoops :
          <<"stop", Main>> \in Range(queue[l]) => l = Main /\ spc = "asked"
    /\ Stopping /\ ~openAtStop => connSet = {}
    /\ wheels # {} => setup.idle
    /\ \A l \in AllLoops :
          Listener \in active[l] => l = Main /\ (acceptor = "listening" \/ inCallback)

IInv ==
    /\ TypeOK /\ ~failed /\ NothingDeadIsUsed
    /\ Sane(World, phase)
    /\ \A l \in AllLoops : ActiveOK(World, phase, active, l)
    /\ StopOK

-----------------------------------------------------------------------------
(* Functions and queues *)

LEMMA FunctionParts ==
    /\ Main \notin Conns
    /\ \A op \in Ops, c \in Conns : <<op, c>> \in Function
    /\ <<"stop", Main>> \in Function /\ <<"wheel", Main>> \in Function
    /\ \A f \in Function :
          \/ f[1] \in Ops /\ f[2] \in Conns /\ f = <<f[1], f[2]>>
          \/ f = <<"stop", Main>> \/ f = <<"wheel", Main>>
BY ServerAssumption DEF Function, Ops

LEMMA QueueElements ==
    ASSUME NEW q \in Seq(Function)
    PROVE  /\ DOMAIN q = 1..Len(q) /\ Len(q) \in Nat
           /\ \A i \in DOMAIN q : q[i] \in Function
           /\ \A f \in Function :
                 /\ Append(q, f) \in Seq(Function)
                 /\ DOMAIN Append(q, f) = 1..(Len(q) + 1)
                 /\ Append(q, f)[Len(q) + 1] = f
                 /\ \A i \in 1..Len(q) : Append(q, f)[i] = q[i]
           /\ q # <<>> => /\ Len(q) >= 1 /\ Tail(q) \in Seq(Function)
                          /\ DOMAIN Tail(q) = 1..(Len(q) - 1)
                          /\ \A i \in 1..(Len(q) - 1) : Tail(q)[i] = q[i + 1]
OBVIOUS

\* A function more.
LEMMA WaitingAppend ==
    ASSUME NEW q \in Seq(Function), NEW f \in Function, NEW p, p = Append(q, f)
    PROVE  /\ p \in Seq(Function)
           /\ \A g : g \in Range(p) <=> g \in Range(q) \/ g = f
           /\ Once(q) /\ (f[1] \in {"forceClose", "wheel"} \/ f \notin Range(q)) => Once(p)
<1> DEFINE n == Len(q)
<1>1. /\ DOMAIN q = 1..n /\ n \in Nat /\ DOMAIN p = 1..(n + 1) /\ p \in Seq(Function)
      /\ p[n + 1] = f /\ \A i \in 1..n : p[i] = q[i]
    BY QueueElements
<1> HIDE DEF n
<1>2. /\ n + 1 \in DOMAIN p /\ \A i \in DOMAIN q : i \in DOMAIN p /\ p[i] = q[i]
      /\ \A i \in DOMAIN p : i = n + 1 \/ i \in DOMAIN q
    BY <1>1
<1>3. \A g : g \in Range(p) <=> g \in Range(q) \/ g = f BY <1>1, <1>2 DEF Range
<1>4. ASSUME Once(q), f[1] \in {"forceClose", "wheel"} \/ f \notin Range(q)
      PROVE  Once(p)
  <2>1. SUFFICES ASSUME NEW i \in DOMAIN p, NEW j \in DOMAIN p, p[i] = p[j],
                        p[i][1] \notin {"forceClose", "wheel"}
                 PROVE  i = j
      BY DEF Once
  <2>2. CASE i \in DOMAIN q /\ j \in DOMAIN q BY <1>2, <1>4, <2>1, <2>2 DEF Once
  <2>3. CASE i = n + 1 /\ j \in DOMAIN q BY <1>1, <1>2, <1>4, <2>1, <2>3 DEF Range
  <2>4. CASE j = n + 1 /\ i \in DOMAIN q BY <1>1, <1>2, <1>4, <2>1, <2>4 DEF Range
  <2> QED BY <1>2, <2>2, <2>3, <2>4
<1> QED BY <1>1, <1>3, <1>4

\* The first function is taken.
LEMMA WaitingTail ==
    ASSUME NEW q \in Seq(Function), q # <<>>, NEW p, p = Tail(q)
    PROVE  /\ p \in Seq(Function) /\ q[1] \in Function
           /\ \A g : g \in Range(q) <=> g \in Range(p) \/ g = q[1]
           /\ Once(q) => Once(p)
           /\ Once(q) /\ q[1][1] \notin {"forceClose", "wheel"} => q[1] \notin Range(p)
<1> DEFINE n == Len(q)
<1>1. /\ DOMAIN q = 1..n /\ n \in Nat /\ n >= 1 /\ DOMAIN p = 1..(n - 1)
      /\ p \in Seq(Function) /\ \A i \in DOMAIN q : q[i] \in Function
      /\ \A i \in 1..(n - 1) : p[i] = q[i + 1]
    BY QueueElements
<1> HIDE DEF n
<1>2. /\ 1 \in DOMAIN q
      /\ \A i \in DOMAIN p : i \in Nat /\ i >= 1 /\ i + 1 \in DOMAIN q /\ p[i] = q[i + 1]
    BY <1>1
<1>3. ASSUME NEW g, g \in Range(q), g # q[1] PROVE g \in Range(p)
  <2>1. PICK i \in DOMAIN q : q[i] = g BY <1>3 DEF Range
  <2>2. i - 1 \in 1..(n - 1) /\ (i - 1) + 1 = i BY <1>1, <1>3, <2>1
  <2>3. i - 1 \in DOMAIN p /\ p[i - 1] = g BY <1>1, <2>1, <2>2
  <2> QED BY <2>3 DEF Range
<1>4. ASSUME NEW g, g \in Range(p) \/ g = q[1] PROVE g \in Range(q)
    BY <1>2, <1>4 DEF Range
<1>5. ASSUME Once(q) PROVE Once(p)
  <2>1. SUFFICES ASSUME NEW i \in DOMAIN p, NEW j \in DOMAIN p, p[i] = p[j],
                        p[i][1] \notin {"forceClose", "wheel"}
                 PROVE  i = j
      BY DEF Once
  <2>2. i + 1 = j + 1 BY <1>2, <1>5, <2>1 DEF Once
  <2> QED BY <1>2, <2>2
<1>6. ASSUME Once(q), q[1][1] \notin {"forceClose", "wheel"}, q[1] \in Range(p) PROVE FALSE
  <2>1. PICK i \in DOMAIN p : p[i] = q[1] BY <1>6 DEF Range
  <2>2. i + 1 = 1 BY <1>2, <1>6, <2>1 DEF Once
  <2> QED BY <1>2, <2>2
<1> QED BY <1>1, <1>2, <1>3, <1>4, <1>5, <1>6

-----------------------------------------------------------------------------
(* Worlds, and the handlers on them *)

Statuses == {"None", "Connecting", "Connected", "Disconnected"}
Indices == {"new", "added", "deleted"}

ConnTables == [Conns -> ConnType]
ConnSets == SUBSET Conns
Queues == [AllLoops -> Seq(Function)]
Flags == BOOLEAN

WorldType == [conn : ConnTables, connSet : ConnSets, queue : Queues,
              failed : Flags, dead : Flags]

\* u is w but for what happens to c's status and channel.
Same(w, u, c) ==
    /\ u \in WorldType
    /\ \A d \in Conns \ {c} : u.conn[d] = w.conn[d]
    /\ u.conn[c].loop = w.conn[c].loop /\ u.conn[c].fd = w.conn[c].fd
    /\ u.connSet = w.connSet /\ u.queue = w.queue /\ u.dead = w.dead

LEMMA ConnFields ==
    ASSUME NEW w \in WorldType, NEW c \in Conns
    PROVE  /\ w.conn[c] \in ConnType /\ w.conn[c].st \in Statuses
           /\ w.conn[c].loop \in AllLoops /\ w.conn[c].fd \in Fds
           /\ w.conn[c].reading \in BOOLEAN /\ w.conn[c].index \in Indices
BY DEF WorldType, ConnTables, ConnType, Statuses, Indices

WithStatus(w, c, s) == [w EXCEPT !.conn[c].st = s]
WithReading(w, c, b) == [w EXCEPT !.conn[c].reading = b]
WithIndex(w, c, i) == [w EXCEPT !.conn[c].index = i]

LEMMA StatusSet ==
    ASSUME NEW w \in WorldType, NEW c \in Conns, NEW s \in Statuses,
           NEW u, u = WithStatus(w, c, s)
    PROVE  /\ Same(w, u, c) /\ u.failed = w.failed
           /\ u.conn[c].st = s /\ u.conn[c].reading = w.conn[c].reading
           /\ u.conn[c].index = w.conn[c].index
<1> DEFINE k == [w.conn[c] EXCEPT !.st = s]
<1>1. /\ k \in ConnType /\ k.st = s /\ k.reading = w.conn[c].reading
      /\ k.index = w.conn[c].index /\ k.loop = w.conn[c].loop /\ k.fd = w.conn[c].fd
    BY DEF WorldType, ConnTables, ConnType, Statuses
<1>2. u = [w EXCEPT !.conn[c] = k] BY DEF WithStatus
<1> HIDE DEF k
<1>3. [w.conn EXCEPT ![c] = k] \in ConnTables BY <1>1 DEF WorldType, ConnTables
<1>6. u \in WorldType /\ u.conn = [w.conn EXCEPT ![c] = k] BY <1>2, <1>3 DEF WorldType
<1>4. u.conn[c] = k /\ \A d \in Conns \ {c} : u.conn[d] = w.conn[d]
    BY <1>6 DEF WorldType, ConnTables
<1>5. u.connSet = w.connSet /\ u.queue = w.queue /\ u.dead = w.dead /\ u.failed = w.failed
    BY <1>2 DEF WorldType
<1> QED BY <1>1, <1>4, <1>5, <1>6 DEF Same

LEMMA ReadingSet ==
    ASSUME NEW w \in WorldType, NEW c \in Conns, NEW b \in BOOLEAN,
           NEW u, u = WithReading(w, c, b)
    PROVE  /\ Same(w, u, c) /\ u.failed = w.failed
           /\ u.conn[c].st = w.conn[c].st /\ u.conn[c].reading = b
           /\ u.conn[c].index = w.conn[c].index
<1> DEFINE k == [w.conn[c] EXCEPT !.reading = b]
<1>1. /\ k \in ConnType /\ k.reading = b /\ k.st = w.conn[c].st
      /\ k.index = w.conn[c].index /\ k.loop = w.conn[c].loop /\ k.fd = w.conn[c].fd
    BY DEF WorldType, ConnTables, ConnType
<1>2. u = [w EXCEPT !.conn[c] = k] BY DEF WithReading
<1> HIDE DEF k
<1>3. [w.conn EXCEPT ![c] = k] \in ConnTables BY <1>1 DEF WorldType, ConnTables
<1>6. u \in WorldType /\ u.conn = [w.conn EXCEPT ![c] = k] BY <1>2, <1>3 DEF WorldType
<1>4. u.conn[c] = k /\ \A d \in Conns \ {c} : u.conn[d] = w.conn[d]
    BY <1>6 DEF WorldType, ConnTables
<1>5. u.connSet = w.connSet /\ u.queue = w.queue /\ u.dead = w.dead /\ u.failed = w.failed
    BY <1>2 DEF WorldType
<1> QED BY <1>1, <1>4, <1>5, <1>6 DEF Same

LEMMA IndexSet ==
    ASSUME NEW w \in WorldType, NEW c \in Conns, NEW i \in Indices,
           NEW u, u = WithIndex(w, c, i)
    PROVE  /\ Same(w, u, c) /\ u.failed = w.failed
           /\ u.conn[c].st = w.conn[c].st /\ u.conn[c].reading = w.conn[c].reading
           /\ u.conn[c].index = i
<1> DEFINE k == [w.conn[c] EXCEPT !.index = i]
<1>1. /\ k \in ConnType /\ k.index = i /\ k.st = w.conn[c].st
      /\ k.reading = w.conn[c].reading /\ k.loop = w.conn[c].loop /\ k.fd = w.conn[c].fd
    BY DEF WorldType, ConnTables, ConnType, Indices
<1>2. u = [w EXCEPT !.conn[c] = k] BY DEF WithIndex
<1> HIDE DEF k
<1>3. [w.conn EXCEPT ![c] = k] \in ConnTables BY <1>1 DEF WorldType, ConnTables
<1>6. u \in WorldType /\ u.conn = [w.conn EXCEPT ![c] = k] BY <1>2, <1>3 DEF WorldType
<1>4. u.conn[c] = k /\ \A d \in Conns \ {c} : u.conn[d] = w.conn[d]
    BY <1>6 DEF WorldType, ConnTables
<1>5. u.connSet = w.connSet /\ u.queue = w.queue /\ u.dead = w.dead /\ u.failed = w.failed
    BY <1>2 DEF WorldType
<1> QED BY <1>1, <1>4, <1>5, <1>6 DEF Same

\* An assertion that holds changes nothing.
LEMMA AssertHolds ==
    ASSUME NEW w \in WorldType, NEW p, p
    PROVE  Assert(w, p) = w
<1> DEFINE b == w.failed
<1>1. b \in BOOLEAN /\ (b \/ ~p) = b BY DEF WorldType, Flags
<1>2. Assert(w, p) = [w EXCEPT !.failed = b] BY <1>1 DEF Assert
<1> HIDE DEF b
<1>3. w = [conn |-> w.conn, connSet |-> w.connSet, queue |-> w.queue,
           failed |-> w.failed, dead |-> w.dead]
    BY DEF WorldType
<1> QED BY <1>1, <1>2, <1>3 DEF b
LEMMA ConnSetLess ==
    ASSUME NEW w \in WorldType, NEW c \in Conns,
           NEW u, u = [w EXCEPT !.connSet = @ \ {c}]
    PROVE  /\ u \in WorldType /\ u.connSet = w.connSet \ {c} /\ u.conn = w.conn
           /\ u.queue = w.queue /\ u.failed = w.failed /\ u.dead = w.dead
<1>1. w.connSet \ {c} \in ConnSets BY DEF WorldType, ConnSets
<1> QED BY <1>1 DEF WorldType

\* u is w with function f more in the queue of l.
OneMore(w, u, l, f) ==
    /\ u \in WorldType /\ u.conn = w.conn /\ u.connSet = w.connSet
    /\ u.failed = w.failed /\ u.dead = w.dead
    /\ u.queue[l] = Append(w.queue[l], f)
    /\ \A m \in AllLoops \ {l} : u.queue[m] = w.queue[m]

LEMMA Queued ==
    ASSUME NEW w \in WorldType, NEW l \in AllLoops, NEW f \in Function,
           phase[l] # "ended", NEW u, u = QueueInLoop(w, l, f)
    PROVE  OneMore(w, u, l, f)
<1> DEFINE q == [w.queue EXCEPT ![l] = Append(w.queue[l], f)]
<1>1. u = [w EXCEPT !.queue = q] BY DEF QueueInLoop
<1>2. w.queue \in Queues /\ w.queue[l] \in Seq(Function) BY DEF WorldType, Queues
<1>3. Append(w.queue[l], f) \in Seq(Function) BY <1>2
<1>4. q \in Queues /\ q[l] = Append(w.queue[l], f)
      /\ \A m \in AllLoops \ {l} : q[m] = w.queue[m]
    BY <1>2, <1>3 DEF Queues
<1> HIDE DEF q
<1> QED BY <1>1, <1>4 DEF WorldType, OneMore

LEMMA QueuedDead ==
    ASSUME NEW w \in WorldType, NEW l \in AllLoops, NEW f,
           phase[l] = "ended", NEW u, u = QueueInLoop(w, l, f)
    PROVE  /\ u \in WorldType /\ u.conn = w.conn /\ u.connSet = w.connSet
           /\ u.failed = w.failed /\ u.queue = w.queue
<1> DEFINE b == TRUE
<1>1. u = [w EXCEPT !.dead = b] BY DEF QueueInLoop
<1>2. b \in Flags BY DEF Flags
<1> HIDE DEF b
<1> QED BY <1>1, <1>2 DEF WorldType

\* No other channel of c's loop has c's descriptor.
NoClash(w, c) ==
    \A d \in Conns \ {c} :
        w.conn[d].loop = w.conn[c].loop /\ w.conn[d].fd = w.conn[c].fd =>
            w.conn[d].index = "new"

LEMMA ChannelUpdated ==
    ASSUME NEW w \in WorldType, NEW c \in Conns,
           w.conn[c].index = "new" => NoClash(w, c),
           NEW u, u = UpdateChannel(w, c)
    PROVE  /\ Same(w, u, c) /\ u.failed = w.failed
           /\ u.conn[c].st = w.conn[c].st /\ u.conn[c].reading = w.conn[c].reading
           /\ w.conn[c].index = "new" => u.conn[c].index = "added"
           /\ w.conn[c].index = "added" /\ ~w.conn[c].reading => u.conn[c].index = "deleted"
<1> DEFINE k == w.conn[c]
           p == k.index = "new" =>
                  ~ \E d \in Conns \ {c} :
                       /\ w.conn[d].loop = k.loop /\ w.conn[d].fd = k.fd
                       /\ w.conn[d].index # "new"
           i == IF k.index = "added" /\ ~k.reading THEN "deleted" ELSE "added"
<1>1. p BY DEF NoClash
<1>2. Assert(w, p) = w BY <1>1, AssertHolds
<1>3. u = [Assert(w, p) EXCEPT !.conn[c].index = i] BY Zenon DEF UpdateChannel
<1>4. i \in Indices BY DEF Indices
<1>5. /\ w.conn[c].index = "new" => i = "added"
      /\ w.conn[c].index = "added" /\ ~w.conn[c].reading => i = "deleted"
    OBVIOUS
<1> HIDE DEF p, i, k
<1>6. u = WithIndex(w, c, i) BY <1>2, <1>3 DEF WithIndex
<1> QED BY <1>4, <1>5, <1>6, IndexSet

LEMMA AllDisabled ==
    ASSUME NEW w \in WorldType, NEW c \in Conns, w.conn[c].index = "added",
           NEW u, u = DisableAll(w, c)
    PROVE  /\ Same(w, u, c) /\ u.failed = w.failed
           /\ Channel(u, c, w.conn[c].st, FALSE, "deleted")
<1> DEFINE b == FALSE
           v == WithReading(w, c, b)
<1>1. u = UpdateChannel(v, c) BY DEF DisableAll, WithReading
<1>2. b \in BOOLEAN OBVIOUS
<1> HIDE DEF b
<1>3. /\ Same(w, v, c) /\ v.failed = w.failed
      /\ v.conn[c].st = w.conn[c].st /\ v.conn[c].reading = b
      /\ v.conn[c].index = w.conn[c].index
    BY <1>2, ReadingSet
<1> HIDE DEF v
<1>4. v \in WorldType /\ v.conn[c].index = "added" BY <1>3 DEF Same
<1>5. /\ Same(v, u, c) /\ u.failed = v.failed
      /\ u.conn[c].st = v.conn[c].st /\ u.conn[c].reading = v.conn[c].reading
      /\ v.conn[c].index = "added" /\ ~v.conn[c].reading => u.conn[c].index = "deleted"
    BY <1>1, <1>4, ChannelUpdated
<1>6. ~v.conn[c].reading BY <1>3 DEF b
<1>7. u.conn[c].index = "deleted" /\ u.conn[c].st = w.conn[c].st BY <1>3, <1>4, <1>5, <1>6
<1>8. u.conn[c].reading = FALSE BY <1>3, <1>5 DEF b
<1>9. Same(w, u, c) BY <1>3, <1>5 DEF Same
<1> QED BY <1>3, <1>5, <1>7, <1>8, <1>9 DEF Channel

\* connectEstablished.
LEMMA EstablishedDoes ==
    ASSUME NEW w \in WorldType, NEW c \in Conns,
           Channel(w, c, "Connecting", FALSE, "new"), NoClash(w, c),
           NEW u, u = Established(w, c)
    PROVE  /\ Same(w, u, c) /\ u.failed = w.failed
           /\ Channel(u, c, "Connected", TRUE, "added")
<1> DEFINE b == TRUE
           p == w.conn[c].st = "Connecting"
           v == WithReading(w, c, b)
           x == WithStatus(v, c, "Connected")
<1>1. Assert(w, p) = w BY Zenon, AssertHolds DEF Channel
<1>2. u = UpdateChannel([Assert(w, p) EXCEPT !.conn[c].reading = b,
                                             !.conn[c].st = "Connected"], c)
    BY DEF Established
<1>3. u = UpdateChannel(x, c) BY Zenon, <1>1, <1>2 DEF WithReading, WithStatus
<1>4. b \in BOOLEAN OBVIOUS
<1> HIDE DEF b, p
<1>5. /\ Same(w, v, c) /\ v.failed = w.failed
      /\ v.conn[c].st = w.conn[c].st /\ v.conn[c].reading = b
      /\ v.conn[c].index = w.conn[c].index
    BY <1>4, ReadingSet
<1> HIDE DEF v
<1>6. v \in WorldType /\ "Connected" \in Statuses BY <1>5 DEF Same, Statuses
<1>7. /\ Same(v, x, c) /\ x.failed = v.failed
      /\ x.conn[c].st = "Connected" /\ x.conn[c].reading = v.conn[c].reading
      /\ x.conn[c].index = v.conn[c].index
    BY <1>6, StatusSet
<1> HIDE DEF x
<1>8. x \in WorldType /\ x.conn[c].index = "new" BY <1>5, <1>7 DEF Same, Channel
<1>9. NoClash(x, c) BY <1>5, <1>7 DEF NoClash, Same
<1>10. /\ Same(x, u, c) /\ u.failed = x.failed
       /\ u.conn[c].st = x.conn[c].st /\ u.conn[c].reading = x.conn[c].reading
       /\ x.conn[c].index = "new" => u.conn[c].index = "added"
    BY <1>3, <1>8, <1>9, ChannelUpdated
<1>11. u.conn[c].reading = TRUE BY <1>5, <1>7, <1>10 DEF b
<1>12. Same(w, u, c) BY <1>5, <1>7, <1>10 DEF Same
<1> QED BY <1>5, <1>7, <1>8, <1>10, <1>11, <1>12 DEF Channel

\* connectDestroyed of a connection that is closed.
LEMMA DestroyedDoes ==
    ASSUME NEW w \in WorldType, NEW c \in Conns,
           Channel(w, c, "Disconnected", FALSE, "deleted"),
           NEW u, u = ConnectDestroyed(w, c)
    PROVE  /\ Same(w, u, c) /\ u.failed = w.failed
           /\ Channel(u, c, "Disconnected", FALSE, "new")
<1> DEFINE p == ~w.conn[c].reading /\ w.conn[c].index # "new"
<1>1. u = Remove(w, c) BY DEF ConnectDestroyed, Channel
<1>2. u = [Assert(w, p) EXCEPT !.conn[c].index = "new"] BY <1>1 DEF Remove
<1>3. p BY DEF Channel
<1>4. Assert(w, p) = w BY <1>3, AssertHolds
<1>5. u = WithIndex(w, c, "new") BY Zenon, <1>2, <1>4 DEF WithIndex
<1>6. "new" \in Indices BY DEF Indices
<1> HIDE DEF p
<1>7. /\ Same(w, u, c) /\ u.failed = w.failed /\ u.conn[c].index = "new"
      /\ u.conn[c].st = w.conn[c].st /\ u.conn[c].reading = w.conn[c].reading
    BY <1>5, <1>6, IndexSet
<1> QED BY <1>7 DEF Channel

-----------------------------------------------------------------------------
(* What a handler of c may do to the other connections *)

\* d is in u as it is in w.
Untouched(w, u, d) ==
    /\ u.conn[d] = w.conn[d]
    /\ d \in u.connSet <=> d \in w.connSet
    /\ \A l \in AllLoops, op \in Ops :
          <<op, d>> \in Waiting(u, l) <=> <<op, d>> \in Waiting(w, l)

\* c is kept by connSet_ or by its destruction.
Kept(w, c) == c \in w.connSet \/ <<"destroy", c>> \in Waiting(w, w.conn[c].loop)

NothingTwice(w) == \A l \in AllLoops : Once(w.queue[l])

Advance(w, u, c) ==
    /\ u \in WorldType
    /\ \A d \in Conns \ {c} : Untouched(w, u, d)
    /\ u.conn[c].loop = w.conn[c].loop /\ u.conn[c].fd = w.conn[c].fd
    /\ u.connSet \subseteq w.connSet /\ u.failed = w.failed
    /\ u.dead => w.dead \/ phase[w.conn[c].loop] = "ended"
    /\ NothingTwice(w) => NothingTwice(u)
    /\ \A l \in AllLoops : <<"stop", Main>> \in Waiting(u, l) => <<"stop", Main>> \in Waiting(w, l)
    /\ Kept(w, c) /\ phase[w.conn[c].loop] # "ended" => Kept(u, c)

LEMMA SameAdvances ==
    ASSUME NEW w \in WorldType, NEW c \in Conns, NEW u, Same(w, u, c),
           u.failed = w.failed
    PROVE  Advance(w, u, c) /\ \A ops : Only(u, c, ops) <=> Only(w, c, ops)
<1>1. \A l \in AllLoops : Waiting(u, l) = Waiting(w, l) BY DEF Same, Waiting
<1>2. \A d \in Conns \ {c} : Untouched(w, u, d) BY <1>1 DEF Untouched, Same
<1>3. Kept(w, c) => Kept(u, c)
    BY <1>1, ConnFields DEF Kept, Same
<1>4. NothingTwice(w) => NothingTwice(u) BY DEF NothingTwice, Same
<1>5. \A ops : Only(u, c, ops) <=> Only(w, c, ops) BY <1>1 DEF Only, Same
<1> QED BY <1>1, <1>2, <1>3, <1>4, <1>5 DEF Advance, Same

LEMMA AdvanceTwice ==
    ASSUME NEW w, NEW v, NEW u, NEW c, Advance(w, v, c), Advance(v, u, c)
    PROVE  Advance(w, u, c)
<1>1. \A d \in Conns \ {c} : Untouched(w, u, d) BY DEF Advance, Untouched
<1> QED BY <1>1 DEF Advance

\* A function more for c.
LEMMA QueuedDoes ==
    ASSUME NEW w \in WorldType, NEW c \in Conns, NEW op \in Ops, NEW l \in AllLoops,
           phase[l] # "ended", op = "forceClose" \/ <<op, c>> \notin Waiting(w, l),
           NEW u, u = QueueInLoop(w, l, <<op, c>>)
    PROVE  /\ Advance(w, u, c) /\ u.conn = w.conn /\ u.connSet = w.connSet
           /\ <<op, c>> \in Waiting(u, l) /\ u.dead = w.dead
           /\ \A m \in AllLoops : Waiting(w, m) \subseteq Waiting(u, m)
           /\ \A ops : /\ Only(w, c, ops)
                       /\ l = (IF op = "close" THEN Main ELSE w.conn[c].loop)
                       => Only(u, c, ops \cup {op})
<1> DEFINE f == <<op, c>>
<1>1. f \in Function /\ f[1] = op BY FunctionParts
<1>2. /\ u \in WorldType /\ u.conn = w.conn /\ u.connSet = w.connSet
      /\ u.failed = w.failed /\ u.dead = w.dead
      /\ u.queue[l] = Append(w.queue[l], f)
      /\ \A m \in AllLoops \ {l} : u.queue[m] = w.queue[m]
  <2>1. OneMore(w, u, l, f) BY <1>1, Queued
  <2> QED BY <2>1 DEF OneMore
<1>3. w.queue[l] \in Seq(Function) BY DEF WorldType, Queues
<1>4. /\ \A g : g \in Waiting(u, l) <=> g \in Waiting(w, l) \/ g = f
      /\ Once(w.queue[l]) /\ (f[1] \in {"forceClose", "wheel"} \/ f \notin Range(w.queue[l]))
            => Once(u.queue[l])
  <2> DEFINE q == w.queue[l]
             p == u.queue[l]
  <2>1. q \in Seq(Function) /\ f \in Function /\ p = Append(q, f) BY <1>1, <1>2, <1>3
  <2> HIDE DEF f, q, p
  <2>2. /\ \A g : g \in Range(p) <=> g \in Range(q) \/ g = f
        /\ Once(q) /\ (f[1] \in {"forceClose", "wheel"} \/ f \notin Range(q)) => Once(p)
      BY <2>1, WaitingAppend
  <2> QED BY <2>2 DEF Waiting, p, q
<1>5. \A m \in AllLoops \ {l} : Waiting(u, m) = Waiting(w, m) BY <1>2 DEF Waiting
<1>6. \A m \in AllLoops : \A g : g \in Waiting(u, m) <=> g \in Waiting(w, m) \/ (m = l /\ g = f)
    BY <1>4, <1>5
<1>7. ASSUME NothingTwice(w) PROVE NothingTwice(u)
  <2>1. Once(u.queue[l]) BY <1>1, <1>4, <1>7 DEF NothingTwice, Waiting
  <2> QED BY <1>2, <1>7, <2>1 DEF NothingTwice
<1>8. ASSUME NEW d \in Conns \ {c} PROVE Untouched(w, u, d)
  <2>1. \A o \in Ops : <<o, d>> # f OBVIOUS
  <2> HIDE DEF f
  <2> QED BY <1>2, <1>6, <2>1 DEF Untouched
<1>9. <<"stop", Main>> # f BY FunctionParts
<1>10. ASSUME NEW ops, Only(w, c, ops), l = (IF op = "close" THEN Main ELSE w.conn[c].loop)
       PROVE  Only(u, c, ops \cup {op})
  <2>1. SUFFICES ASSUME NEW m \in AllLoops, NEW o \in Ops, <<o, c>> \in Waiting(u, m)
                 PROVE  o \in ops \cup {op} /\ m = (IF o = "close" THEN Main ELSE w.conn[c].loop)
      BY <1>2 DEF Only
  <2>2. CASE <<o, c>> \in Waiting(w, m) BY <1>10, <2>2 DEF Only
  <2>3. CASE m = l /\ <<o, c>> = f BY <1>10, <2>3
  <2> QED BY <1>6, <2>1, <2>2, <2>3
<1> HIDE DEF f
<1>11. Kept(w, c) => Kept(u, c) BY <1>2, <1>6, ConnFields DEF Kept
<1>12. \A m \in AllLoops : <<"stop", Main>> \in Waiting(u, m) => <<"stop", Main>> \in Waiting(w, m)
    BY <1>6, <1>9
<1>13. f \in Waiting(u, l) BY <1>4
<1>14. Advance(w, u, c) BY <1>2, <1>7, <1>8, <1>11, <1>12 DEF Advance
<1>15. \A m \in AllLoops : Waiting(w, m) \subseteq Waiting(u, m) BY <1>6
<1> QED BY <1>2, <1>10, <1>13, <1>14, <1>15 DEF f

\* A function for a loop that has ended.
LEMMA QueuedDeadDoes ==
    ASSUME NEW w \in WorldType, NEW c \in Conns, NEW f, phase[w.conn[c].loop] = "ended",
           NEW u, u = QueueInLoop(w, w.conn[c].loop, f)
    PROVE  /\ Advance(w, u, c) /\ u.conn = w.conn /\ u.connSet = w.connSet
           /\ u.queue = w.queue /\ \A ops : Only(u, c, ops) <=> Only(w, c, ops)
<1>1. w.conn[c].loop \in AllLoops BY ConnFields
<1>2. /\ u \in WorldType /\ u.conn = w.conn /\ u.connSet = w.connSet
      /\ u.failed = w.failed /\ u.queue = w.queue
    BY <1>1, QueuedDead
<1>3. \A l \in AllLoops : Waiting(u, l) = Waiting(w, l) BY <1>2 DEF Waiting
<1>4. \A d \in Conns \ {c} : Untouched(w, u, d) BY <1>2, <1>3 DEF Untouched
<1>5. NothingTwice(w) => NothingTwice(u) BY <1>2 DEF NothingTwice
<1>6. \A ops : Only(u, c, ops) <=> Only(w, c, ops) BY <1>2, <1>3 DEF Only
<1> QED BY <1>2, <1>3, <1>4, <1>5, <1>6 DEF Advance
-----------------------------------------------------------------------------
(* The handlers take a connection from one stage to the next *)

LEMMA HandleCloseInLoopDoes ==
    ASSUME NEW w \in WorldType, NEW c \in Conns,
           Channel(w, c, "Disconnected", FALSE, "deleted"), c \in w.connSet,
           Only(w, c, {"forceClose"}),
           NEW u, u = HandleCloseInLoop(w, c)
    PROVE  Advance(w, u, c) /\ Leaving(u, phase, c)
<1> DEFINE p == c \in w.connSet
           v == [w EXCEPT !.connSet = @ \ {c}]
           l == w.conn[c].loop
<1>1. Assert(w, p) = w BY AssertHolds
<1>2. /\ v \in WorldType /\ v.connSet = w.connSet \ {c} /\ v.conn = w.conn
      /\ v.queue = w.queue /\ v.failed = w.failed /\ v.dead = w.dead
    BY ConnSetLess
<1>3. u = QueueInLoop([Assert(w, p) EXCEPT !.connSet = @ \ {c}],
                      [Assert(w, p) EXCEPT !.connSet = @ \ {c}].conn[c].loop, <<"destroy", c>>)
    BY DEF HandleCloseInLoop
<1>4. u = QueueInLoop(v, l, <<"destroy", c>>) BY <1>1, <1>2, <1>3
<1> HIDE DEF v, p
<1>5. l \in AllLoops /\ v.conn[c].loop = l /\ "destroy" \in Ops BY <1>2, ConnFields DEF Ops
<1>6. \A m \in AllLoops : Waiting(v, m) = Waiting(w, m) BY <1>2 DEF Waiting
<1>7. Only(v, c, {"forceClose"}) BY <1>2, <1>6 DEF Only
<1>8. <<"destroy", c>> \notin Waiting(v, l) BY <1>5, <1>7 DEF Only
<1>9. /\ Advance(v, u, c) /\ u.conn = v.conn /\ u.connSet = v.connSet
      /\ Comes(u, phase, "destroy", c) /\ Only(u, c, {"destroy", "forceClose"})
  <2> HIDE DEF l
  <2>1. CASE phase[l] = "ended"
    <3>0. u = QueueInLoop(v, v.conn[c].loop, <<"destroy", c>>) /\ phase[v.conn[c].loop] = "ended"
        BY <1>4, <1>5, <2>1
    <3>1. /\ Advance(v, u, c) /\ u.conn = v.conn /\ u.connSet = v.connSet
          /\ Only(u, c, {"forceClose"})
        BY <1>2, <1>7, <3>0, QueuedDeadDoes
    <3> QED BY <1>5, <2>1, <3>1 DEF Comes, Only
  <2>2. CASE phase[l] # "ended"
    <3>1. /\ Advance(v, u, c) /\ u.conn = v.conn /\ u.connSet = v.connSet
          /\ <<"destroy", c>> \in Waiting(u, l) /\ Only(u, c, {"forceClose"} \cup {"destroy"})
        BY <1>2, <1>4, <1>5, <1>7, <1>8, <2>2, QueuedDoes
    <3>2. Only(u, c, {"destroy", "forceClose"}) BY <3>1 DEF Only
    <3> QED BY <1>5, <3>1, <3>2 DEF Comes
  <2> QED BY <2>1, <2>2
<1>10. Leaving(u, phase, c) BY <1>2, <1>9 DEF Leaving, Channel
<1>11. \A d \in Conns \ {c} : Untouched(w, u, d) BY <1>2, <1>6, <1>9 DEF Untouched, Advance
<1>12. phase[l] # "ended" => Kept(u, c) BY <1>2, <1>9 DEF Comes, Kept
<1>13. NothingTwice(w) => NothingTwice(u) BY <1>2, <1>9 DEF Advance, NothingTwice
<1>14. \A m \in AllLoops : <<"stop", Main>> \in Waiting(u, m) => <<"stop", Main>> \in Waiting(w, m)
    BY <1>6, <1>9 DEF Advance
<1>15. u.conn[c] = w.conn[c] BY <1>2, <1>9
<1>16. u.dead => w.dead \/ phase[l] = "ended" BY <1>2, <1>5, <1>9 DEF Advance
<1>17. Advance(w, u, c)
    BY <1>2, <1>9, <1>11, <1>12, <1>13, <1>14, <1>15, <1>16 DEF Advance
<1> QED BY <1>10, <1>17

LEMMA HandleCloseDoes ==
    ASSUME NEW w \in WorldType, NEW c \in Conns, Open(w, c),
           phase[w.conn[c].loop] # "ended", phase[Main] # "ended",
           NEW u, u = HandleClose(w, c)
    PROVE  /\ Advance(w, u, c) /\ (Reported(u, c) \/ Leaving(u, phase, c))
           /\ w.conn[c].loop # Main => u.connSet = w.connSet
<1> DEFINE x == WithStatus(w, c, "Disconnected")
           v == DisableAll(x, c)
<1>1. u = ConnectionClosed(v, c) BY DEF HandleClose, WithStatus
<1>2. "Disconnected" \in Statuses BY DEF Statuses
<1>3. /\ Same(w, x, c) /\ x.failed = w.failed
      /\ x.conn[c].st = "Disconnected" /\ x.conn[c].index = w.conn[c].index
    BY <1>2, StatusSet
<1> HIDE DEF x
<1>4. x \in WorldType /\ x.conn[c].index = "added" BY <1>3 DEF Same, Open, Channel
<1>5. Same(x, v, c) /\ v.failed = x.failed /\ Channel(v, c, "Disconnected", FALSE, "deleted")
    BY <1>3, <1>4, AllDisabled
<1> HIDE DEF v
<1>6. Same(w, v, c) /\ v.failed = w.failed BY <1>3, <1>5 DEF Same
<1>8. Advance(w, v, c) /\ Only(v, c, {"forceClose"}) BY <1>6, SameAdvances DEF Open
<1>9. v \in WorldType /\ c \in v.connSet /\ v.conn[c].loop = w.conn[c].loop
    BY <1>6 DEF Same, Open
<1>10. CASE w.conn[c].loop = Main
  <2>1. u = HandleCloseInLoop(v, c) BY <1>1, <1>9, <1>10 DEF ConnectionClosed
  <2>2. Advance(v, u, c) /\ Leaving(u, phase, c)
      BY <1>5, <1>8, <1>9, <2>1, HandleCloseInLoopDoes
  <2> QED BY <1>8, <1>10, <2>2, AdvanceTwice
<1>11. CASE w.conn[c].loop # Main
  <2>1. u = QueueInLoop(v, Main, <<"close", c>>) BY <1>1, <1>9, <1>11 DEF ConnectionClosed
  <2>2. Main \in AllLoops /\ "close" \in Ops BY DEF AllLoops, Ops
  <2>3. <<"close", c>> \notin Waiting(v, Main) BY <1>8, <2>2 DEF Only
  <2>4. /\ Advance(v, u, c) /\ u.conn = v.conn /\ u.connSet = v.connSet
        /\ <<"close", c>> \in Waiting(u, Main) /\ Only(u, c, {"forceClose"} \cup {"close"})
      BY <1>8, <1>9, <2>1, <2>2, <2>3, QueuedDoes
  <2>5. Only(u, c, {"close", "forceClose"}) BY <2>4 DEF Only
  <2>6. Reported(u, c) BY <1>5, <1>9, <1>11, <2>4, <2>5 DEF Reported, Channel
  <2>7. u.connSet = w.connSet BY <1>6, <2>4 DEF Same
  <2> QED BY <1>8, <2>4, <2>6, <2>7, AdvanceTwice
<1> QED BY <1>10, <1>11

LEMMA Stays ==
    ASSUME NEW w \in WorldType, NEW c \in Conns
    PROVE  Advance(w, w, c)
<1>1. Same(w, w, c) BY DEF Same
<1> QED BY <1>1, SameAdvances

LEMMA ForceCloseInLoopDoes ==
    ASSUME NEW w \in WorldType, NEW c \in Conns, InStage(w, phase, c),
           phase[w.conn[c].loop] # "ended", phase[Main] # "ended",
           NEW u, u = ForceCloseInLoop(w, c)
    PROVE  /\ Advance(w, u, c) /\ InStage(u, phase, c)
           /\ w.conn[c].loop # Main => u.connSet = w.connSet
<1>1. CASE w.conn[c].st = "Connected"
  <2>1. Open(w, c)
      BY <1>1 DEF InStage, Unused, Opening, Reported, Leaving, Removed, Channel
  <2>2. u = HandleClose(w, c) BY <1>1 DEF ForceCloseInLoop
  <2> QED BY <2>1, <2>2, HandleCloseDoes DEF InStage
<1>2. CASE w.conn[c].st # "Connected" BY <1>2, Stays DEF ForceCloseInLoop
<1> QED BY <1>1, <1>2

LEMMA ForceCloseDoes ==
    ASSUME NEW w \in WorldType, NEW c \in Conns, InStage(w, phase, c),
           w.conn[c].st # "None", NEW l,
           w.conn[c].loop = l => phase[l] # "ended", phase[Main] # "ended",
           NEW u, u = ForceClose(w, l, c)
    PROVE  Advance(w, u, c) /\ InStage(u, phase, c)
<1> DEFINE m == w.conn[c].loop
<1>1. CASE m = l BY <1>1, ForceCloseInLoopDoes DEF ForceClose
<1>2. CASE m # l
  <2>1. u = QueueInLoop(w, m, <<"forceClose", c>>) BY <1>2 DEF ForceClose
  <2>2. m \in AllLoops /\ "forceClose" \in Ops BY ConnFields DEF Ops
  <2>3. CASE phase[m] = "ended"
    <3>1. /\ Advance(w, u, c) /\ u.conn = w.conn /\ u.connSet = w.connSet
          /\ u.queue = w.queue /\ \A ops : Only(u, c, ops) <=> Only(w, c, ops)
        BY <2>1, <2>3, QueuedDeadDoes
    <3>2. \A k \in AllLoops : Waiting(u, k) = Waiting(w, k) BY <3>1 DEF Waiting
    <3>3. Main \in AllLoops BY DEF AllLoops
    <3>4. InStage(u, phase, c)
        BY <2>2, <3>1, <3>2, <3>3
        DEF InStage, Unused, Opening, Open, Reported, Leaving, Removed, Channel, Comes
    <3> QED BY <3>1, <3>4
  <2>4. CASE phase[m] # "ended"
    <3>1. /\ Advance(w, u, c) /\ u.conn = w.conn /\ u.connSet = w.connSet
          /\ \A ops : Only(w, c, ops) => Only(u, c, ops \cup {"forceClose"})
          /\ \A k \in AllLoops : Waiting(w, k) \subseteq Waiting(u, k)
        BY <2>1, <2>2, <2>4, QueuedDoes
    <3>2. \A ops : "forceClose" \in ops /\ Only(w, c, ops) => Only(u, c, ops)
        BY <3>1 DEF Only
    <3>3. Main \in AllLoops BY DEF AllLoops
    <3>4. ~Unused(w, c) BY DEF Unused, Channel
    <3>5. InStage(u, phase, c)
        BY <2>2, <3>1, <3>2, <3>3, <3>4
        DEF InStage, Opening, Open, Reported, Leaving, Removed, Channel, Comes
    <3> QED BY <3>1, <3>5
  <2> QED BY <2>3, <2>4
<1> QED BY <1>1, <1>2
-----------------------------------------------------------------------------
(* Sane worlds *)

LEMMA UntouchedInStage ==
    ASSUME NEW w \in WorldType, NEW u, NEW ph, NEW d \in Conns, Untouched(w, u, d),
           InStage(w, ph, d)
    PROVE  InStage(u, ph, d)
<1>1. w.conn[d].loop \in AllLoops /\ Main \in AllLoops /\ {"established", "close", "destroy"} \subseteq Ops
    BY ConnFields DEF AllLoops, Ops
<1>2. \A ops : Only(w, d, ops) => Only(u, d, ops) BY DEF Untouched, Only
<1>3. \A st, r, i : Channel(w, d, st, r, i) => Channel(u, d, st, r, i)
    BY DEF Untouched, Channel
<1>4. \A op \in {"established", "destroy"} : Comes(w, ph, op, d) => Comes(u, ph, op, d)
    BY <1>1 DEF Untouched, Comes
<1>5. <<"close", d>> \in Waiting(w, Main) => <<"close", d>> \in Waiting(u, Main)
    BY <1>1 DEF Untouched
<1>6. u.conn[d].loop = w.conn[d].loop /\ (d \in u.connSet <=> d \in w.connSet)
    BY DEF Untouched
<1>7. Unused(w, d) => Unused(u, d) BY <1>2, <1>3, <1>6 DEF Unused
<1>8. Opening(w, ph, d) => Opening(u, ph, d) BY <1>2, <1>3, <1>4, <1>6 DEF Opening
<1>9. Open(w, d) => Open(u, d) BY <1>2, <1>3, <1>6 DEF Open
<1>10. Reported(w, d) => Reported(u, d) BY <1>2, <1>3, <1>5, <1>6 DEF Reported
<1>11. Leaving(w, ph, d) => Leaving(u, ph, d) BY <1>2, <1>3, <1>4, <1>6 DEF Leaving
<1>12. Removed(w, d) => Removed(u, d) BY <1>2, <1>3, <1>6 DEF Removed
<1> QED BY <1>7, <1>8, <1>9, <1>10, <1>11, <1>12 DEF InStage

\* Nobody else has c's descriptor.
FdFree(w, c) == \A d \in Conns \ {c} : Referred(w, d) => w.conn[d].fd # w.conn[c].fd

LEMMA AdvanceSane ==
    ASSUME NEW w \in WorldType, NEW c \in Conns, NothingTwice(w), FdsDiffer(w), FdFree(w, c),
           \A d \in Conns \ {c} : InStage(w, phase, d),
           NEW u, Advance(w, u, c), InStage(u, phase, c)
    PROVE  Sane(u, phase)
<1>1. ASSUME NEW d \in Conns PROVE InStage(u, phase, d)
  <2>1. CASE d # c
    <3>1. Untouched(w, u, d) BY <2>1 DEF Advance
    <3> QED BY <2>1, <3>1, UntouchedInStage
  <2> QED BY <2>1
<1>2. ASSUME NEW d \in Conns \ {c}, Referred(u, d)
      PROVE  Referred(w, d) /\ u.conn[d].fd = w.conn[d].fd
  <2>1. Untouched(w, u, d) BY DEF Advance
  <2> QED BY <1>2, <2>1 DEF Untouched, Referred
<1>3. u.conn[c].fd = w.conn[c].fd BY DEF Advance
<1>4. FdsDiffer(u)
  <2> SUFFICES ASSUME NEW d \in Conns, NEW e \in Conns, d # e, Referred(u, d), Referred(u, e)
               PROVE  u.conn[d].fd # u.conn[e].fd
      BY DEF FdsDiffer
  <2>1. CASE d # c /\ e # c BY <1>2, <2>1 DEF FdsDiffer
  <2>2. CASE d = c BY <1>2, <1>3, <2>2 DEF FdFree
  <2>3. CASE e = c BY <1>2, <1>3, <2>3 DEF FdFree
  <2> QED BY <2>1, <2>2, <2>3
<1>5. \A l \in AllLoops : Once(u.queue[l]) BY DEF Advance, NothingTwice
<1> QED BY <1>1, <1>4, <1>5 DEF Sane

-----------------------------------------------------------------------------
(* The state and its world *)

Typed ==
    /\ conn \in ConnTables /\ connSet \in ConnSets /\ queue \in Queues
    /\ failed \in Flags /\ dead \in Flags

LEMMA WorldFacts ==
    /\ World.conn = conn /\ World.connSet = connSet /\ World.queue = queue
    /\ World.failed = failed /\ World.dead = dead
    /\ Typed => World \in WorldType
    /\ TypeOK => Typed
<1>1. Typed => World \in WorldType BY DEF World, WorldType, Typed
<1>2. TypeOK => Typed BY DEF TypeOK, Typed, ConnTables, ConnSets, Queues, Flags
<1> QED BY <1>1, <1>2 DEF World

LEMMA Became ==
    ASSUME NEW u \in WorldType, Becomes(u)
    PROVE  World' = u /\ Typed'
<1>1. u = [conn |-> u.conn, connSet |-> u.connSet, queue |-> u.queue,
           failed |-> u.failed, dead |-> u.dead]
    BY DEF WorldType
<1>2. World' = u BY <1>1 DEF Becomes, World
<1>3. Typed' BY DEF Becomes, Typed, WorldType
<1> QED BY <1>2, <1>3

\* v is the world of the state, with the head of a queue taken where it is c's.
Taken(v, c) ==
    /\ v \in WorldType /\ v.conn = conn /\ v.connSet = connSet
    /\ v.failed = failed /\ v.dead = dead /\ NothingTwice(v)
    /\ \A l \in AllLoops : Waiting(v, l) \subseteq Waiting(World, l)
    /\ \A d \in Conns \ {c} : Untouched(World, v, d)
    /\ \A l \in AllLoops : phase[l] = "active" => Waiting(v, l) = Waiting(World, l)
    /\ FdsDiffer(v) /\ FdFree(v, c)
    /\ \A d \in Conns \ {c} : InStage(v, phase, d)

LEMMA NothingTaken ==
    ASSUME IInv, NEW c \in Conns, Referred(World, c)
    PROVE  Taken(World, c) /\ InStage(World, phase, c)
<1>1. World \in WorldType BY WorldFacts DEF IInv
<1>2. \A d \in Conns : Untouched(World, World, d) BY DEF Untouched
<1>3. FdsDiffer(World) /\ NothingTwice(World) /\ \A d \in Conns : InStage(World, phase, d)
    BY DEF IInv, Sane, NothingTwice
<1>4. FdFree(World, c) BY <1>3 DEF FdsDiffer, FdFree
<1> QED BY <1>1, <1>2, <1>3, <1>4, WorldFacts DEF Taken

\* Function f of c is taken from the queue of l.
LEMMA HeadTaken ==
    ASSUME IInv, NEW l \in AllLoops, phase[l] = "funcs", queue[l] # <<>>,
           NEW c \in Conns, NEW op \in Ops, queue[l][1] = <<op, c>>,
           NEW v, v = [World EXCEPT !.queue[l] = Tail(@)]
    PROVE  /\ Taken(v, c) /\ <<op, c>> \in Waiting(World, l) /\ InStage(World, phase, c)
           /\ op # "forceClose" => <<op, c>> \notin Waiting(v, l)
           /\ \A m \in AllLoops : \A f : f \in Waiting(World, m) => f \in Waiting(v, m) \/ (m = l /\ f = <<op, c>>)
<1> DEFINE q == queue[l]
           p == Tail(q)
           t == [queue EXCEPT ![l] = p]
           g == <<op, c>>
<1>1. World \in WorldType /\ queue \in Queues /\ conn \in ConnTables
    BY WorldFacts DEF IInv, Typed
<1>2. q \in Seq(Function) BY <1>1 DEF Queues
<1>3. FdsDiffer(World) /\ NothingTwice(World) /\ \A d \in Conns : InStage(World, phase, d)
    BY DEF IInv, Sane, NothingTwice
<1>4. Once(q) BY <1>3, WorldFacts DEF NothingTwice
<1>5. q # <<>> /\ p = Tail(q) /\ q[1] = g OBVIOUS
<1> HIDE DEF p, q, g
<1>6. /\ p \in Seq(Function)
      /\ \A f : f \in Range(q) <=> f \in Range(p) \/ f = g
      /\ Once(p) /\ (g[1] \notin {"forceClose", "wheel"} => g \notin Range(p))
    BY <1>5, <1>2, <1>4, WaitingTail
<1> USE DEF p, q, g
<1>7. g[1] = op /\ op # "wheel" /\ \A d \in Conns \ {c} : \A o \in Ops : <<o, d>> # g
    BY DEF Ops
<1>8. v = [World EXCEPT !.queue = t] BY WorldFacts
<1>9. t \in Queues /\ t[l] = p /\ \A m \in AllLoops \ {l} : t[m] = queue[m]
    BY <1>1, <1>6 DEF Queues
<1> HIDE DEF p, t, g
<1>10. /\ v \in WorldType /\ v.conn = conn /\ v.connSet = connSet /\ v.queue = t
      /\ v.failed = failed /\ v.dead = dead
    BY <1>1, <1>8, <1>9, WorldFacts DEF WorldType
<1>11. \A m \in AllLoops \ {l} : Waiting(v, m) = Waiting(World, m)
    BY <1>9, <1>10, WorldFacts DEF Waiting
<1>12. \A f : f \in Waiting(World, l) <=> f \in Waiting(v, l) \/ f = g
    BY <1>6, <1>9, <1>10, WorldFacts DEF Waiting
<1>13. ASSUME NEW d \in Conns \ {c} PROVE Untouched(World, v, d)
    BY <1>7, <1>10, <1>11, <1>12, WorldFacts DEF Untouched
<1>14. NothingTwice(v) BY <1>3, <1>6, <1>9, <1>10, WorldFacts DEF NothingTwice
<1>15. ASSUME NEW d \in Conns \ {c} PROVE InStage(v, phase, d)
    BY <1>1, <1>3, <1>13, UntouchedInStage
<1>16. \A m \in AllLoops : Waiting(v, m) \subseteq Waiting(World, m) BY <1>11, <1>12
<1>17. Referred(World, c) BY <1>12 DEF Referred, g
<1>18. \A d \in Conns : Referred(v, d) => Referred(World, d)
    BY <1>10, <1>16, WorldFacts DEF Referred
<1>19. FdsDiffer(v) /\ FdFree(v, c)
  <2>1. \A d, e \in Conns : d # e /\ Referred(World, d) /\ Referred(World, e) =>
            v.conn[d].fd # v.conn[e].fd
      BY <1>3, <1>10, WorldFacts DEF FdsDiffer
  <2>2. FdsDiffer(v) BY <1>18, <2>1 DEF FdsDiffer
  <2>3. FdFree(v, c) BY <1>17, <1>18, <2>1 DEF FdFree
  <2> QED BY <2>2, <2>3
<1>20. \A m \in AllLoops : phase[m] = "active" => Waiting(v, m) = Waiting(World, m)
    BY <1>11
<1>21. Taken(v, c) BY <1>10, <1>13, <1>14, <1>15, <1>16, <1>19, <1>20 DEF Taken
<1>22. op # "forceClose" => g \notin Waiting(v, l) BY <1>6, <1>7, <1>9, <1>10 DEF Waiting
<1> QED BY <1>3, <1>11, <1>12, <1>21, <1>22 DEF g

\* What a handler of c leaves of the invariant.
LEMMA WorldStep ==
    ASSUME IInv, NEW c \in Conns, NEW v, Taken(v, c), NEW u, Advance(v, u, c),
           InStage(u, phase, c), Becomes(u), phase' = phase,
           \A l \in AllLoops : active'[l] \subseteq active[l]
    PROVE  /\ Typed' /\ ~failed'
           /\ Sane(World, phase)'
           /\ (\A l \in AllLoops : ActiveOK(World, phase, active, l))'
           /\ connSet' \subseteq connSet
           /\ dead' => dead \/ phase[conn[c].loop] = "ended"
           /\ \A l \in AllLoops :
                 <<"stop", Main>> \in Range(queue'[l]) => <<"stop", Main>> \in Range(queue[l])
<1>1. u \in WorldType /\ World' = u /\ Typed' BY Became DEF Advance
<1>2. /\ conn' = u.conn /\ connSet' = u.connSet /\ queue' = u.queue
      /\ failed' = u.failed /\ dead' = u.dead
    BY DEF Becomes
<1>3. Sane(u, phase) BY AdvanceSane DEF Taken
<1>4. Sane(World, phase)' BY <1>1, <1>3
<1>5. ~failed' BY <1>2 DEF Taken, Advance, IInv
<1>6. connSet' \subseteq connSet BY <1>2 DEF Taken, Advance
<1>8. dead' => dead \/ phase[conn[c].loop] = "ended" BY <1>2 DEF Taken, Advance
<1>9. ASSUME NEW l \in AllLoops, <<"stop", Main>> \in Range(queue'[l])
      PROVE  <<"stop", Main>> \in Range(queue[l])
  <2>1. <<"stop", Main>> \in Waiting(u, l) BY <1>2, <1>9 DEF Waiting
  <2>2. <<"stop", Main>> \in Waiting(World, l) BY <2>1 DEF Taken, Advance
  <2> QED BY <2>2, WorldFacts DEF Waiting
<1>10. ASSUME NEW l \in AllLoops PROVE ActiveOK(u, phase', active', l)
  <2>1. active'[l] # {} => phase'[l] = "active" BY DEF IInv, ActiveOK
  <2>2. ASSUME NEW d \in active'[l] \ {Listener}
        PROVE  u.conn[d].loop = l /\ (d \in u.connSet \/ <<"destroy", d>> \in Waiting(u, l))
    <3>1. d \in Conns /\ d \in active[l] \ {Listener} /\ phase[l] = "active"
        BY <2>1 DEF IInv, TypeOK
    <3>2. conn[d].loop = l /\ (d \in connSet \/ <<"destroy", d>> \in Waiting(World, l))
        BY <3>1, WorldFacts DEF IInv, ActiveOK
    <3>3. CASE d = c
      <4>1. Waiting(v, l) = Waiting(World, l) /\ v.conn[c].loop = l BY <3>1, <3>2, <3>3 DEF Taken
      <4>2. Kept(v, c) /\ phase[v.conn[c].loop] # "ended" BY <3>1, <3>2, <3>3, <4>1 DEF Kept, Taken
      <4> QED BY <3>3, <4>1, <4>2 DEF Advance, Kept
    <3>4. CASE d # c
      <4>1. Untouched(World, v, d) /\ Untouched(v, u, d) BY <3>1, <3>4 DEF Taken, Advance
      <4>2. "destroy" \in Ops BY DEF Ops
      <4> QED BY <3>2, <4>1, <4>2, WorldFacts DEF Untouched
    <3> QED BY <3>3, <3>4
  <2> QED BY <2>1, <2>2 DEF ActiveOK
<1> QED BY <1>1, <1>4, <1>5, <1>6, <1>8, <1>9, <1>10

-----------------------------------------------------------------------------
(* The invariant holds at first *)

LEMMA AllLoopsFacts ==
    /\ Main \in AllLoops
    /\ setup \in Setups => IoLoops \subseteq AllLoops /\ (setup.own => Main \notin IoLoops)
    /\ setup \in Setups => /\ Len(setup.loops) \in Nat /\ Len(setup.loops) >= 1
                           /\ \A i \in 1..Len(setup.loops) : setup.loops[i] \in AllLoops
<1>1. Main \in AllLoops BY DEF AllLoops
<1>2. ASSUME setup \in Setups
      PROVE  /\ IoLoops \subseteq AllLoops /\ (setup.own => Main \notin IoLoops)
             /\ Len(setup.loops) \in Nat /\ Len(setup.loops) >= 1
             /\ \A i \in 1..Len(setup.loops) : setup.loops[i] \in AllLoops
  <2> DEFINE s == setup.loops
             R == Range(s)
  <2>1. s \in Seq(R) /\ s # <<>> /\ (setup.own => Main \notin R)
      BY <1>2, ServerAssumption
  <2>2. R \subseteq AllLoops BY <1>2 DEF AllLoops
  <2> HIDE DEF s, R
  <2>3. Len(s) \in Nat /\ Len(s) >= 1 /\ \A i \in 1..Len(s) : s[i] \in R BY <2>1
  <2> QED BY <2>1, <2>2, <2>3 DEF s, R, IoLoops
<1> QED BY <1>1, <1>2

\* The loops that have ended are stop()'s doing, and the server's is none.
LEMMA EndedFacts ==
    ASSUME IInv, NEW l \in AllLoops, phase[l] = "ended"
    PROVE  l \in quit /\ l # Main /\ setup.own /\ Stopping /\ spc # "closing"
BY AllLoopsFacts DEF IInv, StopOK, Ended, TypeOK

LEMMA InitInv == Init => IInv
<1> SUFFICES ASSUME Init PROVE IInv OBVIOUS
<1>1. ASSUME NEW c \in Conns
      PROVE  /\ conn[c] \in ConnType /\ Channel(World, c, "None", FALSE, "new")
  <2> DEFINE f == CHOOSE x \in Fds : TRUE
             K == [st : {"None"}, loop : {Main}, fd : {f}, reading : {FALSE}, index : {"new"}]
  <2>1. f \in Fds BY ServerAssumption
  <2>2. conn[c] \in K BY DEF Init
  <2> HIDE DEF f
  <2>3. conn[c].reading \in {FALSE} /\ conn[c].st = "None" /\ conn[c].index = "new"
      BY <2>2
  <2>4. K \subseteq ConnType BY <2>1, AllLoopsFacts DEF ConnType
  <2> QED BY <2>2, <2>3, <2>4, WorldFacts DEF Channel
<1>2. TypeOK
  <2>1. setup \in Setups /\ 1 \in 1..Len(setup.loops) BY AllLoopsFacts DEF Init
  <2>2. conn \in [Conns -> ConnType] BY <1>1 DEF Init
  <2>3. queue \in [AllLoops -> Seq(Function)] BY DEF Init
  <2> QED BY <2>1, <2>2, <2>3 DEF Init, TypeOK
<1>3. \A l \in AllLoops : \A f : f \notin Waiting(World, l)
    BY WorldFacts DEF Init, Waiting, Range
<1>4. Sane(World, phase)
  <2>1. ASSUME NEW c \in Conns PROVE InStage(World, phase, c)
      BY <1>1, <1>3, WorldFacts DEF InStage, Unused, Only, Init
  <2>2. \A l \in AllLoops : Once(World.queue[l]) BY WorldFacts DEF Once, Init
  <2>3. FdsDiffer(World) BY <1>3, WorldFacts DEF FdsDiffer, Referred, Init
  <2> QED BY <2>1, <2>2, <2>3 DEF Sane
<1>5. \A l \in AllLoops : ActiveOK(World, phase, active, l) BY DEF ActiveOK, Init
<1>6. StopOK BY <1>3, WorldFacts DEF StopOK, Stopping, Init, Ended, Waiting
<1> QED BY <1>2, <1>4, <1>5, <1>6 DEF IInv, NothingDeadIsUsed, Init
-----------------------------------------------------------------------------
(* Steps that leave the connections alone *)

\* The functions of connections that wait in loop l stay, and an ended loop too.
SameWork(l) ==
    /\ phase[l] = "ended" => phase'[l] = "ended"
    /\ \A op \in Ops, c \in Conns : <<op, c>> \in Range(queue'[l]) <=> <<op, c>> \in Range(queue[l])

\* Loop l has ended, and its functions were destroyed.
WorkGone(l) ==
    l # Main /\ phase'[l] = "ended"
    /\ \A op \in Ops, c \in Conns : <<op, c>> \notin Range(queue'[l])

\* The loop goes on with its active channels, or has none.
SameActive(l) ==
    active'[l] = {} \/ (active'[l] \subseteq active[l] /\ phase'[l] = phase[l] /\ SameWork(l))

QuietStep ==
    /\ conn' = conn /\ connSet' = connSet /\ failed' = failed
    /\ queue' \in Queues /\ dead' \in Flags
    /\ \A l \in AllLoops : Once(queue'[l]) /\ (SameWork(l) \/ WorkGone(l))

LEMMA QuietSane ==
    ASSUME IInv, QuietStep
    PROVE  Typed' /\ ~failed' /\ Sane(World, phase)'
<1> DEFINE w == World
           u == World'
<1>1. Typed /\ Typed' BY WorldFacts DEF IInv, QuietStep, Typed
<1>2. /\ u.conn = conn /\ u.connSet = connSet /\ u.queue = queue'
      /\ w.conn = conn /\ w.connSet = connSet /\ w.queue = queue
    BY WorldFacts DEF QuietStep, World
<1>3. w \in WorldType BY <1>1, WorldFacts
<1>4. \A c \in Conns : InStage(w, phase, c) /\ w.conn[c].loop \in AllLoops
    BY <1>3, ConnFields DEF IInv, Sane
<1>5. FdsDiffer(w) BY DEF IInv, Sane
<1>6. ~failed' BY DEF QuietStep, IInv
<1> HIDE DEF w, u
<1>7. \A l \in AllLoops : \A op \in Ops, c \in Conns :
         <<op, c>> \in Waiting(u, l) => <<op, c>> \in Waiting(w, l)
    BY <1>2 DEF QuietStep, SameWork, WorkGone, Waiting
<1>8. ASSUME NEW c \in Conns PROVE InStage(u, phase', c)
  <2>1. /\ {"established", "destroy", "close"} \subseteq Ops /\ Main \in AllLoops
        /\ w.conn[c].loop \in AllLoops
      BY <1>4, AllLoopsFacts DEF Ops
  <2>2. \A ops : Only(w, c, ops) => Only(u, c, ops) BY <1>2, <1>7 DEF Only
  <2>3. \A st, r, i : Channel(w, c, st, r, i) => Channel(u, c, st, r, i) BY <1>2 DEF Channel
  <2>4. \A op \in {"established", "destroy"} : Comes(w, phase, op, c) => Comes(u, phase', op, c)
    <3> SUFFICES ASSUME NEW op \in {"established", "destroy"}, Comes(w, phase, op, c)
                 PROVE  Comes(u, phase', op, c)
        OBVIOUS
    <3>1. CASE SameWork(w.conn[c].loop)
        BY <1>2, <2>1, <3>1 DEF SameWork, Comes, Waiting
    <3>2. CASE WorkGone(w.conn[c].loop) BY <1>2, <3>2 DEF WorkGone, Comes
    <3> QED BY <2>1, <3>1, <3>2 DEF QuietStep
  <2>5. <<"close", c>> \in Waiting(w, Main) => <<"close", c>> \in Waiting(u, Main)
      BY <1>2, <2>1 DEF QuietStep, SameWork, WorkGone, Waiting
  <2>6. Unused(w, c) => Unused(u, c) BY <1>2, <2>2, <2>3 DEF Unused
  <2>7. Opening(w, phase, c) => Opening(u, phase', c) BY <1>2, <2>2, <2>3, <2>4 DEF Opening
  <2>8. Open(w, c) => Open(u, c) BY <1>2, <2>2, <2>3 DEF Open
  <2>9. Reported(w, c) => Reported(u, c) BY <1>2, <2>2, <2>3, <2>5 DEF Reported
  <2>10. Leaving(w, phase, c) => Leaving(u, phase', c) BY <1>2, <2>2, <2>3, <2>4 DEF Leaving
  <2>11. Removed(w, c) => Removed(u, c) BY <1>2, <2>2, <2>3 DEF Removed
  <2> QED BY <1>4, <2>6, <2>7, <2>8, <2>9, <2>10, <2>11 DEF InStage
<1>9. FdsDiffer(u) BY <1>2, <1>5, <1>7 DEF FdsDiffer, Referred
<1>10. \A l \in AllLoops : Once(u.queue[l]) BY <1>2 DEF QuietStep
<1>11. Sane(u, phase') BY <1>8, <1>9, <1>10 DEF Sane
<1>12. Sane(World, phase)' BY <1>11 DEF u
<1> QED BY <1>1, <1>6, <1>12

LEMMA QuietActive ==
    ASSUME IInv, QuietStep, \A l \in AllLoops : SameActive(l)
    PROVE  (\A l \in AllLoops : ActiveOK(World, phase, active, l))'
<1> DEFINE w == World
           u == World'
<1>1. /\ u.conn = conn /\ u.connSet = connSet /\ u.queue = queue'
      /\ w.conn = conn /\ w.connSet = connSet /\ w.queue = queue
    BY WorldFacts DEF QuietStep, World
<1>2. \A l \in AllLoops : ActiveOK(w, phase, active, l) /\ active[l] \subseteq Conns \cup {Listener}
    BY DEF IInv, TypeOK
<1> HIDE DEF w, u
<1>3. "destroy" \in Ops BY DEF Ops
<1>4. ASSUME NEW l \in AllLoops PROVE ActiveOK(u, phase', active', l)
  <2>1. CASE active'[l] = {} BY <2>1 DEF ActiveOK
  <2>2. CASE active'[l] \subseteq active[l] /\ phase'[l] = phase[l] /\ SameWork(l)
      BY <1>1, <1>2, <1>3, <2>2 DEF ActiveOK, SameWork, Waiting
  <2> QED BY <2>1, <2>2 DEF SameActive
<1> QED BY <1>4 DEF u

\* Nothing happens to the queues.
LEMMA QuietQueues ==
    ASSUME IInv, UNCHANGED <<conn, connSet, queue, failed>>, dead' \in BOOLEAN,
           \A l \in AllLoops : phase[l] = "ended" => phase'[l] = "ended"
    PROVE  QuietStep /\ \A l \in AllLoops : SameWork(l)
<1>1. Typed BY WorldFacts DEF IInv
<1>2. \A l \in AllLoops : Once(queue[l]) BY WorldFacts DEF IInv, Sane
<1>3. \A l \in AllLoops : SameWork(l) BY DEF SameWork
<1> QED BY <1>1, <1>2, <1>3 DEF QuietStep, Typed, Flags

\* A function that is not of a connection is queued, or taken.
LEMMA QuietAppend ==
    ASSUME IInv, NEW l \in AllLoops, NEW f \in {<<"stop", Main>>, <<"wheel", Main>>},
           f[1] = "stop" => f \notin Range(queue[l]),
           queue' = [queue EXCEPT ![l] = Append(@, f)],
           UNCHANGED <<conn, connSet, phase, failed>>, dead' \in BOOLEAN
    PROVE  /\ QuietStep /\ \A m \in AllLoops : SameWork(m)
           /\ \A m \in AllLoops : \A g : g \in Range(queue'[m]) => g \in Range(queue[m]) \/ (m = l /\ g = f)
<1> DEFINE q == queue[l]
           p == Append(q, f)
<1>1. Typed BY WorldFacts DEF IInv
<1>2. q \in Seq(Function) /\ queue \in Queues BY <1>1 DEF Typed, Queues
<1>3. f \in Function BY FunctionParts
<1>4. \A m \in AllLoops : Once(queue[m]) BY WorldFacts DEF IInv, Sane
<1>5. Once(q) /\ (f[1] \in {"forceClose", "wheel"} \/ f \notin Range(q)) BY <1>4
<1>6. \A op \in Ops, c \in Conns : <<op, c>> # f BY FunctionParts
<1>7. p = Append(q, f) OBVIOUS
<1>8. queue' = [queue EXCEPT ![l] = p] OBVIOUS
<1> HIDE DEF p, q
<1>9. p \in Seq(Function) /\ Once(p) /\ \A g : g \in Range(p) <=> g \in Range(q) \/ g = f
    BY <1>2, <1>3, <1>5, <1>7, WaitingAppend
<1>10. queue' \in Queues /\ queue'[l] = p /\ \A m \in AllLoops \ {l} : queue'[m] = queue[m]
    BY <1>2, <1>8, <1>9 DEF Queues
<1>11. \A m \in AllLoops : SameWork(m) BY <1>6, <1>9, <1>10 DEF SameWork, q
<1>12. \A m \in AllLoops : Once(queue'[m]) BY <1>4, <1>9, <1>10
<1>13. \A m \in AllLoops : \A g : g \in Range(queue'[m]) => g \in Range(queue[m]) \/ (m = l /\ g = f)
    BY <1>9, <1>10 DEF q
<1> QED BY <1>10, <1>11, <1>12, <1>13 DEF QuietStep, Flags

LEMMA QuietTail ==
    ASSUME IInv, NEW l \in AllLoops, queue[l] # <<>>,
           queue[l][1] \in {<<"stop", Main>>, <<"wheel", Main>>},
           queue' = [queue EXCEPT ![l] = Tail(@)],
           UNCHANGED <<conn, connSet, phase, failed>>, dead' \in BOOLEAN
    PROVE  /\ QuietStep /\ \A m \in AllLoops : SameWork(m)
           /\ \A m \in AllLoops : \A g : g \in Range(queue'[m]) => g \in Range(queue[m])
           /\ queue[l][1] \in Range(queue[l])
           /\ queue[l][1] = <<"stop", Main>> => <<"stop", Main>> \notin Range(queue'[l])
<1> DEFINE q == queue[l]
           p == Tail(q)
           f == q[1]
<1>1. Typed BY WorldFacts DEF IInv
<1>2. q \in Seq(Function) /\ queue \in Queues BY <1>1 DEF Typed, Queues
<1>4. \A m \in AllLoops : Once(queue[m]) BY WorldFacts DEF IInv, Sane
<1>5. Once(q) /\ q # <<>> /\ p = Tail(q) /\ f = q[1] BY <1>4
<1>6. \A op \in Ops, c \in Conns : <<op, c>> # f BY FunctionParts
<1>7. f = <<"stop", Main>> => f[1] \notin {"forceClose", "wheel"} OBVIOUS
<1>8. queue' = [queue EXCEPT ![l] = p] OBVIOUS
<1> HIDE DEF p, q, f
<1>9. /\ p \in Seq(Function) /\ Once(p) /\ \A g : g \in Range(q) <=> g \in Range(p) \/ g = f
      /\ f = <<"stop", Main>> => f \notin Range(p)
    BY <1>2, <1>5, <1>7, WaitingTail
<1>10. queue' \in Queues /\ queue'[l] = p /\ \A m \in AllLoops \ {l} : queue'[m] = queue[m]
    BY <1>2, <1>8, <1>9 DEF Queues
<1>11. \A m \in AllLoops : SameWork(m) BY <1>6, <1>9, <1>10 DEF SameWork, q
<1>12. \A m \in AllLoops : Once(queue'[m]) BY <1>4, <1>9, <1>10
<1>13. \A m \in AllLoops : \A g : g \in Range(queue'[m]) => g \in Range(queue[m])
    BY <1>9, <1>10 DEF q
<1>14. f \in Range(q) BY <1>9
<1> QED BY <1>9, <1>10, <1>11, <1>12, <1>13, <1>14 DEF QuietStep, Flags, q, f
-----------------------------------------------------------------------------
(* The steps of the loops that do not run a handler *)

\* What stop() has done stays so while it does nothing.
LEMMA StopKept ==
    ASSUME IInv, UNCHANGED <<setup, acceptor, quit, spc, closing, openAtStop, inCallback>>,
           wheels' \subseteq wheels, ~Stopping \/ connSet' \subseteq connSet,
           spc = "closing" => connSet' = connSet,
           ~Stopping => ~dead',
           \A l \in AllLoops : phase'[l] = "ended" => l \in quit,
           \A l \in AllLoops :
               <<"stop", Main>> \in Range(queue'[l]) => <<"stop", Main>> \in Range(queue[l]),
           \A l \in AllLoops :
               Listener \in active'[l] => l = Main /\ (acceptor = "listening" \/ inCallback)
    PROVE  StopOK'
<1>1. (acceptor = "gone" <=> Stopping)' BY DEF IInv, StopOK, Stopping
<1>2. (~Stopping => ~dead /\ ~inCallback)' BY DEF IInv, StopOK, Stopping
<1>3. (spc # "closing" => closing = {})' BY DEF IInv, StopOK
<1>4. (closing \subseteq connSet)' BY DEF IInv, StopOK
<1>5. (quit # {} => setup.own /\ quit \subseteq IoLoops /\ Stopping /\ spc # "closing")'
    BY DEF IInv, StopOK, Stopping, IoLoops
<1>6. (\A l \in AllLoops : Ended(l) => l \in quit)' BY DEF Ended
<1>7. (\A l \in AllLoops :
         <<"stop", Main>> \in Range(queue[l]) => l = Main /\ spc = "asked")'
    BY DEF IInv, StopOK
<1>8. (Stopping /\ ~openAtStop => connSet = {})' BY DEF IInv, StopOK, Stopping
<1>9. (wheels # {} => setup.idle)' BY DEF IInv, StopOK
<1>10. (\A l \in AllLoops :
          Listener \in active[l] => l = Main /\ (acceptor = "listening" \/ inCallback))'
    OBVIOUS
<1> QED BY <1>1, <1>2, <1>3, <1>4, <1>5, <1>6, <1>7, <1>8, <1>9, <1>10 DEF StopOK

LEMMA TestQuitInv ==
    ASSUME IInv, NEW l \in AllLoops, TestQuit(l)
    PROVE  IInv'
<1> USE DEF TestQuit
<1>1. Typed /\ \A m \in AllLoops : Once(queue[m]) BY WorldFacts DEF IInv, Sane
<1>2. phase[l] = "test" /\ phase \in [AllLoops -> {"test", "poll", "active", "funcs", "ended"}]
    BY DEF Free, IInv, TypeOK
<1>3. phase' \in [AllLoops -> {"test", "poll", "active", "funcs", "ended"}]
      /\ \A m \in AllLoops \ {l} : phase'[m] = phase[m]
    BY <1>2
<1>4. active[l] = {} BY <1>2 DEF IInv, ActiveOK
<1>5. QuietStep /\ \A m \in AllLoops : SameActive(m)
  <2>1. CASE l \in quit
    <3>1. l # Main BY <2>1, AllLoopsFacts DEF IInv, StopOK, TypeOK
    <3>2. queue \in Queues /\ <<>> \in Seq(Function) BY <1>1 DEF Typed
    <3>3. queue' \in Queues /\ queue'[l] = <<>> /\ \A m \in AllLoops \ {l} : queue'[m] = queue[m]
        BY <2>1, <3>2 DEF Queues
    <3>4. WorkGone(l) /\ Once(queue'[l]) BY <1>2, <2>1, <3>1, <3>3 DEF WorkGone, Once, Range
    <3>5. \A m \in AllLoops \ {l} : SameWork(m) BY <1>3, <3>3 DEF SameWork
    <3>6. \A m \in AllLoops : SameActive(m) BY <1>3, <1>4, <3>5 DEF SameActive
    <3> QED BY <1>1, <3>3, <3>4, <3>5, <3>6 DEF QuietStep, Typed
  <2>2. CASE l \notin quit
    <3>1. \A m \in AllLoops : phase[m] = "ended" => phase'[m] = "ended" BY <1>2, <1>3
    <3>2. dead' \in BOOLEAN BY <1>1 DEF Typed, Flags
    <3>3. QuietStep /\ \A m \in AllLoops : SameWork(m) BY <2>2, <3>1, <3>2, QuietQueues
    <3> QED BY <1>3, <1>4, <3>3 DEF SameActive
  <2> QED BY <2>1, <2>2
<1>6. /\ Typed' /\ ~failed' /\ Sane(World, phase)'
      /\ (\A m \in AllLoops : ActiveOK(World, phase, active, m))'
    BY <1>5, QuietSane, QuietActive
<1>7. TypeOK' BY <1>3, <1>6 DEF IInv, TypeOK, Typed, ConnTables, ConnSets, Queues, Flags
<1>8. \A m \in AllLoops : phase'[m] = "ended" => m \in quit
    BY <1>2, <1>3 DEF IInv, StopOK, Ended
<1>9. \A m \in AllLoops : \A f : f \in Range(queue'[m]) => f \in Range(queue[m])
  <2>1. queue \in [AllLoops -> Seq(Function)] BY <1>1 DEF Typed, Queues
  <2>2. Range(<<>>) = {} BY DEF Range
  <2> QED BY <2>1, <2>2
<1>12. \A m \in AllLoops :
          Listener \in active'[m] => m = Main /\ (acceptor = "listening" \/ inCallback)
    BY DEF IInv, StopOK
<1>10. StopOK' BY <1>8, <1>9, <1>12, StopKept DEF IInv, StopOK
<1>11. NothingDeadIsUsed' BY DEF IInv, NothingDeadIsUsed
<1> QED BY <1>6, <1>7, <1>10, <1>11 DEF IInv

\* A loop goes to its next phase, and its active channels are cs.
LEMMA PhaseInv ==
    ASSUME IInv, NEW l \in AllLoops, phase[l] # "ended",
           NEW ph \in {"test", "poll", "active", "funcs"}, phase' = [phase EXCEPT ![l] = ph],
           NEW cs \in SUBSET (Conns \cup {Listener}), active' = [active EXCEPT ![l] = cs],
           \/ cs = {}
           \/ /\ ph = "active"
              /\ \A c \in cs \ {Listener} : conn[c].loop = l /\ c \in connSet
              /\ Listener \in cs => l = Main /\ acceptor = "listening",
           UNCHANGED <<setup, acceptor, nextLoop, connSet, conn, queue, quit, spc,
                       stopper, closing, wheels, failed, dead, openAtStop, inCallback>>
    PROVE  IInv'
<1>1. Typed /\ phase \in [AllLoops -> {"test", "poll", "active", "funcs", "ended"}]
      /\ active \in [AllLoops -> SUBSET (Conns \cup {Listener})]
    BY WorldFacts DEF IInv, TypeOK
<1>2. phase' \in [AllLoops -> {"test", "poll", "active", "funcs", "ended"}]
      /\ phase'[l] = ph /\ \A m \in AllLoops \ {l} : phase'[m] = phase[m]
    BY <1>1
<1>3. active' \in [AllLoops -> SUBSET (Conns \cup {Listener})]
      /\ active'[l] = cs /\ \A m \in AllLoops \ {l} : active'[m] = active[m]
    BY <1>1
<1>4. \A m \in AllLoops : phase[m] = "ended" => phase'[m] = "ended" BY <1>2
<1>5. dead' \in BOOLEAN BY <1>1 DEF Typed, Flags
<1>6. QuietStep /\ \A m \in AllLoops : SameWork(m) BY <1>4, <1>5, QuietQueues
<1>7. Typed' /\ ~failed' /\ Sane(World, phase)' BY <1>6, QuietSane
<1>8. World' = World BY DEF World
<1>9. ASSUME NEW m \in AllLoops PROVE ActiveOK(World, phase', active', m)
  <2>1. CASE m = l BY <1>2, <1>3, <2>1, WorldFacts DEF ActiveOK
  <2>2. CASE m # l BY <1>2, <1>3, <2>2 DEF IInv, ActiveOK
  <2> QED BY <2>1, <2>2
<1>10. (\A m \in AllLoops : ActiveOK(World, phase, active, m))' BY <1>8, <1>9
<1>11. TypeOK' BY <1>2, <1>3, <1>7 DEF IInv, TypeOK, Typed, ConnTables, ConnSets, Queues, Flags
<1>12. \A m \in AllLoops : phase'[m] = "ended" => phase[m] = "ended" BY <1>2
<1>13. \A m \in AllLoops :
          Listener \in active'[m] => m = Main /\ (acceptor = "listening" \/ inCallback)
    BY <1>3 DEF IInv, StopOK
<1>14. StopOK' BY <1>12, <1>13, StopKept DEF IInv, StopOK, Ended
<1>15. NothingDeadIsUsed' BY DEF IInv, NothingDeadIsUsed
<1> QED BY <1>7, <1>10, <1>11, <1>14, <1>15 DEF IInv

LEMMA PollInv ==
    ASSUME IInv, NEW l \in AllLoops, NEW cs \in SUBSET (Conns \cup {Listener}), Poll(l, cs)
    PROVE  IInv'
<1>1. phase[l] # "ended" BY DEF Poll, Free
<1>2. ASSUME NEW c \in cs \ {Listener} PROVE conn[c].loop = l /\ c \in connSet
  <2>1. c \in Conns /\ conn[c].index = "added" /\ conn[c].loop = l BY DEF Poll
  <2>2. Open(World, c)
      BY <2>1, WorldFacts
      DEF IInv, Sane, InStage, Unused, Opening, Reported, Leaving, Removed, Channel
  <2> QED BY <2>1, <2>2, WorldFacts DEF Open
<1> QED BY <1>1, <1>2, PhaseInv DEF Poll

LEMMA ActiveDoneInv ==
    ASSUME IInv, NEW l \in AllLoops, ActiveDone(l)
    PROVE  IInv'
<1>1. active' = [active EXCEPT ![l] = {}] BY DEF ActiveDone, IInv, TypeOK
<1> QED BY <1>1, PhaseInv DEF ActiveDone, Free

LEMMA FuncsDoneInv ==
    ASSUME IInv, NEW l \in AllLoops, FuncsDone(l)
    PROVE  IInv'
<1>1. active[l] = {} BY DEF FuncsDone, Free, IInv, ActiveOK
<1>2. active' = [active EXCEPT ![l] = {}] BY <1>1 DEF FuncsDone, IInv, TypeOK
<1> QED BY <1>2, PhaseInv DEF FuncsDone, Free
-----------------------------------------------------------------------------
(* The steps that run a handler *)

LEMMA WorldInv ==
    ASSUME IInv, NEW c \in Conns, NEW v, Taken(v, c), NEW u, Advance(v, u, c),
           InStage(u, phase, c), Becomes(u),
           UNCHANGED <<setup, acceptor, nextLoop, phase, quit, spc, stopper, closing,
                       openAtStop, inCallback>>,
           wheels' \subseteq wheels,
           active' \in [AllLoops -> SUBSET (Conns \cup {Listener})],
           \A l \in AllLoops : active'[l] \subseteq active[l],
           phase[conn[c].loop] = "ended" => connSet # {},
           spc = "closing" => u.connSet = connSet
    PROVE  IInv'
<1>1. /\ Typed' /\ ~failed' /\ Sane(World, phase)'
      /\ (\A l \in AllLoops : ActiveOK(World, phase, active, l))'
      /\ connSet' \subseteq connSet
      /\ dead' => dead \/ phase[conn[c].loop] = "ended"
      /\ \A l \in AllLoops :
            <<"stop", Main>> \in Range(queue'[l]) => <<"stop", Main>> \in Range(queue[l])
    BY WorldStep
<1>2. TypeOK' BY <1>1 DEF IInv, TypeOK, Typed, ConnTables, ConnSets, Queues, Flags
<1>3. conn[c].loop \in AllLoops BY DEF IInv, TypeOK, ConnType
<1>4. ASSUME dead', ~dead PROVE setup.own /\ openAtStop /\ Stopping
  <2>1. phase[conn[c].loop] = "ended" /\ connSet # {} BY <1>1, <1>4
  <2>2. setup.own /\ Stopping BY <1>3, <2>1, EndedFacts
  <2> QED BY <2>1, <2>2 DEF IInv, StopOK
<1>5. NothingDeadIsUsed' BY <1>4 DEF IInv, NothingDeadIsUsed
<1>6. \A l \in AllLoops : phase'[l] = "ended" => l \in quit BY DEF IInv, StopOK, Ended
<1>7. \A l \in AllLoops :
          Listener \in active'[l] => l = Main /\ (acceptor = "listening" \/ inCallback)
    BY DEF IInv, StopOK
<1>8. ~Stopping => ~dead' BY <1>4 DEF IInv, StopOK
<1>10. spc = "closing" => connSet' = connSet BY DEF Becomes
<1>9. StopOK' BY <1>1, <1>6, <1>7, <1>8, <1>10, StopKept
<1> QED BY <1>1, <1>2, <1>5, <1>9 DEF IInv

LEMMA HandleEventInv ==
    ASSUME IInv, NEW l \in AllLoops, NEW c \in Conns, NEW d \in Conns, HandleEvent(l, c, d)
    PROVE  IInv'
<1>1. /\ phase[l] = "active" /\ c \in active[l]
      /\ active' = [active EXCEPT ![l] = @ \ {c}] /\ wheels' = wheels
      /\ UNCHANGED <<setup, acceptor, nextLoop, phase, quit, spc, stopper, closing,
                     openAtStop, inCallback>>
    BY DEF HandleEvent, Free
<1>0. spc = "closing" => l # Main BY DEF HandleEvent, Free, Blocked
<1>2. /\ active' \in [AllLoops -> SUBSET (Conns \cup {Listener})]
      /\ \A m \in AllLoops : active'[m] \subseteq active[m]
    BY <1>1 DEF IInv, TypeOK
<1>3. c # Listener BY ServerAssumption
<1>4. conn[c].loop = l /\ (c \in connSet \/ <<"destroy", c>> \in Waiting(World, l))
    BY <1>1, <1>3, WorldFacts DEF IInv, ActiveOK
<1>5. Referred(World, c) BY <1>4, WorldFacts DEF Referred, Ops
<1>6. Taken(World, c) /\ InStage(World, phase, c) /\ World \in WorldType
    BY <1>5, NothingTaken DEF Taken
<1>7. phase[Main] # "ended" BY AllLoopsFacts, EndedFacts
<1>8. CASE ~conn[c].reading /\ Becomes(World)
  <2>1. Advance(World, World, c) BY <1>6, Stays
  <2> QED BY <1>1, <1>2, <1>4, <1>6, <1>8, <2>1, WorldInv, WorldFacts
<1>9. CASE conn[c].reading /\ Becomes(HandleClose(World, c))
  <2> DEFINE u == HandleClose(World, c)
  <2>1. Open(World, c)
      BY <1>6, <1>9, WorldFacts
      DEF InStage, Unused, Opening, Reported, Leaving, Removed, Channel
  <2>2. World.conn[c].loop = l /\ phase[l] # "ended" BY <1>1, <1>4, WorldFacts
  <2>3. /\ Advance(World, u, c) /\ (Reported(u, c) \/ Leaving(u, phase, c))
        /\ l # Main => u.connSet = connSet
      BY <1>6, <1>7, <2>1, <2>2, HandleCloseDoes, WorldFacts
  <2>4. Becomes(u) BY <1>9
  <2> HIDE DEF u
  <2>5. InStage(u, phase, c) BY <2>3 DEF InStage
  <2> QED BY <1>0, <1>1, <1>2, <1>4, <1>6, <2>3, <2>4, <2>5, WorldInv
<1>10. CASE d \in connSet /\ spc = "no" /\ Becomes(ForceClose(World, l, d))
  <2> DEFINE u == ForceClose(World, l, d)
  <2>1. Referred(World, d) BY <1>10, WorldFacts DEF Referred
  <2>2. Taken(World, d) /\ InStage(World, phase, d) BY <2>1, NothingTaken
  <2>3. World.conn[d].st # "None"
      BY <1>10, <2>2, WorldFacts
      DEF InStage, Unused, Opening, Open, Reported, Leaving, Removed, Channel
  <2>4. Advance(World, u, d) /\ InStage(u, phase, d)
      BY <1>1, <1>6, <1>7, <2>2, <2>3, ForceCloseDoes
  <2>5. Becomes(u) /\ connSet # {} /\ spc # "closing" BY <1>10
  <2> HIDE DEF u
  <2> QED BY <1>1, <1>2, <2>2, <2>4, <2>5, WorldInv
<1> QED BY <1>8, <1>9, <1>10 DEF HandleEvent

\* What is left of c's functions.
LEMMA OnlyLess ==
    ASSUME NEW c \in Conns, NEW op \in Ops, NEW l \in AllLoops, NEW v, Taken(v, c),
           <<op, c>> \notin Waiting(v, l), NEW ops, Only(World, c, ops),
           l = (IF op = "close" THEN Main ELSE conn[c].loop)
    PROVE  Only(v, c, ops \ {op})
BY WorldFacts DEF Only, Taken

\* The only stage in which a function of c other than forceClose waits.
LEMMA StageOfFunction ==
    ASSUME NEW c \in Conns, InStage(World, phase, c), NEW l \in AllLoops, NEW op \in Ops,
           <<op, c>> \in Waiting(World, l)
    PROVE  /\ l = (IF op = "close" THEN Main ELSE conn[c].loop)
           /\ op = "established" => Opening(World, phase, c)
           /\ op = "destroy" => Leaving(World, phase, c)
           /\ op = "close" => Reported(World, c)
           /\ op = "forceClose" => ~Unused(World, c)
<1>1. ~Unused(World, c) BY DEF Unused, Only
<1>2. PICK ops : Only(World, c, ops)
    BY DEF InStage, Unused, Opening, Open, Reported, Leaving, Removed
<1>3. l = (IF op = "close" THEN Main ELSE conn[c].loop) BY <1>2, WorldFacts DEF Only
<1>4. ASSUME op # "forceClose"
      PROVE  ~Open(World, c) /\ ~Removed(World, c)
    BY <1>4 DEF Open, Removed, Only
<1>5. op # "established" => ~Opening(World, phase, c) \/ op = "forceClose" BY DEF Opening, Only
<1>6. op # "close" => ~Reported(World, c) \/ op = "forceClose" BY DEF Reported, Only
<1>7. op # "destroy" => ~Leaving(World, phase, c) \/ op = "forceClose" BY DEF Leaving, Only
<1> QED BY <1>1, <1>3, <1>4, <1>5, <1>6, <1>7 DEF InStage

\* The handler that function <<op, c>> runs.
Handler(v, op, c) ==
    CASE op = "established" -> Established(v, c)
      [] op = "forceClose"  -> ForceCloseInLoop(v, c)
      [] op = "destroy"     -> ConnectDestroyed(v, c)
      [] op = "close"       -> HandleCloseInLoop(v, c)

LEMMA FunctionRuns ==
    ASSUME IInv, NEW l \in AllLoops, phase[l] = "funcs", queue[l] # <<>>,
           NEW c \in Conns, NEW op \in Ops, queue[l][1] = <<op, c>>,
           NEW v, v = [World EXCEPT !.queue[l] = Tail(@)], NEW u, u = Handler(v, op, c)
    PROVE  /\ Taken(v, c) /\ Advance(v, u, c) /\ InStage(u, phase, c)
           /\ phase[conn[c].loop] = "ended" => connSet # {}
           /\ l # Main => u.connSet = connSet
<1>1. /\ Taken(v, c) /\ <<op, c>> \in Waiting(World, l) /\ InStage(World, phase, c)
      /\ op # "forceClose" => <<op, c>> \notin Waiting(v, l)
      /\ \A m \in AllLoops : \A f :
            f \in Waiting(World, m) => f \in Waiting(v, m) \/ (m = l /\ f = <<op, c>>)
    BY HeadTaken
<1>2. /\ l = (IF op = "close" THEN Main ELSE conn[c].loop)
      /\ op = "established" => Opening(World, phase, c)
      /\ op = "destroy" => Leaving(World, phase, c)
      /\ op = "close" => Reported(World, c)
      /\ op = "forceClose" => ~Unused(World, c)
    BY <1>1, StageOfFunction
<1>3. v \in WorldType /\ v.conn = conn /\ v.connSet = connSet BY <1>1 DEF Taken
<1>4. op # "close" => conn[c].loop = l /\ phase[conn[c].loop] # "ended" BY <1>2
<1>5. phase[Main] # "ended" BY AllLoopsFacts, EndedFacts
<1>6. CASE op = "established"
  <2>1. Opening(World, phase, c) /\ u = Established(v, c) BY <1>2, <1>6 DEF Handler
  <2>2. Only(v, c, {"established", "forceClose"} \ {"established"})
      BY <1>1, <1>2, <1>6, <2>1, OnlyLess DEF Opening
  <2>3. Only(v, c, {"forceClose"}) BY <2>2 DEF Only
  <2>4. Channel(v, c, "Connecting", FALSE, "new") BY <1>3, <2>1, WorldFacts DEF Opening, Channel
  <2>5. NoClash(v, c)
    <3> SUFFICES ASSUME NEW d \in Conns \ {c}, v.conn[d].loop = v.conn[c].loop,
                        v.conn[d].index # "new"
                 PROVE  v.conn[d].fd # v.conn[c].fd
        BY DEF NoClash
    <3>1. InStage(v, phase, d) /\ v.conn[d].loop = l BY <1>1, <1>3, <1>4, <1>6 DEF Taken
    <3>2. d \in v.connSet \/ <<"destroy", d>> \in Waiting(v, l)
        BY <3>1 DEF InStage, Unused, Opening, Open, Reported, Leaving, Removed, Channel, Comes
    <3>3. Referred(v, d) BY <3>2 DEF Referred, Ops
    <3> QED BY <1>1, <3>3 DEF Taken, FdFree
  <2>6. Same(v, u, c) /\ u.failed = v.failed /\ Channel(u, c, "Connected", TRUE, "added")
      BY <1>3, <2>1, <2>4, <2>5, EstablishedDoes
  <2>8. Advance(v, u, c) /\ Only(u, c, {"forceClose"})
      BY <1>3, <2>3, <2>6, SameAdvances
  <2>9. Open(u, c) BY <1>3, <2>1, <2>6, <2>8, WorldFacts DEF Open, Opening, Same
  <2> QED BY <1>1, <1>3, <1>4, <1>6, <2>6, <2>8, <2>9 DEF InStage, Same
<1>7. CASE op = "forceClose"
  <2>1. u = ForceCloseInLoop(v, c) BY <1>7 DEF Handler
  <2>2. ASSUME NEW ops, Only(World, c, ops) PROVE Only(v, c, ops)
    <3>1. \A m \in AllLoops : Waiting(v, m) \subseteq Waiting(World, m) /\ v.conn = World.conn
        BY <1>1, WorldFacts DEF Taken
    <3> QED BY <2>2, <3>1 DEF Only
  <2>3. \A m \in AllLoops, o \in {"established", "destroy", "close"} :
           <<o, c>> \in Waiting(World, m) => <<o, c>> \in Waiting(v, m)
    <3> SUFFICES ASSUME NEW m \in AllLoops, NEW o \in {"established", "destroy", "close"},
                        <<o, c>> \in Waiting(World, m)
                 PROVE  <<o, c>> \in Waiting(v, m)
        OBVIOUS
    <3>1. <<o, c>> # <<op, c>> BY <1>7
    <3> QED BY <1>1, <3>1
  <2>4. InStage(v, phase, c)
      BY <1>1, <1>2, <1>3, <1>4, <1>7, <2>2, <2>3, AllLoopsFacts, WorldFacts
      DEF InStage, Opening, Open, Reported, Leaving, Removed, Channel, Comes
  <2>5. v.conn[c].loop = l /\ phase[v.conn[c].loop] # "ended" BY <1>3, <1>4, <1>7
  <2>6. /\ Advance(v, u, c) /\ InStage(u, phase, c)
        /\ v.conn[c].loop # Main => u.connSet = v.connSet
      BY <1>3, <1>5, <2>1, <2>4, <2>5, ForceCloseInLoopDoes
  <2> QED BY <1>1, <1>3, <1>4, <1>7, <2>5, <2>6
<1>8. CASE op = "destroy"
  <2>1. Leaving(World, phase, c) /\ u = ConnectDestroyed(v, c) BY <1>2, <1>8 DEF Handler
  <2>2. Only(v, c, {"destroy", "forceClose"} \ {"destroy"})
      BY <1>1, <1>2, <1>8, <2>1, OnlyLess DEF Leaving
  <2>3. Only(v, c, {"forceClose"}) BY <2>2 DEF Only
  <2>4. Channel(v, c, "Disconnected", FALSE, "deleted")
      BY <1>3, <2>1, WorldFacts DEF Leaving, Channel
  <2>5. Same(v, u, c) /\ u.failed = v.failed /\ Channel(u, c, "Disconnected", FALSE, "new")
      BY <1>3, <2>1, <2>4, DestroyedDoes
  <2>7. Advance(v, u, c) /\ Only(u, c, {"forceClose"})
      BY <1>3, <2>3, <2>5, SameAdvances
  <2>8. Removed(u, c) BY <1>3, <2>1, <2>5, <2>7, WorldFacts DEF Removed, Leaving, Same
  <2> QED BY <1>1, <1>3, <1>4, <1>8, <2>5, <2>7, <2>8 DEF InStage, Same
<1>9. CASE op = "close"
  <2>1. Reported(World, c) /\ u = HandleCloseInLoop(v, c) BY <1>2, <1>9 DEF Handler
  <2>2. Only(v, c, {"close", "forceClose"} \ {"close"})
      BY <1>1, <1>2, <1>9, <2>1, OnlyLess DEF Reported
  <2>3. Only(v, c, {"forceClose"}) BY <2>2 DEF Only
  <2>4. Channel(v, c, "Disconnected", FALSE, "deleted") /\ c \in v.connSet
      BY <1>3, <2>1, WorldFacts DEF Reported, Channel
  <2>5. Advance(v, u, c) /\ Leaving(u, phase, c)
      BY <1>3, <2>1, <2>3, <2>4, HandleCloseInLoopDoes
  <2>6. connSet # {} BY <1>3, <2>4
  <2> QED BY <1>1, <1>2, <1>9, <2>5, <2>6 DEF InStage
<1> QED BY <1>6, <1>7, <1>8, <1>9 DEF Ops
LEMMA RunFuncInv ==
    ASSUME IInv, NEW l \in AllLoops, RunFunc(l)
    PROVE  IInv'
<1> DEFINE v == [World EXCEPT !.queue[l] = Tail(@)]
           f == queue[l][1]
<1>1. /\ phase[l] = "funcs" /\ queue[l] # <<>> /\ f[1] # "stop"
      /\ wheels' = IF f[1] = "wheel" THEN wheels \ {l} ELSE wheels
      /\ UNCHANGED <<setup, acceptor, nextLoop, phase, active, quit, spc, stopper,
                     closing, openAtStop, inCallback>>
    BY DEF RunFunc, Free
<1>0. spc = "closing" => l # Main BY DEF RunFunc, Free, Blocked
<1>2. wheels' \subseteq wheels /\ active' \in [AllLoops -> SUBSET (Conns \cup {Listener})]
      /\ \A m \in AllLoops : active'[m] \subseteq active[m]
    BY <1>1 DEF IInv, TypeOK
<1>3. Typed /\ queue[l] \in Seq(Function) BY WorldFacts DEF IInv, Typed, Queues
<1>4. f \in Function BY <1>1, <1>3, QueueElements
<1>5. CASE f[1] \in Ops /\ f[2] \in Conns /\ f = <<f[1], f[2]>>
  <2> DEFINE op == f[1]
             c == f[2]
             u == Handler(v, op, c)
  <2>1. Becomes(u) BY <1>5 DEF RunFunc, Handler, Ops
  <2>2. op \in Ops /\ c \in Conns /\ queue[l][1] = <<op, c>> BY <1>5
  <2> HIDE DEF op, c, f, v
  <2>3. /\ Taken(v, c) /\ Advance(v, u, c) /\ InStage(u, phase, c)
        /\ phase[conn[c].loop] = "ended" => connSet # {}
        /\ l # Main => u.connSet = connSet
    <3>1. v = [World EXCEPT !.queue[l] = Tail(@)] BY DEF v
    <3> QED BY <1>1, <2>2, <3>1, FunctionRuns
  <2> HIDE DEF u
  <2> QED BY <1>0, <1>1, <1>2, <2>1, <2>2, <2>3, WorldInv
<1>6. CASE f = <<"wheel", Main>>
  <2>1. Becomes(v) BY <1>6 DEF RunFunc
  <2>2. /\ conn' = conn /\ connSet' = connSet /\ failed' = failed /\ dead' = dead
        /\ queue' = [queue EXCEPT ![l] = Tail(@)]
      BY <2>1, WorldFacts DEF Becomes
  <2>3. dead' \in BOOLEAN BY <1>3, <2>2 DEF Typed, Flags
  <2>4. /\ QuietStep /\ \A m \in AllLoops : SameWork(m)
        /\ \A m \in AllLoops : \A g : g \in Range(queue'[m]) => g \in Range(queue[m])
      BY <1>1, <1>6, <2>2, <2>3, QuietTail
  <2>5. \A m \in AllLoops : SameActive(m) BY <1>1, <2>4 DEF SameActive
  <2>6. /\ Typed' /\ ~failed' /\ Sane(World, phase)'
        /\ (\A m \in AllLoops : ActiveOK(World, phase, active, m))'
      BY <2>4, <2>5, QuietSane, QuietActive
  <2>7. TypeOK' BY <1>1, <1>2, <2>6 DEF IInv, TypeOK, Typed, ConnTables, ConnSets, Queues, Flags
  <2>8. \A m \in AllLoops : phase'[m] = "ended" => m \in quit BY <1>1 DEF IInv, StopOK, Ended
  <2>9. \A m \in AllLoops :
            Listener \in active'[m] => m = Main /\ (acceptor = "listening" \/ inCallback)
      BY <1>1 DEF IInv, StopOK
  <2>10. ~Stopping => ~dead' BY <2>2 DEF IInv, StopOK
  <2>11. StopOK' BY <1>1, <1>2, <2>2, <2>4, <2>8, <2>9, <2>10, StopKept
  <2>12. NothingDeadIsUsed' BY <1>1, <2>2 DEF IInv, NothingDeadIsUsed
  <2> QED BY <2>6, <2>7, <2>11, <2>12 DEF IInv
<1> QED BY <1>1, <1>4, <1>5, <1>6, FunctionParts

LEMMA NothingAcceptedInv ==
    ASSUME IInv, NothingAccepted
    PROVE  IInv'
<1>1. /\ Listener \in active[Main] /\ active' = [active EXCEPT ![Main] = @ \ {Listener}]
      /\ dead' = (dead \/ acceptor = "gone") /\ phase' = phase /\ wheels' = wheels
      /\ UNCHANGED <<conn, connSet, queue, failed>>
      /\ UNCHANGED <<setup, acceptor, quit, spc, closing, openAtStop, inCallback>>
    BY DEF NothingAccepted
<1>2. active' \in [AllLoops -> SUBSET (Conns \cup {Listener})]
      /\ \A m \in AllLoops : active'[m] \subseteq active[m]
    BY <1>1 DEF IInv, TypeOK
<1>3. dead' \in BOOLEAN BY <1>1 DEF IInv, TypeOK
<1>4. QuietStep /\ \A m \in AllLoops : SameWork(m) BY <1>1, <1>3, QuietQueues
<1>5. \A m \in AllLoops : SameActive(m) BY <1>1, <1>2, <1>4 DEF SameActive
<1>6. /\ Typed' /\ ~failed' /\ Sane(World, phase)'
      /\ (\A m \in AllLoops : ActiveOK(World, phase, active, m))'
    BY <1>4, <1>5, QuietSane, QuietActive
<1>7. TypeOK' BY <1>2, <1>6 DEF NothingAccepted, IInv, TypeOK, Typed, ConnTables, ConnSets, Queues, Flags
<1>8. acceptor = "gone" => inCallback /\ Stopping
    BY <1>1, AllLoopsFacts DEF IInv, StopOK
<1>9. NothingDeadIsUsed' BY <1>1, <1>8 DEF IInv, NothingDeadIsUsed
<1>10. ~Stopping => ~dead' BY <1>1, <1>8 DEF IInv, StopOK
<1>11. \A m \in AllLoops : phase'[m] = "ended" => m \in quit BY <1>1 DEF IInv, StopOK, Ended
<1>12. \A m \in AllLoops :
           Listener \in active'[m] => m = Main /\ (acceptor = "listening" \/ inCallback)
    BY <1>2 DEF IInv, StopOK
<1>13. StopOK' BY <1>1, <1>10, <1>11, <1>12, StopKept
<1> QED BY <1>6, <1>7, <1>9, <1>13 DEF IInv
-----------------------------------------------------------------------------
(* A new connection *)

\* An object that connSet_ or a function refers to is alive.
LEMMA ReferredAlive ==
    ASSUME IInv, NEW d \in Conns, Referred(World, d)
    PROVE  Alive(d) /\ conn[d].st # "None"
<1>1. InStage(World, phase, d) BY DEF IInv, Sane
<1>2. conn[d].st # "None"
    BY <1>1, WorldFacts
    DEF InStage, Unused, Opening, Open, Reported, Leaving, Removed, Channel, Referred, Only
<1>3. ASSUME NEW l \in AllLoops, NEW op \in Ops, <<op, d>> \in Waiting(World, l)
      PROVE  Alive(d)
  <2>1. PICK i \in DOMAIN queue[l] : queue[l][i] = <<op, d>>
      BY <1>3, WorldFacts DEF Waiting, Range
  <2>2. queue[l][i][2] = d BY <2>1
  <2> QED BY <2>2 DEF Alive
<1>4. d \in connSet => Alive(d) BY DEF Alive
<1> QED BY <1>2, <1>3, <1>4, WorldFacts DEF Referred

\* The connection's object is made, and kept in connSet_.
Accepted(c, l, f) ==
    [World EXCEPT !.conn[c] = [@ EXCEPT !.st = "Connecting", !.loop = l, !.fd = f],
                  !.connSet = @ \cup {c}]

\* What the object is then.
Begun(w, c, l) ==
    /\ w \in WorldType /\ c \in w.connSet /\ Channel(w, c, "Connecting", FALSE, "new")
    /\ w.conn[c].loop = l /\ Only(w, c, {}) /\ w.queue = queue
    /\ (w.dead => dead) /\ ~w.failed
    /\ \A d \in Conns \ {c} : Untouched(World, w, d) /\ InStage(w, phase, d)
    /\ NothingTwice(w) /\ FdsDiffer(w) /\ FdFree(w, c)

LEMMA AcceptedDoes ==
    ASSUME IInv, NEW c \in Conns, NEW f \in Fds, NEW l \in AllLoops, conn[c].st = "None",
           \A d \in Conns : (conn[d].st # "None" /\ Alive(d)) => conn[d].fd # f,
           NEW w, w = Accepted(c, l, f)
    PROVE  Begun(w, c, l)
<1> DEFINE k == [conn[c] EXCEPT !.st = "Connecting", !.loop = l, !.fd = f]
           t == [conn EXCEPT ![c] = k]
           s == connSet \cup {c}
<1>1. Typed /\ World \in WorldType BY WorldFacts DEF IInv
<1>2. conn[c] \in ConnType BY <1>1 DEF Typed, ConnTables
<1>3. /\ k \in ConnType /\ k.st = "Connecting" /\ k.loop = l /\ k.fd = f
      /\ k.reading = conn[c].reading /\ k.index = conn[c].index
    BY <1>2 DEF ConnType
<1>4. w = [World EXCEPT !.conn = t, !.connSet = s] BY WorldFacts DEF Accepted
<1> HIDE DEF k
<1>5. t \in ConnTables /\ t[c] = k /\ \A d \in Conns \ {c} : t[d] = conn[d]
    BY <1>1, <1>3 DEF Typed, ConnTables
<1>6. s \in ConnSets /\ c \in s /\ \A d \in Conns \ {c} : d \in s <=> d \in connSet
    BY <1>1 DEF Typed, ConnSets
<1> HIDE DEF t, s
<1>7. /\ w \in WorldType /\ w.conn = t /\ w.connSet = s /\ w.queue = queue
      /\ w.dead = dead /\ w.failed = failed
    BY <1>1, <1>4, <1>5, <1>6, WorldFacts DEF WorldType
<1>8. InStage(World, phase, c) BY DEF IInv, Sane
<1>9. Unused(World, c)
    BY <1>8, WorldFacts DEF InStage, Opening, Open, Reported, Leaving, Removed, Channel
<1>10. Channel(w, c, "Connecting", FALSE, "new")
    BY <1>3, <1>5, <1>7, <1>9, WorldFacts DEF Unused, Channel
<1>11. \A m \in AllLoops : Waiting(w, m) = Waiting(World, m) BY <1>7, WorldFacts DEF Waiting
<1>12. Only(w, c, {}) BY <1>9, <1>11 DEF Unused, Only
<1>13. ASSUME NEW d \in Conns \ {c} PROVE Untouched(World, w, d) /\ InStage(w, phase, d)
  <2>1. Untouched(World, w, d) BY <1>5, <1>6, <1>7, <1>11, WorldFacts DEF Untouched
  <2>2. InStage(World, phase, d) BY DEF IInv, Sane
  <2> QED BY <1>1, <2>1, <2>2, UntouchedInStage
<1>14. NothingTwice(w) BY <1>7, WorldFacts DEF NothingTwice, IInv, Sane
<1>15. ASSUME NEW d \in Conns \ {c}, Referred(w, d)
       PROVE  Referred(World, d) /\ w.conn[d].fd = conn[d].fd
    BY <1>13, <1>15, WorldFacts DEF Untouched, Referred
<1>16. FdFree(w, c) BY <1>3, <1>5, <1>7, <1>15, ReferredAlive DEF FdFree
<1>17. FdsDiffer(World) BY DEF IInv, Sane
<1>18. FdsDiffer(w)
  <2> SUFFICES ASSUME NEW d \in Conns, NEW e \in Conns, d # e, Referred(w, d), Referred(w, e)
               PROVE  w.conn[d].fd # w.conn[e].fd
      BY DEF FdsDiffer
  <2>1. CASE d # c /\ e # c BY <1>15, <1>17, <2>1, WorldFacts DEF FdsDiffer
  <2>2. CASE d = c BY <1>16, <2>2 DEF FdFree
  <2>3. CASE e = c BY <1>16, <2>3 DEF FdFree
  <2> QED BY <2>1, <2>2, <2>3
<1>19. (w.dead => dead) /\ ~w.failed BY <1>7 DEF IInv
<1> QED BY <1>3, <1>5, <1>6, <1>7, <1>10, <1>12, <1>13, <1>14, <1>16, <1>18, <1>19
       DEF Begun

LEMMA NewConnectionInv ==
    ASSUME IInv, NEW c \in Conns, NEW f \in Fds, NewConnection(c, f)
    PROVE  IInv'
<1> DEFINE l == setup.loops[nextLoop]
           w == Accepted(c, l, f)
           u == IF l = Main THEN Established(w, c) ELSE QueueInLoop(w, l, <<"established", c>>)
<1>1. /\ acceptor = "listening" /\ conn[c].st = "None"
      /\ \A d \in Conns : (conn[d].st # "None" /\ Alive(d)) => conn[d].fd # f
      /\ active' = [active EXCEPT ![Main] = @ \ {Listener}]
      /\ nextLoop' = NextLoop(nextLoop) /\ phase' = phase /\ wheels' = wheels
      /\ UNCHANGED <<setup, acceptor, quit, spc, closing, openAtStop, inCallback>>
    BY DEF NewConnection
<1>2. Becomes(u) BY DEF NewConnection, Accepted
<1>3. l \in AllLoops /\ nextLoop' \in 1..Len(setup.loops)
  <2>1. nextLoop \in 1..Len(setup.loops) /\ setup \in Setups BY DEF IInv, TypeOK
  <2> QED BY <1>1, <2>1, AllLoopsFacts DEF NextLoop
<1>4. ~Stopping BY <1>1 DEF IInv, StopOK
<1>5. \A m \in AllLoops : phase[m] # "ended" BY <1>4, EndedFacts
<1> HIDE DEF l
<1>6. w = Accepted(c, l, f) OBVIOUS
<1> HIDE DEF w
<1>7. /\ w \in WorldType /\ c \in w.connSet /\ Channel(w, c, "Connecting", FALSE, "new")
      /\ w.conn[c].loop = l /\ Only(w, c, {}) /\ w.queue = queue
      /\ (w.dead => dead) /\ ~w.failed
      /\ \A d \in Conns \ {c} : Untouched(World, w, d) /\ InStage(w, phase, d)
      /\ NothingTwice(w) /\ FdsDiffer(w) /\ FdFree(w, c)
  <2>1. conn[c].st = "None" /\ l \in AllLoops /\ w = Accepted(c, l, f) BY <1>1, <1>3, <1>6
  <2>2. \A d \in Conns : (conn[d].st # "None" /\ Alive(d)) => conn[d].fd # f BY <1>1
  <2>3. Begun(w, c, l) BY <2>1, <2>2, AcceptedDoes
  <2> HIDE DEF u
  <2> QED BY <2>3 DEF Begun
<1>8. Advance(w, u, c) /\ InStage(u, phase, c)
  <2>1. CASE l = Main
    <3>1. NoClash(w, c)
      <4> SUFFICES ASSUME NEW d \in Conns \ {c}, w.conn[d].loop = w.conn[c].loop,
                          w.conn[d].index # "new"
                   PROVE  w.conn[d].fd # w.conn[c].fd
          BY DEF NoClash
      <4>1. InStage(w, phase, d) /\ w.conn[d].loop = l BY <1>7
      <4>2. d \in w.connSet \/ <<"destroy", d>> \in Waiting(w, l)
          BY <1>3, <1>5, <4>1 DEF InStage, Unused, Opening, Open, Reported, Leaving, Removed, Channel, Comes
      <4>3. Referred(w, d) BY <1>3, <4>2 DEF Referred, Ops
      <4> QED BY <1>7, <4>3 DEF FdFree
    <3>2. u = Established(w, c) BY <2>1
    <3>3. Same(w, u, c) /\ u.failed = w.failed /\ Channel(u, c, "Connected", TRUE, "added")
      <4>1. w \in WorldType /\ Channel(w, c, "Connecting", FALSE, "new") BY <1>7
      <4> QED BY <3>1, <3>2, <4>1, EstablishedDoes
    <3>5. Advance(w, u, c) /\ Only(u, c, {}) BY <1>7, <3>3, SameAdvances
    <3>6. Open(u, c) BY <1>7, <3>3, <3>5 DEF Open, Only, Same
    <3> QED BY <3>5, <3>6 DEF InStage
  <2>2. CASE l # Main
    <3>1. u = QueueInLoop(w, l, <<"established", c>>) BY <2>2
    <3>2. "established" \in Ops BY DEF Ops
    <3>3. <<"established", c>> \notin Waiting(w, l) BY <1>3, <1>7, <3>2 DEF Only
    <3>4. /\ Advance(w, u, c) /\ u.conn = w.conn /\ u.connSet = w.connSet
          /\ <<"established", c>> \in Waiting(u, l) /\ Only(u, c, {} \cup {"established"})
        BY <1>3, <1>5, <1>7, <3>1, <3>2, <3>3, QueuedDoes
    <3>5. Only(u, c, {"established", "forceClose"}) BY <3>4 DEF Only
    <3>6. Opening(u, phase, c) BY <1>7, <2>2, <3>4, <3>5 DEF Opening, Channel, Comes
    <3> QED BY <3>4, <3>6 DEF InStage
  <2> QED BY <2>1, <2>2
<1> HIDE DEF u
<1>9. Sane(u, phase) BY <1>7, <1>8, AdvanceSane
<1>10. u \in WorldType BY <1>8 DEF Advance
<1>11. World' = u /\ Typed' BY <1>2, <1>10, Became
<1>12. Sane(World, phase)' BY <1>1, <1>9, <1>11
<1>13. ~failed' /\ dead' = dead
  <2>1. ~u.failed /\ (u.dead => dead) BY <1>3, <1>5, <1>7, <1>8 DEF Advance
  <2>2. ~dead BY <1>4 DEF IInv, StopOK
  <2>3. dead' = u.dead /\ u.dead \in BOOLEAN /\ dead \in BOOLEAN
      BY <1>2, <1>10 DEF Becomes, WorldType, Flags, IInv, TypeOK
  <2> QED BY <1>2, <2>1, <2>2, <2>3 DEF Becomes
<1>14. active' \in [AllLoops -> SUBSET (Conns \cup {Listener})]
       /\ \A m \in AllLoops : active'[m] \subseteq active[m]
    BY <1>1 DEF IInv, TypeOK
<1>15. TypeOK'
    BY <1>3, <1>11, <1>14
    DEF NewConnection, IInv, TypeOK, Typed, ConnTables, ConnSets, Queues, Flags
<1>16. ASSUME NEW d \in Conns \ {c} PROVE Untouched(World, u, d)
  <2>1. Untouched(World, w, d) /\ Untouched(w, u, d) BY <1>7, <1>8 DEF Advance
  <2> QED BY <2>1 DEF Untouched
<1>17. Unused(World, c)
  <2>1. InStage(World, phase, c) BY DEF IInv, Sane
  <2> QED BY <1>1, <2>1, WorldFacts DEF InStage, Opening, Open, Reported, Leaving, Removed, Channel
<1>18. ASSUME NEW m \in AllLoops PROVE ActiveOK(u, phase', active', m)
  <2>1. active'[m] # {} => phase'[m] = "active" BY <1>1, <1>14 DEF IInv, ActiveOK
  <2>2. ASSUME NEW d \in active'[m] \ {Listener}
        PROVE  u.conn[d].loop = m /\ (d \in u.connSet \/ <<"destroy", d>> \in Waiting(u, m))
    <3>1. d \in Conns /\ d \in active[m] \ {Listener} BY <1>14 DEF IInv, TypeOK
    <3>2. /\ World.conn[d].loop = m
          /\ d \in World.connSet \/ <<"destroy", d>> \in Waiting(World, m)
        BY <3>1 DEF IInv, ActiveOK
    <3>3. d # c /\ "destroy" \in Ops BY <1>17, <3>2 DEF Unused, Only, Ops
    <3> QED BY <1>16, <3>1, <3>2, <3>3 DEF Untouched
  <2> QED BY <2>1, <2>2 DEF ActiveOK
<1>19. (\A m \in AllLoops : ActiveOK(World, phase, active, m))' BY <1>11, <1>18
<1>20. NothingDeadIsUsed' BY <1>1, <1>13 DEF IInv, NothingDeadIsUsed
<1>21. spc # "closing" BY <1>4 DEF Stopping
<1>22. ASSUME NEW m \in AllLoops, <<"stop", Main>> \in Range(queue'[m])
       PROVE  <<"stop", Main>> \in Range(queue[m])
  <2>1. <<"stop", Main>> \in Waiting(u, m) BY <1>2, <1>22 DEF Becomes, Waiting
  <2>2. <<"stop", Main>> \in Waiting(w, m) BY <1>8, <2>1 DEF Advance
  <2> QED BY <1>7, <2>2 DEF Waiting
<1>23. \A m \in AllLoops : phase'[m] = "ended" => m \in quit BY <1>1, <1>5
<1>24. \A m \in AllLoops :
           Listener \in active'[m] => m = Main /\ (acceptor = "listening" \/ inCallback)
    BY <1>14 DEF IInv, StopOK
<1>25. ~Stopping => ~dead' BY <1>13 DEF IInv, StopOK
<1>26. StopOK' BY <1>1, <1>4, <1>21, <1>22, <1>23, <1>24, <1>25, StopKept
<1> QED BY <1>12, <1>13, <1>15, <1>19, <1>20, <1>26 DEF IInv
-----------------------------------------------------------------------------
(* start and stop *)

\* Before stop() begins.
LEMMA StopNotYet ==
    ASSUME IInv, ~Stopping, spc' \in {"no", "asked"}, acceptor' # "gone",
           acceptor' = acceptor \/ acceptor' = "listening",
           wheels' # {} => setup.idle,
           \A l \in AllLoops :
               <<"stop", Main>> \in Range(queue'[l]) => l = Main /\ spc' = "asked",
           UNCHANGED <<setup, conn, quit, closing, dead, inCallback, phase, active>>
    PROVE  StopOK'
<1>1. (acceptor = "gone" <=> Stopping)' BY DEF Stopping
<1>2. (~Stopping => ~dead /\ ~inCallback)' BY DEF IInv, StopOK
<1>3. (spc # "closing" => closing = {})' BY DEF IInv, StopOK, Stopping
<1>4. (closing \subseteq connSet)' BY <1>3 DEF IInv, StopOK, Stopping
<1>5. (quit # {} => setup.own /\ quit \subseteq IoLoops /\ Stopping /\ spc # "closing")'
    BY DEF IInv, StopOK
<1>6. (\A l \in AllLoops : Ended(l) => l \in quit)' BY DEF IInv, StopOK, Ended
<1>7. (\A l \in AllLoops :
         <<"stop", Main>> \in Range(queue[l]) => l = Main /\ spc = "asked")'
    OBVIOUS
<1>8. (Stopping /\ ~openAtStop => connSet = {})' BY DEF Stopping
<1>9. (wheels # {} => setup.idle)' OBVIOUS
<1>10. (\A l \in AllLoops :
          Listener \in active[l] => l = Main /\ (acceptor = "listening" \/ inCallback))'
    BY DEF IInv, StopOK
<1> QED BY <1>1, <1>2, <1>3, <1>4, <1>5, <1>6, <1>7, <1>8, <1>9, <1>10 DEF StopOK

\* When it begins.
LEMMA StopBegins ==
    ASSUME IInv, ~Stopping, CloseAll,
           \A l \in AllLoops : <<"stop", Main>> \notin Range(queue'[l]),
           \A l \in AllLoops : Listener \in active[l] => inCallback'
    PROVE  StopOK'
<1> USE DEF CloseAll
<1>1. (acceptor = "gone" <=> Stopping)' BY DEF Stopping
<1>2. (~Stopping => ~dead /\ ~inCallback)' BY DEF Stopping
<1>3. (spc # "closing" => closing = {})' OBVIOUS
<1>4. (closing \subseteq connSet)' OBVIOUS
<1>5. (quit # {} => setup.own /\ quit \subseteq IoLoops /\ Stopping /\ spc # "closing")'
    BY DEF IInv, StopOK
<1>6. (\A l \in AllLoops : Ended(l) => l \in quit)' BY DEF IInv, StopOK, Ended
<1>7. (\A l \in AllLoops :
         <<"stop", Main>> \in Range(queue[l]) => l = Main /\ spc = "asked")'
    OBVIOUS
<1>8. (Stopping /\ ~openAtStop => connSet = {})' OBVIOUS
<1>9. (wheels # {} => setup.idle)' BY DEF IInv, StopOK
<1>10. (\A l \in AllLoops :
          Listener \in active[l] => l = Main /\ (acceptor = "listening" \/ inCallback))'
    BY DEF IInv, StopOK
<1> QED BY <1>1, <1>2, <1>3, <1>4, <1>5, <1>6, <1>7, <1>8, <1>9, <1>10 DEF StopOK

\* While it goes on.
LEMMA StopGoesOn ==
    ASSUME IInv, Stopping, spc' \notin {"no", "asked"},
           UNCHANGED <<setup, acceptor, openAtStop, inCallback, phase, active>>,
           closing' \subseteq connSet', spc' # "closing" => closing' = {},
           connSet' \subseteq connSet, wheels' \subseteq wheels, quit \subseteq quit',
           quit' # {} => setup.own /\ quit' \subseteq IoLoops /\ spc' # "closing",
           \A l \in AllLoops :
               <<"stop", Main>> \in Range(queue'[l]) => <<"stop", Main>> \in Range(queue[l])
    PROVE  StopOK'
<1>1. (acceptor = "gone" <=> Stopping)' BY DEF IInv, StopOK, Stopping
<1>2. (~Stopping => ~dead /\ ~inCallback)' BY DEF Stopping
<1>3. (spc # "closing" => closing = {})' OBVIOUS
<1>4. (closing \subseteq connSet)' OBVIOUS
<1>5. (quit # {} => setup.own /\ quit \subseteq IoLoops /\ Stopping /\ spc # "closing")'
    BY DEF Stopping, IoLoops
<1>6. (\A l \in AllLoops : Ended(l) => l \in quit)' BY DEF IInv, StopOK, Ended
<1>7. (\A l \in AllLoops :
         <<"stop", Main>> \in Range(queue[l]) => l = Main /\ spc = "asked")'
    BY DEF IInv, StopOK, Stopping
<1>8. (Stopping /\ ~openAtStop => connSet = {})' BY DEF IInv, StopOK
<1>9. (wheels # {} => setup.idle)' BY DEF IInv, StopOK
<1>10. (\A l \in AllLoops :
          Listener \in active[l] => l = Main /\ (acceptor = "listening" \/ inCallback))'
    BY DEF IInv, StopOK
<1> QED BY <1>1, <1>2, <1>3, <1>4, <1>5, <1>6, <1>7, <1>8, <1>9, <1>10 DEF StopOK

\* Of a step that leaves the connections and the loops alone.
LEMMA QuietLoops ==
    ASSUME IInv, QuietStep, \A l \in AllLoops : SameWork(l), UNCHANGED <<phase, active>>
    PROVE  /\ Typed' /\ ~failed' /\ Sane(World, phase)'
           /\ (\A l \in AllLoops : ActiveOK(World, phase, active, l))'
<1>1. \A l \in AllLoops : SameActive(l) BY DEF SameActive
<1> QED BY <1>1, QuietSane, QuietActive

LEMMA StartInv ==
    ASSUME IInv, Start
    PROVE  IInv'
<1>1. /\ acceptor = "quiet" /\ acceptor' = "listening"
      /\ wheels' = IF setup.idle THEN IoLoops ELSE {}
      /\ UNCHANGED <<setup, nextLoop, connSet, conn, queue, phase, active, quit,
                     spc, stopper, closing, failed, dead, openAtStop, inCallback>>
    BY DEF Start
<1>2. QuietStep /\ \A l \in AllLoops : SameWork(l)
    BY <1>1, QuietQueues DEF IInv, TypeOK
<1>3. /\ Typed' /\ ~failed' /\ Sane(World, phase)'
      /\ (\A l \in AllLoops : ActiveOK(World, phase, active, l))'
    BY <1>1, <1>2, QuietLoops
<1>4. wheels' \in SUBSET AllLoops BY <1>1, AllLoopsFacts DEF IInv, TypeOK
<1>5. TypeOK' BY <1>1, <1>3, <1>4 DEF IInv, TypeOK, Typed, ConnTables, ConnSets, Queues, Flags
<1>6. NothingDeadIsUsed' BY <1>1 DEF IInv, NothingDeadIsUsed
<1>7. ~Stopping /\ spc' \in {"no", "asked"} BY <1>1 DEF IInv, StopOK, Stopping
<1>9. wheels' # {} => setup.idle BY <1>1
<1>10. \A l \in AllLoops : <<"stop", Main>> \in Range(queue'[l]) => l = Main /\ spc' = "asked"
    BY <1>1 DEF IInv, StopOK
<1>11. acceptor' # "gone" /\ UNCHANGED <<setup, conn, quit, closing, dead, inCallback, phase, active>>
    BY <1>1
<1>12. StopOK' BY <1>1, <1>7, <1>9, <1>10, <1>11, StopNotYet
<1> QED BY <1>3, <1>5, <1>6, <1>12 DEF IInv
LEMMA AskStopInv ==
    ASSUME IInv, AskStop
    PROVE  IInv'
<1> DEFINE f == <<"stop", Main>>
<1>1. /\ spc = "no" /\ spc' = "asked" /\ acceptor = "listening" /\ stopper' = "other"
      /\ queue' = [queue EXCEPT ![Main] = Append(@, f)]
      /\ UNCHANGED <<conn, connSet, phase, failed>>
      /\ UNCHANGED <<setup, acceptor, conn, quit, closing, dead, inCallback, phase, active>>
      /\ wheels' = wheels
    BY DEF AskStop
<1>2. \A l \in AllLoops : f \notin Range(queue[l]) BY <1>1 DEF IInv, StopOK
<1>3. Main \in AllLoops /\ dead' \in BOOLEAN /\ f \in {<<"stop", Main>>, <<"wheel", Main>>}
    BY <1>1, AllLoopsFacts DEF IInv, TypeOK
<1> HIDE DEF f
<1>4. /\ QuietStep /\ \A m \in AllLoops : SameWork(m)
      /\ \A m \in AllLoops : \A g : g \in Range(queue'[m]) => g \in Range(queue[m]) \/ (m = Main /\ g = f)
    BY <1>1, <1>2, <1>3, QuietAppend
<1>5. /\ Typed' /\ ~failed' /\ Sane(World, phase)'
      /\ (\A l \in AllLoops : ActiveOK(World, phase, active, l))'
    BY <1>1, <1>4, QuietLoops
<1>6. TypeOK' BY <1>1, <1>5 DEF AskStop, IInv, TypeOK, Typed, ConnTables, ConnSets, Queues, Flags
<1>7. NothingDeadIsUsed' BY DEF AskStop, IInv, NothingDeadIsUsed
<1>8. \A l \in AllLoops : <<"stop", Main>> \in Range(queue'[l]) => l = Main /\ spc' = "asked"
    BY <1>1, <1>2, <1>4 DEF f
<1>9. ~Stopping /\ spc' \in {"no", "asked"} /\ acceptor' # "gone" BY <1>1 DEF Stopping
<1>10. wheels' # {} => setup.idle BY <1>1 DEF IInv, StopOK
<1>11. StopOK' BY <1>1, <1>8, <1>9, <1>10, StopNotYet
<1> QED BY <1>5, <1>6, <1>7, <1>11 DEF IInv

\* The first half of stop().
LEMMA CloseAllInv ==
    ASSUME IInv, ~Stopping, CloseAll, QuietStep, \A l \in AllLoops : SameWork(l),
           \A l \in AllLoops : <<"stop", Main>> \notin Range(queue'[l]),
           \A l \in AllLoops : Listener \in active[l] => inCallback',
           stopper' \in {"none", "main", "other"}, inCallback' \in BOOLEAN
    PROVE  IInv'
<1>1. /\ Typed' /\ ~failed' /\ Sane(World, phase)'
      /\ (\A l \in AllLoops : ActiveOK(World, phase, active, l))'
    BY QuietLoops DEF CloseAll
<1>2. openAtStop' \in BOOLEAN BY DEF CloseAll
<1>3. TypeOK'
    BY <1>1, <1>2 DEF CloseAll, IInv, TypeOK, Typed, ConnTables, ConnSets, Queues, Flags
<1>4. ~dead' BY DEF CloseAll, IInv, StopOK
<1>5. NothingDeadIsUsed' BY <1>4 DEF NothingDeadIsUsed
<1>6. StopOK' BY StopBegins
<1> QED BY <1>1, <1>3, <1>5, <1>6 DEF IInv

LEMMA StopHereInv ==
    ASSUME IInv, StopHere
    PROVE  IInv'
<1>1. /\ spc = "no" /\ CloseAll /\ queue' = queue
      /\ stopper' = "main" /\ inCallback' = (phase[Main] = "active")
    BY DEF StopHere
<1>2. UNCHANGED <<conn, connSet, queue, failed>> /\ phase' = phase /\ dead' = dead
    BY <1>1 DEF CloseAll
<1>3. dead' \in BOOLEAN BY <1>2 DEF IInv, TypeOK
<1>4. QuietStep /\ \A l \in AllLoops : SameWork(l) BY <1>2, <1>3, QuietQueues
<1>5. ~Stopping BY <1>1 DEF Stopping
<1>6. \A l \in AllLoops : <<"stop", Main>> \notin Range(queue'[l]) BY <1>1 DEF IInv, StopOK
<1>7. \A l \in AllLoops : Listener \in active[l] => inCallback'
  <2>1. inCallback' = (phase[Main] = "active") BY <1>1
  <2>2. ASSUME NEW l \in AllLoops, Listener \in active[l] PROVE phase[Main] = "active"
    <3>1. l = Main BY <2>2 DEF IInv, StopOK
    <3> QED BY <2>2, <3>1 DEF IInv, ActiveOK
  <2> QED BY <2>1, <2>2
<1> QED BY <1>1, <1>4, <1>5, <1>6, <1>7, CloseAllInv

LEMMA StopQueuedInv ==
    ASSUME IInv, StopQueued
    PROVE  IInv'
<1>1. /\ phase[Main] = "funcs" /\ queue[Main] # <<>> /\ queue[Main][1][1] = "stop"
      /\ queue' = [queue EXCEPT ![Main] = Tail(@)]
      /\ CloseAll /\ UNCHANGED <<stopper, inCallback>>
    BY DEF StopQueued, Free
<1>2. UNCHANGED <<conn, connSet, phase, failed>> /\ dead' = dead BY <1>1 DEF CloseAll
<1>3. dead' \in BOOLEAN /\ Main \in AllLoops BY <1>2, AllLoopsFacts DEF IInv, TypeOK
<1>4. queue[Main] \in Seq(Function) BY <1>3 DEF IInv, TypeOK
<1>5. queue[Main][1] \in Function BY <1>1, <1>4, QueueElements
<1>6. queue[Main][1] = <<"stop", Main>> BY <1>1, <1>5, FunctionParts DEF Ops
<1>7. /\ QuietStep /\ \A m \in AllLoops : SameWork(m)
      /\ \A m \in AllLoops : \A g : g \in Range(queue'[m]) => g \in Range(queue[m])
      /\ <<"stop", Main>> \in Range(queue[Main]) /\ <<"stop", Main>> \notin Range(queue'[Main])
    BY <1>1, <1>2, <1>3, <1>6, QuietTail
<1>8. spc = "asked" BY <1>3, <1>7 DEF IInv, StopOK
<1>9. ~Stopping BY <1>8 DEF Stopping
<1>10. \A l \in AllLoops : <<"stop", Main>> \notin Range(queue'[l]) BY <1>7 DEF IInv, StopOK
<1>11. \A l \in AllLoops : Listener \in active[l] => inCallback'
    BY <1>1 DEF IInv, StopOK, ActiveOK
<1>12. stopper' \in {"none", "main", "other"} /\ inCallback' \in BOOLEAN
    BY <1>1 DEF IInv, TypeOK
<1> QED BY <1>1, <1>7, <1>9, <1>10, <1>11, <1>12, CloseAllInv

LEMMA CloseNextInv ==
    ASSUME IInv, CloseNext
    PROVE  IInv'
<1>1. /\ spc = "closing" /\ Stopping
      /\ UNCHANGED <<setup, acceptor, openAtStop, inCallback, phase, active>>
      /\ UNCHANGED <<nextLoop, quit, stopper, wheels>>
    BY DEF CloseNext, Stopping
<1>2. quit = {} BY <1>1 DEF IInv, StopOK
<1>3. \A l \in AllLoops : phase[l] # "ended" BY <1>2 DEF IInv, StopOK, Ended
<1>4. ASSUME NEW c \in closing, Becomes(ForceClose(World, Main, c)),
             closing' = closing \ {c}, spc' = spc
      PROVE  IInv'
  <2> DEFINE u == ForceClose(World, Main, c)
  <2>1. c \in Conns /\ c \in connSet BY DEF IInv, StopOK, TypeOK
  <2>2. Referred(World, c) BY <2>1, WorldFacts DEF Referred
  <2>3. Taken(World, c) /\ InStage(World, phase, c) /\ World.conn[c].st # "None"
      BY <2>1, <2>2, NothingTaken, ReferredAlive, WorldFacts
  <2>4. World \in WorldType BY <2>3 DEF Taken
  <2>5. Becomes(u) /\ phase[Main] # "ended" BY <1>3, <1>4, AllLoopsFacts
  <2>6. Advance(World, u, c) /\ InStage(u, phase, c)
      BY <2>1, <2>3, <2>4, <2>5, ForceCloseDoes
  <2> HIDE DEF u
  <2>7. /\ Typed' /\ ~failed' /\ Sane(World, phase)'
        /\ (\A l \in AllLoops : ActiveOK(World, phase, active, l))'
        /\ connSet' \subseteq connSet
        /\ dead' => dead \/ phase[conn[c].loop] = "ended"
        /\ \A l \in AllLoops :
              <<"stop", Main>> \in Range(queue'[l]) => <<"stop", Main>> \in Range(queue[l])
      BY <1>1, <2>1, <2>3, <2>5, <2>6, WorldStep
  <2>8. closing' \in SUBSET Conns BY <1>4 DEF IInv, TypeOK
  <2>9. TypeOK'
      BY <1>1, <1>4, <2>7, <2>8 DEF IInv, TypeOK, Typed, ConnTables, ConnSets, Queues, Flags
  <2>10. conn[c].loop \in AllLoops BY <2>1 DEF IInv, TypeOK, ConnType
  <2>11. NothingDeadIsUsed' BY <1>1, <1>3, <2>7, <2>10 DEF IInv, NothingDeadIsUsed
  <2>12. closing' \subseteq connSet'
    <3>1. ASSUME NEW d \in closing' PROVE d \in connSet'
      <4>1. d \in Conns \ {c} /\ d \in connSet BY <1>4 DEF IInv, StopOK, TypeOK
      <4>2. Untouched(World, u, d) BY <2>6, <4>1 DEF Advance
      <4> QED BY <2>5, <4>1, <4>2, WorldFacts DEF Untouched, Becomes
    <3> QED BY <3>1
  <2>13. spc' \notin {"no", "asked"} /\ (spc' # "closing" => closing' = {})
      BY <1>1, <1>4
  <2>14. quit' # {} => setup.own /\ quit' \subseteq IoLoops /\ spc' # "closing"
      BY <1>1, <1>2
  <2>15. quit \subseteq quit' /\ wheels' \subseteq wheels BY <1>1
  <2>16. StopOK' BY <1>1, <2>7, <2>12, <2>13, <2>14, <2>15, StopGoesOn
  <2> QED BY <2>7, <2>9, <2>11, <2>16 DEF IInv
<1>5. ASSUME closing = {}, spc' = "pool",
             UNCHANGED <<connSet, conn, queue, closing, failed, dead>>
      PROVE  IInv'
  <2>1. dead' \in BOOLEAN BY <1>5 DEF IInv, TypeOK
  <2>2. QuietStep /\ \A l \in AllLoops : SameWork(l) BY <1>1, <1>5, <2>1, QuietQueues
  <2>3. /\ Typed' /\ ~failed' /\ Sane(World, phase)'
        /\ (\A l \in AllLoops : ActiveOK(World, phase, active, l))'
      BY <1>1, <2>2, QuietLoops
  <2>4. TypeOK' BY <1>1, <1>5, <2>3 DEF IInv, TypeOK, Typed, ConnTables, ConnSets, Queues, Flags
  <2>5. NothingDeadIsUsed' BY <1>1, <1>5 DEF IInv, NothingDeadIsUsed
  <2>6. spc' \notin {"no", "asked"} /\ (spc' # "closing" => closing' = {})
        /\ closing' \subseteq connSet' /\ connSet' \subseteq connSet
      BY <1>5
  <2>7. quit' # {} => setup.own /\ quit' \subseteq IoLoops /\ spc' # "closing"
      BY <1>1, <1>2
  <2>8. quit \subseteq quit' /\ wheels' \subseteq wheels BY <1>1
  <2>9. \A l \in AllLoops :
              <<"stop", Main>> \in Range(queue'[l]) => <<"stop", Main>> \in Range(queue[l])
      BY <1>5
  <2>10. StopOK' BY <1>1, <2>6, <2>7, <2>8, <2>9, StopGoesOn
  <2> QED BY <2>3, <2>4, <2>5, <2>10 DEF IInv
<1> QED BY <1>4, <1>5 DEF CloseNext
\* The second half, which leaves the connections alone.
LEMMA SecondHalf ==
    ASSUME IInv, spc \in {"pool", "wheels", "wait"}, spc' \in {"pool", "wheels", "wait", "done"},
           QuietStep, \A l \in AllLoops : SameWork(l), wheels' \subseteq wheels,
           dead' => dead \/ (setup.own /\ setup.idle),
           quit' \subseteq AllLoops, quit \subseteq quit',
           quit' # {} => setup.own /\ quit' \subseteq IoLoops,
           \A l \in AllLoops :
               <<"stop", Main>> \in Range(queue'[l]) => <<"stop", Main>> \in Range(queue[l]),
           UNCHANGED <<setup, acceptor, openAtStop, inCallback, phase, active>>,
           UNCHANGED <<nextLoop, stopper, closing>>
    PROVE  IInv'
<1>1. /\ Typed' /\ ~failed' /\ Sane(World, phase)'
      /\ (\A l \in AllLoops : ActiveOK(World, phase, active, l))'
    BY QuietLoops
<1>2. TypeOK' BY <1>1 DEF IInv, TypeOK, Typed, ConnTables, ConnSets, Queues, Flags
<1>3. NothingDeadIsUsed' BY DEF IInv, NothingDeadIsUsed
<1>4. closing = {} /\ Stopping BY DEF IInv, StopOK, Stopping
<1>5. closing' \subseteq connSet' /\ (spc' # "closing" => closing' = {}) BY <1>4
<1>6. connSet' \subseteq connSet BY DEF QuietStep
<1>7. spc' \notin {"no", "asked"} /\ spc' # "closing" OBVIOUS
<1>8. StopOK' BY <1>4, <1>5, <1>6, <1>7, StopGoesOn
<1> QED BY <1>1, <1>2, <1>3, <1>8 DEF IInv

LEMMA ResetPoolInv ==
    ASSUME IInv, ResetPool
    PROVE  IInv'
<1>1. /\ spc = "pool" /\ spc' \in {"pool", "wheels"}
      /\ quit \subseteq quit' /\ (quit' = quit \/ (setup.own /\ quit' \subseteq quit \cup IoLoops))
      /\ UNCHANGED <<conn, connSet, queue, failed>>
      /\ UNCHANGED <<setup, acceptor, openAtStop, inCallback, phase, active>>
      /\ UNCHANGED <<nextLoop, stopper, closing, wheels, dead>>
    BY DEF ResetPool
<1>2. QuietStep /\ \A l \in AllLoops : SameWork(l) BY <1>1, QuietQueues DEF IInv, TypeOK
<1>3. quit' \subseteq AllLoops /\ (quit' # {} => setup.own /\ quit' \subseteq IoLoops)
    BY <1>1, AllLoopsFacts DEF IInv, StopOK, TypeOK
<1>4. wheels' \subseteq wheels /\ (dead' => dead \/ (setup.own /\ setup.idle)) BY <1>1
<1>5. \A l \in AllLoops :
          <<"stop", Main>> \in Range(queue'[l]) => <<"stop", Main>> \in Range(queue[l])
    BY <1>1
<1>6. spc \in {"pool", "wheels", "wait"} /\ spc' \in {"pool", "wheels", "wait", "done"}
    BY <1>1
<1> QED BY <1>1, <1>2, <1>3, <1>4, <1>5, <1>6, SecondHalf

LEMMA WheelGoneInv ==
    ASSUME IInv, WheelGone
    PROVE  IInv'
<1>1. /\ spc = "wait" /\ spc' = "wheels"
      /\ UNCHANGED <<conn, connSet, queue, failed>>
      /\ UNCHANGED <<setup, acceptor, openAtStop, inCallback, phase, active>>
      /\ UNCHANGED <<nextLoop, stopper, closing, wheels, dead, quit>>
    BY DEF WheelGone
<1>2. QuietStep /\ \A l \in AllLoops : SameWork(l) BY <1>1, QuietQueues DEF IInv, TypeOK
<1>3. /\ quit' \subseteq AllLoops /\ quit \subseteq quit'
      /\ quit' # {} => setup.own /\ quit' \subseteq IoLoops
    BY <1>1 DEF IInv, StopOK, TypeOK
<1>4. wheels' \subseteq wheels /\ (dead' => dead \/ (setup.own /\ setup.idle)) BY <1>1
<1>5. \A l \in AllLoops :
          <<"stop", Main>> \in Range(queue'[l]) => <<"stop", Main>> \in Range(queue[l])
    BY <1>1
<1>6. spc \in {"pool", "wheels", "wait"} /\ spc' \in {"pool", "wheels", "wait", "done"}
    BY <1>1
<1> QED BY <1>1, <1>2, <1>3, <1>4, <1>5, <1>6, SecondHalf

LEMMA ResetWheelInv ==
    ASSUME IInv, ResetWheel
    PROVE  IInv'
<1> DEFINE f == <<"wheel", Main>>
<1>1. /\ spc = "wheels" /\ spc' \in {"wheels", "wait", "done"} /\ wheels' \subseteq wheels
      /\ UNCHANGED <<conn, connSet, failed>>
      /\ UNCHANGED <<setup, acceptor, openAtStop, inCallback, phase, active>>
      /\ UNCHANGED <<nextLoop, stopper, closing, quit>>
    BY DEF ResetWheel
<1>2. /\ quit' \subseteq AllLoops /\ quit \subseteq quit'
      /\ quit' # {} => setup.own /\ quit' \subseteq IoLoops
    BY <1>1 DEF IInv, StopOK, TypeOK
<1>3. spc \in {"pool", "wheels", "wait"} /\ spc' \in {"pool", "wheels", "wait", "done"}
    BY <1>1
<1>4. /\ QuietStep /\ \A l \in AllLoops : SameWork(l)
      /\ dead' => dead \/ (setup.own /\ setup.idle)
      /\ \A l \in AllLoops :
            <<"stop", Main>> \in Range(queue'[l]) => <<"stop", Main>> \in Range(queue[l])
  <2>1. CASE UNCHANGED <<queue, dead>>
      BY <1>1, <2>1, QuietQueues DEF IInv, TypeOK
  <2>2. ASSUME NEW l \in wheels, queue' = QueueInLoop(World, l, f).queue,
               dead' = QueueInLoop(World, l, f).dead, phase[l] = "ended"
        PROVE  QuietStep /\ (\A m \in AllLoops : SameWork(m)) /\ queue' = queue
               /\ setup.own /\ setup.idle
    <3>1. l \in AllLoops BY DEF IInv, TypeOK
    <3>2. queue' = queue /\ dead' = TRUE BY <2>2, WorldFacts DEF QueueInLoop, World
    <3>3. setup.own /\ setup.idle BY <2>2, <3>1, EndedFacts DEF IInv, StopOK
    <3>4. dead' \in BOOLEAN BY <3>2
    <3>5. QuietStep /\ \A m \in AllLoops : SameWork(m) BY <1>1, <3>2, <3>4, QuietQueues
    <3> QED BY <3>2, <3>3, <3>5
  <2>3. ASSUME NEW l \in wheels, queue' = QueueInLoop(World, l, f).queue,
               dead' = QueueInLoop(World, l, f).dead, phase[l] # "ended"
        PROVE  /\ QuietStep /\ (\A m \in AllLoops : SameWork(m)) /\ (dead' => dead)
               /\ \A m \in AllLoops :
                     <<"stop", Main>> \in Range(queue'[m]) => <<"stop", Main>> \in Range(queue[m])
    <3>1. l \in AllLoops BY DEF IInv, TypeOK
    <3>2. queue' = [queue EXCEPT ![l] = Append(@, f)] /\ dead' = dead
        BY <2>3, WorldFacts DEF QueueInLoop, World
    <3>3. dead' \in BOOLEAN BY <3>2 DEF IInv, TypeOK
    <3>4. /\ f \in {<<"stop", Main>>, <<"wheel", Main>>} /\ f[1] # "stop"
          /\ <<"stop", Main>> # f
        OBVIOUS
    <3> HIDE DEF f
    <3>5. /\ QuietStep /\ \A m \in AllLoops : SameWork(m)
          /\ \A m \in AllLoops : \A g : g \in Range(queue'[m]) => g \in Range(queue[m]) \/ (m = l /\ g = f)
        BY <1>1, <3>1, <3>2, <3>3, <3>4, QuietAppend
    <3> QED BY <3>2, <3>4, <3>5
  <2> QED BY <2>1, <2>2, <2>3 DEF ResetWheel
<1> QED BY <1>1, <1>2, <1>3, <1>4, SecondHalf

-----------------------------------------------------------------------------
(* The theorems *)

\* Every step keeps the invariant.
LEMMA NextInv ==
    ASSUME IInv, [Next]_vars
    PROVE  IInv'
<1>1. ASSUME NEW l \in AllLoops, LoopStep(l) PROVE IInv'
  <2>1. ASSUME NEW cs \in SUBSET (Conns \cup {Listener}), Poll(l, cs) PROVE IInv'
      BY <2>1, PollInv
  <2>2. ASSUME NEW c \in Conns, NEW d \in Conns, HandleEvent(l, c, d) PROVE IInv'
      BY <2>2, HandleEventInv
  <2> QED BY <1>1, <2>1, <2>2, TestQuitInv, RunFuncInv, ActiveDoneInv, FuncsDoneInv,
             NothingAcceptedInv DEF LoopStep
<1>2. ASSUME NEW c \in Conns, NEW f \in Fds, NewConnection(c, f) PROVE IInv'
    BY <1>2, NewConnectionInv
<1>3. CASE StopStep
    BY <1>3, StopQueuedInv, CloseNextInv, ResetPoolInv, ResetWheelInv, WheelGoneInv DEF StopStep
<1>4. CASE UNCHANGED vars
  <2>1. QuietStep /\ \A l \in AllLoops : SameWork(l)
      BY <1>4, QuietQueues DEF vars, IInv, TypeOK
  <2>2. UNCHANGED <<phase, active>> BY <1>4 DEF vars
  <2>3. /\ Typed' /\ ~failed' /\ Sane(World, phase)'
        /\ (\A l \in AllLoops : ActiveOK(World, phase, active, l))'
      BY <2>1, <2>2, QuietLoops
  <2>4. TypeOK' BY <1>4, <2>3 DEF vars, IInv, TypeOK, Typed, ConnTables, ConnSets, Queues, Flags
  <2>5. NothingDeadIsUsed' BY <1>4 DEF vars, IInv, NothingDeadIsUsed
  <2>6. /\ \A l \in AllLoops : phase'[l] = "ended" => l \in quit
        /\ \A l \in AllLoops :
               Listener \in active'[l] => l = Main /\ (acceptor = "listening" \/ inCallback)
        /\ ~Stopping => ~dead'
      BY <1>4 DEF vars, IInv, StopOK, Ended
  <2>7. StopOK' BY <1>4, <2>6, StopKept DEF vars
  <2> QED BY <2>3, <2>4, <2>5, <2>7 DEF IInv
<1> QED BY <1>1, <1>2, <1>3, <1>4, StartInv, AskStopInv, StopHereInv DEF Next

\* The inductive invariant holds in every state the server reaches: every
\* connection is in one stage of its life, whatever its loop, its server and
\* stop() do meanwhile.
THEOREM Invariance == Spec => []IInv
<1>1. Init => IInv BY InitInv
<1>2. IInv /\ [Next]_vars => IInv' BY NextInv
<1> QED BY <1>1, <1>2, PTL DEF Spec

\* The pollers hold what they should: a connection is in its loop's epoll set
\* exactly as long as it has events, and what connSet_ has forgotten is about
\* to be removed (handleCloseInLoop queues connectDestroyed).
THEOREM PollersMatch == Spec => []PollerMatches
<1>1. IInv => PollerMatches
  <2> SUFFICES ASSUME IInv PROVE PollerMatches OBVIOUS
  <2>1. ASSUME NEW c \in Conns
        PROVE  /\ conn[c].reading <=> conn[c].index = "added"
               /\ (conn[c].index # "new" /\ c \notin connSet) =>
                     Ended(conn[c].loop) \/ <<"destroy", c>> \in Range(queue[conn[c].loop])
    <3>1. InStage(World, phase, c) BY DEF IInv, Sane
    <3>2. conn[c].reading <=> conn[c].index = "added"
        BY <3>1, WorldFacts
        DEF InStage, Unused, Opening, Open, Reported, Leaving, Removed, Channel
    <3>3. (conn[c].index # "new" /\ c \notin connSet) => Comes(World, phase, "destroy", c)
        BY <3>1, WorldFacts
        DEF InStage, Unused, Opening, Open, Reported, Leaving, Removed, Channel
    <3> QED BY <3>2, <3>3, WorldFacts DEF Comes, Waiting, Ended
  <2> QED BY <2>1 DEF PollerMatches, IInv
<1> QED BY <1>1, Invariance, PTL

\* The assertions of newConnection's, handleCloseInLoop's and the channels'
\* code hold, no list of active channels has a connection that is gone, and
\* what stop() has destroyed is used only in the cases NothingDeadIsUsed names.
THEOREM ServerIsSafe == Spec => []ServerSafe
<1>1. IInv => ServerSafe
  <2> SUFFICES ASSUME IInv PROVE ServerSafe OBVIOUS
  <2>1. ASSUME NEW l \in AllLoops, NEW c \in active[l] \ {Listener} PROVE Alive(c)
    <3>1. c \in Conns BY DEF IInv, TypeOK
    <3>2. c \in connSet \/ <<"destroy", c>> \in Waiting(World, l)
        BY WorldFacts DEF IInv, ActiveOK
    <3>3. Referred(World, c) BY <3>2, WorldFacts DEF Referred, Ops
    <3> QED BY <3>1, <3>3, ReferredAlive
  <2> QED BY <2>1 DEF ServerSafe, AssertionsHold, ActiveChannelsExist, IInv
<1> QED BY <1>1, Invariance, PTL
=============================================================================

----------------------------- MODULE UtilProofs -----------------------------
(***************************************************************************)
(* Proofs about cooper/util: what threads share, for any number of         *)
(* threads, messages and tasks, and the buffer, for every length.          *)
(*  - MpscQueue: with one consumer the inductive invariant IInv holds, and *)
(*    with it memory safety, the order of delivery, and what hides items;  *)
(*    the queue implements FifoQueue.                                      *)
(*  - AsyncLogWriter, as long as no message has a level from kError up:    *)
(*    dequeue is never called by two threads together although both the    *)
(*    writer thread and the owner call it, and stdout gets the log.        *)
(*  - ThreadPool: one notify_one per task is enough.                       *)
(*  - MsgBuffer: for every base, every number of bytes kept free and every *)
(*    sequence of calls, the indices stay inside the vector, and the       *)
(*    buffer implements a string of bytes.                                 *)
(***************************************************************************)
EXTENDS AsyncLogWriter, ThreadPool, MsgBuffer, SequenceTheorems, FiniteSetTheorems,
        WellFoundedInduction, TLAPS


-----------------------------------------------------------------------------
(* Sequences *)

\* What Append does to the length and the elements.
LEMMA AppendFacts ==
    ASSUME NEW S, NEW s \in Seq(S), NEW e \in S
    PROVE  /\ Append(s, e) \in Seq(S)
           /\ Len(Append(s, e)) = Len(s) + 1
           /\ \A i \in 1..Len(s) : Append(s, e)[i] = s[i]
           /\ Append(s, e)[Len(s) + 1] = e
OBVIOUS

\* The constructor establishes the invariant.
LEMMA InitInv == Init => IInv
<1> SUFFICES ASSUME Init PROVE IInv OBVIOUS
<1> USE QueueAssumption DEF Init
<1>1. TypeOK BY DEF TypeOK, Ptr, Steps
<1>2. First = 1 /\ Last = 1 BY DEF First, Last
<1>3. ListShape BY <1>2 DEF ListShape
<1>4. ListLinks BY <1>2 DEF ListLinks
<1>5. Roles BY DEF Roles
<1>6. ConsumerView BY DEF ConsumerView
<1>7. ListData BY <1>2 DEF ListData
<1>8. NewNodes /\ OldTail BY DEF NewNodes, OldTail
<1>9. LiveNodes BY <1>2 DEF LiveNodes
<1>10. Drained BY <1>2 DEF Drained
<1> QED BY <1>1, <1>3, <1>4, <1>5, <1>6, <1>7, <1>8, <1>9, <1>10
        DEF IInv, ListInvariant

-----------------------------------------------------------------------------
(* Every step preserves the invariant *)

\* The places of the list.
LEMMA ListPlaces ==
    ASSUME IInv
    PROVE  /\ First \in Nat /\ Last \in Nat /\ 1 <= First /\ First <= Last
           /\ \A i \in First..Last : order[i] \in Nodes
           /\ tail = order[First] /\ head = order[Last]
BY DEF IInv, TypeOK, ListInvariant, ListShape, First, Last

\* enqueue allocates a node.
LEMMA NewNodeInv ==
    ASSUME IInv, NEW t \in Producers, NEW v \in Values, NewNode(t, v),
           phase = "open"
    PROVE  IInv'
<1> t \in Threads BY QueueAssumption
<1> USE DEF NewNode, Goto
<1>1. PICK n \in Nodes \ live :
          /\ live' = live \cup {n}
          /\ node' = [node EXCEPT ![t] = n]
          /\ next' = [next EXCEPT ![n] = Null]
          /\ data' = [data EXCEPT ![n] = v]
    OBVIOUS
<1>2. TypeOK' BY <1>1 DEF IInv, TypeOK, Steps, Ptr
<1> USE DEF IInv, TypeOK
<1>3. First' = First /\ Last' = Last /\ First \in Nat /\ Last \in Nat /\ First <= Last
    BY DEF First, Last, ListInvariant, ListShape
<1>4. \A i \in First..Last : order[i] \in Nodes /\ order[i] # n
    BY <1>1 DEF ListInvariant, LiveNodes, First, Last
<1>5. ListShape' BY <1>3 DEF ListInvariant, ListShape
<1>6. ListLinks'
  <2> \A i \in First..Last : next'[order[i]] = next[order[i]] BY <1>1, <1>4
  <2>1. next'[head] = Null
      BY <1>1, QueueAssumption DEF ListInvariant, ListLinks
  <2>2. \A u \in Threads, i \in First..Last : Linking(u, i) => Linking(u, i)'
      BY <1>1 DEF Linking
  <2>3. \A u \in Threads : pc'[u] = "link" => pc[u] = "link" OBVIOUS
  <2>4. (\A i \in First..(Last - 1) :
          next[order[i]] # order[i + 1] =>
             next[order[i]] = Null /\ \E u \in Producers : Linking(u, i))'
    <3> SUFFICES ASSUME NEW i \in First..(Last - 1), next'[order[i]] # order[i + 1]
                 PROVE  next'[order[i]] = Null /\ \E u \in Producers : Linking(u, i)'
        BY <1>3
    <3>1. i \in First..Last BY <1>3
    <3> QED BY <1>3, <2>2, <3>1, QueueAssumption DEF ListInvariant, ListLinks
  <2>5. (\A u \in Threads : pc[u] = "link" =>
          \E i \in First..(Last - 1) : Linking(u, i) /\ next[order[i]] = Null)'
      BY <1>3, <1>4, <2>2, <2>3 DEF ListInvariant, ListLinks
  <2> QED BY <2>1, <2>3, <2>4, <2>5 DEF ListInvariant, ListLinks
<1>7. Roles' BY DEF ListInvariant, Roles
<1>8. ConsumerView'
  <2> tail \in Nodes /\ tail # n BY <1>3, <1>4 DEF ListInvariant, ListShape
  <2>1. \A u \in Threads : pc'[u] # "exchange" => pc'[u] = pc[u] OBVIOUS
  <2>2. First < Last => order[First + 1] \in Nodes /\ order[First + 1] # n
      BY <1>3, <1>4
  <2> QED BY <1>1, <1>3, <2>1, <2>2 DEF ListInvariant, ConsumerView
<1>9. ListData'
  <2>1. \A i \in First..Last : data'[order[i]] = data[order[i]] BY <1>1, <1>4
  <2>2. \A u \in Threads : pc[u] # "idle" => pc'[u] = pc[u] /\ node'[u] = node[u]
      BY <1>1
  <2>3. \A m \in Nodes : data'[m] # Null => m = n \/ data[m] # Null BY <1>1
  <2>4. pc'[t] = "exchange" /\ node'[t] = n BY <1>1
  <2>5. (\A i \in (First + 1)..Last :
          \/ data[order[i]] = log[i - 1]
          \/ i = First + 1 /\ \E u \in Consumers : pc[u] = "store")'
      BY <1>3, <2>1, <2>2, QueueAssumption DEF ListInvariant, ListData
  <2>6. (\A m \in Nodes : data[m] # Null =>
          \/ \E i \in (First + 1)..Last : m = order[i]
          \/ \E u \in Threads : pc[u] = "exchange" /\ node[u] = m)'
      BY <1>3, <2>2, <2>3, <2>4 DEF ListInvariant, ListData
  <2>7. (\A i \in 1..Len(taken) : taken[i] = log[i])' BY DEF ListInvariant, ListData
  <2> QED BY <2>5, <2>6, <2>7 DEF ListData
<1>10. NewNodes' BY <1>1, <1>3, <1>4, QueueAssumption DEF ListInvariant, NewNodes
<1>11. OldTail' BY <1>1, <1>3, <1>4 DEF ListInvariant, OldTail
<1>12. LiveNodes'
  <2>1. live' = live \cup {n} /\ pc'[t] = "exchange" /\ node'[t] = n BY <1>1
  <2>2. \A u \in Threads : pc[u] # "idle" =>
            pc'[u] = pc[u] /\ node'[u] = node[u] /\ ltail'[u] = ltail[u]
      BY <1>1
  <2>3. phase' = phase /\ order' = order OBVIOUS
  <2>4. (phase # "destroyed" => \A i \in First..Last : order[i] \in live)'
      BY <1>3, <2>1, <2>3 DEF ListInvariant, LiveNodes
  <2>5. ASSUME NEW m \in live'
        PROVE  (\/ phase # "destroyed" /\ \E i \in First..Last : m = order[i]
                \/ \E u \in Threads : pc[u] = "exchange" /\ node[u] = m
                \/ \E u \in Threads : pc[u] = "delete" /\ ltail[u] = m)'
    <3>1. CASE m = n BY <2>1, <3>1
    <3>2. CASE m \in live
      <4>1. \/ phase # "destroyed" /\ \E i \in First..Last : m = order[i]
            \/ \E u \in Threads : pc[u] = "exchange" /\ node[u] = m
            \/ \E u \in Threads : pc[u] = "delete" /\ ltail[u] = m
          BY <3>2 DEF ListInvariant, LiveNodes
      <4> QED BY <1>3, <2>2, <2>3, <4>1
    <3> QED BY <2>1, <2>5, <3>1, <3>2
  <2> QED BY <2>4, <2>5 DEF LiveNodes
<1>13. Drained' BY <1>1, <1>3, <1>4 DEF ListInvariant, Drained
<1> QED BY <1>2, <1>5, <1>6, <1>7, <1>8, <1>9, <1>10, <1>11, <1>12, <1>13
        DEF IInv, ListInvariant

\* enqueue swaps head_: the list gets a node that is not yet linked.
LEMMA ExchangeInv ==
    ASSUME IInv, NEW t \in Producers, Exchange(t)
    PROVE  IInv'
<1> t \in Threads BY QueueAssumption
<1> DEFINE n == node[t]
<1> USE DEF Exchange, Goto
<1>1. /\ First \in Nat /\ Last \in Nat /\ 1 <= First /\ First <= Last
      /\ \A i \in First..Last : order[i] \in Nodes /\ order[i] # n
      /\ tail = order[First] /\ head = order[Last]
    BY ListPlaces DEF IInv, ListInvariant, NewNodes
<1>2. /\ n \in Nodes /\ next[n] = Null /\ data[n] # Null /\ n \in live
      /\ \A u \in Threads : pc[u] = "exchange" /\ node[u] = n => u = t
      /\ phase = "open" /\ data[n] \in Values
    BY QueueAssumption DEF IInv, TypeOK, ListInvariant, NewNodes, Roles
<1>3. TypeOK'
    BY <1>2, AppendFacts DEF IInv, TypeOK, Steps, Ptr
<1>4. /\ order' \in Seq(Nodes) /\ Len(order') = Len(order) + 1
      /\ \A i \in 1..Len(order) : order'[i] = order[i]
      /\ order'[Len(order) + 1] = n
    BY <1>2, AppendFacts DEF IInv, TypeOK
<1>5. /\ log' \in Seq(Values) /\ Len(log') = Len(log) + 1
      /\ \A i \in 1..Len(log) : log'[i] = log[i]
      /\ log'[Len(log) + 1] = data[n]
    BY <1>2, AppendFacts DEF IInv, TypeOK
<1>6. /\ First' = First /\ Last' = Last + 1
      /\ \A i \in First..Last : order'[i] = order[i]
      /\ order'[Last + 1] = n
    BY <1>1, <1>4 DEF First, Last
<1>7. Last = Len(log) + 1 /\ Len(log) \in Nat
    BY DEF IInv, TypeOK, ListInvariant, ListShape
<1>8. /\ pc[t] = "exchange" /\ pc'[t] = "link" /\ prev'[t] = head
      /\ \A u \in Threads \ {t} : pc'[u] = pc[u] /\ prev'[u] = prev[u]
    BY DEF IInv, TypeOK
<1>u. /\ head' = n
      /\ UNCHANGED <<tail, next, data, live, node, ltail, lnext, out, ret, phase, taken>>
    OBVIOUS
<1> USE <1>u
<1> HIDE DEF n, Exchange, Goto
<1>9. ListShape'
  <2>1. (\A i, j \in First..Last : order[i] = order[j] => i = j)'
      BY <1>1, <1>6 DEF IInv, ListInvariant, ListShape
  <2>2. head' = order'[Last'] BY <1>1, <1>6 DEF n
  <2> QED BY <1>1, <1>5, <1>6, <1>7, <2>1, <2>2 DEF IInv, ListInvariant, ListShape
<1>10. ListLinks'
  <2>1. next'[head'] = Null BY <1>2 DEF n
  <2>2. next[head] = Null BY DEF IInv, ListInvariant, ListLinks
  <2>3. \A i \in {Last} : Linking(t, i)' BY <1>1, <1>6, <1>8 DEF Linking, n
  <2>4. \A u \in Threads, i \in First..(Last - 1) : Linking(u, i) => Linking(u, i)'
      BY <1>1, <1>6, <1>8 DEF Linking
  <2>5. ASSUME NEW i \in First..Last, next[order'[i]] # order'[i + 1]
        PROVE  next[order'[i]] = Null /\ \E u \in Producers : Linking(u, i)'
    <3>1. CASE i = Last BY <1>1, <1>6, <2>2, <2>3, <3>1
    <3>2. CASE i # Last
      <4>1. i \in First..(Last - 1) /\ i \in First..Last /\ i + 1 \in First..Last
          BY <1>1, <3>2
      <4> QED BY <1>6, <2>4, <2>5, <4>1, QueueAssumption
              DEF IInv, ListInvariant, ListLinks
    <3> QED BY <3>1, <3>2
  <2>6. ASSUME NEW u \in Threads, pc'[u] = "link"
        PROVE  \E i \in First..Last : Linking(u, i)' /\ next[order'[i]] = Null
    <3>1. CASE u = t BY <1>1, <1>6, <2>2, <2>3, <3>1
    <3>2. CASE u # t
      <4>1. PICK i \in First..(Last - 1) : Linking(u, i) /\ next[order[i]] = Null
          BY <1>8, <2>6, <3>2 DEF IInv, ListInvariant, ListLinks
      <4> QED BY <1>1, <1>6, <2>4, <4>1
    <3> QED BY <3>1, <3>2
  <2>7. \A u \in Threads \ {t} : pc'[u] = "link" => prev[u] # head
    <3> SUFFICES ASSUME NEW u \in Threads \ {t}, pc'[u] = "link" PROVE prev[u] # head
        OBVIOUS
    <3>1. PICK i \in First..(Last - 1) : Linking(u, i)
        BY <1>8 DEF IInv, ListInvariant, ListLinks
    <3> QED BY <1>1, <3>1 DEF Linking, IInv, ListInvariant, ListShape
  <2>8. (\A u, w \in Threads :
           pc[u] = "link" /\ pc[w] = "link" /\ prev[u] = prev[w] => u = w)'
      BY <1>8, <2>7 DEF IInv, ListInvariant, ListLinks
  <2> QED BY <1>1, <1>6, <2>1, <2>5, <2>6, <2>8 DEF ListLinks
<1>11. Roles' BY <1>2, <1>8 DEF IInv, ListInvariant, Roles
<1>12. ConsumerView'
  <2>1. First < Last => order'[First + 1] = order[First + 1] /\ log'[First] = log[First]
      BY <1>1, <1>5, <1>6, <1>7
  <2> QED BY <1>1, <1>6, <1>8, <2>1 DEF IInv, ListInvariant, ConsumerView
<1>13. ListData'
  <2>1. \A i \in 1..Len(taken) : taken[i] = log'[i]
      BY <1>5 DEF IInv, TypeOK, ListInvariant, ListData, ListShape
  <2>2. (\A i \in (First + 1)..Last :
          \/ data[order[i]] = log[i - 1]
          \/ i = First + 1 /\ \E u \in Consumers : pc[u] = "store")'
    <3> SUFFICES ASSUME NEW i \in (First + 1)..(Last + 1)
                 PROVE  \/ data[order'[i]] = log'[i - 1]
                        \/ i = First + 1 /\ \E u \in Consumers : pc'[u] = "store"
        BY <1>6
    <3>1. CASE i = Last + 1
        BY <1>1, <1>5, <1>6, <1>7, <3>1
    <3>2. CASE i # Last + 1
      <4>1. i \in (First + 1)..Last /\ i \in First..Last /\ i - 1 \in 1..Len(log)
          BY <1>1, <1>7, <3>2
      <4>2. order'[i] = order[i] /\ log'[i - 1] = log[i - 1]
          BY <1>5, <1>6, <4>1
      <4>3. \A u \in Consumers : pc[u] = "store" => pc'[u] = "store"
          BY <1>8, QueueAssumption
      <4> QED BY <4>1, <4>2, <4>3 DEF IInv, ListInvariant, ListData
    <3> QED BY <3>1, <3>2
  <2>3. ASSUME NEW m \in Nodes, data[m] # Null
        PROVE  \/ \E i \in (First + 1)..(Last + 1) : m = order'[i]
               \/ \E u \in Threads : pc'[u] = "exchange" /\ node[u] = m
    <3>1. CASE \E i \in (First + 1)..Last : m = order[i]
        BY <1>1, <1>6, <3>1
    <3>2. CASE \E u \in Threads : pc[u] = "exchange" /\ node[u] = m
        BY <1>1, <1>6, <1>8, <3>2 DEF n
    <3> QED BY <2>3, <3>1, <3>2 DEF IInv, ListInvariant, ListData
  <2> QED BY <1>6, <2>1, <2>2, <2>3 DEF ListData
<1>14. NewNodes'
    BY <1>1, <1>2, <1>6, <1>8 DEF IInv, ListInvariant, NewNodes
<1>15. OldTail'
    BY <1>1, <1>2, <1>6, <1>8 DEF IInv, ListInvariant, OldTail, n
<1>16. LiveNodes'
  <2>1. \A i \in First..(Last + 1) : order'[i] \in live
      BY <1>1, <1>2, <1>6 DEF IInv, ListInvariant, LiveNodes
  <2>2. ASSUME NEW m \in live
        PROVE  \/ \E i \in First..(Last + 1) : m = order'[i]
               \/ \E u \in Threads : pc'[u] = "exchange" /\ node[u] = m
               \/ \E u \in Threads : pc'[u] = "delete" /\ ltail[u] = m
    <3>1. CASE \E i \in First..Last : m = order[i]
        BY <1>1, <1>6, <3>1
    <3>2. CASE \E u \in Threads : pc[u] = "exchange" /\ node[u] = m
        BY <1>1, <1>6, <1>8, <3>2 DEF n
    <3>3. CASE \E u \in Threads : pc[u] = "delete" /\ ltail[u] = m
        BY <1>8, <3>3
    <3> QED BY <3>1, <3>2, <3>3 DEF IInv, ListInvariant, LiveNodes
  <2> QED BY <1>2, <1>6, <2>1, <2>2 DEF LiveNodes
<1>17. Drained' BY <1>2 DEF Drained
<1> QED BY <1>3, <1>9, <1>10, <1>11, <1>12, <1>13, <1>14, <1>15, <1>16, <1>17
        DEF IInv, ListInvariant

\* enqueue links its node: the producer that appended it is the only one to
\* write that pointer.
LEMMA LinkInv ==
    ASSUME IInv, NEW t \in Producers, Link(t)
    PROVE  IInv'
<1> t \in Threads BY QueueAssumption
<1>1. /\ First \in Nat /\ Last \in Nat /\ 1 <= First /\ First <= Last
      /\ \A i \in First..Last : order[i] \in Nodes
      /\ tail = order[First] /\ head = order[Last]
    BY ListPlaces
<1>2. PICK k \in First..(Last - 1) : Linking(t, k) /\ next[order[k]] = Null
    BY DEF Link, Goto, IInv, ListInvariant, ListLinks
<1>3. /\ next \in [Nodes -> Ptr] /\ next' = [next EXCEPT ![order[k]] = order[k + 1]]
      /\ order[k] \in Nodes /\ order[k + 1] \in Nodes
    BY <1>1, <1>2 DEF Link, Linking, IInv, TypeOK
<1>4. /\ pc[t] = "link" /\ pc'[t] = "idle"
      /\ \A u \in Threads \ {t} : pc'[u] = pc[u]
    BY DEF Link, Goto, IInv, TypeOK
<1>5. UNCHANGED <<head, tail, data, live, node, prev, ltail, lnext, out, ret,
                  phase, order, log, taken>>
    BY DEF Link
<1>6. TypeOK'
    BY <1>3, <1>5 DEF Link, Goto, IInv, TypeOK, Steps, Ptr
<1> USE <1>5
<1>7. First' = First /\ Last' = Last BY DEF First, Last
<1>8. \A i \in First..Last : i # k => next'[order[i]] = next[order[i]]
    BY <1>1, <1>2, <1>3 DEF IInv, ListInvariant, ListShape
<1>9. ListShape' BY <1>7 DEF IInv, ListInvariant, ListShape
<1>10. ListLinks'
  <2>1. next'[head'] = Null
      BY <1>1, <1>2, <1>8 DEF IInv, ListInvariant, ListLinks
  <2>2. \A u \in Threads \ {t}, i \in First..(Last - 1) :
           Linking(u, i) => i # k /\ Linking(u, i)'
      BY <1>2, <1>4 DEF Linking, IInv, ListInvariant, ListLinks
  <2>3. ASSUME NEW i \in First..(Last - 1), next'[order[i]] # order[i + 1]
        PROVE  next'[order[i]] = Null /\ \E u \in Producers : Linking(u, i)'
    <3>1. i # k BY <1>3, <2>3
    <3>2. next'[order[i]] = next[order[i]] BY <1>1, <1>8, <3>1
    <3>3. next[order[i]] = Null /\ \E u \in Producers : Linking(u, i)
        BY <2>3, <3>2 DEF IInv, ListInvariant, ListLinks
    <3>4. ~Linking(t, i)
        BY <1>1, <1>2, <3>1 DEF Linking, IInv, ListInvariant, ListShape
    <3> QED BY <2>2, <3>2, <3>3, <3>4, QueueAssumption
  <2>4. ASSUME NEW u \in Threads, pc'[u] = "link"
        PROVE  \E i \in First..(Last - 1) : Linking(u, i)' /\ next'[order[i]] = Null
    <3>1. u # t /\ pc[u] = "link" BY <1>4, <2>4
    <3>2. PICK i \in First..(Last - 1) : Linking(u, i) /\ next[order[i]] = Null
        BY <3>1 DEF IInv, ListInvariant, ListLinks
    <3>3. i # k /\ Linking(u, i)' BY <2>2, <3>1, <3>2
    <3> QED BY <1>1, <1>8, <3>2, <3>3
  <2> QED BY <1>4, <1>7, <2>1, <2>3, <2>4 DEF IInv, ListInvariant, ListLinks
<1>11. Roles' BY <1>4 DEF IInv, ListInvariant, Roles
<1>12. ConsumerView'
  <2>1. \A u \in Threads : pc[u] \in {"take", "store"} => First # k
      BY <1>1, <1>2, QueueAssumption DEF IInv, ListInvariant, ConsumerView
  <2>2. \A u \in Threads : pc'[u] # "idle" => pc'[u] = pc[u] BY <1>4
  <2> QED BY <1>1, <1>7, <1>8, <2>1, <2>2 DEF IInv, ListInvariant, ConsumerView
<1>13. ListData'
  <2>1. \A u \in Consumers : pc[u] = "store" => pc'[u] = "store"
      BY <1>4, QueueAssumption
  <2>2. \A u \in Threads : pc[u] = "exchange" => pc'[u] = "exchange"
      BY <1>4
  <2> QED BY <1>7, <2>1, <2>2 DEF IInv, ListInvariant, ListData
<1>14. NewNodes'
  <2>1. \A u \in Threads : pc'[u] = "exchange" => pc[u] = "exchange" BY <1>4
  <2>2. \A u \in Threads : pc[u] = "exchange" => next'[node[u]] = next[node[u]]
    <3> SUFFICES ASSUME NEW u \in Threads, pc[u] = "exchange"
                 PROVE  next'[node[u]] = next[node[u]]
        OBVIOUS
    <3>1. k \in First..Last BY <1>1
    <3>2. node[u] # order[k] BY <3>1 DEF IInv, ListInvariant, NewNodes
    <3>3. node[u] \in Nodes BY DEF IInv, TypeOK, ListInvariant, NewNodes
    <3> QED BY <1>3, <3>2, <3>3
  <2> QED BY <1>7, <2>1, <2>2 DEF IInv, ListInvariant, NewNodes
<1>15. OldTail' BY <1>4, <1>7 DEF IInv, ListInvariant, OldTail
<1>16. LiveNodes' BY <1>4, <1>7 DEF IInv, ListInvariant, LiveNodes
<1>17. Drained'
    BY <1>4, <1>7 DEF IInv, ListInvariant, Drained, Roles
<1> QED BY <1>6, <1>9, <1>10, <1>11, <1>12, <1>13, <1>14, <1>15, <1>16, <1>17
        DEF IInv, ListInvariant

\* No other thread is inside dequeue or empty.  Which threads call them matters
\* only to the destructor.
Alone(t) ==
    /\ \A u \in Threads \ {t} :
          pc[u] \notin {"loadNext", "emptyNext", "take", "store", "delete"}
    /\ SingleConsumer \/ phase = "open"

LEMMA SingleIsAlone ==
    ASSUME IInv, SingleConsumer, NEW t \in Consumers
    PROVE  Alone(t)
BY DEF Alone, SingleConsumer, IInv, ListInvariant, Roles

\* dequeue and empty read tail_.
LEMMA LoadTailInv ==
    ASSUME IInv, NEW t \in Consumers, Alone(t),
           NEW op \in {"loadNext", "emptyNext"}, LoadTail(t, op),
           phase # "destroyed", op = "emptyNext" => phase = "open"
    PROVE  IInv'
<1> t \in Threads BY QueueAssumption
<1>1. TypeOK' BY DEF LoadTail, Goto, IInv, TypeOK, Steps, Ptr
<1>2. /\ pc[t] = "idle" /\ pc'[t] = op /\ ltail'[t] = tail
      /\ \A u \in Threads \ {t} : pc'[u] = pc[u] /\ ltail'[u] = ltail[u]
    BY DEF LoadTail, Goto, IInv, TypeOK
<1> USE <1>2
<1>3. UNCHANGED <<head, tail, next, data, live, node, prev, lnext, out, ret,
                  phase, order, log, taken>>
    BY DEF LoadTail
<1> USE <1>3
<1>4. First' = First /\ Last' = Last BY DEF First, Last
<1>5. \A u \in Threads :
         pc'[u] = pc[u] \/ (u = t /\ pc'[u] \in {"loadNext", "emptyNext"})
    OBVIOUS
<1>6. \A u \in Threads :
         /\ pc[u] = "link" <=> pc'[u] = "link"
         /\ pc[u] = "exchange" <=> pc'[u] = "exchange"
         /\ pc[u] = "store" <=> pc'[u] = "store"
    BY <1>5
<1>7. \A u \in Threads :
         /\ pc[u] = "delete" <=> pc'[u] = "delete"
         /\ pc[u] = "delete" => ltail'[u] = ltail[u]
    BY <1>5
<1>8. ListShape' BY <1>4 DEF IInv, ListInvariant, ListShape
<1>9. ListLinks'
  <2>1. \A u \in Threads, i \in Nat : Linking(u, i)' <=> Linking(u, i)
      BY <1>6 DEF Linking
  <2>2. First \in Nat /\ Last \in Nat BY ListPlaces
  <2> QED BY <1>4, <1>6, <2>1, <2>2, QueueAssumption DEF IInv, ListInvariant, ListLinks
<1>10. Roles' BY <1>5 DEF IInv, ListInvariant, Roles
<1>11. ConsumerView' BY <1>4, <1>5 DEF IInv, ListInvariant, ConsumerView
<1>12. ListData' BY <1>4, <1>6, QueueAssumption DEF IInv, ListInvariant, ListData
<1>13. NewNodes' BY <1>4, <1>6 DEF IInv, ListInvariant, NewNodes
<1>14. OldTail' BY <1>4, <1>6, <1>7 DEF IInv, ListInvariant, OldTail
<1>15. LiveNodes' BY <1>4, <1>6, <1>7 DEF IInv, ListInvariant, LiveNodes
<1>16. Drained' BY <1>4, QueueAssumption DEF IInv, ListInvariant, Drained, Alone, SingleConsumer
<1> QED BY <1>1, <1>8, <1>9, <1>10, <1>11, <1>12, <1>13, <1>14, <1>15, <1>16
        DEF IInv, ListInvariant

\* The first link of the list: when it is missing although the list has more
\* than one node, a producer is about to write it.
LEMMA FirstLink ==
    ASSUME IInv
    PROVE  \/ next[tail] = Null /\ First = Last
           \/ next[tail] = Null /\ First < Last /\ \E t \in Producers : Linking(t, First)
           \/ next[tail] = order[First + 1] /\ First < Last
<1>1. /\ First \in Nat /\ Last \in Nat /\ First <= Last
      /\ tail = order[First] /\ head = order[Last]
    BY ListPlaces
<1>2. CASE First = Last BY <1>1, <1>2 DEF IInv, ListInvariant, ListLinks
<1>3. CASE First < Last
  <2>1. First \in First..(Last - 1) BY <1>1, <1>3
  <2> QED BY <1>1, <1>3, <2>1 DEF IInv, ListInvariant, ListLinks
<1> QED BY <1>1, <1>2, <1>3

\* A step of a consumer that moves between places without appending, linking,
\* taking or freeing keeps the parts of the invariant about the list.
LEMMA QuietStep ==
    ASSUME IInv, NEW t \in Consumers, NEW to \in {"idle", "take"},
           pc[t] \in {"loadNext", "emptyNext"}, pc' = [pc EXCEPT ![t] = to],
           UNCHANGED <<head, tail, next, data, live, node, prev, ltail, out,
                       phase, order, log, taken>>
    PROVE  /\ First' = First /\ Last' = Last
           /\ \A u \in Threads : pc'[u] = IF u = t THEN to ELSE pc[u]
           /\ ListShape' /\ ListLinks' /\ Roles' /\ ListData'
           /\ NewNodes' /\ OldTail' /\ LiveNodes'
<1> t \in Threads BY QueueAssumption
<1>1. First' = First /\ Last' = Last BY DEF First, Last
<1>2. \A u \in Threads : pc'[u] = IF u = t THEN to ELSE pc[u]
    BY DEF IInv, TypeOK
<1>3. pc[t] \in {"loadNext", "emptyNext"} /\ pc'[t] \in {"idle", "take"} /\ pc'[t] = to
    BY <1>2
<1>4. \A u \in Threads :
         /\ pc[u] = "link" <=> pc'[u] = "link"
         /\ pc[u] = "exchange" <=> pc'[u] = "exchange"
         /\ pc[u] = "store" <=> pc'[u] = "store"
         /\ pc[u] = "delete" <=> pc'[u] = "delete"
         /\ pc'[u] = "emptyNext" => pc[u] = "emptyNext"
    BY <1>2, <1>3
<1>5. ListShape' BY <1>1 DEF IInv, ListInvariant, ListShape
<1>6. ListLinks'
  <2>1. \A u \in Threads, i \in Nat : Linking(u, i)' <=> Linking(u, i)
      BY <1>4 DEF Linking
  <2>2. First \in Nat /\ Last \in Nat BY ListPlaces
  <2> QED BY <1>1, <1>4, <2>1, <2>2, QueueAssumption DEF IInv, ListInvariant, ListLinks
<1>7. Roles' BY <1>2, <1>3, <1>4 DEF IInv, ListInvariant, Roles
<1>8. ListData' BY <1>1, <1>4, QueueAssumption DEF IInv, ListInvariant, ListData
<1>9. NewNodes' BY <1>1, <1>4 DEF IInv, ListInvariant, NewNodes
<1>10. OldTail' BY <1>1, <1>4 DEF IInv, ListInvariant, OldTail
<1>11. LiveNodes' BY <1>1, <1>4 DEF IInv, ListInvariant, LiveNodes
<1> QED BY <1>1, <1>2, <1>5, <1>6, <1>7, <1>8, <1>9, <1>10, <1>11

\* dequeue reads tail_->next_.
LEMMA LoadNextInv ==
    ASSUME IInv, NEW t \in Consumers, Alone(t), LoadNext(t)
    PROVE  IInv'
<1> t \in Threads BY QueueAssumption
<1>1. TypeOK'
  <2>1. ltail[t] = tail /\ tail \in Nodes
      BY DEF LoadNext, Goto, IInv, TypeOK, ListInvariant, ConsumerView
  <2> QED BY <2>1 DEF LoadNext, Goto, IInv, TypeOK, Steps, Ptr
<1> DEFINE to == IF next[tail] = Null THEN "idle" ELSE "take"
<1>2. /\ pc[t] = "loadNext" /\ ltail[t] = tail
      /\ pc' = [pc EXCEPT ![t] = to]
      /\ lnext'[t] = next[tail] /\ ret'[t] = (next[tail] # Null)
      /\ \A u \in Threads \ {t} : lnext'[u] = lnext[u] /\ ret'[u] = ret[u]
    BY DEF LoadNext, Goto, IInv, TypeOK, ListInvariant, ConsumerView
<1>3. UNCHANGED <<head, tail, next, data, live, node, prev, ltail, out, phase,
                  order, log, taken>>
    BY DEF LoadNext
<1>4. /\ First' = First /\ Last' = Last
      /\ \A u \in Threads : pc'[u] = IF u = t THEN to ELSE pc[u]
      /\ ListShape' /\ ListLinks' /\ Roles' /\ ListData'
      /\ NewNodes' /\ OldTail' /\ LiveNodes'
  <2>1. to \in {"idle", "take"} /\ pc[t] \in {"loadNext", "emptyNext"} BY <1>2
  <2> HIDE DEF to
  <2> QED BY <1>2, <1>3, <2>1, QuietStep
<1>5. ConsumerView'
  <2>1. \A u \in Threads \ {t} :
           pc'[u] = pc[u] /\ lnext'[u] = lnext[u] /\ ret'[u] = ret[u]
      BY <1>2, <1>4
  <2>2. pc'[t] = "idle" \/ (pc'[t] = "take" /\ next[tail] # Null)
      BY <1>4
  <2>3. pc'[t] = "take" => /\ First < Last /\ next[tail] = order[First + 1]
                           /\ lnext'[t] = order[First + 1] /\ ret'[t]
      BY <1>2, <2>2, FirstLink
  <2> QED BY <1>2, <1>3, <1>4, <2>1, <2>2, <2>3 DEF IInv, ListInvariant, ConsumerView
<1>6. Drained'
  <2>1. ASSUME phase = "draining", pc'[t] = "idle" PROVE First = Last
    <3>1. next[tail] = Null BY <1>4, <2>1
    <3>2. \A u \in Producers : pc[u] # "link"
        BY <2>1, QueueAssumption DEF IInv, ListInvariant, Roles
    <3>3. First \in Nat /\ Last \in Nat BY ListPlaces
    <3>4. \A i \in First..Last : order[i] # Null
        BY ListPlaces, QueueAssumption
    <3> QED BY <3>1, <3>2, <3>3, <3>4, FirstLink DEF Linking
  <2>2. phase # "destroyed"
      BY <1>2 DEF IInv, ListInvariant, Roles
  <2> QED BY <1>3, <1>4, <2>1, <2>2 DEF Drained, Alone, SingleConsumer
<1> QED BY <1>1, <1>4, <1>5, <1>6 DEF IInv, ListInvariant

\* empty reads tail_->next_.
LEMMA EmptyNextInv ==
    ASSUME IInv, NEW t \in Consumers, Alone(t), EmptyNext(t)
    PROVE  IInv'
<1> t \in Threads BY QueueAssumption
<1>1. TypeOK' BY DEF EmptyNext, Goto, IInv, TypeOK, Steps, Ptr
<1>2. /\ pc[t] = "emptyNext" /\ pc' = [pc EXCEPT ![t] = "idle"]
      /\ UNCHANGED <<head, tail, next, data, live, node, prev, ltail, lnext, out,
                     phase, order, log, taken>>
    BY DEF EmptyNext, Goto
<1>3. /\ First' = First /\ Last' = Last
      /\ \A u \in Threads : pc'[u] = IF u = t THEN "idle" ELSE pc[u]
      /\ ListShape' /\ ListLinks' /\ Roles' /\ ListData'
      /\ NewNodes' /\ OldTail' /\ LiveNodes'
    BY <1>2, QuietStep
<1>4. ConsumerView'
  <2>1. \A u \in Threads \ {t} : ret'[u] = ret[u] BY DEF EmptyNext, IInv, TypeOK
  <2> QED BY <1>2, <1>3, <2>1 DEF IInv, ListInvariant, ConsumerView
<1>5. phase = "open" /\ phase' = "open"
    BY <1>2 DEF IInv, ListInvariant, Roles
<1>6. Drained' BY <1>5 DEF Drained
<1> QED BY <1>1, <1>3, <1>4, <1>6 DEF IInv, ListInvariant

\* dequeue moves the item out of the second node.
LEMMA TakeDataInv ==
    ASSUME IInv, NEW t \in Consumers, Alone(t), TakeData(t)
    PROVE  IInv'
<1> t \in Threads BY QueueAssumption
<1>1. /\ First \in Nat /\ Last \in Nat /\ 1 <= First /\ First < Last
      /\ \A i \in First..Last : order[i] \in Nodes
      /\ tail = order[First]
    BY ListPlaces DEF TakeData, Goto, IInv, ListInvariant, ConsumerView
<1> DEFINE n == order[First + 1]
<1>2. /\ pc[t] = "take" /\ lnext[t] = n /\ n \in Nodes /\ ltail[t] = tail
      /\ next[tail] = n
    BY <1>1 DEF TakeData, Goto, IInv, ListInvariant, ConsumerView
<1>3. data[n] = log[First] /\ log[First] \in Values
  <2>1. First + 1 \in (First + 1)..Last /\ (First + 1) - 1 = First BY <1>1
  <2>2. \A u \in Consumers : pc[u] # "store" BY <1>2, QueueAssumption DEF Alone
  <2>3. First \in 1..Len(log)
      BY <1>1 DEF IInv, TypeOK, ListInvariant, ListShape
  <2> QED BY <2>1, <2>2, <2>3 DEF IInv, TypeOK, ListInvariant, ListData
<1>4. /\ pc'[t] = "store" /\ out'[t] = log[First]
      /\ \A u \in Threads \ {t} : pc'[u] = pc[u] /\ out'[u] = out[u]
      /\ data \in [Nodes -> Values \cup {Null}] /\ data' = [data EXCEPT ![n] = Null]
    BY <1>2, <1>3 DEF TakeData, Goto, IInv, TypeOK
<1>5. TypeOK'
    BY <1>2, <1>3 DEF TakeData, Goto, IInv, TypeOK, Steps, Ptr
<1>6. UNCHANGED <<head, tail, next, live, node, prev, ltail, lnext, ret, phase,
                  order, log, taken>>
    BY DEF TakeData
<1> USE <1>6
<1>7. First' = First /\ Last' = Last BY DEF First, Last
<1>8. \A u \in Threads :
         /\ pc[u] = "link" <=> pc'[u] = "link"
         /\ pc[u] = "exchange" <=> pc'[u] = "exchange"
         /\ pc[u] = "delete" <=> pc'[u] = "delete"
    BY <1>2, <1>4
<1>9. ListShape' BY <1>7 DEF IInv, ListInvariant, ListShape
<1>10. ListLinks'
  <2>1. \A u \in Threads, i \in Nat : Linking(u, i)' <=> Linking(u, i)
      BY <1>8 DEF Linking
  <2> QED BY <1>1, <1>7, <1>8, <2>1, QueueAssumption DEF IInv, ListInvariant, ListLinks
<1>11. Roles' BY <1>2, <1>4 DEF IInv, ListInvariant, Roles
<1>12. ConsumerView'
  <2>1. \A u \in Threads \ {t} : pc[u] # "take" /\ pc[u] # "store"
      BY <1>2 DEF Alone, IInv, ListInvariant, Roles
  <2>2. data'[n] = Null BY <1>2, <1>4
  <2> QED BY <1>1, <1>2, <1>4, <1>7, <2>1, <2>2 DEF IInv, ListInvariant, ConsumerView
<1>13. ListData'
  <2>1. \A i \in (First + 1)..Last : i # First + 1 => data'[order[i]] = data[order[i]]
      BY <1>1, <1>4 DEF IInv, ListInvariant, ListShape
  <2>2. \A u \in Consumers : pc[u] # "store" BY <1>2, QueueAssumption DEF Alone
  <2>3. (\A i \in (First + 1)..Last :
           \/ data[order[i]] = log[i - 1]
           \/ i = First + 1 /\ \E u \in Consumers : pc[u] = "store")'
      BY <1>4, <1>7, <2>1, <2>2 DEF IInv, ListInvariant, ListData
  <2>4. \A m \in Nodes : data'[m] # Null => data[m] # Null BY <1>4
  <2>5. (\A m \in Nodes : data[m] # Null =>
          \/ \E i \in (First + 1)..Last : m = order[i]
          \/ \E u \in Threads : pc[u] = "exchange" /\ node[u] = m)'
      BY <1>7, <1>8, <2>4 DEF IInv, ListInvariant, ListData
  <2> QED BY <2>3, <2>5 DEF IInv, ListInvariant, ListData
<1>14. NewNodes'
  <2>1. \A u \in Threads : pc[u] = "exchange" =>
           node[u] \in Nodes /\ node[u] # n
      BY <1>1 DEF IInv, TypeOK, ListInvariant, NewNodes
  <2>2. \A u \in Threads : pc[u] = "exchange" => data'[node[u]] = data[node[u]]
      BY <1>4, <2>1
  <2> QED BY <1>7, <1>8, <2>2 DEF IInv, ListInvariant, NewNodes
<1>15. OldTail' BY <1>7, <1>8 DEF IInv, ListInvariant, OldTail
<1>16. LiveNodes' BY <1>7, <1>8 DEF IInv, ListInvariant, LiveNodes
<1>17. Drained' BY <1>4, <1>7 DEF IInv, ListInvariant, Drained, Alone, SingleConsumer
<1> QED BY <1>5, <1>9, <1>10, <1>11, <1>12, <1>13, <1>14, <1>15, <1>16, <1>17
        DEF IInv, ListInvariant

\* dequeue makes the second node the tail_: the list loses its first node.
LEMMA StoreTailInv ==
    ASSUME IInv, NEW t \in Consumers, Alone(t), StoreTail(t)
    PROVE  IInv'
<1> t \in Threads BY QueueAssumption
<1>1. /\ First \in Nat /\ Last \in Nat /\ 1 <= First /\ First < Last
      /\ \A i \in First..Last : order[i] \in Nodes
      /\ tail = order[First] /\ head = order[Last]
    BY ListPlaces DEF StoreTail, Goto, IInv, ListInvariant, ConsumerView
<1>2. /\ pc[t] = "store" /\ lnext[t] = order[First + 1] /\ ltail[t] = tail
      /\ next[tail] = order[First + 1]
      /\ out[t] = log[First] /\ data[order[First + 1]] = Null
    BY DEF StoreTail, Goto, IInv, ListInvariant, ConsumerView
<1>3. Last = Len(log) + 1 /\ First = Len(taken) + 1 /\ First \in 1..Len(log)
      /\ log \in Seq(Values) /\ Len(log) \in Nat /\ log[First] \in Values
    BY <1>1 DEF IInv, TypeOK, ListInvariant, ListShape, First
<1>4. /\ taken' \in Seq(Values) /\ Len(taken') = Len(taken) + 1
      /\ \A i \in 1..Len(taken) : taken'[i] = taken[i]
      /\ taken'[Len(taken) + 1] = log[First]
    BY <1>2, <1>3, AppendFacts DEF StoreTail, IInv, TypeOK
<1>5. /\ tail' = order[First + 1] /\ order[First + 1] \in Nodes /\ pc'[t] = "delete"
      /\ \A u \in Threads \ {t} : pc'[u] = pc[u]
    BY <1>1, <1>2 DEF StoreTail, Goto, IInv, TypeOK
<1>6. TypeOK'
    BY <1>4, <1>5 DEF StoreTail, Goto, IInv, TypeOK, Steps, Ptr
<1>7. UNCHANGED <<head, next, data, live, node, prev, ltail, lnext, out, ret,
                  phase, order, log>>
    BY DEF StoreTail
<1> USE <1>7
<1>8. First' = First + 1 /\ Last' = Last
    BY <1>3, <1>4 DEF First, Last
<1>9. \A u \in Threads :
         /\ pc[u] = "link" <=> pc'[u] = "link"
         /\ pc[u] = "exchange" <=> pc'[u] = "exchange"
    BY <1>2, <1>5
<1>10. \A u \in Threads \ {t} :
          pc[u] \notin {"loadNext", "emptyNext", "take", "store", "delete"}
    BY <1>2 DEF Alone, IInv, ListInvariant, Roles
<1>11. ListShape'
    BY <1>1, <1>3, <1>4, <1>5, <1>8 DEF IInv, ListInvariant, ListShape
<1>12. ListLinks'
  <2>1. \A u \in Threads, i \in Nat : Linking(u, i)' <=> Linking(u, i)
      BY <1>9 DEF Linking
  <2>2. \A i \in (First + 1)..(Last - 1) : i \in First..(Last - 1) BY <1>1
  <2>3. order[First + 1] # Null BY <1>5, QueueAssumption
  <2>4. \A u \in Threads, i \in First..(Last - 1) :
           next[order[i]] = Null => i \in (First + 1)..(Last - 1)
      BY <1>1, <1>2, <2>3
  <2>5. (\A u \in Threads : pc[u] = "link" =>
          \E i \in First..(Last - 1) : Linking(u, i) /\ next[order[i]] = Null)'
    <3> SUFFICES ASSUME NEW u \in Threads, pc'[u] = "link"
                 PROVE  \E i \in (First + 1)..(Last - 1) :
                            Linking(u, i)' /\ next[order[i]] = Null
        BY <1>8
    <3>1. PICK i \in First..(Last - 1) : Linking(u, i) /\ next[order[i]] = Null
        BY <1>9 DEF IInv, ListInvariant, ListLinks
    <3> QED BY <1>1, <2>1, <2>4, <3>1
  <2>6. (\A i \in First..(Last - 1) :
          next[order[i]] # order[i + 1] =>
             next[order[i]] = Null /\ \E u \in Producers : Linking(u, i))'
    <3> SUFFICES ASSUME NEW i \in (First + 1)..(Last - 1), next[order[i]] # order[i + 1]
                 PROVE  next[order[i]] = Null /\ \E u \in Producers : Linking(u, i)'
        BY <1>8
    <3> QED BY <1>1, <2>1, <2>2, QueueAssumption DEF IInv, ListInvariant, ListLinks
  <2> QED BY <1>9, <2>5, <2>6 DEF IInv, ListInvariant, ListLinks
<1>13. Roles' BY <1>2, <1>5, <1>9 DEF IInv, ListInvariant, Roles
<1>14. ConsumerView'
    BY <1>2, <1>5, <1>10 DEF IInv, ListInvariant, ConsumerView
<1>15. ListData'
  <2>1. (\A i \in 1..Len(taken) : taken[i] = log[i])'
    <3> SUFFICES ASSUME NEW i \in 1..(Len(taken) + 1) PROVE taken'[i] = log[i]
        BY <1>4
    <3>1. Len(taken) \in Nat BY DEF IInv, TypeOK
    <3>2. CASE i = Len(taken) + 1 BY <1>3, <1>4, <3>2
    <3>3. CASE i \in 1..Len(taken) BY <1>4, <3>3 DEF IInv, ListInvariant, ListData
    <3> QED BY <3>1, <3>2, <3>3
  <2>2. (\A i \in (First + 1)..Last : data[order[i]] = log[i - 1])'
      BY <1>1, <1>8 DEF IInv, ListInvariant, ListData
  <2>3. (\A m \in Nodes : data[m] # Null =>
          \/ \E i \in (First + 1)..Last : m = order[i]
          \/ \E u \in Threads : pc[u] = "exchange" /\ node[u] = m)'
    <3> SUFFICES ASSUME NEW m \in Nodes, data[m] # Null
                 PROVE  \/ \E i \in (First + 2)..Last : m = order[i]
                        \/ \E u \in Threads : pc'[u] = "exchange" /\ node[u] = m
        BY <1>1, <1>8
    <3>1. CASE \E i \in (First + 1)..Last : m = order[i] BY <1>1, <1>2, <3>1
    <3>2. CASE \E u \in Threads : pc[u] = "exchange" /\ node[u] = m BY <1>9, <3>2
    <3> QED BY <3>1, <3>2 DEF IInv, ListInvariant, ListData
  <2> QED BY <2>1, <2>2, <2>3 DEF ListData
<1>16. NewNodes'
    BY <1>1, <1>8, <1>9 DEF IInv, ListInvariant, NewNodes
<1>17. phase # "destroyed" BY <1>2 DEF IInv, ListInvariant, Roles
<1>18. OldTail'
  <2>1. tail \in live /\ \A i \in (First + 1)..Last : tail # order[i]
      BY <1>1, <1>17 DEF IInv, ListInvariant, LiveNodes, ListShape
  <2>2. \A u \in Threads : pc[u] = "exchange" => node[u] # tail
      BY <1>1 DEF IInv, ListInvariant, NewNodes
  <2> QED BY <1>2, <1>5, <1>8, <1>9, <1>10, <2>1, <2>2 DEF OldTail
<1>19. LiveNodes'
  <2>1. \A i \in (First + 1)..Last : order[i] \in live
      BY <1>1, <1>17 DEF IInv, ListInvariant, LiveNodes
  <2>2. ASSUME NEW m \in live
        PROVE  \/ \E i \in (First + 1)..Last : m = order[i]
               \/ \E u \in Threads : pc'[u] = "exchange" /\ node[u] = m
               \/ \E u \in Threads : pc'[u] = "delete" /\ ltail[u] = m
    <3>1. CASE \E i \in First..Last : m = order[i] BY <1>1, <1>2, <1>5, <3>1
    <3>2. CASE \E u \in Threads : pc[u] = "exchange" /\ node[u] = m BY <1>9, <3>2
    <3>3. CASE \E u \in Threads : pc[u] = "delete" /\ ltail[u] = m
        BY <1>2, <1>10, <3>3
    <3> QED BY <3>1, <3>2, <3>3 DEF IInv, ListInvariant, LiveNodes
  <2> QED BY <1>8, <1>17, <2>1, <2>2 DEF LiveNodes
<1>20. Drained' BY <1>5, <1>17 DEF Drained, Alone, SingleConsumer
<1> QED BY <1>6, <1>11, <1>12, <1>13, <1>14, <1>15, <1>16, <1>18, <1>19, <1>20
        DEF IInv, ListInvariant

\* dequeue frees the old tail_.
LEMMA DeleteTailInv ==
    ASSUME IInv, NEW t \in Consumers, Alone(t), DeleteTail(t)
    PROVE  IInv'
<1> t \in Threads BY QueueAssumption
<1> DEFINE n == ltail[t]
<1>1. TypeOK' BY DEF DeleteTail, Goto, IInv, TypeOK, Steps
<1>2. /\ pc[t] = "delete" /\ pc'[t] = "idle"
      /\ \A u \in Threads \ {t} : pc'[u] = pc[u]
      /\ live' = live \ {n}
    BY DEF DeleteTail, Goto, IInv, TypeOK
<1>3. UNCHANGED <<head, tail, next, data, node, prev, ltail, lnext, out, ret,
                  phase, order, log, taken>>
    BY DEF DeleteTail
<1> USE <1>3
<1>4. First' = First /\ Last' = Last BY DEF First, Last
<1>5. /\ \A i \in First..Last : n # order[i]
      /\ \A u \in Threads : pc[u] = "exchange" => node[u] # n
    BY <1>2 DEF IInv, ListInvariant, OldTail
<1>6. \A u \in Threads \ {t} :
         pc[u] \notin {"loadNext", "emptyNext", "take", "store", "delete"}
    BY <1>2 DEF Alone, IInv, ListInvariant, Roles
<1>7. \A u \in Threads :
         /\ pc[u] = "link" <=> pc'[u] = "link"
         /\ pc[u] = "exchange" <=> pc'[u] = "exchange"
         /\ pc[u] = "store" <=> pc'[u] = "store"
         /\ pc'[u] \notin {"loadNext", "emptyNext", "take", "store", "delete"}
    BY <1>2, <1>6
<1>8. ListShape' BY <1>4 DEF IInv, ListInvariant, ListShape
<1>9. ListLinks'
  <2>1. \A u \in Threads, i \in Nat : Linking(u, i)' <=> Linking(u, i)
      BY <1>7 DEF Linking
  <2>2. First \in Nat /\ Last \in Nat BY ListPlaces
  <2> QED BY <1>4, <1>7, <2>1, <2>2, QueueAssumption DEF IInv, ListInvariant, ListLinks
<1>10. Roles' BY <1>7 DEF IInv, ListInvariant, Roles
<1>11. ConsumerView' BY <1>7 DEF ConsumerView
<1>12. ListData' BY <1>4, <1>7, QueueAssumption DEF IInv, ListInvariant, ListData
<1>13. NewNodes' BY <1>2, <1>4, <1>5, <1>7 DEF IInv, ListInvariant, NewNodes
<1>14. OldTail' BY <1>7 DEF OldTail
<1>15. LiveNodes'
  <2>1. \A m \in live' : \/ phase # "destroyed" /\ \E i \in First..Last : m = order[i]
                         \/ \E u \in Threads : pc[u] = "exchange" /\ node[u] = m
      BY <1>2, <1>6 DEF IInv, ListInvariant, LiveNodes
  <2>2. phase # "destroyed" => \A i \in First..Last : order[i] \in live'
      BY <1>2, <1>5 DEF IInv, ListInvariant, LiveNodes
  <2> QED BY <1>4, <1>7, <2>1, <2>2 DEF LiveNodes
<1>16. Drained'
  <2>1. phase # "destroyed" BY <1>2 DEF IInv, ListInvariant, Roles
  <2>2. ret[t] BY <1>2 DEF IInv, ListInvariant, ConsumerView
  <2> QED BY <1>2, <1>4, <2>1, <2>2 DEF IInv, ListInvariant, Drained, Alone, SingleConsumer
<1> QED BY <1>1, <1>8, <1>9, <1>10, <1>11, <1>12, <1>13, <1>14, <1>15, <1>16
        DEF IInv, ListInvariant

\* The destructor begins, and it frees the last node.
LEMMA DestroyInv ==
    ASSUME IInv, SingleConsumer, NEW t \in Consumers, BeginDestroy(t) \/ DeleteFront(t)
    PROVE  IInv'
<1> t \in Threads BY QueueAssumption
<1>1. TypeOK' BY DEF BeginDestroy, DeleteFront, IInv, TypeOK
<1>2. UNCHANGED <<head, tail, next, data, pc, node, prev, ltail, lnext, out,
                  order, log, taken>>
    BY DEF BeginDestroy, DeleteFront
<1>3. First' = First /\ Last' = Last BY <1>2 DEF First, Last
<1>4. \A u \in Threads : pc[u] \notin {"exchange", "link"}
    BY DEF BeginDestroy, DeleteFront, IInv, ListInvariant, Roles
<1>5. \A u \in Threads :
         pc[u] \notin {"loadNext", "emptyNext", "take", "store", "delete"}
    BY DEF BeginDestroy, DeleteFront, SingleConsumer, IInv, ListInvariant, Roles
<1>6. ListShape' BY <1>2, <1>3 DEF IInv, ListInvariant, ListShape
<1>7. ListLinks'
  <2>1. \A u \in Threads, i \in Nat : Linking(u, i)' <=> Linking(u, i)
      BY <1>2 DEF Linking
  <2>2. First \in Nat /\ Last \in Nat BY ListPlaces
  <2> QED BY <1>2, <1>3, <2>1, <2>2, QueueAssumption DEF IInv, ListInvariant, ListLinks
<1>8. Roles' BY <1>2, <1>4, <1>5 DEF Roles
<1>9. ConsumerView' BY <1>2, <1>5 DEF ConsumerView
<1>10. ListData' BY <1>2, <1>3 DEF IInv, ListInvariant, ListData
<1>11. NewNodes' /\ OldTail' BY <1>2, <1>4, <1>5 DEF NewNodes, OldTail
<1>12. CASE BeginDestroy(t)
  <2>1. LiveNodes'
      BY <1>2, <1>3, <1>12 DEF BeginDestroy, IInv, ListInvariant, LiveNodes
  <2>2. Drained'
      BY <1>2, <1>3, <1>12 DEF BeginDestroy, IInv, TypeOK, Drained, SingleConsumer
  <2> QED BY <1>1, <1>6, <1>7, <1>8, <1>9, <1>10, <1>11, <2>1, <2>2
          DEF IInv, ListInvariant
<1>13. CASE DeleteFront(t)
  <2>1. First = Last /\ First \in Nat /\ head = order[Last]
      BY <1>13, ListPlaces DEF DeleteFront, IInv, ListInvariant, Drained
  <2>2. LiveNodes'
      BY <1>2, <1>3, <1>4, <1>5, <1>13, <2>1
      DEF DeleteFront, IInv, ListInvariant, LiveNodes
  <2>3. Drained' BY <1>3, <1>13, <2>1 DEF DeleteFront, Drained
  <2> QED BY <1>1, <1>6, <1>7, <1>8, <1>9, <1>10, <1>11, <2>2, <2>3
          DEF IInv, ListInvariant
<1> QED BY <1>12, <1>13

\* A step that changes nothing.
LEMMA StutterInv == ASSUME IInv, UNCHANGED vars PROVE IInv'
<1> USE DEF IInv, ListInvariant, vars, First, Last
<1>1. TypeOK' BY DEF TypeOK
<1>2. ListShape' BY DEF ListShape
<1>3. ListLinks' BY DEF ListLinks, Linking
<1>4. Roles' BY DEF Roles
<1>5. ConsumerView' BY DEF ConsumerView
<1>6. ListData' BY DEF ListData
<1>7. NewNodes' BY DEF NewNodes
<1>8. OldTail' BY DEF OldTail
<1>9. LiveNodes' BY DEF LiveNodes
<1>10. Drained' BY DEF Drained
<1> QED BY <1>1, <1>2, <1>3, <1>4, <1>5, <1>6, <1>7, <1>8, <1>9, <1>10

-----------------------------------------------------------------------------
(* The theorems *)

\* The inductive invariant holds with a single consumer (LockFreeQueue.hpp:52),
\* however many threads enqueue and however often nodes are reused.
THEOREM Invariance == SingleConsumer => (Spec => []IInv)
<1> SUFFICES ASSUME SingleConsumer PROVE Spec => []IInv OBVIOUS
<1>1. Init => IInv BY InitInv
<1>2. IInv /\ [Next]_vars => IInv'
  <2> SUFFICES ASSUME IInv, [Next]_vars PROVE IInv' OBVIOUS
  <2>1. ASSUME NEW t \in Producers, Enqueue(t) PROVE IInv'
      BY <2>1, NewNodeInv DEF Enqueue
  <2>2. ASSUME NEW t \in Producers, EnqueueStep(t) PROVE IInv'
      BY <2>2, ExchangeInv, LinkInv DEF EnqueueStep
  <2>3. ASSUME NEW t \in Consumers, Dequeue(t) \/ Empty(t) PROVE IInv'
      BY <2>3, LoadTailInv, SingleIsAlone DEF Dequeue, Empty
  <2>4. ASSUME NEW t \in Consumers, DequeueStep(t) PROVE IInv'
      BY <2>4, LoadNextInv, TakeDataInv, StoreTailInv, DeleteTailInv, EmptyNextInv,
         SingleIsAlone
      DEF DequeueStep
  <2>5. ASSUME NEW t \in Consumers, BeginDestroy(t) \/ DeleteFront(t) PROVE IInv'
      BY <2>5, DestroyInv
  <2>6. CASE UNCHANGED vars BY <2>6, StutterInv
  <2> QED BY <2>1, <2>2, <2>3, <2>4, <2>5, <2>6 DEF Next
<1> QED BY <1>1, <1>2, PTL DEF Spec

\* Type correctness: in particular no thread appends a node it does not have,
\* and what dequeue hands out is always an item.
THEOREM TypeCorrect == SingleConsumer => (Spec => []TypeOK)
<1>1. IInv => TypeOK BY DEF IInv
<1> QED BY <1>1, Invariance, PTL

\* No step of enqueue (lines 36-45) or dequeue (lines 54-66) touches memory that
\* has been freed, although dequeue frees nodes that producers point to.
THEOREM MemorySafety == SingleConsumer => (Spec => []MemorySafe)
<1> SUFFICES ASSUME SingleConsumer PROVE Spec => []MemorySafe OBVIOUS
<1>1. IInv => MemorySafe
  <2> SUFFICES ASSUME IInv PROVE MemorySafe OBVIOUS
  <2>1. /\ First \in Nat /\ Last \in Nat /\ First <= Last
        /\ tail = order[First] /\ head = order[Last]
      BY ListPlaces
  <2>2. phase # "destroyed" => \A i \in First..Last : order[i] \in live
      BY DEF IInv, ListInvariant, LiveNodes
  <2>3. phase # "destroyed" => {head, tail} \subseteq live BY <2>1, <2>2
  <2>4. ASSUME NEW t \in Threads,
               pc[t] \in {"loadNext", "emptyNext", "take", "store", "delete"}
        PROVE  ltail[t] \in live
      BY <2>3, <2>4 DEF IInv, ListInvariant, Roles, ConsumerView, OldTail
  <2>5. ASSUME NEW t \in Threads, pc[t] \in {"take", "store", "delete"}
        PROVE  lnext[t] \in live
    <3>1. phase # "destroyed" BY <2>5 DEF IInv, ListInvariant, Roles
    <3>2. CASE pc[t] = "delete"
        BY <2>3, <3>1, <3>2 DEF IInv, ListInvariant, ConsumerView
    <3>3. CASE pc[t] \in {"take", "store"}
        BY <2>1, <2>2, <3>1, <3>3 DEF IInv, ListInvariant, ConsumerView
    <3> QED BY <2>5, <3>2, <3>3
  <2>6. ASSUME NEW t \in Threads, pc[t] = "take"
        PROVE  data[lnext[t]] # Null
    <3>1. First < Last /\ lnext[t] = order[First + 1] /\ t \in Consumers
        BY <2>6 DEF IInv, ListInvariant, ConsumerView, Roles
    <3>2. data[lnext[t]] = log[First]
      <4>1. First + 1 \in (First + 1)..Last /\ (First + 1) - 1 = First
          BY <2>1, <3>1
      <4>2. \A u \in Consumers : pc[u] # "store"
          BY <2>6, <3>1 DEF SingleConsumer
      <4> QED BY <3>1, <4>1, <4>2 DEF IInv, ListInvariant, ListData
    <3>3. log[First] \in Values
        BY <2>1, <3>1 DEF IInv, TypeOK, ListInvariant, ListShape, First
    <3> QED BY <3>2, <3>3, QueueAssumption
  <2>7. ASSUME NEW t \in Threads, pc[t] = "exchange" PROVE node[t] \in live
      BY <2>7 DEF IInv, ListInvariant, NewNodes
  <2>8. ASSUME NEW t \in Threads, pc[t] = "link"
        PROVE  node[t] \in live /\ prev[t] \in live
    <3>1. PICK i \in First..(Last - 1) : Linking(t, i)
        BY <2>8 DEF IInv, ListInvariant, ListLinks
    <3>2. phase # "destroyed" BY <2>8 DEF IInv, ListInvariant, Roles
    <3> QED BY <2>1, <2>2, <3>1, <3>2 DEF Linking
  <2> QED BY <2>3, <2>4, <2>5, <2>6, <2>7, <2>8 DEF MemorySafe
<1> QED BY <1>1, Invariance, PTL

\* dequeue hands out the enqueued items in the order of the exchanges.
THEOREM Delivery == SingleConsumer => (Spec => []DeliveredInOrder)
<1>1. IInv => DeliveredInOrder
  <2> SUFFICES ASSUME IInv PROVE DeliveredInOrder OBVIOUS
  <2>1. /\ taken \in Seq(Values) /\ log \in Seq(Values)
        /\ Len(taken) <= Len(log)
        /\ \A i \in 1..Len(taken) : taken[i] = log[i]
      BY DEF IInv, TypeOK, ListInvariant, ListShape, ListData
  <2>2. taken = SubSeq(log, 1, Len(taken)) BY <2>1
  <2> QED BY <2>1, <2>2 DEF DeliveredInOrder
<1> QED BY <1>1, Invariance, PTL

\* What the consumer cannot see although it was enqueued is hidden by a producer
\* between the exchange and the link.
THEOREM Hiding == SingleConsumer => (Spec => []HiddenOnlyByPending)
<1>1. IInv => HiddenOnlyByPending
  <2> SUFFICES ASSUME IInv, next[tail] = Null, Len(taken) < Len(log)
               PROVE  \E t \in Producers : pc[t] = "link" /\ prev[t] = tail
      BY DEF HiddenOnlyByPending
  <2>1. First < Last
      BY DEF IInv, TypeOK, ListInvariant, ListShape, First
  <2>2. /\ First \in Nat /\ Last \in Nat /\ tail = order[First]
        /\ \A i \in First..Last : order[i] \in Nodes
      BY ListPlaces
  <2>3. order[First + 1] # Null BY <2>1, <2>2, QueueAssumption
  <2> QED BY <2>1, <2>2, <2>3, FirstLink DEF Linking
<1> QED BY <1>1, Invariance, PTL

\* The destructor (lines 22-28) frees every node and drops no item.
THEOREM NoLeak == SingleConsumer => (Spec => []NothingLeaked)
<1>1. IInv => NothingLeaked
  <2> SUFFICES ASSUME IInv, phase = "destroyed"
               PROVE  live = {} /\ taken = log /\ \A n \in Nodes : data[n] = Null
      BY DEF NothingLeaked
  <2>1. \A t \in Threads : pc[t] \notin {"exchange", "delete"}
      BY DEF IInv, ListInvariant, Roles
  <2>2. live = {} BY <2>1 DEF IInv, ListInvariant, LiveNodes
  <2>3. First = Last /\ First \in Nat
      BY ListPlaces DEF IInv, ListInvariant, Drained
  <2>4. Len(taken) = Len(log)
      BY <2>3 DEF First, IInv, TypeOK, ListInvariant, ListShape
  <2>5. taken = log
      BY <2>4 DEF IInv, TypeOK, ListInvariant, ListData
  <2>6. \A n \in Nodes : data[n] = Null
      BY <2>1, <2>3 DEF IInv, ListInvariant, ListData
  <2> QED BY <2>2, <2>5, <2>6
<1> QED BY <1>1, Invariance, PTL

-----------------------------------------------------------------------------
(* The queue implements FifoQueue *)

\* The items of the abstract queue stand at the places First..Last - 1.
LEMMA ItemsFacts ==
    ASSUME IInv
    PROVE  /\ QueueItems \in Seq(Fifo!Item)
           /\ Len(QueueItems) = Last - First
           /\ \A i \in 1..(Last - First) :
                 /\ QueueItems[i].val = log[Len(taken) + i]
                 /\ QueueItems[i].visible = (next[order[Len(taken) + i]] # Null)
                 /\ Len(taken) + i \in First..(Last - 1)
<1>1. /\ Len(log) \in Nat /\ Len(taken) \in Nat /\ Len(taken) <= Len(log)
      /\ Last = Len(log) + 1 /\ First = Len(taken) + 1
    BY DEF IInv, TypeOK, ListInvariant, ListShape, First
<1>2. \A i \in 1..(Len(log) - Len(taken)) : log[Len(taken) + i] \in Values
    BY <1>1 DEF IInv, TypeOK
<1>3. QueueItems \in [1..(Len(log) - Len(taken)) -> Fifo!Item]
    BY <1>2 DEF QueueItems, Fifo!Item
<1>4. QueueItems \in Seq(Fifo!Item) /\ Len(QueueItems) = Len(log) - Len(taken)
    BY <1>1, <1>3
<1> QED BY <1>1, <1>4 DEF QueueItems

\* A step that leaves the links of the list and the history alone is none of
\* the abstract queue.
LEMMA Unseen ==
    ASSUME IInv, UNCHANGED <<order, log, taken>>,
           \A i \in First..(Last - 1) : next'[order[i]] = next[order[i]]
    PROVE  UNCHANGED Fifo!fifoVars
<1>1. \A i \in 1..(Len(log) - Len(taken)) : Len(taken) + i \in First..(Last - 1)
    BY DEF IInv, TypeOK, ListInvariant, ListShape, First, Last
<1>2. QueueItems' = QueueItems
    BY <1>1 DEF QueueItems
<1> QED BY <1>2 DEF Fifo!fifoVars

\* The exchange claims the last place (line 38); nothing is linked behind the
\* old head_ yet.
LEMMA ExchangeClaims ==
    ASSUME IInv, NEW t \in Producers, Exchange(t)
    PROVE  \E v \in Values : Fifo!Claim(v)
<1> t \in Threads BY QueueAssumption
<1> DEFINE v == data[node[t]]
           new == [val |-> v, visible |-> FALSE]
<1>1. node[t] \in Nodes /\ v \in Values
  <2>1. pc[t] = "exchange" BY DEF Exchange, Goto
  <2>2. node[t] \in live /\ v # Null
      BY <2>1 DEF IInv, ListInvariant, NewNodes
  <2> QED BY <2>2 DEF IInv, TypeOK
<1>2. /\ log' = Append(log, v) /\ order' = Append(order, node[t])
      /\ taken' = taken /\ next' = next
    BY DEF Exchange
<1>3. /\ Len(log) \in Nat /\ Len(taken) \in Nat /\ Len(taken) <= Len(log)
      /\ Last = Len(log) + 1 /\ First = Len(taken) + 1
      /\ next[order[Last]] = Null
    BY DEF IInv, TypeOK, ListInvariant, ListShape, ListLinks, First
<1> DEFINE n == Len(log) - Len(taken)
<1>4. /\ Len(log') = Len(log) + 1
      /\ \A i \in 1..Len(log) : log'[i] = log[i] /\ order'[i] = order[i]
      /\ log'[Len(log) + 1] = v /\ order'[Len(log) + 1] = order[Len(log) + 1]
    BY <1>1, <1>2, <1>3 DEF IInv, TypeOK, Last
<1>5. /\ QueueItems \in Seq(Fifo!Item) /\ Len(QueueItems) = n /\ n \in Nat
      /\ new \in Fifo!Item
    BY <1>1, <1>3, ItemsFacts DEF Fifo!Item
<1>6. QueueItems' = [i \in 1..(n + 1) |->
                        [val |-> log'[Len(taken) + i],
                         visible |-> next[order'[Len(taken) + i]] # Null]]
  <2>1. Len(log') - Len(taken') = n + 1 BY <1>2, <1>3, <1>4
  <2> QED BY <1>2, <2>1 DEF QueueItems
<1>7. \A i \in 1..n : QueueItems'[i] = QueueItems[i]
  <2> SUFFICES ASSUME NEW i \in 1..n PROVE QueueItems'[i] = QueueItems[i] OBVIOUS
  <2>1. Len(taken) + i \in 1..Len(log) /\ i \in 1..(n + 1) BY <1>3
  <2>2. QueueItems[i] = [val |-> log[Len(taken) + i],
                         visible |-> next[order[Len(taken) + i]] # Null]
      BY DEF QueueItems
  <2>3. QueueItems'[i] = [val |-> log'[Len(taken) + i],
                          visible |-> next[order'[Len(taken) + i]] # Null]
      BY <1>6, <2>1
  <2> QED BY <1>4, <2>1, <2>2, <2>3
<1>8. QueueItems'[n + 1] = new
  <2>1. Len(taken) + (n + 1) = Len(log) + 1 /\ n + 1 \in 1..(n + 1) BY <1>3
  <2> QED BY <1>3, <1>4, <1>6, <2>1
<1>9. QueueItems' = Append(QueueItems, new)
  <2> HIDE DEF n, new
  <2>1. QueueItems' \in Seq(Fifo!Item) /\ Len(QueueItems') = n + 1
    <3>1. \A i \in 1..(n + 1) : QueueItems'[i] \in Fifo!Item
        BY <1>5, <1>7, <1>8, ElementOfSeq
    <3>2. QueueItems' \in [1..(n + 1) -> Fifo!Item] BY <1>6, <3>1
    <3> QED BY <1>5, <3>2
  <2>2. /\ Append(QueueItems, new) \in Seq(Fifo!Item)
        /\ Len(Append(QueueItems, new)) = n + 1
        /\ \A i \in 1..n : Append(QueueItems, new)[i] = QueueItems[i]
        /\ Append(QueueItems, new)[n + 1] = new
      BY <1>5, AppendProperties
  <2>3. \A i \in 1..(n + 1) : QueueItems'[i] = Append(QueueItems, new)[i]
      BY <1>5, <1>7, <1>8, <2>2
  <2> QED BY <2>1, <2>2, <2>3, SeqEqual
<1> QED BY <1>1, <1>2, <1>9 DEF Fifo!Claim

\* The link makes the item behind prevhead visible (line 39).
LEMMA LinkPublishes ==
    ASSUME IInv, NEW t \in Producers, Link(t)
    PROVE  \E i \in DOMAIN QueueItems : Fifo!Publish(i)
<1> t \in Threads BY QueueAssumption
<1>1. PICK p \in First..(Last - 1) : Linking(t, p) /\ next[order[p]] = Null
    BY DEF Link, Goto, IInv, ListInvariant, ListLinks
<1>2. /\ First \in Nat /\ Last \in Nat /\ First <= Last
      /\ \A i \in First..Last : order[i] \in Nodes
      /\ \A i, j \in First..Last : order[i] = order[j] => i = j
    BY ListPlaces DEF IInv, ListInvariant, ListShape
<1>3. /\ p \in First..Last /\ p + 1 \in First..Last BY <1>1, <1>2
<1>4. next' = [next EXCEPT ![order[p]] = order[p + 1]]
      /\ UNCHANGED <<order, log, taken>>
    BY <1>1 DEF Link, Linking
<1>5. order[p + 1] # Null BY <1>2, <1>3, QueueAssumption
<1> DEFINE k == p - Len(taken)
<1>6. First = Len(taken) + 1 /\ Len(taken) \in Nat BY DEF First, IInv, TypeOK
<1>7. k \in 1..(Last - First) /\ Len(taken) + k = p BY <1>1, <1>2, <1>6
<1>8. ~QueueItems[k].visible /\ k \in DOMAIN QueueItems
  <2>1. /\ Len(QueueItems) = Last - First /\ QueueItems \in Seq(Fifo!Item)
        /\ QueueItems[k].visible = (next[order[p]] # Null)
      BY <1>7, ItemsFacts
  <2>2. k \in DOMAIN QueueItems BY <1>7, <2>1
  <2> QED BY <1>1, <2>1, <2>2
<1>9. \A i \in 1..(Last - First) :
         QueueItems'[i] = [QueueItems EXCEPT ![k].visible = TRUE][i]
  <2> SUFFICES ASSUME NEW i \in 1..(Last - First)
               PROVE QueueItems'[i] = [QueueItems EXCEPT ![k].visible = TRUE][i]
      OBVIOUS
  <2>1. Last - First = Len(log) - Len(taken)
      BY <1>6 DEF IInv, TypeOK, ListInvariant, ListShape
  <2>2. QueueItems'[i] = [val |-> log[Len(taken) + i],
                          visible |-> next'[order[Len(taken) + i]] # Null]
      BY <1>4, <2>1 DEF QueueItems
  <2>3. QueueItems[i] = [val |-> log[Len(taken) + i],
                         visible |-> next[order[Len(taken) + i]] # Null]
      BY <2>1 DEF QueueItems
  <2>4. i \in DOMAIN QueueItems BY ItemsFacts
  <2>5. CASE i = k
    <3>1. order[Len(taken) + i] = order[p] /\ order[p] \in Nodes
        BY <1>2, <1>3, <1>7, <2>5
    <3>2. next'[order[Len(taken) + i]] # Null
        BY <1>4, <1>5, <3>1 DEF IInv, TypeOK
    <3>3. QueueItems'[i] = [val |-> log[Len(taken) + i], visible |-> TRUE]
        BY <2>2, <3>2
    <3>4. [QueueItems EXCEPT ![k].visible = TRUE][i]
              = [QueueItems[i] EXCEPT !.visible = TRUE]
        BY <2>4, <2>5
    <3>5. [QueueItems[i] EXCEPT !.visible = TRUE]
              = [val |-> log[Len(taken) + i], visible |-> TRUE]
      <4> DEFINE true == TRUE
      <4>1. PICK b : QueueItems[i] = [val |-> log[Len(taken) + i], visible |-> b]
          BY <2>3, Zenon
      <4>2. [QueueItems[i] EXCEPT !.visible = true]
              = [val |-> log[Len(taken) + i], visible |-> true]
        <5> HIDE DEF true
        <5> QED BY <4>1, SMT
      <4> QED BY <4>2
    <3> QED BY <3>3, <3>4, <3>5
  <2>6. CASE i # k
    <3>1. Len(taken) + i \in First..Last /\ Len(taken) + i # p
        BY <1>2, <1>6, <1>7, <2>6
    <3>2. order[Len(taken) + i] # order[p] /\ order[Len(taken) + i] \in Nodes
        BY <1>2, <1>3, <3>1
    <3>3. next'[order[Len(taken) + i]] = next[order[Len(taken) + i]]
        BY <1>4, <3>2 DEF IInv, TypeOK
    <3> QED BY <2>2, <2>3, <2>4, <2>6, <3>3
  <2> QED BY <2>5, <2>6
<1>10. QueueItems' = [QueueItems EXCEPT ![k].visible = TRUE]
  <2>1. Last - First = Len(log) - Len(taken)
      BY <1>6 DEF IInv, TypeOK, ListInvariant, ListShape
  <2>2. QueueItems' = [i \in 1..(Last - First) |-> QueueItems'[i]]
      BY <1>4, <2>1 DEF QueueItems
  <2>3. QueueItems = [i \in 1..(Last - First) |-> QueueItems[i]]
      BY <2>1 DEF QueueItems
  <2> QED BY <1>9, <2>2, <2>3
<1> QED BY <1>4, <1>8, <1>10 DEF Fifo!Publish

\* The store to tail_ takes the first item, which is visible (line 62).
LEMMA StoreTakes ==
    ASSUME IInv, NEW t \in Consumers, StoreTail(t)
    PROVE  Fifo!Take
<1> t \in Threads BY QueueAssumption
<1>1. /\ First < Last /\ next[tail] = order[First + 1] /\ out[t] = log[First]
    BY DEF StoreTail, Goto, IInv, ListInvariant, ConsumerView
<1>2. /\ First \in Nat /\ Last \in Nat /\ First = Len(taken) + 1 /\ Len(taken) \in Nat
      /\ tail = order[First] /\ \A i \in First..Last : order[i] \in Nodes
      /\ Last - First = Len(log) - Len(taken) /\ Len(log) \in Nat
    BY ListPlaces DEF First, IInv, TypeOK, ListInvariant, ListShape
<1>3. order[First + 1] # Null BY <1>1, <1>2, QueueAssumption
<1>4. /\ taken' = Append(taken, log[First]) /\ UNCHANGED <<next, order, log>>
      /\ taken \in Seq(Values) /\ log[First] \in Values
    BY <1>1, <1>2 DEF StoreTail, IInv, TypeOK
<1>5. Len(taken') = Len(taken) + 1 BY <1>4
<1>6. /\ QueueItems \in Seq(Fifo!Item) /\ Len(QueueItems) = Last - First
      /\ QueueItems[1].val = log[First] /\ QueueItems[1].visible
  <2>1. 1 \in 1..(Last - First) /\ Len(taken) + 1 = First BY <1>1, <1>2
  <2>2. /\ QueueItems[1].val = log[First]
        /\ QueueItems[1].visible = (next[order[First]] # Null)
      BY <2>1, ItemsFacts
  <2> QED BY <1>1, <1>2, <1>3, <2>2, ItemsFacts
<1> DEFINE n == Last - First
<1>7. QueueItems' = [i \in 1..(n - 1) |->
                        [val |-> log[Len(taken) + 1 + i],
                         visible |-> next[order[Len(taken) + 1 + i]] # Null]]
  <2>1. Len(log') - Len(taken') = n - 1 BY <1>2, <1>4, <1>5
  <2> QED BY <1>4, <1>5, <2>1 DEF QueueItems
<1>8. \A i \in 1..(n - 1) : QueueItems'[i] = QueueItems[i + 1]
  <2> SUFFICES ASSUME NEW i \in 1..(n - 1) PROVE QueueItems'[i] = QueueItems[i + 1]
      OBVIOUS
  <2>1. /\ i + 1 \in 1..(Len(log) - Len(taken))
        /\ Len(taken) + 1 + i = Len(taken) + (i + 1)
      BY <1>2
  <2>2. QueueItems[i + 1] = [val |-> log[Len(taken) + (i + 1)],
                             visible |-> next[order[Len(taken) + (i + 1)]] # Null]
      BY <2>1 DEF QueueItems
  <2>3. QueueItems'[i] = [val |-> log[Len(taken) + 1 + i],
                          visible |-> next[order[Len(taken) + 1 + i]] # Null]
      BY <1>7
  <2> QED BY <2>1, <2>2, <2>3
<1>9. QueueItems' = Tail(QueueItems)
  <2> HIDE DEF n
  <2>1. n \in Nat /\ n > 0 /\ Len(QueueItems) = n BY <1>1, <1>2, <1>6 DEF n
  <2>2. /\ Tail(QueueItems) \in Seq(Fifo!Item) /\ Len(Tail(QueueItems)) = n - 1
        /\ \A i \in 1..(n - 1) : Tail(QueueItems)[i] = QueueItems[i + 1]
      BY <1>6, <2>1, HeadTailProperties
  <2>3. QueueItems' \in Seq(Fifo!Item) /\ Len(QueueItems') = n - 1
    <3>1. \A i \in 1..(n - 1) : QueueItems'[i] \in Fifo!Item
        BY <1>6, <1>8, <2>1, ElementOfSeq
    <3>2. QueueItems' \in [1..(n - 1) -> Fifo!Item] BY <1>7, <3>1
    <3> QED BY <2>1, <3>2
  <2> QED BY <1>8, <2>2, <2>3, SeqEqual
<1>10. ~Fifo!NothingVisible(QueueItems) /\ Head(QueueItems).val = log[First]
  <2>1. QueueItems # <<>> BY <1>1, <1>2, <1>6
  <2> QED BY <1>6, <2>1 DEF Fifo!NothingVisible
<1> QED BY <1>4, <1>9, <1>10 DEF Fifo!Take

\* Seen from outside the queue is a FIFO with two-step insertion: every step of
\* a thread inside enqueue or dequeue is a step of FifoQueue or changes nothing
\* there.
THEOREM Implementation == SingleConsumer => (Spec => ImplementsFifo)
<1> SUFFICES ASSUME SingleConsumer PROVE Spec => ImplementsFifo OBVIOUS
<1>1. Init => Fifo!FifoInit
    BY DEF Init, Fifo!FifoInit, QueueItems
<1>2. IInv /\ [Next]_vars => [Fifo!FifoNext]_(Fifo!fifoVars)
  <2> SUFFICES ASSUME IInv, [Next]_vars PROVE [Fifo!FifoNext]_(Fifo!fifoVars)
      OBVIOUS
  <2>1. ASSUME NEW t \in Producers, Enqueue(t) PROVE UNCHANGED Fifo!fifoVars
    <3>1. PICK n \in Nodes \ live :
             next' = [next EXCEPT ![n] = Null] /\ UNCHANGED <<order, log, taken>>
        BY <2>1 DEF Enqueue, NewNode
    <3>2. First \in Nat /\ Last \in Nat /\ \A i \in First..Last : order[i] \in live
        BY <2>1, ListPlaces DEF Enqueue, IInv, ListInvariant, LiveNodes
    <3>3. \A i \in First..(Last - 1) : next'[order[i]] = next[order[i]]
        BY <3>1, <3>2 DEF IInv, TypeOK
    <3> QED BY <3>1, <3>3, Unseen
  <2>2. ASSUME NEW t \in Producers, EnqueueStep(t) PROVE Fifo!FifoNext
      BY <2>2, ExchangeClaims, LinkPublishes DEF EnqueueStep, Fifo!FifoNext
  <2>3. ASSUME NEW t \in Consumers, StoreTail(t) PROVE Fifo!FifoNext
      BY <2>3, StoreTakes DEF Fifo!FifoNext
  <2>4. ASSUME UNCHANGED <<next, order, log, taken>> PROVE UNCHANGED Fifo!fifoVars
      BY <2>4, Unseen
  <2>5. ASSUME NEW t \in Consumers,
               Dequeue(t) \/ Empty(t) \/ LoadNext(t) \/ TakeData(t) \/ DeleteTail(t)
               \/ EmptyNext(t) \/ BeginDestroy(t) \/ DeleteFront(t)
        PROVE  UNCHANGED Fifo!fifoVars
      BY <2>4, <2>5 DEF Dequeue, Empty, LoadTail, LoadNext, TakeData, DeleteTail,
                        EmptyNext, BeginDestroy, DeleteFront
  <2>6. CASE UNCHANGED vars BY <2>4, <2>6 DEF vars
  <2> QED BY <2>1, <2>2, <2>3, <2>5, <2>6 DEF Next, DequeueStep
<1> QED BY <1>1, <1>2, Invariance, PTL DEF Spec, ImplementsFifo, Fifo!FifoSpec

-----------------------------------------------------------------------------
(* AsyncLogWriter *)


\* The program logs below kError only.
NoErrors == "error" \notin Levels

LEMMA WhoIsWho ==
    ASSUME NoErrors
    PROVE  /\ Producers = Loggers /\ Consumers = Flushers
           /\ Writer \in Threads /\ Owner \in Threads /\ Writer # Owner
           /\ \A t \in Threads : t \in Loggers \/ t = Writer \/ t = Owner
           /\ \A t \in Loggers : t \in Threads /\ t # Writer /\ t # Owner
BY WriterAssumption DEF NoErrors, Flushers

\* A flush is never joined by another one.
LEMMA FlushIsAlone ==
    ASSUME NoErrors, WriterInv, NEW t \in Flushers, at[t] \in {"flush", "dequeue"}
    PROVE  /\ Alone(t)
           /\ \A u \in Flushers : u # t => at[u] \notin {"flush", "dequeue"} /\ ~Holding(u)
<1>1. \A u \in Flushers : u # t => at[u] \notin {"flush", "dequeue"}
    BY DEF WriterInv, WriterSane, Flushers
<1>2. \A u \in Threads \ {t} :
         pc[u] \notin {"loadNext", "emptyNext", "take", "store", "delete"}
    BY <1>1, WhoIsWho DEF WriterInv, WriterSane, Flushers
<1> QED BY <1>1, <1>2 DEF Alone, Holding, WriterInv, WriterSane

\* A step between the queue's operations.
LEMMA MoveFacts ==
    ASSUME WriterInv, NEW t \in Threads, NEW from, NEW to \in Places, Move(t, from, to)
    PROVE  /\ pc[t] = "idle" /\ at[t] = from /\ at'[t] = to /\ at' \in [Threads -> Places]
           /\ \A u \in Threads \ {t} : at'[u] = at[u]
BY DEF Move, WriterInv, WriterSane

\* A logger's enqueue: nothing that the flushes look at changes.
LEMMA EnqueueStepInv ==
    ASSUME NoErrors, WriterInv, NEW t \in Threads, EnqueueStep(t), UNCHANGED writerVars
    PROVE  WriterInv'
<1> USE DEF writerVars
<1>1. pc[t] \in {"exchange", "link"} BY DEF EnqueueStep, Exchange, Link, Goto
<1>2. t \in Loggers /\ at[t] # "out"
    BY <1>1, WhoIsWho DEF WriterInv, WriterSane, Flushers, InDequeue
<1>3. IInv' BY <1>2, WhoIsWho, ExchangeInv, LinkInv DEF EnqueueStep, WriterInv
<1>4. /\ UNCHANGED <<out, ret, phase, taken>> /\ pc'[t] \in {"idle", "link"}
      /\ \A u \in Threads \ {t} : pc'[u] = pc[u]
    BY DEF EnqueueStep, Exchange, Link, Goto, WriterInv, IInv, TypeOK
<1>5. \A u \in Flushers : pc'[u] = pc[u] BY <1>2, <1>4, WhoIsWho DEF Flushers
<1>6. WriterSane' BY <1>2, <1>4, <1>5, WhoIsWho DEF WriterInv, WriterSane, InDequeue
<1>7. OutputBehind' BY <1>4, <1>5 DEF WriterInv, OutputBehind, Holding
<1>8. at[Owner] = "out" BY <1>2 DEF WriterInv, WriterSane
<1>9. Flushed' BY <1>8 DEF Flushed
<1> QED BY <1>3, <1>6, <1>7, <1>9 DEF WriterInv

\* What a step of dequeue may change.
LEMMA DequeueSane ==
    ASSUME NoErrors, WriterInv, NEW t \in Flushers, InDequeue(t), UNCHANGED writerVars,
           NEW to \in {"idle", "take", "store", "delete"}, pc' = [pc EXCEPT ![t] = to],
           UNCHANGED phase
    PROVE  /\ WriterSane' /\ at[t] = "dequeue" /\ pc'[t] = to
           /\ \A u \in Threads \ {t} : pc'[u] = pc[u]
<1> USE DEF writerVars
<1>1. t \in Threads BY WhoIsWho DEF Flushers
<1>2. pc'[t] = to /\ \A u \in Threads \ {t} : pc'[u] = pc[u]
    BY <1>1 DEF WriterInv, IInv, TypeOK
<1>3. at[t] = "dequeue" BY DEF WriterInv, WriterSane, InDequeue
<1>4. \A u \in Loggers : pc'[u] = pc[u] BY <1>2, WhoIsWho DEF Flushers
<1>5. \A u \in Flushers : pc'[u] # "idle" =>
         at'[u] = "dequeue" /\ pc'[u] \in {"loadNext", "take", "store", "delete"}
    BY <1>2, <1>3, WhoIsWho DEF WriterInv, WriterSane, Flushers, InDequeue
<1>6. WriterSane' BY <1>4, <1>5 DEF WriterInv, WriterSane, InDequeue
<1> QED BY <1>2, <1>3, <1>6

LEMMA DequeueStepInv ==
    ASSUME NoErrors, WriterInv, NEW t \in Threads, DequeueStep(t), UNCHANGED writerVars
    PROVE  WriterInv'
<1> USE DEF writerVars
<1>1. pc[t] \in {"loadNext", "take", "store", "delete", "emptyNext"}
    BY DEF DequeueStep, LoadNext, TakeData, StoreTail, DeleteTail, EmptyNext, Goto
<1>2. t \in Flushers /\ InDequeue(t) /\ at[t] = "dequeue"
    BY <1>1, WhoIsWho DEF WriterInv, WriterSane, Flushers, InDequeue
<1>3. /\ Alone(t) /\ t \in Consumers /\ ~EmptyNext(t)
      /\ \A u \in Flushers : u # t => ~Holding(u) /\ at[u] # "dequeue"
    BY <1>2, FlushIsAlone, WhoIsWho DEF EmptyNext, Goto, InDequeue
<1>4. IInv'
    BY <1>3, LoadNextInv, TakeDataInv, StoreTailInv, DeleteTailInv DEF DequeueStep, WriterInv
<1>5. \A u \in Flushers : u # t => ~Holding(u)' BY <1>3 DEF Holding
<1>6. CASE LoadNext(t)
  <2> DEFINE to == IF next[ltail[t]] = Null THEN "idle" ELSE "take"
  <2>1. /\ to \in {"idle", "take"} /\ pc' = [pc EXCEPT ![t] = to] /\ pc[t] = "loadNext"
        /\ UNCHANGED <<next, order, log, taken, phase, out>>
      BY <1>6 DEF LoadNext, Goto
  <2>2. ret'[t] = (next[ltail[t]] # Null) /\ ltail[t] = tail
      BY <1>6, <1>2, WhoIsWho DEF LoadNext, Goto, WriterInv, IInv, TypeOK, ListInvariant,
         ConsumerView
  <2> HIDE DEF to
  <2>3. WriterSane' /\ pc'[t] = to /\ \A u \in Threads \ {t} : pc'[u] = pc[u]
      BY <1>2, <2>1, DequeueSane
  <2>4. pc'[t] = "idle" => next[tail] = Null /\ ~ret'[t] BY <2>1, <2>2, <2>3 DEF to
  <2>5. ~Holding(t) /\ ~Holding(t)' BY <2>1, <2>3, <2>4 DEF Holding
  <2>6. OutputBehind' BY <1>3, <1>5, <2>1, <2>5 DEF WriterInv, OutputBehind
  <2>7. Flushed'
    <3>1. CASE t = Owner /\ pc'[t] = "idle"
      <4>1. \A u \in Producers : pc[u] # "link"
          BY <1>2, <3>1, WhoIsWho DEF WriterInv, WriterSane
      <4>2. First = Last
        <5>1. next[tail] = Null BY <2>4, <3>1
        <5>2. IInv BY DEF WriterInv
        <5>3. First < Last => First + 1 \in First..Last /\ order[First + 1] # Null
            BY <5>2, ListPlaces, QueueAssumption
        <5> QED BY <4>1, <5>1, <5>2, <5>3, FirstLink DEF Linking
      <4>3. Len(taken) = Len(log) BY <4>2 DEF WriterInv, IInv, ListInvariant, ListShape,
                                                TypeOK, First, Last
      <4> QED BY <2>1, <4>3 DEF Flushed
    <3>2. CASE t = Owner /\ pc'[t] # "idle" BY <1>2, <3>2 DEF Flushed
    <3>3. CASE t # Owner
      <4>1. at[Owner] # "dequeue" /\ at[Owner] # "ended"
          BY <1>2, <3>3 DEF WriterInv, WriterSane, Flushers
      <4> QED BY <4>1 DEF Flushed
    <3> QED BY <3>1, <3>2, <3>3
  <2> QED BY <1>4, <2>3, <2>6, <2>7 DEF WriterInv
<1>7. CASE TakeData(t)
  <2>1. /\ "store" \in {"idle", "take", "store", "delete"} /\ pc' = [pc EXCEPT ![t] = "store"]
        /\ pc[t] = "take" /\ UNCHANGED <<log, taken, phase, ret>>
      BY <1>7 DEF TakeData, Goto
  <2>2. WriterSane' /\ pc'[t] = "store" /\ \A u \in Threads \ {t} : pc'[u] = pc[u]
      BY <1>2, <2>1, DequeueSane
  <2>3. ~Holding(t) /\ ~Holding(t)' BY <2>1, <2>2 DEF Holding
  <2>4. OutputBehind' BY <1>3, <1>5, <2>1, <2>3 DEF WriterInv, OutputBehind
  <2>5. Flushed' BY <1>2, <2>1, <2>2, WhoIsWho DEF WriterInv, WriterSane, Flushed, Flushers
  <2> QED BY <1>4, <2>2, <2>4, <2>5 DEF WriterInv
<1>8. CASE StoreTail(t)
  <2>1. /\ "delete" \in {"idle", "take", "store", "delete"} /\ pc' = [pc EXCEPT ![t] = "delete"]
        /\ pc[t] = "store" /\ UNCHANGED <<log, phase, ret, out>>
        /\ taken' = Append(taken, out[t])
      BY <1>8 DEF StoreTail, Goto
  <2>2. WriterSane' /\ pc'[t] = "delete" /\ \A u \in Threads \ {t} : pc'[u] = pc[u]
      BY <1>2, <2>1, DequeueSane
  <2>3. ~Holding(t) /\ Holding(t)' BY <1>2, <2>1, <2>2 DEF Holding
  <2>4. taken = output BY <1>3, <2>3 DEF WriterInv, OutputBehind
  <2>5. OutputBehind' BY <1>2, <1>5, <2>1, <2>3, <2>4 DEF OutputBehind
  <2>6. Flushed' BY <1>2, <2>1, <2>2, WhoIsWho DEF WriterInv, WriterSane, Flushed, Flushers
  <2> QED BY <1>4, <2>2, <2>5, <2>6 DEF WriterInv
<1>9. CASE DeleteTail(t)
  <2>1. /\ "idle" \in {"idle", "take", "store", "delete"} /\ pc' = [pc EXCEPT ![t] = "idle"]
        /\ pc[t] = "delete" /\ UNCHANGED <<log, taken, phase, ret, out>>
      BY <1>9 DEF DeleteTail, Goto
  <2>2. WriterSane' /\ pc'[t] = "idle" /\ \A u \in Threads \ {t} : pc'[u] = pc[u]
      BY <1>2, <2>1, DequeueSane
  <2>3. ret[t] BY <2>1 DEF WriterInv, IInv, ListInvariant, ConsumerView
  <2>4. Holding(t) /\ Holding(t)' BY <1>2, <2>1, <2>2, <2>3 DEF Holding
  <2>5. OutputBehind' BY <1>2, <1>5, <2>1, <2>4 DEF WriterInv, OutputBehind
  <2>6. Flushed' BY <1>2, <2>1, <2>2, <2>3, WhoIsWho
                 DEF WriterInv, WriterSane, Flushed, Flushers
  <2> QED BY <1>4, <2>2, <2>5, <2>6 DEF WriterInv
<1> QED BY <1>3, <1>6, <1>7, <1>8, <1>9 DEF DequeueStep

\* Steps between the queue's operations that do not touch the queue.
LEMMA QueueAlone ==
    ASSUME WriterInv, UNCHANGED vars
    PROVE  IInv' /\ UNCHANGED <<pc, log, taken, phase, out, ret>>
BY StutterInv DEF WriterInv, vars

\* Logging a message begins and ends.
LEMMA LogStepInv ==
    ASSUME NoErrors, WriterInv,
           \/ \E t \in Loggers, l \in Levels : Write(t, l)
           \/ \E t \in Threads : WritePost(t)
    PROVE  WriterInv'
<1>1. ASSUME NEW t \in Loggers, NEW l \in Levels, Write(t, l) PROVE WriterInv'
  <2>1. PICK v \in Values : NewNode(t, v) BY <1>1 DEF Write
  <2>2. t \in Threads /\ t \in Producers /\ phase = "open" /\ ~exitFlag
      BY <1>1, WhoIsWho DEF Write, WriterInv, WriterSane
  <2>3. IInv' BY <2>1, <2>2, NewNodeInv DEF WriterInv
  <2>4. /\ at[t] = "out" /\ at'[t] = "write" /\ at' \in [Threads -> Places]
        /\ \A u \in Threads \ {t} : at'[u] = at[u]
    <3>1. "write" \in Places BY DEF Places
    <3> QED BY <1>1, <2>2, <3>1, MoveFacts DEF Write
  <2>5. /\ UNCHANGED <<out, ret, phase, taken, log, exitFlag, output>> /\ pc'[t] = "exchange"
        /\ \A u \in Threads \ {t} : pc'[u] = pc[u]
      BY <1>1, <2>1, <2>2 DEF Write, NewNode, Goto, WriterInv, IInv, TypeOK
  <2>6. level' \in [Threads -> {"info"}]
    <3>1. l = "info" BY WriterAssumption DEF NoErrors
    <3> QED BY <1>1, <2>2, <3>1 DEF Write, WriterInv, WriterSane
  <2>7. \A u \in Flushers : at'[u] = at[u] /\ pc'[u] = pc[u]
      BY <2>4, <2>5, WhoIsWho DEF Flushers
  <2>8. at[Owner] = "out" /\ at'[Owner] = "out"
      BY <2>2, <2>7 DEF WriterInv, WriterSane, Flushers
  <2>9. WriterSane'
      BY <2>4, <2>5, <2>6, <2>7, <2>8, WhoIsWho
      DEF WriterInv, WriterSane, InDequeue, Flushers
  <2>10. OutputBehind' BY <2>5, <2>7 DEF WriterInv, OutputBehind, Holding
  <2>11. Flushed' BY <2>8 DEF Flushed
  <2> QED BY <2>3, <2>9, <2>10, <2>11 DEF WriterInv
<1>2. ASSUME NEW t \in Threads, WritePost(t) PROVE WriterInv'
  <2>1. IInv' /\ UNCHANGED <<pc, log, taken, phase, out, ret, level, exitFlag, output>>
      BY <1>2, QueueAlone DEF WritePost
  <2>2. t \in Loggers /\ level[t] = "info" /\ at[t] = "write"
      BY <1>2, WhoIsWho DEF WritePost, Move, WriterInv, WriterSane
  <2>3. /\ pc[t] = "idle" /\ at'[t] = "out" /\ at' \in [Threads -> Places]
        /\ \A u \in Threads \ {t} : at'[u] = at[u]
    <3>1. "out" \in Places BY DEF Places
    <3>2. Move(t, "write", "out") BY <1>2, <2>2 DEF WritePost
    <3> QED BY <3>1, <3>2, MoveFacts
  <2>4. \A u \in Flushers : at'[u] = at[u] BY <2>2, <2>3, WhoIsWho DEF Flushers
  <2>5. WriterSane'
      BY <2>1, <2>2, <2>3, <2>4, WhoIsWho DEF WriterInv, WriterSane, InDequeue, Flushers
  <2>6. OutputBehind' /\ Flushed'
      BY <2>1, <2>4 DEF WriterInv, OutputBehind, Holding, Flushed, Flushers
  <2> QED BY <2>1, <2>5, <2>6 DEF WriterInv
<1> QED BY <1>1, <1>2

\* A flush calls dequeue, and writes what it returns.
LEMMA FlushStepInv ==
    ASSUME NoErrors, WriterInv, NEW t \in Threads, FlushDequeue(t) \/ FlushWrite(t)
    PROVE  WriterInv'
<1>1. at[t] \in {"flush", "dequeue"} /\ pc[t] = "idle"
    BY DEF FlushDequeue, FlushWrite, Move
<1>2. t \in Flushers /\ t \in Consumers BY <1>1, WhoIsWho DEF WriterInv, WriterSane, Flushers
<1>3. Alone(t) /\ \A u \in Flushers : u # t => at[u] \notin {"flush", "dequeue"} /\ ~Holding(u)
    BY <1>1, <1>2, FlushIsAlone
<1>4. CASE FlushDequeue(t)
  <2>1. /\ at[t] = "flush" /\ at'[t] = "dequeue" /\ at' \in [Threads -> Places]
        /\ \A u \in Threads \ {t} : at'[u] = at[u]
    <3>1. "dequeue" \in Places BY DEF Places
    <3> QED BY <1>4, <3>1, MoveFacts DEF FlushDequeue
  <2>2. IInv'
    <3>1. phase = "open" /\ IInv /\ LoadTail(t, "loadNext")
        BY <1>4 DEF FlushDequeue, WriterInv, WriterSane
    <3> QED BY <1>2, <1>3, <3>1, LoadTailInv
  <2>3. /\ UNCHANGED <<out, ret, phase, taken, log, level, exitFlag, output>>
        /\ pc'[t] = "loadNext" /\ \A u \in Threads \ {t} : pc'[u] = pc[u]
      BY <1>4 DEF FlushDequeue, LoadTail, Goto, WriterInv, IInv, TypeOK
  <2>4. \A u \in Loggers : at'[u] = at[u] /\ pc'[u] = pc[u]
      BY <1>2, <2>1, <2>3, WhoIsWho DEF Flushers
  <2>5. WriterSane'
      BY <1>2, <2>1, <2>3, <2>4, WhoIsWho DEF WriterInv, WriterSane, InDequeue, Flushers
  <2>6. \A u \in Flushers : ~Holding(u) /\ ~Holding(u)'
      BY <1>2, <1>3, <2>1, <2>3, WhoIsWho DEF Holding, Flushers
  <2>7. OutputBehind' BY <2>3, <2>6 DEF WriterInv, OutputBehind
  <2>8. Flushed' BY <1>2, <2>1, <2>3, WhoIsWho DEF WriterInv, WriterSane, Flushed, Flushers
  <2> QED BY <2>2, <2>5, <2>7, <2>8 DEF WriterInv
<1>5. CASE FlushWrite(t)
  <2> DEFINE to == IF ret[t] THEN "flush" ELSE AfterFlush(t)
  <2>1. IInv' /\ UNCHANGED <<pc, log, taken, phase, out, ret, level, exitFlag>>
      BY <1>5, QueueAlone DEF FlushWrite
  <2>2. to \in {"flush", "check", "ended"} /\ (to = "ended" => t = Owner /\ ~ret[t])
        /\ (to = "check" => t = Writer) /\ to \in Places
      BY <1>2, WhoIsWho DEF AfterFlush, Flushers, Places
  <2>3. Move(t, "dequeue", to) BY <1>5 DEF FlushWrite
  <2> HIDE DEF to
  <2>4. /\ at[t] = "dequeue" /\ at'[t] = to /\ at' \in [Threads -> Places]
        /\ \A u \in Threads \ {t} : at'[u] = at[u]
      BY <2>2, <2>3, MoveFacts
  <2>5. Holding(t) <=> ret[t] BY <1>1, <2>4 DEF Holding
  <2>6. output' = taken
    <3>1. CASE ret[t]
      <4>1. taken = Append(output, out[t]) BY <1>2, <2>5, <3>1 DEF WriterInv, OutputBehind
      <4> QED BY <1>5, <3>1, <4>1 DEF FlushWrite
    <3>2. CASE ~ret[t]
      <4>1. taken = output BY <1>3, <2>5, <3>2 DEF WriterInv, OutputBehind
      <4> QED BY <1>5, <3>2, <4>1 DEF FlushWrite
    <3> QED BY <3>1, <3>2
  <2>7. \A u \in Loggers : at'[u] = at[u] BY <1>2, <2>4, WhoIsWho DEF Flushers
  <2>8. output' \in Seq(Values) BY <2>6 DEF WriterInv, IInv, TypeOK
  <2>9. WriterSane'
    <3>1. \A u \in Flushers : pc[u] # "idle" => u # t BY <1>1
    <3>2. \A u \in Flushers : u # t => at'[u] = at[u] BY <2>4, WhoIsWho DEF Flushers
    <3>3. at'[Writer] \in {"check", "wait", "flush", "dequeue", "ended"}
          /\ at'[Owner] \in {"out", "dtorPost", "join", "flush", "dequeue", "ended"}
          /\ (at'[Owner] \in {"flush", "dequeue", "ended"} => at'[Writer] = "ended")
          /\ (at'[Owner] # "out" => at[Owner] # "out")
        BY <1>2, <2>2, <2>4, <3>2, WhoIsWho DEF WriterInv, WriterSane, Flushers
    <3> QED BY <2>1, <2>4, <2>7, <2>8, <3>1, <3>2, <3>3
            DEF WriterInv, WriterSane, InDequeue
  <2>10. OutputBehind'
    <3>1. \A u \in Flushers : ~Holding(u)'
        BY <1>2, <1>3, <2>1, <2>2, <2>4, WhoIsWho DEF Holding, Flushers
    <3> QED BY <2>1, <2>6, <3>1 DEF OutputBehind
  <2>11. Flushed'
    <3>1. CASE t = Owner BY <1>1, <2>1, <2>2, <2>4, <3>1 DEF WriterInv, Flushed
    <3>2. CASE t # Owner
      <4>1. at'[Owner] = at[Owner] BY <2>4, <3>2, WhoIsWho
      <4> QED BY <2>1, <4>1 DEF WriterInv, Flushed
    <3> QED BY <3>1, <3>2
  <2> QED BY <2>1, <2>9, <2>10, <2>11 DEF WriterInv
<1> QED BY <1>4, <1>5

\* run() and the destructor, outside their flushes.
LEMMA ControlStepInv ==
    ASSUME NoErrors, WriterInv, RunStep \/ DtorExitFlag \/ DtorStep
    PROVE  WriterInv'
<1>1. IInv' /\ UNCHANGED <<pc, log, taken, phase, out, ret, level, output>>
    BY QueueAlone
    DEF RunStep, RunCheck, RunBlock, RunWait, DtorExitFlag, DtorStep, DtorPost, DtorJoin
<1>2. /\ at' \in [Threads -> Places]
      /\ \A u \in Threads : at'[u] # at[u] => pc[u] = "idle"
      /\ \A u \in Loggers : at'[u] = at[u]
      /\ at'[Writer] # at[Writer] => at'[Owner] = at[Owner]
      /\ at'[Owner] # at[Owner] => at'[Writer] = at[Writer]
      /\ at'[Writer] = at[Writer]
         \/ (at[Writer] = "check" /\ at'[Writer] \in {"wait", "ended"})
         \/ (at[Writer] = "wait" /\ at'[Writer] = "flush")
      /\ at'[Owner] = at[Owner]
         \/ (/\ at[Owner] = "out" /\ at'[Owner] = "dtorPost" /\ exitFlag'
             /\ \A u \in Loggers : at[u] = "out")
         \/ (at[Owner] = "dtorPost" /\ at'[Owner] = "join")
         \/ (at[Owner] = "join" /\ at'[Owner] = "flush" /\ at[Writer] = "ended")
      /\ exitFlag' = exitFlag \/ exitFlag'
  <2>1. RunCheck \/ RunBlock \/ RunWait \/ DtorExitFlag \/ DtorPost \/ DtorJoin
      BY DEF RunStep, DtorStep
  <2>2. at \in [Threads -> Places] BY DEF WriterInv, WriterSane
  <2>3. {"wait", "ended", "flush", "dtorPost", "join"} \subseteq Places BY DEF Places
  <2> QED BY <2>1, <2>2, <2>3, WhoIsWho
          DEF RunCheck, RunBlock, RunWait, DtorExitFlag, DtorPost, DtorJoin, Move
<1>3. exitFlag' \in BOOLEAN /\ (exitFlag => exitFlag')
    BY DEF RunStep, RunCheck, RunBlock, RunWait, DtorExitFlag, DtorStep, DtorPost, DtorJoin,
           WriterInv, WriterSane
<1>4. WriterSane'
  <2>1. \A u \in Flushers : pc[u] # "idle" => at'[u] = at[u]
      BY <1>2, WhoIsWho DEF Flushers
  <2>2. /\ at'[Writer] \in {"check", "wait", "flush", "dequeue", "ended"}
        /\ at'[Owner] \in {"out", "dtorPost", "join", "flush", "dequeue", "ended"}
        /\ at'[Owner] \in {"flush", "dequeue", "ended"} => at'[Writer] = "ended"
      BY <1>2 DEF WriterInv, WriterSane
  <2>3. at'[Owner] # "out" => exitFlag' /\ \A u \in Loggers : at'[u] = "out"
      BY <1>2, <1>3 DEF WriterInv, WriterSane
  <2> QED BY <1>1, <1>2, <1>3, <2>1, <2>2, <2>3 DEF WriterInv, WriterSane, InDequeue
<1>5. \A u \in Flushers : Holding(u)' <=> Holding(u)
    BY <1>1, <1>2, WhoIsWho DEF Holding, Flushers
<1>6. OutputBehind' BY <1>1, <1>5 DEF WriterInv, OutputBehind
<1>7. Flushed' BY <1>1, <1>2 DEF WriterInv, Flushed
<1> QED BY <1>1, <1>4, <1>6, <1>7 DEF WriterInv

\* The invariant of the log writer and of the queue under it, for any number of
\* logging threads and messages below kError.
THEOREM WriterInvariance == NoErrors => (WriterSpec => []WriterInv)
<1> SUFFICES ASSUME NoErrors PROVE WriterSpec => []WriterInv OBVIOUS
<1>1. WriterInit => WriterInv
  <2> SUFFICES ASSUME WriterInit PROVE WriterInv OBVIOUS
  <2>1. IInv BY InitInv DEF WriterInit
  <2>2. /\ phase = "open" /\ pc = [t \in Threads |-> "idle"] /\ taken = <<>>
      BY DEF WriterInit, Init
  <2>3. at[Writer] = "check" /\ at[Owner] = "out" /\ at \in [Threads -> Places]
        /\ \A t \in Loggers : at[t] = "out"
      BY WhoIsWho DEF WriterInit, Places
  <2>4. level \in [Threads -> {"info"}] /\ exitFlag \in BOOLEAN /\ output = <<>>
      BY DEF WriterInit
  <2>5. output \in Seq(Values) BY <2>4
  <2>6. WriterSane
      BY <2>2, <2>3, <2>4, <2>5, WhoIsWho DEF WriterSane, Flushers, InDequeue
  <2>7. OutputBehind /\ Flushed
      BY <2>2, <2>3, <2>4, WhoIsWho DEF OutputBehind, Flushed, Holding, Flushers
  <2> QED BY <2>1, <2>6, <2>7 DEF WriterInv
<1>2. WriterInv /\ [WriterNext]_allVars => WriterInv'
  <2> SUFFICES ASSUME WriterInv, [WriterNext]_allVars PROVE WriterInv' OBVIOUS
  <2>1. ASSUME NEW t \in Threads, QueueStep(t) PROVE WriterInv'
      BY <2>1, EnqueueStepInv, DequeueStepInv DEF QueueStep
  <2>2. CASE UNCHANGED allVars
    <3>1. IInv' BY <2>2, StutterInv DEF WriterInv, allVars
    <3>2. WriterSane' /\ OutputBehind' /\ Flushed'
        BY <2>2 DEF allVars, writerVars, vars, WriterInv, WriterSane, InDequeue, OutputBehind,
           Holding, Flushed
    <3> QED BY <3>1, <3>2 DEF WriterInv
  <2> QED BY <2>1, <2>2, LogStepInv, FlushStepInv, ControlStepInv DEF WriterNext, ThreadStep
<1> QED BY <1>1, <1>2, PTL DEF WriterSpec

\* dequeue is never called by two threads together, stdout gets the messages in
\* the order of their enqueues, and the destructor leaves none behind.
THEOREM LogIsWritten == NoErrors => (WriterSpec => []LogSafe)
<1> SUFFICES ASSUME NoErrors PROVE WriterSpec => []LogSafe OBVIOUS
<1>1. WriterInv => LogSafe
  <2> SUFFICES ASSUME WriterInv PROVE LogSafe OBVIOUS
  <2>1. ASSUME NEW s \in Threads, NEW t \in Threads, InDequeue(s), InDequeue(t) PROVE s = t
    <3>1. s \in Flushers /\ at[s] = "dequeue"
        BY <2>1, WhoIsWho DEF WriterInv, WriterSane, Flushers, InDequeue
    <3>2. Alone(s) BY <3>1, FlushIsAlone
    <3> QED BY <2>1, <3>2 DEF Alone, InDequeue
  <2>2. /\ taken \in Seq(Values) /\ log \in Seq(Values) /\ output \in Seq(Values)
        /\ Len(taken) <= Len(log) /\ \A i \in 1..Len(taken) : taken[i] = log[i]
      BY DEF WriterInv, WriterSane, IInv, TypeOK, ListInvariant, ListShape, ListData
  <2>3. /\ Len(output) <= Len(taken) /\ \A i \in 1..Len(output) : output[i] = taken[i]
    <3>1. CASE \E t \in Flushers : Holding(t)
      <4>1. PICK t \in Flushers : Holding(t) BY <3>1
      <4>2. taken = Append(output, out[t]) BY <4>1 DEF WriterInv, OutputBehind
      <4> QED BY <2>2, <4>2
    <3>2. CASE \A t \in Flushers : ~Holding(t) BY <2>2, <3>2 DEF WriterInv, OutputBehind
    <3> QED BY <3>1, <3>2
  <2>4. Len(output) <= Len(log) /\ \A i \in 1..Len(output) : output[i] = log[i]
      BY <2>2, <2>3
  <2>5. output = SubSeq(log, 1, Len(output))
    <3> DEFINE p == SubSeq(log, 1, Len(output))
    <3>1. p \in Seq(Values) /\ Len(p) = Len(output) BY <2>2, <2>4
    <3>2. \A i \in 1..Len(output) : p[i] = log[i] BY <2>2, <2>4
    <3> HIDE DEF p
    <3>3. output = p BY <2>2, <2>4, <3>1, <3>2, SeqEqual
    <3> QED BY <3>3 DEF p
  <2>6. ASSUME at[Owner] = "ended" PROVE output = log
    <3>1. at[Writer] = "ended" BY <2>6 DEF WriterInv, WriterSane
    <3>2. \A t \in Flushers : ~Holding(t) BY <2>6, <3>1 DEF Holding, Flushers
    <3>3. taken = output /\ Len(taken) = Len(log) BY <2>6, <3>2 DEF WriterInv, OutputBehind, Flushed
    <3> QED BY <2>2, <2>4, <3>3, SeqEqual
  <2> QED BY <2>1, <2>4, <2>5, <2>6 DEF LogSafe, OneThreadInDequeue, OutputIsLog
<1> QED BY <1>1, WriterInvariance, PTL

-----------------------------------------------------------------------------
(* ThreadPool *)


\* A worker on its way to the queue that stops looking leaves one fewer; one
\* that comes back, or is woken, makes one more.
LEMMA OnTheWayChanges ==
    ASSUME PoolTypeOK, NEW w \in Workers, NEW to, wpc' = [wpc EXCEPT ![w] = to]
    PROVE  /\ Cardinality(OnTheWay) \in Nat /\ Cardinality(OnTheWay') \in Nat
           /\ to \in {"top", "lock", "cond", "sleep"} =>
                 Cardinality(OnTheWay')
                    = IF w \in OnTheWay THEN Cardinality(OnTheWay)
                      ELSE Cardinality(OnTheWay) + 1
           /\ to \notin {"top", "lock", "cond", "sleep"} =>
                 Cardinality(OnTheWay')
                    = IF w \in OnTheWay THEN Cardinality(OnTheWay) - 1
                      ELSE Cardinality(OnTheWay)
<1>1. IsFiniteSet(OnTheWay) /\ IsFiniteSet(OnTheWay')
    BY PoolAssumption, FS_Subset DEF OnTheWay
<1>2. Cardinality(OnTheWay) \in Nat /\ Cardinality(OnTheWay') \in Nat
    BY <1>1, FS_CardinalityType
<1>3. \A v \in Workers : wpc'[v] = IF v = w THEN to ELSE wpc[v] BY DEF PoolTypeOK
<1>4. CASE to \in {"top", "lock", "cond", "sleep"}
  <2>1. OnTheWay' = OnTheWay \cup {w} BY <1>3, <1>4 DEF OnTheWay
  <2>2. Cardinality(OnTheWay \cup {w})
           = IF w \in OnTheWay THEN Cardinality(OnTheWay) ELSE Cardinality(OnTheWay) + 1
      BY <1>1, FS_AddElement
  <2> QED BY <1>2, <1>4, <2>1, <2>2
<1>5. CASE to \notin {"top", "lock", "cond", "sleep"}
  <2>1. OnTheWay' = OnTheWay \ {w} BY <1>3, <1>5 DEF OnTheWay
  <2>2. Cardinality(OnTheWay \ {w})
           = IF w \in OnTheWay THEN Cardinality(OnTheWay) - 1 ELSE Cardinality(OnTheWay)
      BY <1>1, FS_RemoveElement
  <2> QED BY <1>2, <1>5, <2>1, <2>2
<1> QED BY <1>4, <1>5

\* Every step of the pool keeps its state well-formed.
LEMMA TypeStep ==
    ASSUME PoolInv, [PoolNext]_poolVars
    PROVE  PoolTypeOK' /\ WorkersSane'
<1> USE PoolAssumption
<1>1. PoolTypeOK /\ WorkersSane BY DEF PoolInv, NoSleepOverTasks
<1>2. ASSUME SomeoneAdds PROVE PoolTypeOK' /\ WorkersSane'
  <2>1. /\ mutex = "free" /\ added < MaxTasks /\ added' = added + 1
        /\ taskQueue' = Append(taskQueue, added + 1)
        /\ UNCHANGED <<done, stop, mutex, task, spc, missed>>
      BY <1>2 DEF SomeoneAdds, AddTask, Push
  <2>2. added + 1 \in 1..MaxTasks BY <1>1, <2>1 DEF PoolTypeOK
  <2>3. taskQueue' \in Seq(1..MaxTasks) BY <1>1, <2>1, <2>2 DEF PoolTypeOK
  <2>4. \/ wpc' = wpc
        \/ \E w \in Workers : wpc' = [wpc EXCEPT ![w] = "lock"]
      BY <1>2 DEF SomeoneAdds, AddTask, NotifyOne, Asleep
  <2>5. /\ wpc' \in [Workers -> {"top", "lock", "cond", "sleep", "asleep", "run", "ended"}]
        /\ \A w \in Workers : wpc'[w] = wpc[w] \/ wpc'[w] = "lock"
      BY <1>1, <2>4 DEF PoolTypeOK
  <2>6. PoolTypeOK' BY <1>1, <2>1, <2>2, <2>3, <2>5 DEF PoolTypeOK
  <2>7. \A w \in Workers : wpc[w] \notin {"cond", "sleep"}
      BY <1>1, <2>1 DEF WorkersSane
  <2>8. WorkersSane' BY <1>1, <2>1, <2>5, <2>7 DEF WorkersSane
  <2> QED BY <2>6, <2>8
<1>3. ASSUME NEW w \in Workers, WorkerStep(w) \/ SpuriousWake(w)
      PROVE  PoolTypeOK' /\ WorkersSane'
  <2> USE DEF PoolTypeOK, WorkersSane, WGoto
  <2>1. CASE Top(w) BY <1>1, <2>1 DEF Top
  <2>2. CASE Lock(w) BY <1>1, <2>2 DEF Lock
  <2>3. CASE CondWait(w) BY <1>1, <2>3 DEF CondWait
  <2>4. CASE Sleep(w) BY <1>1, <2>4 DEF Sleep
  <2>5. CASE Take(w)
    <3>1. Head(taskQueue) \in 1..MaxTasks /\ Tail(taskQueue) \in Seq(1..MaxTasks)
        BY <1>1, <2>5 DEF Take
    <3> QED BY <1>1, <2>5, <3>1 DEF Take
  <2>6. CASE Continue(w) BY <1>1, <2>6 DEF Continue
  <2>7. CASE RunTask(w)
    <3>1. task[w] \in 1..MaxTasks BY <1>1, <2>7 DEF RunTask
    <3>2. done' \in SUBSET (1..MaxTasks) BY <1>1, <2>7, <3>1 DEF RunTask
    <3>3. task' \in [Workers -> 0..MaxTasks] /\ \A v \in Workers \ {w} : task'[v] = task[v]
        BY <1>1, <2>7 DEF RunTask
    <3>4. \A v \in Workers : wpc'[v] = IF v = w THEN "top" ELSE wpc[v]
        BY <1>1, <2>7 DEF RunTask
    <3> QED BY <1>1, <2>7, <3>2, <3>3, <3>4 DEF RunTask
  <2>8. CASE SpuriousWake(w) BY <1>1, <2>8 DEF SpuriousWake
  <2> QED BY <1>3, <2>1, <2>2, <2>3, <2>4, <2>5, <2>6, <2>7, <2>8 DEF WorkerStep
<1>4. ASSUME StopSet \/ StopNotify \/ StopJoin PROVE PoolTypeOK' /\ WorkersSane'
  <2> USE DEF PoolTypeOK, WorkersSane
  <2>1. CASE StopSet BY <1>1, <2>1 DEF StopSet
  <2>2. CASE StopNotify BY <1>1, <2>2 DEF StopNotify, Asleep
  <2>3. CASE StopJoin BY <1>1, <2>3 DEF StopJoin
  <2> QED BY <1>4, <2>1, <2>2, <2>3
<1>5. CASE UNCHANGED poolVars BY <1>1, <1>5 DEF poolVars, PoolTypeOK, WorkersSane
<1> QED BY <1>2, <1>3, <1>4, <1>5 DEF PoolNext

\* addTask notifies one of the sleepers for each task; a worker goes to sleep only
\* over an empty queue, and leaves the way to the queue only with a task.
LEMMA NoSleepStep ==
    ASSUME PoolInv, [PoolNext]_poolVars, PoolTypeOK', Asleep' # {}, ~stop'
    PROVE  Len(taskQueue') <= Cardinality(OnTheWay')
<1> USE PoolAssumption
<1> DEFINE way == {"top", "lock", "cond", "sleep"}
<1>1. PoolTypeOK /\ WorkersSane BY DEF PoolInv, NoSleepOverTasks
<1>2. Asleep # {} /\ ~stop => Len(taskQueue) <= Cardinality(OnTheWay)
    BY DEF PoolInv, NoSleepOverTasks
<1>3. Len(taskQueue) \in Nat BY <1>1 DEF PoolTypeOK
<1>4. ~stop
    BY <1>1 DEF PoolNext, SomeoneAdds, AddTask, WorkerStep, Top, Lock, CondWait, Sleep, Take,
                Continue, RunTask, SpuriousWake, StopSet, StopNotify, StopJoin, poolVars, PoolTypeOK
<1>5. ASSUME SomeoneAdds PROVE Len(taskQueue') <= Cardinality(OnTheWay')
  <2>1. taskQueue' = Append(taskQueue, added + 1) /\ added + 1 \in 1..MaxTasks
      BY <1>1, <1>5 DEF SomeoneAdds, AddTask, Push, PoolTypeOK
  <2>2. Len(taskQueue') = Len(taskQueue) + 1 BY <1>1, <2>1 DEF PoolTypeOK
  <2>3. Asleep # {} BY <1>5 DEF SomeoneAdds, AddTask, NotifyOne, Asleep
  <2>4. PICK w \in Asleep : wpc' = [wpc EXCEPT ![w] = "lock"]
      BY <1>5, <2>3 DEF SomeoneAdds, AddTask, NotifyOne
  <2>5. w \in Workers /\ w \notin OnTheWay BY <2>4 DEF Asleep, OnTheWay
  <2>6. Cardinality(OnTheWay') = Cardinality(OnTheWay) + 1 /\ Cardinality(OnTheWay) \in Nat
      BY <1>1, <2>4, <2>5, OnTheWayChanges
  <2> QED BY <1>2, <1>3, <1>4, <2>2, <2>3, <2>6
<1>6. ASSUME NEW w \in Workers, WorkerStep(w) \/ SpuriousWake(w)
      PROVE  Len(taskQueue') <= Cardinality(OnTheWay')
  <2>1. ASSUME NEW from, NEW to, WGoto(w, from, to), to \in way, UNCHANGED taskQueue
        PROVE  Len(taskQueue') <= Cardinality(OnTheWay')
    <3>1. Asleep # {}
      <4>1. PICK v \in Workers : wpc'[v] = "asleep" BY DEF Asleep
      <4>2. v # w BY <1>1, <2>1, <4>1 DEF WGoto, PoolTypeOK
      <4>3. wpc[v] = "asleep" BY <1>1, <2>1, <4>1, <4>2 DEF WGoto, PoolTypeOK
      <4> QED BY <4>3 DEF Asleep
    <3>2. /\ Cardinality(OnTheWay') >= Cardinality(OnTheWay)
          /\ Cardinality(OnTheWay) \in Nat /\ Cardinality(OnTheWay') \in Nat
      <4>1. wpc' = [wpc EXCEPT ![w] = to] BY <2>1 DEF WGoto
      <4>2. /\ Cardinality(OnTheWay) \in Nat /\ Cardinality(OnTheWay') \in Nat
            /\ Cardinality(OnTheWay')
                 = IF w \in OnTheWay THEN Cardinality(OnTheWay)
                   ELSE Cardinality(OnTheWay) + 1
          BY <1>1, <2>1, <4>1, OnTheWayChanges, Zenon
      <4> QED BY <4>2
    <3> QED BY <1>2, <1>3, <1>4, <2>1, <3>1, <3>2
  <2>2. CASE Sleep(w)
    <3>1. taskQueue' = <<>> BY <1>1, <2>2 DEF Sleep, WGoto, WorkersSane
    <3>2. Cardinality(OnTheWay') \in Nat
      <4>1. wpc' = [wpc EXCEPT ![w] = "asleep"] BY <2>2 DEF Sleep, WGoto
      <4> QED BY <1>1, <4>1, OnTheWayChanges
    <3> QED BY <3>1, <3>2
  <2>3. CASE Take(w)
    <3>1. wpc[w] = "cond" /\ wpc' = [wpc EXCEPT ![w] = "run"] BY <2>3 DEF Take, WGoto
    <3>2. /\ Cardinality(OnTheWay') = Cardinality(OnTheWay) - 1
          /\ Cardinality(OnTheWay) \in Nat
      <4>1. w \in OnTheWay BY <3>1 DEF OnTheWay
      <4>2. "run" \notin {"top", "lock", "cond", "sleep"} OBVIOUS
      <4>3. /\ Cardinality(OnTheWay) \in Nat
            /\ Cardinality(OnTheWay')
                 = IF w \in OnTheWay THEN Cardinality(OnTheWay) - 1
                   ELSE Cardinality(OnTheWay)
          BY <1>1, <3>1, <4>2, OnTheWayChanges, Zenon
      <4> QED BY <4>1, <4>3
    <3>3. Len(taskQueue') = Len(taskQueue) - 1 BY <1>1, <2>3 DEF Take, PoolTypeOK
    <3>4. Asleep # {} BY <1>1, <3>1 DEF Asleep, PoolTypeOK
    <3> QED BY <1>2, <1>3, <1>4, <3>2, <3>3, <3>4
  <2>4. CASE Top(w) BY <1>4, <2>1, <2>4 DEF Top
  <2>5. CASE Lock(w) BY <2>1, <2>5 DEF Lock
  <2>6. CASE CondWait(w) BY <2>1, <2>6 DEF CondWait
  <2>7. CASE Continue(w) BY <2>1, <2>7 DEF Continue
  <2>8. CASE RunTask(w) BY <2>1, <2>8 DEF RunTask
  <2>9. CASE SpuriousWake(w) BY <2>1, <2>9 DEF SpuriousWake
  <2> QED BY <1>6, <2>2, <2>3, <2>4, <2>5, <2>6, <2>7, <2>8, <2>9 DEF WorkerStep
<1>7. CASE StopSet \/ StopNotify \/ StopJoin
  <2>1. UNCHANGED taskQueue BY <1>7 DEF StopSet, StopNotify, StopJoin
  <2>2. ~StopSet BY DEF StopSet
  <2>3. CASE StopNotify
    <3>1. Asleep' = {} BY <1>1, <2>3 DEF StopNotify, Asleep, PoolTypeOK
    <3> QED BY <3>1
  <2>4. CASE StopJoin
      BY <1>2, <1>4, <2>4 DEF StopJoin, Asleep, OnTheWay
  <2> QED BY <1>7, <2>2, <2>3, <2>4
<1>8. CASE UNCHANGED poolVars BY <1>2, <1>4, <1>8 DEF poolVars, Asleep, OnTheWay
<1> QED BY <1>5, <1>6, <1>7, <1>8 DEF PoolNext

\* The inductive invariant holds for any number of workers and tasks.
THEOREM PoolInvariance == PoolSpec => []PoolInv
<1>1. PoolInit => PoolInv
  <2> SUFFICES ASSUME PoolInit PROVE PoolInv OBVIOUS
  <2>1. PoolTypeOK
    <3>1. taskQueue \in Seq(1..MaxTasks) /\ task \in [Workers -> 0..MaxTasks]
        BY PoolAssumption DEF PoolInit
    <3>2. added \in 0..MaxTasks BY PoolAssumption DEF PoolInit
    <3> QED BY <3>1, <3>2 DEF PoolInit, PoolTypeOK
  <2>2. Asleep = {} BY DEF PoolInit, Asleep
  <2>3. WorkersSane BY DEF PoolInit, WorkersSane
  <2> QED BY <2>1, <2>2, <2>3 DEF PoolInv, NoSleepOverTasks
<1>2. PoolInv /\ [PoolNext]_poolVars => PoolInv'
    BY TypeStep, NoSleepStep DEF PoolInv, NoSleepOverTasks
<1> QED BY <1>1, <1>2, PTL DEF PoolSpec

\* However many workers, callers and tasks there are, no worker sleeps while there
\* are more tasks than awake workers that have yet to look into the queue
\* (addTask, ThreadPool.cpp:18-30, against the wait in func, lines 36-49).
THEOREM OneNotifyIsEnough == PoolSpec => []NoSleepOverTasks
<1>1. PoolInv => NoSleepOverTasks BY DEF PoolInv
<1> QED BY <1>1, PoolInvariance, PTL

-----------------------------------------------------------------------------
(* MsgBuffer: what a buffer holds *)

BufType == [head : Nat, tail : Nat, init : Nat, mem : Seq(Bytes)]

Sound(b) ==
    /\ b \in BufType
    /\ Len(b.mem) = b.init + kBufferOffset
    /\ b.head <= b.tail /\ b.tail <= Len(b.mem)

\* b is a sound buffer that holds the string s.
Holds(b, s) == Sound(b) /\ Readable(b) = s

\* What taking bytes leaves: the rest, or a short buffer that was cut.
Leaves(b, s) == Holds(b, s) \/ (b \in BufType /\ CutShort(b) /\ s = <<>>)

LEMMA ReadableIs ==
  ASSUME NEW b, Sound(b)
  PROVE  /\ Readable(b) \in Seq(Bytes)
         /\ Len(Readable(b)) = b.tail - b.head
         /\ \A i \in 1..(b.tail - b.head) : Readable(b)[i] = b.mem[b.head + i]
<1> DEFINE m == b.head + 1
           n == b.head + (b.tail - b.head)
<1>1. /\ b.head \in Nat /\ b.tail \in Nat /\ b.mem \in Seq(Bytes) /\ Len(b.mem) \in Nat
      /\ b.head <= b.tail /\ b.tail <= Len(b.mem)
  BY LenProperties DEF Sound, BufType
<1>2. m \in Int /\ n \in Int /\ n = b.tail
  BY <1>1
<1>3. \A i \in m..n : b.mem[i] \in Bytes
  BY <1>1, <1>2, ElementOfSeq
<1>4. Readable(b) = SubSeq(b.mem, m, n)
  BY DEF Readable, Peek, ReadableBytes
<1> HIDE DEF m, n
<1>5. /\ SubSeq(b.mem, m, n) \in Seq(Bytes)
      /\ Len(SubSeq(b.mem, m, n)) = IF m <= n THEN n - m + 1 ELSE 0
      /\ \A i \in 1..(n - m + 1) : SubSeq(b.mem, m, n)[i] = b.mem[m + i - 1]
  BY <1>2, <1>3, SubSeqProperties
<1>6. m = b.head + 1 /\ n = b.tail
  BY <1>2 DEF m
<1>7. \A i \in 1..(b.tail - b.head) : i \in 1..(n - m + 1) /\ m + i - 1 = b.head + i
  BY <1>1, <1>6
<1>8. n - m + 1 = b.tail - b.head /\ (m <= n \/ b.tail - b.head = 0)
  BY <1>1, <1>6
<1> QED
  BY <1>4, <1>5, <1>7, <1>8

\* A buffer holds s when its readable bytes are those of s one by one.
LEMMA HoldsWhen ==
  ASSUME NEW b, Sound(b), NEW s \in Seq(Bytes), Len(s) = b.tail - b.head,
         \A i \in 1..Len(s) : b.mem[b.head + i] = s[i]
  PROVE  Holds(b, s)
<1>1. Readable(b) = s
  BY ReadableIs, SeqEqual
<1> QED
  BY <1>1 DEF Holds

LEMMA CopyIs ==
  ASSUME NEW b \in BufType, NEW pos \in Nat, NEW d \in Seq(Bytes)
  PROVE  /\ Copy(b, pos, d) \in BufType
         /\ Copy(b, pos, d).head = b.head /\ Copy(b, pos, d).tail = b.tail
         /\ Copy(b, pos, d).init = b.init
         /\ Len(Copy(b, pos, d).mem) = Len(b.mem)
         /\ \A i \in 1..Len(b.mem) :
               Copy(b, pos, d).mem[i] =
                  IF pos < i /\ i <= pos + Len(d) THEN d[i - pos] ELSE b.mem[i]
<1> DEFINE m == [i \in 1..Len(b.mem) |-> IF pos < i /\ i <= pos + Len(d)
                                         THEN d[i - pos] ELSE b.mem[i]]
<1>1. Copy(b, pos, d) = [b EXCEPT !.mem = m]
  BY DEF Copy
<1>2. b.mem \in Seq(Bytes) /\ Len(b.mem) \in Nat /\ Len(d) \in Nat
  BY LenProperties DEF BufType
<1>3. \A i \in 1..Len(b.mem) : m[i] \in Bytes
  <2> SUFFICES ASSUME NEW i \in 1..Len(b.mem) PROVE m[i] \in Bytes
    OBVIOUS
  <2>1. CASE pos < i /\ i <= pos + Len(d)
    <3>1. i - pos \in 1..Len(d)
      BY <1>2, <2>1
    <3> QED
      BY <2>1, <3>1, ElementOfSeq
  <2>2. CASE ~(pos < i /\ i <= pos + Len(d))
    BY <1>2, <2>2, ElementOfSeq
  <2> QED
    BY <2>1, <2>2
<1>4. m \in Seq(Bytes) /\ Len(m) = Len(b.mem)
  <2>1. m \in [1..Len(b.mem) -> Bytes]
    BY <1>3
  <2> QED
    BY <1>2, <2>1, SeqDef
<1> HIDE DEF m
<1>5. [b EXCEPT !.mem = m] = [head |-> b.head, tail |-> b.tail, init |-> b.init, mem |-> m]
  BY DEF BufType
<1>6. /\ b.head \in Nat /\ b.tail \in Nat /\ b.init \in Nat
      /\ \A i \in 1..Len(b.mem) :
            m[i] = IF pos < i /\ i <= pos + Len(d) THEN d[i - pos] ELSE b.mem[i]
  BY DEF BufType, m
<1>7. Copy(b, pos, d).mem = m
  BY <1>1, <1>5
<1> QED
  BY <1>1, <1>4, <1>5, <1>6, <1>7 DEF BufType

\* A buffer that is just made.
LEMMA NewIs ==
  ASSUME NEW len \in Nat
  PROVE  /\ Holds(New(len), <<>>)
         /\ New(len).head = kBufferOffset /\ New(len).tail = kBufferOffset
         /\ Len(New(len).mem) = len + kBufferOffset
<1> DEFINE m == [i \in 1..(len + kBufferOffset) |-> 0]
<1>1. kBufferOffset \in Nat /\ 0 \in Bytes
  BY BufferAssumption DEF Bytes
<1>2. m \in Seq(Bytes) /\ Len(m) = len + kBufferOffset
  <2>1. m \in [1..(len + kBufferOffset) -> Bytes]
    BY <1>1
  <2> QED
    BY <1>1, <2>1, SeqDef
<1> HIDE DEF m
<1>3. New(len) = [head |-> kBufferOffset, tail |-> kBufferOffset, init |-> len, mem |-> m]
  BY DEF New, m
<1>4. Sound(New(len))
  BY <1>1, <1>2, <1>3 DEF Sound, BufType
<1>5. <<>> \in Seq(Bytes) /\ Len(<<>>) = 0
  BY EmptySeq
<1>6. Holds(New(len), <<>>)
  <2>1. New(len).tail - New(len).head = 0
    BY <1>1, <1>3
  <2>2. \A i \in 1..Len(<<>>) : FALSE
    BY <1>5
  <2> QED
    BY <1>4, <1>5, <2>1, <2>2, HoldsWhen
<1> QED
  BY <1>2, <1>3, <1>6

\* Bytes copied behind the readable ones are appended to them.
LEMMA CopyBackIs ==
  ASSUME NEW b, NEW s, Holds(b, s), NEW d \in Seq(Bytes), Len(d) <= WritableBytes(b)
  PROVE  /\ Holds(CopyBack(b, d), s \o d)
         /\ CopyBack(b, d).head = b.head
         /\ CopyBack(b, d).tail = b.tail + Len(d)
         /\ CopyBack(b, d).init = b.init
         /\ Len(CopyBack(b, d).mem) = Len(b.mem)
<1> DEFINE c == Copy(b, b.tail, d)
           e == CopyBack(b, d)
<1>1. /\ Sound(b) /\ b \in BufType /\ b.head \in Nat /\ b.tail \in Nat /\ b.init \in Nat
      /\ Len(b.mem) \in Nat /\ Len(d) \in Nat
      /\ b.head <= b.tail /\ b.tail + Len(d) <= Len(b.mem)
  BY LenProperties DEF Holds, Sound, BufType, WritableBytes
<1>2. /\ c \in BufType /\ c.head = b.head /\ c.tail = b.tail /\ c.init = b.init
      /\ Len(c.mem) = Len(b.mem)
      /\ \A i \in 1..Len(b.mem) :
            c.mem[i] = IF b.tail < i /\ i <= b.tail + Len(d) THEN d[i - b.tail] ELSE b.mem[i]
  <2>1. b \in BufType /\ b.tail \in Nat /\ b.tail + Len(d) <= Len(b.mem)
    BY <1>1
  <2> QED
    BY <2>1, CopyIs
<1>3. e = [c EXCEPT !.tail = @ + Len(d)]
  BY DEF CopyBack
<1> HIDE DEF c, e
<1>4. /\ e \in BufType /\ e.head = b.head /\ e.tail = b.tail + Len(d)
      /\ e.init = b.init /\ e.mem = c.mem
  <2>1. b.tail + Len(d) \in Nat
    BY <1>1
  <2>2. e = [head |-> c.head, tail |-> b.tail + Len(d), init |-> c.init, mem |-> c.mem]
    BY <1>2, <1>3 DEF BufType
  <2> QED
    BY <1>2, <2>1, <2>2 DEF BufType
<1>5. Sound(e)
  BY <1>1, <1>2, <1>4 DEF Sound
<1>6. /\ s \in Seq(Bytes) /\ Len(s) = b.tail - b.head
      /\ \A i \in 1..Len(s) : s[i] = b.mem[b.head + i]
  BY <1>1, ReadableIs DEF Holds
<1>7. /\ s \o d \in Seq(Bytes) /\ Len(s \o d) = Len(s) + Len(d)
      /\ \A i \in 1..(Len(s) + Len(d)) :
            (s \o d)[i] = IF i <= Len(s) THEN s[i] ELSE d[i - Len(s)]
  BY <1>6, ConcatProperties
<1>8. ASSUME NEW i \in 1..Len(s \o d) PROVE e.mem[e.head + i] = (s \o d)[i]
  <2>0. Len(s) \in Nat /\ Len(s) = b.tail - b.head /\ i \in 1..(Len(s) + Len(d))
    BY <1>6, <1>7, LenProperties
  <2>1. i \in 1..(Len(s) + Len(d)) /\ b.head + i \in 1..Len(b.mem)
    <3> DEFINE h == b.head
               t == b.tail
               m == Len(b.mem)
               k == Len(d)
               l == Len(s)
    <3>1. /\ h \in Nat /\ t \in Nat /\ m \in Nat /\ k \in Nat /\ l \in Nat
          /\ l = t - h /\ t + k <= m /\ i \in 1..(l + k)
      BY <1>1, <2>0
    <3> HIDE DEF h, t, m, k, l
    <3>2. h + i \in 1..m
      BY <3>1
    <3> QED
      BY <2>0, <3>2 DEF h, m
  <2>2. CASE i <= Len(s)
    <3>1. ~(b.tail < b.head + i)
      BY <1>1, <1>6, <2>1, <2>2
    <3>2. i \in 1..Len(s)
      BY <1>6, <2>1, <2>2
    <3> QED
      BY <1>2, <1>4, <1>6, <1>7, <2>1, <2>2, <3>1, <3>2
  <2>3. CASE ~(i <= Len(s))
    <3>1. b.tail < b.head + i /\ b.head + i <= b.tail + Len(d)
      BY <1>1, <2>0, <2>3
    <3> DEFINE j == b.head + i
    <3>2. e.mem[j] = d[j - b.tail]
      <4>1. j \in 1..Len(b.mem) /\ b.tail < j /\ j <= b.tail + Len(d)
        BY <2>1, <3>1
      <4> HIDE DEF j
      <4> QED
        BY <1>2, <1>4, <4>1
    <3>3. (s \o d)[i] = d[i - Len(s)]
      BY <1>7, <2>1, <2>3
    <3>4. j - b.tail = i - Len(s) /\ e.head + i = j
      BY <1>1, <1>4, <1>6, <2>1
    <3> HIDE DEF j
    <3> QED
      BY <3>2, <3>3, <3>4
  <2> QED
    BY <2>2, <2>3
<1>9. Len(s \o d) = e.tail - e.head
  BY <1>1, <1>4, <1>6, <1>7
<1>10. Holds(e, s \o d)
  BY <1>5, <1>7, <1>8, <1>9, HoldsWhen
<1> QED
  BY <1>2, <1>4, <1>10 DEF e

\* Moving the bytes to the front of the vector keeps them.
LEMMA MoveIs ==
  ASSUME NEW b, NEW s, Holds(b, s), kBufferOffset + (b.tail - b.head) <= Len(b.mem)
  PROVE  /\ Holds(MoveBytes(b), s)
         /\ MoveBytes(b).head = kBufferOffset
         /\ MoveBytes(b).tail = kBufferOffset + (b.tail - b.head)
         /\ Len(MoveBytes(b).mem) = Len(b.mem)
<1> DEFINE c == Copy(b, kBufferOffset, s)
           e == MoveBytes(b)
<1>1. /\ Sound(b) /\ b \in BufType /\ b.head \in Nat /\ b.tail \in Nat /\ b.init \in Nat
      /\ Len(b.mem) \in Nat /\ kBufferOffset \in Nat
      /\ b.head <= b.tail /\ b.tail <= Len(b.mem)
  BY LenProperties, BufferAssumption DEF Holds, Sound, BufType
<1>2. s \in Seq(Bytes) /\ Len(s) = b.tail - b.head /\ Readable(b) = s
  BY <1>1, ReadableIs DEF Holds
<1>3. /\ c \in BufType /\ c.head = b.head /\ c.tail = b.tail /\ c.init = b.init
      /\ Len(c.mem) = Len(b.mem)
      /\ \A i \in 1..Len(b.mem) :
            c.mem[i] = IF kBufferOffset < i /\ i <= kBufferOffset + Len(s)
                       THEN s[i - kBufferOffset] ELSE b.mem[i]
  <2>1. b \in BufType /\ kBufferOffset \in Nat
    BY <1>1
  <2>2. s \in Seq(Bytes) /\ kBufferOffset + Len(s) <= Len(b.mem)
    BY <1>2
  <2> QED
    BY <2>1, <2>2, CopyIs
<1>4. e = [c EXCEPT !.tail = kBufferOffset + (b.tail - b.head), !.head = kBufferOffset]
  BY <1>2 DEF MoveBytes, ReadableBytes
<1> HIDE DEF c, e
<1>5. /\ e \in BufType /\ e.head = kBufferOffset /\ e.tail = kBufferOffset + (b.tail - b.head)
      /\ e.init = b.init /\ e.mem = c.mem
  <2>1. kBufferOffset + (b.tail - b.head) \in Nat
    BY <1>1
  <2>2. e = [head |-> kBufferOffset, tail |-> kBufferOffset + (b.tail - b.head),
             init |-> c.init, mem |-> c.mem]
    BY <1>3, <1>4 DEF BufType
  <2> QED
    BY <1>1, <1>3, <2>1, <2>2 DEF BufType
<1>6. Sound(e)
  BY <1>1, <1>3, <1>5 DEF Sound
<1>7. ASSUME NEW i \in 1..Len(s) PROVE e.mem[e.head + i] = s[i]
  <2>1. /\ kBufferOffset + i \in 1..Len(b.mem)
        /\ kBufferOffset < kBufferOffset + i /\ kBufferOffset + i <= kBufferOffset + Len(s)
        /\ (kBufferOffset + i) - kBufferOffset = i
    BY <1>1, <1>2
  <2> QED
    BY <1>3, <1>5, <2>1
<1>8. Len(s) = e.tail - e.head
  BY <1>1, <1>2, <1>5
<1>9. Holds(e, s)
  BY <1>2, <1>6, <1>7, <1>8, HoldsWhen
<1> QED
  BY <1>3, <1>5, <1>9 DEF e

\* A larger buffer takes the bytes over, and has the room that was asked for.
LEMMA GrowIs ==
  ASSUME NEW b, NEW s, Holds(b, s), NEW len \in Nat
  PROVE  Holds(Grow(b, len), s) /\ len <= WritableBytes(Grow(b, len))
<1> DEFINE need == kBufferOffset + (b.tail - b.head) + len
           twice == 2 * Len(b.mem)
           size == IF twice > need THEN twice ELSE need
           n == New(size)
           e == CopyBack(n, s)
<1>1. /\ Sound(b) /\ b.head \in Nat /\ b.tail \in Nat
      /\ Len(b.mem) \in Nat /\ kBufferOffset \in Nat
      /\ b.head <= b.tail /\ b.tail <= Len(b.mem)
  BY LenProperties, BufferAssumption DEF Holds, Sound, BufType
<1>2. s \in Seq(Bytes) /\ Len(s) = b.tail - b.head /\ Readable(b) = s
  BY <1>1, ReadableIs DEF Holds
<1>3. size \in Nat /\ need <= size
  BY <1>1
<1>4. e = Grow(b, len)
  BY <1>2 DEF Grow, ReadableBytes
<1>5. need = kBufferOffset + (b.tail - b.head) + len
  OBVIOUS
<1> HIDE DEF size, need
<1>6. /\ Holds(n, <<>>) /\ n.tail = kBufferOffset /\ Len(n.mem) = size + kBufferOffset
  BY <1>3, NewIs
<1> HIDE DEF n
<1>7. Len(s) <= WritableBytes(n)
  BY <1>1, <1>2, <1>3, <1>5, <1>6 DEF WritableBytes
<1>8. Holds(e, <<>> \o s) /\ e.tail = n.tail + Len(s) /\ Len(e.mem) = Len(n.mem)
  BY <1>2, <1>6, <1>7, CopyBackIs
<1>9. <<>> \o s = s
  BY <1>2, ConcatEmptySeq
<1>10. len <= WritableBytes(e)
  BY <1>1, <1>2, <1>3, <1>5, <1>6, <1>8 DEF WritableBytes
<1> QED
  BY <1>4, <1>8, <1>9, <1>10

LEMMA EnsureIs ==
  ASSUME NEW b, NEW s, Holds(b, s), NEW len \in Nat
  PROVE  /\ Holds(EnsureWritableBytes(b, len), s)
         /\ len <= WritableBytes(EnsureWritableBytes(b, len))
<1> DEFINE w == WritableBytes(b)
<1>1. /\ b.head \in Nat /\ b.tail \in Nat /\ Len(b.mem) \in Nat /\ kBufferOffset \in Nat
      /\ b.head <= b.tail /\ b.tail <= Len(b.mem) /\ w = Len(b.mem) - b.tail
  BY LenProperties, BufferAssumption DEF Holds, Sound, BufType, WritableBytes
<1> HIDE DEF w
<1>2. CASE w >= len
  <2>1. EnsureWritableBytes(b, len) = b
    BY <1>1, <1>2 DEF EnsureWritableBytes, w
  <2> QED
    BY <1>1, <1>2, <2>1 DEF w
<1>3. CASE w < len /\ b.head + w >= len + kBufferOffset
  <2>1. EnsureWritableBytes(b, len) = MoveBytes(b)
    BY <1>1, <1>3 DEF EnsureWritableBytes, w
  <2>2. kBufferOffset + (b.tail - b.head) <= Len(b.mem)
    BY <1>1, <1>3
  <2>3. /\ Holds(MoveBytes(b), s) /\ MoveBytes(b).tail = kBufferOffset + (b.tail - b.head)
        /\ Len(MoveBytes(b).mem) = Len(b.mem)
    BY <2>2, MoveIs
  <2> QED
    BY <1>1, <1>3, <2>1, <2>3 DEF WritableBytes
<1>4. CASE w < len /\ ~(b.head + w >= len + kBufferOffset)
  <2>1. EnsureWritableBytes(b, len) = Grow(b, len)
    BY <1>1, <1>4 DEF EnsureWritableBytes, w
  <2> QED
    BY <2>1, GrowIs
<1> QED
  BY <1>1, <1>2, <1>3, <1>4

LEMMA AppendIs ==
  ASSUME NEW b, NEW s, Holds(b, s), NEW d \in Seq(Bytes)
  PROVE  Holds(AppendTo(b, d), s \o d)
<1>1. Len(d) \in Nat
  BY LenProperties
<1> QED
  BY <1>1, EnsureIs, CopyBackIs DEF AppendTo
\* addInFront puts the bytes before the readable ones in each of its three ways.
LEMMA AddInFrontIs ==
  ASSUME NEW b, NEW s, Holds(b, s), NEW d \in Seq(Bytes)
  PROVE  Holds(AddInFrontOf(b, d), d \o s)
<1> DEFINE n == Len(d)
           e == AddInFrontOf(b, d)
           all == n + (b.tail - b.head)
<1>1. /\ Sound(b) /\ b \in BufType /\ b.head \in Nat /\ b.tail \in Nat /\ b.init \in Nat
      /\ Len(b.mem) \in Nat /\ n \in Nat /\ kBufferOffset \in Nat
      /\ b.head <= b.tail /\ b.tail <= Len(b.mem)
  BY LenProperties, BufferAssumption DEF Holds, Sound, BufType
<1>2. /\ s \in Seq(Bytes) /\ Len(s) = b.tail - b.head /\ Readable(b) = s
      /\ \A i \in 1..Len(s) : s[i] = b.mem[b.head + i]
  BY <1>1, ReadableIs DEF Holds
<1>3. /\ d \o s \in Seq(Bytes) /\ Len(d \o s) = n + Len(s)
      /\ \A i \in 1..(n + Len(s)) :
            (d \o s)[i] = IF i <= n THEN d[i] ELSE s[i - n]
  BY <1>2, ConcatProperties
<1>4. CASE b.head >= n
  <2> DEFINE pos == b.head - n
             c == Copy(b, pos, d)
  <2>1. pos \in Nat /\ pos + n = b.head
    BY <1>1, <1>4
  <2>2. e = [c EXCEPT !.head = @ - n]
    <3>1. ~(b.head < n)
      BY <1>1, <1>4
    <3> QED
      BY <1>4, <3>1 DEF AddInFrontOf
  <2> HIDE DEF pos
  <2>3. /\ c \in BufType /\ c.head = b.head /\ c.tail = b.tail /\ c.init = b.init
        /\ Len(c.mem) = Len(b.mem)
        /\ \A i \in 1..Len(b.mem) :
              c.mem[i] = IF pos < i /\ i <= pos + n THEN d[i - pos] ELSE b.mem[i]
    <3>1. b \in BufType /\ pos \in Nat /\ pos + Len(d) <= Len(b.mem)
      BY <1>1, <2>1
    <3> QED
      BY <3>1, CopyIs
  <2> HIDE DEF c, e
  <2>4. e = [head |-> b.head - n, tail |-> c.tail, init |-> c.init, mem |-> c.mem]
    BY <2>2, <2>3 DEF BufType
  <2>5. /\ e \in BufType /\ e.head = pos /\ e.tail = b.tail /\ e.init = b.init /\ e.mem = c.mem
    BY <2>1, <2>3, <2>4 DEF BufType, pos
  <2>6. Sound(e)
    BY <1>1, <2>1, <2>3, <2>5 DEF Sound
  <2>7. ASSUME NEW i \in 1..Len(d \o s) PROVE e.mem[e.head + i] = (d \o s)[i]
    <3> DEFINE j == pos + i
    <3>0. i \in 1..(n + Len(s))
      BY <1>3
    <3> HIDE DEF n
    <3>1. i \in 1..(n + Len(s)) /\ j \in 1..Len(b.mem) /\ pos < j /\ j - pos = i
      <4> DEFINE h == b.head
                 t == b.tail
                 m == Len(b.mem)
                 l == Len(s)
      <4>1. /\ h \in Nat /\ t \in Nat /\ m \in Nat /\ n \in Nat /\ l = t - h /\ h <= t
            /\ t <= m /\ pos \in Nat /\ pos + n = h /\ i \in 1..(n + l) /\ j = pos + i
        BY <1>1, <1>2, <2>1, <3>0
      <4> HIDE DEF h, t, m, l, j
      <4>2. j \in 1..m /\ pos < j /\ j - pos = i
        BY <4>1
      <4> QED
        BY <3>0, <4>2 DEF m
    <3>2. CASE i <= n
      <4>1. j <= pos + n
        BY <1>1, <2>1, <3>1, <3>2
      <4> HIDE DEF j
      <4>2. c.mem[j] = d[j - pos]
        BY <2>3, <3>1, <4>1
      <4> QED
        BY <1>3, <2>5, <3>1, <3>2, <4>2 DEF j
    <3>3. CASE ~(i <= n)
      <4>1. ~(j <= pos + n) /\ i - n \in 1..Len(s) /\ b.head + (i - n) = j
        <5> DEFINE h == b.head
                   l == Len(s)
        <5>1. /\ n \in Nat /\ l \in Nat /\ pos \in Nat /\ pos + n = h /\ i \in 1..(n + l)
              /\ j = pos + i /\ ~(i <= n)
          BY <1>1, <1>2, <2>1, <3>0, <3>3, LenProperties
        <5> HIDE DEF h, l, j
        <5>2. ~(j <= pos + n) /\ i - n \in 1..l /\ h + (i - n) = j
          BY <5>1
        <5> QED
          BY <5>2 DEF h, l
      <4> HIDE DEF j
      <4>2. c.mem[j] = b.mem[j]
        BY <2>3, <3>1, <4>1
      <4>3. s[i - n] = b.mem[j]
        BY <1>2, <4>1
      <4>4. (d \o s)[i] = s[i - n]
        BY <1>3, <3>1, <3>3
      <4> QED
        BY <2>5, <4>2, <4>3, <4>4 DEF j
    <3> QED
      BY <3>2, <3>3
  <2>8. Len(d \o s) = e.tail - e.head
    BY <1>1, <1>2, <1>3, <2>1, <2>5
  <2> QED
    BY <1>3, <2>6, <2>7, <2>8, HoldsWhen DEF e
<1>5. CASE b.head < n /\ n <= WritableBytes(b)
  <2> DEFINE pos == b.head + n
             c == Copy(b, pos, s)
             c2 == Copy(c, b.head, d)
  <2>1. pos \in Nat /\ pos = b.head + n /\ b.tail + n <= Len(b.mem) /\ ~(b.head >= n)
    BY <1>1, <1>5 DEF WritableBytes
  <2>2. e = [c2 EXCEPT !.tail = @ + n]
    BY <1>2, <1>5, <2>1 DEF AddInFrontOf
  <2> HIDE DEF pos
  <2>3. /\ c \in BufType /\ c.head = b.head /\ c.tail = b.tail /\ c.init = b.init
        /\ Len(c.mem) = Len(b.mem)
        /\ \A i \in 1..Len(b.mem) :
              c.mem[i] = IF pos < i /\ i <= pos + Len(s) THEN s[i - pos] ELSE b.mem[i]
    <3>1. b \in BufType /\ pos \in Nat /\ s \in Seq(Bytes)
      BY <1>1, <1>2, <2>1
    <3> QED
      BY <3>1, CopyIs
  <2> HIDE DEF c
  <2>4. /\ c2 \in BufType /\ c2.head = b.head /\ c2.tail = b.tail /\ c2.init = b.init
        /\ Len(c2.mem) = Len(b.mem)
        /\ \A i \in 1..Len(b.mem) :
              c2.mem[i] = IF b.head < i /\ i <= b.head + n THEN d[i - b.head] ELSE c.mem[i]
    <3>1. c \in BufType /\ b.head \in Nat
      BY <1>1, <2>3
    <3>2. /\ c2 \in BufType /\ c2.head = c.head /\ c2.tail = c.tail /\ c2.init = c.init
          /\ Len(c2.mem) = Len(c.mem)
          /\ \A i \in 1..Len(c.mem) :
                c2.mem[i] = IF b.head < i /\ i <= b.head + n THEN d[i - b.head] ELSE c.mem[i]
      BY <3>1, CopyIs
    <3> QED
      BY <2>3, <3>2
  <2> HIDE DEF c2, e
  <2>5. /\ e \in BufType /\ e.head = b.head /\ e.tail = b.tail + n
        /\ e.init = b.init /\ e.mem = c2.mem
    <3>1. b.tail + n \in Nat
      BY <1>1
    <3>2. e = [head |-> c2.head, tail |-> b.tail + n, init |-> c2.init, mem |-> c2.mem]
      BY <2>2, <2>4 DEF BufType
    <3> QED
      BY <2>4, <3>1, <3>2 DEF BufType
  <2>6. Sound(e)
    BY <1>1, <2>1, <2>4, <2>5 DEF Sound
  <2> HIDE DEF n
  <2>room. /\ b.head \in Nat /\ b.tail \in Nat /\ n \in Nat /\ Len(b.mem) \in Nat
         /\ b.head <= b.tail /\ Len(s) = b.tail - b.head /\ b.tail + n <= Len(b.mem)
    BY <1>1, <1>2, <2>1
  <2>places. \A k \in 1..(n + Len(s)) :
           /\ b.head + k \in 1..Len(b.mem) /\ b.head < b.head + k /\ (b.head + k) - b.head = k
           /\ k > n => /\ ~(b.head + k <= b.head + n) /\ b.head + n < b.head + k
                       /\ b.head + k <= (b.head + n) + Len(s)
                       /\ (b.head + k) - (b.head + n) = k - n
    <3> DEFINE h == b.head
               t == b.tail
               m == Len(b.mem)
               l == Len(s)
    <3>1. h \in Nat /\ t \in Nat /\ n \in Nat /\ m \in Nat /\ h <= t /\ l = t - h /\ t + n <= m
      BY <2>room
    <3> HIDE DEF h, t, m, l
    <3>2. \A k \in 1..(n + l) :
           /\ h + k \in 1..m /\ h < h + k /\ (h + k) - h = k
           /\ k > n => /\ ~(h + k <= h + n) /\ h + n < h + k
                       /\ h + k <= (h + n) + l /\ (h + k) - (h + n) = k - n
      BY <3>1
    <3> QED
      BY <3>2 DEF h, t, m, l
  <2>7. ASSUME NEW i \in 1..Len(d \o s) PROVE e.mem[e.head + i] = (d \o s)[i]
    <3> DEFINE j == b.head + i
    <3>0. i \in 1..(n + Len(s))
      BY <1>3
    <3> HIDE DEF n
    <3>1. i \in 1..(n + Len(s)) /\ j \in 1..Len(b.mem) /\ b.head < j /\ j - b.head = i
      <4>1. Len(s) = b.tail - b.head /\ Len(s) \in Nat
        BY <1>1, <1>2
      <4> QED
        BY <1>1, <2>1, <3>0, <4>1, <2>places
    <3>2. CASE i <= n
      <4>1. j <= b.head + n
        BY <1>1, <3>1, <3>2
      <4> HIDE DEF j
      <4>2. c2.mem[j] = d[j - b.head]
        BY <2>4, <3>1, <4>1
      <4> QED
        BY <1>3, <2>5, <3>1, <3>2, <4>2 DEF j
    <3>3. CASE ~(i <= n)
      <4>1. ~(j <= b.head + n) /\ pos < j /\ j <= pos + Len(s) /\ j - pos = i - n
        <5>1. Len(s) = b.tail - b.head /\ Len(s) \in Nat /\ i > n
          BY <1>1, <1>2, <3>0, <3>3
        <5> QED
          BY <1>1, <2>1, <3>0, <5>1, <2>places
      <4> HIDE DEF j
      <4>2. c2.mem[j] = c.mem[j]
        BY <2>4, <3>1, <4>1
      <4>3. c.mem[j] = s[j - pos]
        BY <2>3, <3>1, <4>1
      <4>4. (d \o s)[i] = s[i - n]
        BY <1>3, <3>1, <3>3
      <4> QED
        BY <2>5, <4>1, <4>2, <4>3, <4>4 DEF j
    <3> QED
      BY <3>2, <3>3
  <2>8. Len(d \o s) = e.tail - e.head
    BY <1>1, <1>2, <1>3, <2>5
  <2> QED
    BY <1>3, <2>6, <2>7, <2>8, HoldsWhen DEF e
<1>6. CASE b.head < n /\ ~(n <= WritableBytes(b))
  <2> DEFINE size == IF all < b.init THEN b.init ELSE all
  <2>1. size \in Nat /\ ~(b.head >= n)
    BY <1>1, <1>6
  <2>2. e = AppendTo(AppendTo(New(size), d), s)
    BY <1>2, <1>6, <2>1 DEF AddInFrontOf, ReadableBytes
  <2> HIDE DEF size
  <2>3. Holds(New(size), <<>>)
    BY <2>1, NewIs
  <2>4. Holds(AppendTo(New(size), d), <<>> \o d)
    BY <2>3, AppendIs
  <2>5. <<>> \o d = d
    BY ConcatEmptySeq
  <2> QED
    BY <1>2, <2>2, <2>4, <2>5, AppendIs
<1> QED
  BY <1>1, <1>4, <1>5, <1>6
\* resize() of retrieveAll leaves room for both indices unless the buffer was made
\* with fewer bytes than are kept free in front.
LEMMA RetrieveAllIs ==
  ASSUME NEW b, Sound(b)
  PROVE  Leaves(RetrieveAll(b), <<>>)
<1> DEFINE e == RetrieveAll(b)
           cut == Len(b.mem) > 2 * b.init
           m == IF cut THEN SubSeq(b.mem, 1, b.init) ELSE b.mem
<1>1. /\ b \in BufType /\ b.init \in Nat /\ b.mem \in Seq(Bytes) /\ Len(b.mem) \in Nat
      /\ kBufferOffset \in Nat /\ Len(b.mem) = b.init + kBufferOffset
  BY LenProperties, BufferAssumption DEF Sound, BufType
<1>2. cut <=> b.init < kBufferOffset
  BY <1>1
<1>3. cut => m \in Seq(Bytes) /\ Len(m) = b.init
  <2> SUFFICES ASSUME cut PROVE m \in Seq(Bytes) /\ Len(m) = b.init
    OBVIOUS
  <2> DEFINE n == b.init
  <2>1. 1 \in Int /\ n \in Int /\ n <= Len(b.mem)
    BY <1>1
  <2>2. \A i \in 1..n : b.mem[i] \in Bytes
    BY <1>1, <2>1, ElementOfSeq
  <2> HIDE DEF n
  <2>3. SubSeq(b.mem, 1, n) \in Seq(Bytes) /\ Len(SubSeq(b.mem, 1, n)) = IF 1 <= n THEN n - 1 + 1 ELSE 0
    BY <2>1, <2>2, SubSeqProperties
  <2>4. m = SubSeq(b.mem, 1, n)
    BY DEF n
  <2>5. (IF 1 <= n THEN n - 1 + 1 ELSE 0) = n
    BY <1>1 DEF n
  <2> QED
    BY <2>3, <2>4, <2>5 DEF n
<1>4. ~cut => m = b.mem
  OBVIOUS
<1>5. e = [b EXCEPT !.mem = m, !.head = kBufferOffset, !.tail = kBufferOffset]
  BY DEF RetrieveAll
<1> HIDE DEF m, e, cut
<1>6. e = [head |-> kBufferOffset, tail |-> kBufferOffset, init |-> b.init, mem |-> m]
  BY <1>1, <1>5 DEF BufType
<1>7. CASE cut
  BY <1>1, <1>2, <1>3, <1>6, <1>7 DEF Leaves, CutShort, BufType, e
<1>8. CASE ~cut
  <2>1. Sound(e)
    BY <1>1, <1>4, <1>6, <1>8 DEF Sound, BufType
  <2>2. <<>> \in Seq(Bytes) /\ Len(<<>>) = 0
    BY EmptySeq
  <2>3. e.tail - e.head = 0
    BY <1>1, <1>6
  <2>4. \A i \in 1..Len(<<>>) : FALSE
    BY <2>2
  <2>5. Holds(e, <<>>)
    BY <2>1, <2>2, <2>3, <2>4, HoldsWhen
  <2> QED
    BY <2>5 DEF Leaves, e
<1> QED
  BY <1>7, <1>8

\* A buffer that was cut is left as it is by another retrieveAll.
LEMMA CutAgainIs ==
  ASSUME NEW b \in BufType, CutShort(b), NEW len \in Nat
  PROVE  RetrieveFrom(b, len) = b /\ Readable(b) = <<>>
<1>1. /\ b.head = kBufferOffset /\ b.tail = kBufferOffset /\ Len(b.mem) = b.init
      /\ b.init \in Nat /\ kBufferOffset \in Nat
  BY BufferAssumption DEF CutShort, BufType
<1>2. len >= ReadableBytes(b) /\ ~(Len(b.mem) > 2 * b.init)
  BY <1>1 DEF ReadableBytes
<1>3. RetrieveFrom(b, len) = [b EXCEPT !.mem = b.mem, !.head = b.head, !.tail = b.tail]
  BY <1>1, <1>2 DEF RetrieveFrom, RetrieveAll
<1>4. RetrieveFrom(b, len) = b
  BY <1>3 DEF BufType
<1>5. Readable(b) = SubSeq(b.mem, kBufferOffset + 1, kBufferOffset)
  BY <1>1 DEF Readable, Peek, ReadableBytes
<1>6. SubSeq(b.mem, kBufferOffset + 1, kBufferOffset) = <<>>
  <2> DEFINE k == kBufferOffset
             j == kBufferOffset + 1
  <2>1. b.mem \in Seq(Bytes) /\ j \in Int /\ k \in Int /\ k < j
    BY <1>1 DEF BufType
  <2> HIDE DEF j, k
  <2>2. SubSeq(b.mem, j, k) = <<>>
    BY <2>1, SubSeqEmpty
  <2> QED
    BY <2>2 DEF j, k
<1> QED
  BY <1>4, <1>5, <1>6

\* What a part of the readable bytes is.
LEMMA PartIs ==
  ASSUME NEW s \in Seq(Bytes), NEW m \in Nat, NEW n \in Nat, m <= n, n <= Len(s)
  PROVE  /\ SubSeq(s, m + 1, n) \in Seq(Bytes)
         /\ Len(SubSeq(s, m + 1, n)) = n - m
         /\ \A i \in 1..(n - m) : SubSeq(s, m + 1, n)[i] = s[m + i]
<1> DEFINE k == m + 1
<1>1. k \in Int /\ n \in Int /\ Len(s) \in Nat /\ k = m + 1
  BY LenProperties
<1>2. \A i \in k..n : s[i] \in Bytes
  BY <1>1, ElementOfSeq
<1> HIDE DEF k
<1>3. /\ SubSeq(s, k, n) \in Seq(Bytes)
      /\ Len(SubSeq(s, k, n)) = IF k <= n THEN n - k + 1 ELSE 0
      /\ \A i \in 1..(n - k + 1) : SubSeq(s, k, n)[i] = s[k + i - 1]
  BY <1>1, <1>2, SubSeqProperties
<1>4. (IF k <= n THEN n - k + 1 ELSE 0) = n - m /\ n - k + 1 = n - m
  BY <1>1
<1>5. \A i \in 1..(n - m) : k + i - 1 = m + i
  BY <1>1
<1> QED
  BY <1>3, <1>4, <1>5 DEF k

\* Bytes are taken from the front of the string, all of them when len is larger.
LEMMA RetrieveIs ==
  ASSUME NEW b, NEW s, Holds(b, s), NEW len \in Nat
  PROVE  Leaves(RetrieveFrom(b, len),
                SubSeq(s, (IF len < Len(s) THEN len ELSE Len(s)) + 1, Len(s)))
<1> DEFINE e == RetrieveFrom(b, len)
<1>1. /\ Sound(b) /\ b \in BufType /\ b.head \in Nat /\ b.tail \in Nat /\ b.init \in Nat
      /\ Len(b.mem) \in Nat
      /\ b.head <= b.tail /\ b.tail <= Len(b.mem)
  BY LenProperties, BufferAssumption DEF Holds, Sound, BufType
<1>2. /\ s \in Seq(Bytes) /\ Len(s) = b.tail - b.head /\ Len(s) \in Nat
      /\ \A i \in 1..Len(s) : s[i] = b.mem[b.head + i]
  BY <1>1, ReadableIs, LenProperties DEF Holds
<1>3. CASE len >= Len(s)
  <2>1. e = RetrieveAll(b)
    BY <1>2, <1>3 DEF RetrieveFrom, ReadableBytes
  <2>2. Leaves(e, <<>>)
    BY <1>1, <2>1, RetrieveAllIs
  <2>3. ~(len < Len(s)) /\ Len(s) < Len(s) + 1
    BY <1>2, <1>3
  <2>4. SubSeq(s, Len(s) + 1, Len(s)) = <<>>
    BY <1>2, <2>3, SubSeqEmpty
  <2> QED
    BY <2>2, <2>3, <2>4
<1>4. CASE ~(len >= Len(s))
  <2> DEFINE r == SubSeq(s, len + 1, Len(s))
  <2>1. len < Len(s) /\ len <= Len(s)
    BY <1>2, <1>4
  <2>2. /\ r \in Seq(Bytes) /\ Len(r) = Len(s) - len
        /\ \A i \in 1..(Len(s) - len) : r[i] = s[len + i]
    BY <1>2, <2>1, PartIs
  <2> HIDE DEF r
  <2>3. e = [b EXCEPT !.head = @ + len]
    BY <1>2, <1>4 DEF RetrieveFrom, ReadableBytes
  <2> HIDE DEF e
  <2>4. e = [head |-> b.head + len, tail |-> b.tail, init |-> b.init, mem |-> b.mem]
    BY <1>1, <2>3 DEF BufType
  <2>5. b.head + len \in Nat /\ b.head + len <= b.tail
    BY <1>1, <1>2, <2>1
  <2>6. Sound(e)
    BY <1>1, <2>4, <2>5 DEF Sound, BufType
  <2>7. Len(r) = e.tail - e.head
    BY <1>1, <1>2, <2>2, <2>4
  <2>8. ASSUME NEW i \in 1..Len(r) PROVE e.mem[e.head + i] = r[i]
    <3> DEFINE j == len + i
    <3>1. j \in 1..Len(s) /\ i \in 1..(Len(s) - len) /\ b.head + j = e.head + i
      BY <1>1, <1>2, <2>1, <2>2, <2>4
    <3>2. r[i] = s[j]
      BY <2>2, <3>1
    <3> HIDE DEF j
    <3>3. s[j] = b.mem[b.head + j]
      BY <1>2, <3>1
    <3> QED
      BY <2>4, <3>1, <3>2, <3>3
  <2>9. Holds(e, r)
    BY <2>2, <2>6, <2>7, <2>8, HoldsWhen
  <2> QED
    BY <2>1, <2>9 DEF e, r, Leaves
<1> QED
  BY <1>3, <1>4

\* The extension buffer of readFd takes what the vector has no room for.
LEMMA ReadFdIs ==
  ASSUME NEW b, NEW s, Holds(b, s), NEW d \in Seq(Bytes)
  PROVE  Holds(ReadFdInto(b, d), s \o d)
<1> DEFINE w == WritableBytes(b)
<1>1. /\ w \in Nat /\ Len(d) \in Nat /\ s \in Seq(Bytes)
  BY LenProperties, ReadableIs DEF Holds, Sound, BufType, WritableBytes
<1>2. CASE Len(d) <= w
  BY <1>2, CopyBackIs DEF ReadFdInto
<1>3. CASE ~(Len(d) <= w)
  <2> DEFINE first == SubSeq(d, 0 + 1, w)
             rest == SubSeq(d, w + 1, Len(d))
  <2>1. w <= Len(d) /\ 0 <= w /\ w - 0 = w
    BY <1>1, <1>3
  <2>2. first \in Seq(Bytes) /\ Len(first) = w
    BY <1>1, <2>1, PartIs
  <2>3. rest \in Seq(Bytes)
    BY <1>1, <2>1, PartIs
  <2>4. first \o rest = d
    <3>1. 0 + 1 \in 1..(Len(d) + 1) /\ w \in ((0 + 1) - 1)..Len(d) /\ Len(d) \in w..Len(d)
      BY <1>1, <2>1
    <3>2. first \o rest = SubSeq(d, 0 + 1, Len(d))
      BY <3>1, ConcatAdjacentSubSeq
    <3>3. SubSeq(d, 1, Len(d)) = d
      BY SubSeqFull
    <3>4. 0 + 1 = 1
      OBVIOUS
    <3> HIDE DEF first, rest
    <3> QED
      BY <3>2, <3>3, <3>4, Zenon
  <2>5. ReadFdInto(b, d) = AppendTo(CopyBack(b, first), rest)
    BY <1>3 DEF ReadFdInto
  <2> HIDE DEF first, rest
  <2>6. Holds(CopyBack(b, first), s \o first)
    BY <1>1, <2>2, CopyBackIs
  <2>7. Holds(AppendTo(CopyBack(b, first), rest), (s \o first) \o rest)
    BY <2>3, <2>6, AppendIs
  <2>8. (s \o first) \o rest = s \o (first \o rest)
    BY <1>1, <2>2, <2>3, ConcatAssociative
  <2> QED
    BY <2>4, <2>5, <2>7, <2>8
<1> QED
  BY <1>2, <1>3

LEMMA UnwriteIs ==
  ASSUME NEW b, NEW s, Holds(b, s), NEW n \in Nat, n <= ReadableBytes(b)
  PROVE  Holds([b EXCEPT !.tail = @ - n], SubSeq(s, 1, Len(s) - n))
<1> DEFINE e == [b EXCEPT !.tail = @ - n]
           k == Len(s) - n
           r == SubSeq(s, 0 + 1, k)
<1>1. /\ Sound(b) /\ b \in BufType /\ b.head \in Nat /\ b.tail \in Nat /\ b.init \in Nat
      /\ Len(b.mem) \in Nat
      /\ b.head <= b.tail /\ b.tail <= Len(b.mem) /\ n <= b.tail - b.head
  BY LenProperties, BufferAssumption DEF Holds, Sound, BufType, ReadableBytes
<1>2. /\ s \in Seq(Bytes) /\ Len(s) = b.tail - b.head /\ Len(s) \in Nat
      /\ \A i \in 1..Len(s) : s[i] = b.mem[b.head + i]
  BY <1>1, ReadableIs, LenProperties DEF Holds
<1>3. k \in Nat /\ k <= Len(s) /\ 0 <= k /\ k - 0 = k
  BY <1>1, <1>2
<1>4. r \in Seq(Bytes) /\ Len(r) = k /\ \A i \in 1..k : r[i] = s[0 + i]
  BY <1>2, <1>3, PartIs
<1>5. e = [head |-> b.head, tail |-> b.tail - n, init |-> b.init, mem |-> b.mem]
  BY <1>1 DEF BufType
<1>6. b.tail - n \in Nat /\ b.head <= b.tail - n /\ b.tail - n <= Len(b.mem)
  BY <1>1
<1>7. r = SubSeq(s, 1, Len(s) - n)
  OBVIOUS
<1> HIDE DEF e, k, r
<1>8. Sound(e)
  BY <1>1, <1>5, <1>6 DEF Sound, BufType
<1>9. Len(r) = e.tail - e.head
  BY <1>1, <1>2, <1>4, <1>5 DEF k
<1>10. \A i \in 1..Len(r) : e.mem[e.head + i] = r[i]
  BY <1>2, <1>3, <1>4, <1>5
<1> QED
  BY <1>4, <1>7, <1>8, <1>9, <1>10, HoldsWhen DEF e
LEMMA LeastNatural ==
  ASSUME NEW T, T \subseteq Nat, T # {}
  PROVE  \E x \in T : \A y \in T : x <= y
<1> DEFINE R == OpToRel(<, Nat)
<1>1. \A x, y \in Nat : x < y => <<x, y>> \in R
  BY DEF OpToRel
<1>2. IsWellFoundedOn(R, Nat)
  BY NatLessThanWellFounded
<1> HIDE DEF R
<1>3. PICK x \in T : \A y \in T : ~(<<y, x>> \in R)
  BY <1>2, WFMin
<1>4. \A y \in T : x \in Nat /\ y \in Nat /\ ~(y < x)
  BY <1>1, <1>3
<1> QED
  BY <1>4

\* A part of the readable bytes is the same part of the vector, further on.
LEMMA PartOfVector ==
  ASSUME NEW b, NEW s, Holds(b, s), NEW k \in Nat, NEW n \in Nat, k + n <= Len(s)
  PROVE  SubSeq(s, k + 1, k + n) = SubSeq(b.mem, (b.head + k) + 1, (b.head + k) + n)
<1> DEFINE p == k + n
           h == b.head + k
           q == h + n
<1>1. /\ Sound(b) /\ b.head \in Nat /\ b.tail \in Nat /\ b.mem \in Seq(Bytes)
      /\ Len(b.mem) \in Nat /\ b.head <= b.tail /\ b.tail <= Len(b.mem)
  BY LenProperties DEF Holds, Sound, BufType
<1>2. /\ s \in Seq(Bytes) /\ Len(s) = b.tail - b.head /\ Len(s) \in Nat
      /\ \A i \in 1..Len(s) : s[i] = b.mem[b.head + i]
  BY <1>1, ReadableIs, LenProperties DEF Holds
<1>3. /\ p \in Nat /\ k <= p /\ p <= Len(s) /\ p - k = n
      /\ h \in Nat /\ q \in Nat /\ h <= q /\ q - h = n
  BY <1>1
<1>4. q <= Len(b.mem)
  <2> DEFINE l == Len(s)
             m == Len(b.mem)
             f == b.head
             t == b.tail
  <2>1. l \in Nat /\ m \in Nat /\ f \in Nat /\ t \in Nat /\ l = t - f /\ t <= m /\ k + n <= l
    BY <1>1, <1>2
  <2> HIDE DEF l, m, f, t
  <2>2. (f + k) + n <= m
    BY <2>1
  <2> QED
    BY <2>2 DEF f, m
<1> HIDE DEF p, q
<1>5. /\ SubSeq(s, k + 1, p) \in Seq(Bytes) /\ Len(SubSeq(s, k + 1, p)) = n
      /\ \A i \in 1..n : SubSeq(s, k + 1, p)[i] = s[k + i]
  BY <1>2, <1>3, PartIs
<1>6. /\ SubSeq(b.mem, h + 1, q) \in Seq(Bytes) /\ Len(SubSeq(b.mem, h + 1, q)) = n
      /\ \A i \in 1..n : SubSeq(b.mem, h + 1, q)[i] = b.mem[h + i]
  <2> HIDE DEF h
  <2> QED
    BY <1>1, <1>3, <1>4, PartIs
<1>7. ASSUME NEW i \in 1..n PROVE s[k + i] = b.mem[h + i]
  <2>1. k + i \in 1..Len(s) /\ b.head + (k + i) = h + i
    BY <1>1, <1>2
  <2> QED
    BY <1>2, <2>1
<1>8. SubSeq(s, k + 1, p) = SubSeq(b.mem, h + 1, q)
  <2> DEFINE x == SubSeq(s, k + 1, p)
             y == SubSeq(b.mem, h + 1, q)
  <2>1. x \in Seq(Bytes) /\ y \in Seq(Bytes) /\ Len(x) = Len(y) /\ \A i \in 1..Len(x) : x[i] = y[i]
    BY <1>5, <1>6, <1>7
  <2> HIDE DEF x, y
  <2>2. x = y
    BY <2>1, SeqEqual
  <2> QED
    BY <2>2 DEF x, y
<1> QED
  BY <1>8 DEF p, q

\* s occurs at k: what std::search looks for.
Occurs(d, s, k) == k + Len(d) <= Len(s) /\ SubSeq(s, k + 1, k + Len(d)) = d

\* std::search returns the first occurrence, and NULL stands for none.
LEMMA SearchIs ==
  ASSUME NEW b, NEW s, Holds(b, s), NEW d \in Seq(Bytes), d # <<>>
  PROVE  \/ /\ Search(b, d) \in 0..Len(s) /\ Occurs(d, s, Search(b, d))
            /\ \A k \in 0..Len(s) : Occurs(d, s, k) => Search(b, d) <= k
         \/ Search(b, d) = None /\ \A k \in 0..Len(s) : ~Occurs(d, s, k)
<1> DEFINE n == Len(d)
           hits == {k \in b.head..(b.tail - n) : SubSeq(b.mem, k + 1, k + n) = d}
           first == CHOOSE k \in hits : \A j \in hits : k <= j
<1>1. /\ Sound(b) /\ b.head \in Nat /\ b.tail \in Nat /\ b.head <= b.tail
      /\ n \in Nat /\ n # 0
  BY LenProperties, EmptySeq DEF Holds, Sound, BufType
<1>2. Len(s) = b.tail - b.head /\ Len(s) \in Nat
  BY <1>1, ReadableIs DEF Holds
<1>3. Search(b, d) = IF hits = {} \/ first = b.tail THEN None ELSE first - b.head
  BY DEF Search
<1> HIDE DEF n
<1>4. ASSUME NEW k \in 0..Len(s) PROVE Occurs(d, s, k) <=> b.head + k \in hits
  <2>1. k + n <= Len(s) <=> b.head + k \in b.head..(b.tail - n)
    <3> DEFINE l == Len(s)
               h == b.head
               t == b.tail
    <3>1. l \in Nat /\ h \in Nat /\ t \in Nat /\ n \in Nat /\ l = t - h /\ k \in 0..l
      BY <1>1, <1>2
    <3> HIDE DEF l, h, t
    <3>2. k + n <= l <=> h + k \in h..(t - n)
      BY <3>1
    <3> QED
      BY <3>2 DEF l, h, t
  <2>2. k + n <= Len(s) =>
           SubSeq(s, k + 1, k + n) = SubSeq(b.mem, (b.head + k) + 1, (b.head + k) + n)
    <3>1. k \in Nat /\ n \in Nat
      BY <1>1, <1>2
    <3> QED
      BY <3>1, PartOfVector
  <2> QED
    BY <2>1, <2>2 DEF Occurs, n
<1>5. \A j \in hits : j \in Nat /\ j - b.head \in 0..Len(s) /\ b.head + (j - b.head) = j /\ j # b.tail
  <2> DEFINE l == Len(s)
             h == b.head
             t == b.tail
  <2>1. l \in Nat /\ h \in Nat /\ t \in Nat /\ n \in Nat /\ n # 0 /\ l = t - h
    BY <1>1, <1>2
  <2> HIDE DEF l, h, t
  <2>2. \A j \in h..(t - n) : j \in Nat /\ j - h \in 0..l /\ h + (j - h) = j /\ j # t
    BY <2>1
  <2> QED
    BY <2>2 DEF l, h, t
<1> HIDE DEF hits
<1>6. CASE hits = {}
  BY <1>3, <1>4, <1>6
<1>7. CASE hits # {}
  <2>1. first \in hits /\ \A j \in hits : first <= j
    <3>1. \E x \in hits : \A j \in hits : x <= j
      BY <1>5, <1>7, LeastNatural
    <3> QED
      BY <3>1
  <2> HIDE DEF first
  <2> DEFINE r == first - b.head
  <2>2. /\ first \in Nat /\ r \in 0..Len(s) /\ b.head + r = first /\ first # b.tail
    BY <1>5, <2>1
  <2>3. Search(b, d) = r
    BY <1>3, <1>7, <2>2
  <2>4. Occurs(d, s, r)
    BY <1>4, <2>1, <2>2
  <2>5. ASSUME NEW k \in 0..Len(s), Occurs(d, s, k) PROVE r <= k
    <3>1. first <= b.head + k
      BY <1>4, <2>1, <2>5
    <3> QED
      BY <1>1, <1>2, <2>2, <3>1
  <2> QED
    BY <2>2, <2>3, <2>4, <2>5
<1> QED
  BY <1>6, <1>7
-----------------------------------------------------------------------------
(* The steps *)

LEMMA DataIsString ==
  ASSUME NEW d \in Data
  PROVE  d \in Seq(Bytes)
<1>1. PICK n \in 0..MaxData : d \in [1..n -> Bytes]
  BY DEF Data
<1>2. n \in Nat
  BY BufferAssumption
<1> QED
  BY <1>1, <1>2, SeqDef

\* The calls that take bytes.
Takes == {"retrieve", "read", "readInt"}

LEMMA InvIsSound ==
  IndicesSane <=> /\ call[1] \in Operations
                  /\ \/ Sound(buf)
                     \/ buf \in BufType /\ CutShort(buf) /\ call[1] \in Takes
BY DEF IndicesSane, BufferTypeOK, Whole, Inside, Takes, Sound, BufType

\* The common end of every call.
LEMMA DoesIs ==
  ASSUME NEW op \in Operations, NEW arg, NEW result, NEW b, NEW s,
         Does(op, arg, result, b), Holds(b, s)
  PROVE  IndicesSane' /\ String!Does(op, arg, result, s)
<1>1. buf' = b /\ call' = <<op, arg, result>>
  BY DEF Does
<1>2. Sound(buf') /\ Readable(buf)' = s
  BY <1>1 DEF Holds, Readable, Peek, ReadableBytes
<1>3. call'[1] \in Operations
  BY <1>1
<1>4. IndicesSane'
  BY <1>2, <1>3 DEF IndicesSane, BufferTypeOK, Whole, Inside, Sound, BufType
<1> QED
  BY <1>1, <1>2, <1>4 DEF String!Does

\* The common end of the calls that take bytes.
LEMMA TakesIs ==
  ASSUME NEW op \in Takes, NEW arg, NEW result, NEW b, NEW s,
         Does(op, arg, result, b), Leaves(b, s)
  PROVE  IndicesSane' /\ String!Does(op, arg, result, s)
<1>1. op \in Operations
  BY DEF Takes, Operations
<1>2. CASE Holds(b, s)
  BY <1>1, <1>2, DoesIs
<1>3. CASE b \in BufType /\ CutShort(b) /\ s = <<>>
  <2>1. buf' = b /\ call' = <<op, arg, result>> /\ call'[1] = op
    BY DEF Does
  <2>2. 0 \in Nat
    OBVIOUS
  <2>3. Readable(b) = <<>>
    BY <1>3, <2>2, CutAgainIs
  <2>4. Readable(buf)' = s
    BY <1>3, <2>1, <2>3 DEF Readable, Peek, ReadableBytes
  <2>5. buf' \in BufType /\ CutShort(buf)'
    BY <1>3, <2>1 DEF CutShort
  <2>6. IndicesSane'
    BY <1>1, <2>1, <2>5 DEF IndicesSane, BufferTypeOK, Takes, BufType
  <2> QED
    BY <2>1, <2>4, <2>6 DEF String!Does
<1> QED
  BY <1>2, <1>3 DEF Leaves

LEMMA HoldsNow ==
  ASSUME IndicesSane, Inside(buf)
  PROVE  /\ Holds(buf, Readable(buf)) /\ Readable(buf) \in Seq(Bytes)
         /\ Len(Readable(buf)) = ReadableBytes(buf) /\ Len(Readable(buf)) \in Nat
<1>1. Sound(buf)
  BY InvIsSound, BufferAssumption DEF Inside, CutShort, BufType
<1> QED
  BY <1>1, ReadableIs, LenProperties DEF Holds, ReadableBytes

LEMMA InitIs ==
  ASSUME BufferInit
  PROVE  IndicesSane /\ String!Init
<1>1. PICK n \in InitLens : buf = New(n)
  BY DEF BufferInit
<1>2. n \in Nat
  BY BufferAssumption
<1>3. Holds(buf, <<>>)
  BY <1>1, <1>2, NewIs
<1>4. call = <<"new", 0, 0>>
  BY DEF BufferInit
<1>5. IndicesSane
  BY <1>3, <1>4, InvIsSound DEF Holds, Operations
<1> QED
  BY <1>3, <1>4, <1>5 DEF Holds, String!Init

LEMMA AppendStep ==
  ASSUME IndicesSane, NEW d \in Data, Append_(d)
  PROVE  IndicesSane' /\ String!Append_(d)
<1>0. Inside(buf)
  BY DEF Append_, Does
<1>1. Holds(AppendTo(buf, d), Readable(buf) \o d)
  BY <1>0, HoldsNow, DataIsString, AppendIs
<1> QED
  BY <1>1, DoesIs DEF Operations, Append_, String!Append_

LEMMA AddInFrontStep ==
  ASSUME IndicesSane, NEW d \in Data, AddInFront(d)
  PROVE  IndicesSane' /\ String!AddInFront(d)
<1>0. Inside(buf)
  BY DEF AddInFront, Does
<1>1. Holds(AddInFrontOf(buf, d), d \o Readable(buf))
  BY <1>0, HoldsNow, DataIsString, AddInFrontIs
<1> QED
  BY <1>1, DoesIs DEF Operations, AddInFront, String!AddInFront

LEMMA ReadFdStep ==
  ASSUME IndicesSane, NEW d \in Data, ReadFd(d)
  PROVE  IndicesSane' /\ String!ReadFd(d)
<1>0. Inside(buf)
  BY DEF ReadFd, Does
<1>1. Holds(ReadFdInto(buf, d), Readable(buf) \o d)
  BY <1>0, HoldsNow, DataIsString, ReadFdIs
<1> QED
  BY <1>1, DoesIs DEF Operations, ReadFd, String!ReadFd

LEMMA SwapStep ==
  ASSUME IndicesSane, NEW d \in Data, NEW n \in InitLens, Swap(n, d)
  PROVE  IndicesSane' /\ String!Swap(d)
<1>1. n \in Nat
  BY BufferAssumption
<1>2. Holds(New(n), <<>>)
  BY <1>1, NewIs
<1>3. Holds(AppendTo(New(n), d), <<>> \o d) /\ <<>> \o d = d
  BY <1>2, DataIsString, AppendIs, ConcatEmptySeq
<1>4. Holds(AppendTo(New(n), d), d)
  BY <1>3
<1> QED
  BY <1>4, DoesIs DEF Operations, Swap, String!Swap

LEMMA FindStep ==
  ASSUME IndicesSane, NEW d \in Data, Find(d)
  PROVE  /\ IndicesSane'
         /\ \E r \in (0..Len(Readable(buf))) \cup {None} : String!Find(d, r)
<1> DEFINE s == Readable(buf)
           r == Search(buf, d)
<1>0. Inside(buf)
  BY DEF Find, Does
<1>1. Holds(buf, s) /\ d \in Seq(Bytes) /\ d # <<>> /\ Len(s) \in Nat
  BY <1>0, HoldsNow, DataIsString DEF Find
<1>2. IndicesSane' /\ String!Does("find", d, r, s)
  BY <1>1, DoesIs DEF Operations, Find
<1>3. \/ /\ r \in 0..Len(s) /\ Occurs(d, s, r)
         /\ \A k \in 0..Len(s) : Occurs(d, s, k) => r <= k
      \/ r = None /\ \A k \in 0..Len(s) : ~Occurs(d, s, k)
  BY <1>1, SearchIs
<1>4. \A k : String!OccursAt(d, k) <=> Occurs(d, s, k)
  BY DEF String!OccursAt, Occurs
<1>5. r \in (0..Len(s)) \cup {None} /\ (r \in 0..Len(s) => r \in Nat)
  BY <1>1, <1>3
<1>6. String!Find(d, r)
  BY <1>2, <1>3, <1>4, <1>5 DEF String!Find
<1> QED
  BY <1>2, <1>5, <1>6

LEMMA RetrieveStep ==
  ASSUME IndicesSane, NEW n \in Lens, Retrieve(n)
  PROVE  IndicesSane' /\ String!Retrieve(n)
<1> DEFINE s == Readable(buf)
<1>1. n \in Nat
  BY BufferAssumption DEF Lens
<1>2. Leaves(RetrieveFrom(buf, n), String!From(String!Least(n)))
  <2>1. CASE Inside(buf)
    BY <1>1, <2>1, HoldsNow, RetrieveIs DEF String!From, String!Least
  <2>2. CASE ~Inside(buf)
    <3>1. buf \in BufType /\ CutShort(buf)
      BY <2>2, InvIsSound DEF Sound, Inside
    <3>2. RetrieveFrom(buf, n) = buf /\ s = <<>>
      BY <1>1, <3>1, CutAgainIs
    <3>3. String!From(String!Least(n)) = <<>>
      <4>1. Len(s) = 0 /\ s \in Seq(Bytes)
        BY <3>2, EmptySeq
      <4>2. String!Least(n) = 0
        BY <1>1, <4>1 DEF String!Least
      <4>3. SubSeq(s, 0 + 1, 0) = <<>>
        BY <4>1, SubSeqEmpty
      <4> QED
        BY <4>1, <4>2, <4>3 DEF String!From
    <3> QED
      BY <3>1, <3>2, <3>3 DEF Leaves
  <2> QED
    BY <2>1, <2>2
<1>3. Does("retrieve", n, 0, RetrieveFrom(buf, n))
  BY DEF Retrieve
<1> QED
  BY <1>2, <1>3, TakesIs DEF Takes, String!Retrieve

LEMMA PeekIs ==
  ASSUME IndicesSane, Inside(buf), NEW n \in Nat, n <= Len(Readable(buf))
  PROVE  Peek(buf, n) = SubSeq(Readable(buf), 1, n)
<1> DEFINE s == Readable(buf)
           k == 0
<1>1. Holds(buf, s) /\ k \in Nat /\ k + n <= Len(s)
  BY HoldsNow
<1>2. 0 + n = n /\ buf.head + 0 = buf.head /\ 0 + 1 = 1
  BY <1>1 DEF Holds, Sound, BufType
<1> HIDE DEF k, s
<1>3. SubSeq(s, k + 1, k + n) = SubSeq(buf.mem, (buf.head + k) + 1, (buf.head + k) + n)
  BY <1>1, PartOfVector
<1>4. SubSeq(s, 0 + 1, 0 + n) = SubSeq(buf.mem, (buf.head + 0) + 1, (buf.head + 0) + n)
  BY <1>3 DEF k
<1>5. SubSeq(s, 1, n) = SubSeq(buf.mem, buf.head + 1, buf.head + n)
  BY <1>2, <1>4, Zenon
<1> QED
  BY <1>5 DEF Peek, s

LEMMA ReadStep ==
  ASSUME IndicesSane, NEW n \in Lens, Read(n)
  PROVE  IndicesSane' /\ String!Read(n)
<1> DEFINE s == Readable(buf)
           len == IF n > ReadableBytes(buf) THEN ReadableBytes(buf) ELSE n
<1>0. Inside(buf)
  BY DEF Read, Does
<1>1. n \in Nat /\ Len(s) = ReadableBytes(buf) /\ Len(s) \in Nat /\ Holds(buf, s)
  BY <1>0, BufferAssumption, HoldsNow DEF Lens
<1>2. len = String!Least(n) /\ len \in Nat /\ len <= Len(s) /\ 0 \in Nat
  BY <1>1 DEF String!Least
<1>3. Does("read", n, Peek(buf, len), RetrieveFrom(buf, len))
  BY DEF Read
<1> HIDE DEF len
<1>4. (IF len < Len(s) THEN len ELSE Len(s)) = len
  BY <1>1, <1>2
<1>5. Leaves(RetrieveFrom(buf, len), String!From(String!Least(n)))
  BY <1>1, <1>2, <1>4, RetrieveIs DEF String!From
<1>6. Peek(buf, len) = String!FirstOf(String!Least(n))
  BY <1>2, <1>0, PeekIs DEF String!FirstOf
<1> QED
  BY <1>3, <1>5, <1>6, TakesIs DEF Takes, String!Read

LEMMA UnwriteStep ==
  ASSUME IndicesSane, NEW n \in Lens, Unwrite(n)
  PROVE  IndicesSane' /\ String!Unwrite(n)
<1>0. Inside(buf)
  BY DEF Unwrite, Does
<1>1. n \in Nat /\ n <= ReadableBytes(buf)
  <2>1. n \in Nat /\ ReadableBytes(buf) \in Nat /\ ReadableBytes(buf) >= n
    BY <1>0, BufferAssumption, HoldsNow DEF Lens, Unwrite
  <2> QED
    BY <2>1
<1>2. Holds([buf EXCEPT !.tail = @ - n], String!FirstOf(Len(Readable(buf)) - n))
  BY <1>0, <1>1, HoldsNow, UnwriteIs DEF String!FirstOf
<1>3. n <= Len(Readable(buf))
  BY <1>0, <1>1, HoldsNow
<1> QED
  BY <1>2, <1>3, DoesIs DEF Operations, Unwrite, String!Unwrite

-----------------------------------------------------------------------------
(* Integers *)

\* Induction up to w, for a set of natural numbers.
LEMMA UpTo ==
  ASSUME NEW w \in Nat, NEW S, 0 \in S, \A n \in 0..(w - 1) : n \in S => n + 1 \in S
  PROVE  \A n \in 0..w : n \in S
<1> DEFINE T == {n \in 0..w : n \notin S}
<1> SUFFICES ASSUME T # {} PROVE FALSE
  OBVIOUS
<1>1. T \subseteq Nat
  OBVIOUS
<1>2. PICK x \in T : \A y \in T : x <= y
  BY <1>1, LeastNatural
<1>3. x \in 1..w /\ x - 1 \in 0..(w - 1) /\ ~(x <= x - 1) /\ (x - 1) + 1 = x
  BY <1>2
<1>4. x - 1 \in S
  BY <1>2, <1>3
<1>5. (x - 1) + 1 \in S
  BY <1>3, <1>4
<1> QED
  BY <1>2, <1>3, <1>5

LEMMA PowerIs ==
  ASSUME NEW w \in Widths
  PROVE  \A n \in 0..w : Base ^ n \in Nat \ {0}
<1> DEFINE S == {n \in 0..w : Base ^ n \in Nat \ {0}}
<1>1. w \in Nat /\ Base \in Nat \ {0}
  BY BufferAssumption
<1>2. Base ^ 0 = 1 /\ \A n \in 0..(w - 1) : Base ^ (n + 1) = Base * (Base ^ n)
  BY PowerAssumption
<1>3. 0 \in S
  BY <1>1, <1>2
<1>4. ASSUME NEW n \in 0..(w - 1), n \in S PROVE n + 1 \in S
  <2> DEFINE p == Base ^ n
  <2>1. p \in Nat \ {0} /\ Base ^ (n + 1) = Base * p /\ n + 1 \in 0..w
    BY <1>1, <1>2, <1>4
  <2> HIDE DEF p
  <2>2. Base * p \in Nat \ {0}
    BY <1>1, <2>1
  <2> QED
    BY <2>1, <2>2
<1> HIDE DEF S
<1>5. \A n \in 0..w : n \in S
  BY <1>1, <1>3, <1>4, UpTo
<1> QED
  BY <1>5 DEF S

LEMMA QuotientIs ==
  ASSUME NEW x \in Nat, NEW y \in Nat \ {0}, NEW q \in Nat, NEW r \in 0..(y - 1),
         x = (y * q) + r
  PROVE  x \div y = q
<1> DEFINE p == x \div y
           t == x % y
<1>1. p \in Nat /\ t \in 0..(y - 1) /\ (y * p) + t = (y * q) + r
  OBVIOUS
<1> HIDE DEF p, t
<1>2. ASSUME p < q PROVE FALSE
  <2>1. p + 1 <= q
    BY <1>1, <1>2
  <2>2. y * (p + 1) <= y * q
    BY <1>1, <2>1
  <2>3. y * (p + 1) = (y * p) + y
    BY <1>1
  <2> QED
    BY <1>1, <2>2, <2>3
<1>3. ASSUME q < p PROVE FALSE
  <2>1. q + 1 <= p
    BY <1>1, <1>3
  <2>2. y * (q + 1) <= y * p
    BY <1>1, <2>1
  <2>3. y * (q + 1) = (y * q) + y
    BY <1>1
  <2> QED
    BY <1>1, <2>2, <2>3
<1> QED
  BY <1>1, <1>2, <1>3 DEF p

\* A digit more below: division by the base and by p is division by both.
LEMMA DigitBelow ==
  ASSUME NEW u \in Nat, NEW a \in Bytes, NEW p \in Nat \ {0}
  PROVE  ((Base * u) + a) \div (Base * p) = u \div p
<1> DEFINE q == u \div p
           r == u % p
<1>1. Base \in Nat \ {0} /\ a \in Nat /\ a <= Base - 1
  BY BufferAssumption DEF Bytes
<1>2. q \in Nat /\ r \in Nat /\ r <= p - 1 /\ u = (p * q) + r
  OBVIOUS
<1> HIDE DEF q, r
<1>3. Base * u = (Base * (p * q)) + (Base * r) /\ Base * (p * q) = (Base * p) * q
  BY <1>1, <1>2
<1>4. Base * r <= Base * (p - 1) /\ Base * (p - 1) = (Base * p) - Base
  BY <1>1, <1>2
<1>5. Base * p \in Nat \ {0} /\ Base * r \in Nat /\ (Base * p) * q \in Nat
  BY <1>1, <1>2
<1> DEFINE y == Base * p
           t == (Base * r) + a
           x == (Base * u) + a
<1>6. x = (y * q) + t /\ x \in Nat
  BY <1>1, <1>3, <1>5
<1>7. t \in 0..(y - 1)
  BY <1>1, <1>4, <1>5
<1>8. y \in Nat \ {0}
  BY <1>5
<1> HIDE DEF x, y, t
<1>9. x \div y = q
  BY <1>2, <1>6, <1>7, <1>8, QuotientIs
<1> QED
  BY <1>9 DEF x, y, q

\* Every string of n bytes is that of an integer: what memcpy into one reads.
Covers(n) == \A s \in [1..n -> Bytes] : \E v \in 0..(Base ^ n - 1) : Store(v, n) = s

LEMMA Covering ==
  ASSUME NEW w \in Widths
  PROVE  Covers(w)
<1> DEFINE S == {n \in 0..w : Covers(n)}
<1>1. w \in Nat /\ Base \in Nat \ {0} /\ Bytes = 0..(Base - 1)
  BY BufferAssumption DEF Bytes
<1>2. Base ^ 0 = 1 /\ \A n \in 0..(w - 1) : Base ^ (n + 1) = Base * (Base ^ n)
  BY PowerAssumption
<1>3. 0 \in S
  <2> SUFFICES ASSUME NEW s \in [1..0 -> Bytes]
               PROVE  \E v \in 0..(Base ^ 0 - 1) : Store(v, 0) = s
    BY <1>1 DEF Covers
  <2>1. 0 \in 0..(Base ^ 0 - 1)
    BY <1>2
  <2>2. Store(0, 0) = s
    BY DEF Store
  <2> QED
    BY <2>1, <2>2
<1>4. ASSUME NEW n \in 0..(w - 1), n \in S PROVE n + 1 \in S
  <2> SUFFICES ASSUME NEW s \in [1..(n + 1) -> Bytes]
               PROVE  \E v \in 0..(Base ^ (n + 1) - 1) : Store(v, n + 1) = s
    BY <1>1 DEF Covers
  <2> DEFINE rest == [i \in 1..n |-> s[i + 1]]
             p == Base ^ n
             a == s[1]
  <2>1. n \in Nat /\ p \in Nat \ {0} /\ Base ^ (n + 1) = Base * p
    BY <1>1, <1>2, PowerIs
  <2>2. rest \in [1..n -> Bytes] /\ a \in Bytes
    BY <2>1
  <2>3. PICK u \in 0..(p - 1) : Store(u, n) = rest
    BY <1>4, <2>2 DEF Covers
  <2> DEFINE v == (Base * u) + a
  <2> HIDE DEF p
  <2>4. u \in Nat /\ u <= p - 1
    BY <2>1, <2>3
  <2> HIDE DEF a
  <2>5. a \in Nat /\ a <= Base - 1
    BY <1>1, <2>2
  <2>6. v \in Nat /\ v <= (Base * p) - 1
    <3>1. Base * u <= Base * (p - 1) /\ Base * (p - 1) = (Base * p) - Base
      BY <1>1, <2>1, <2>4
    <3>2. Base * u \in Nat /\ Base * p \in Nat
      BY <1>1, <2>1, <2>4
    <3> QED
      BY <1>1, <2>5, <3>1, <3>2
  <2>7. v \in 0..(Base ^ (n + 1) - 1)
    <3>1. Base * p \in Nat
      BY <1>1, <2>1
    <3> HIDE DEF v
    <3> QED
      BY <2>1, <2>6, <3>1
  <2>8. ASSUME NEW i \in 1..(n + 1) PROVE (v \div (Base ^ (i - 1))) % Base = s[i]
    <3>1. CASE i = 1
      <4>1. Base ^ (i - 1) = 1
        BY <1>2, <3>1
      <4>2. v \div 1 = v
        BY <2>6
      <4>3. v % Base = a
        BY <1>1, <2>4, <2>5
      <4> QED
        BY <3>1, <4>1, <4>2, <4>3 DEF a
    <3>2. CASE i # 1
      <4> DEFINE j == i - 1
                 k == i - 2
                 e == Base ^ k
      <4>1. j \in 1..n /\ k \in 0..(w - 1) /\ k \in 0..w /\ k + 1 = j /\ j + 1 = i /\ j - 1 = k
        BY <1>1, <2>1, <3>2
      <4>2. Base ^ j = Base * e /\ e \in Nat \ {0}
        BY <1>2, <4>1, PowerIs
      <4>3. rest[j] = s[i]
        BY <4>1
      <4>4. rest[j] = (u \div e) % Base
        <5>1. Store(u, n)[j] = (u \div (Base ^ (j - 1))) % Base
          BY <4>1 DEF Store
        <5> HIDE DEF j, k, rest
        <5> QED
          BY <2>3, <4>1, <5>1
      <4> HIDE DEF e
      <4>5. v \div (Base * e) = u \div e
        BY <2>2, <2>4, <4>2, DigitBelow
      <4> QED
        BY <4>2, <4>3, <4>4, <4>5
    <3> QED
      BY <3>1, <3>2
  <2> HIDE DEF v
  <2>9. Store(v, n + 1) = s
    BY <2>8 DEF Store
  <2> QED
    BY <2>7, <2>9
<1> HIDE DEF S
<1>5. \A n \in 0..w : n \in S
  BY <1>1, <1>3, <1>4, UpTo
<1>6. w \in S
  BY <1>1, <1>5
<1> QED
  BY <1>6 DEF S

LEMMA LoadIs ==
  ASSUME NEW w \in Widths, NEW s \in [1..w -> Bytes]
  PROVE  Load(s) \in 0..(Base ^ w - 1) /\ Store(Load(s), w) = s
<1>1. w \in Nat
  BY BufferAssumption
<1>2. Len(s) = w
  <2>1. s \in Seq(Bytes) /\ DOMAIN s = 1..w
    BY <1>1, SeqDef
  <2> QED
    BY <1>1, <2>1, LenProperties
<1>3. \E v \in 0..(Base ^ w - 1) : Store(v, w) = s
  BY Covering DEF Covers
<1>4. Load(s) = CHOOSE v \in 0..(Base ^ w - 1) : Store(v, w) = s
  BY <1>2 DEF Load
<1> QED
  BY <1>3, <1>4

LEMMA StoreIs ==
  ASSUME NEW w \in Widths, NEW v \in 0..(Base ^ w - 1)
  PROVE  Store(v, w) \in [1..w -> Bytes]
<1>1. w \in Nat /\ Base \in Nat \ {0} /\ Bytes = 0..(Base - 1)
  BY BufferAssumption DEF Bytes
<1>2. v \in Nat
  <2> DEFINE p == Base ^ w
  <2>1. p \in Nat /\ v \in 0..(p - 1)
    BY <1>1, PowerIs
  <2> HIDE DEF p
  <2> QED
    BY <2>1
<1>3. ASSUME NEW i \in 1..w PROVE (v \div (Base ^ (i - 1))) % Base \in Bytes
  <2> DEFINE e == Base ^ (i - 1)
  <2>1. i - 1 \in 0..w
    BY <1>1
  <2>2. e \in Nat \ {0}
    BY <2>1, PowerIs
  <2> HIDE DEF e
  <2>3. v \div e \in Nat
    BY <1>2, <2>2
  <2> DEFINE d == v \div e
  <2> HIDE DEF d
  <2>4. d \in Nat => d % Base \in 0..(Base - 1)
    BY <1>1
  <2> QED
    BY <1>1, <2>3, <2>4 DEF d, e
<1> QED
  BY <1>3 DEF Store

LEMMA ReverseIs ==
  ASSUME NEW w \in Nat, NEW s \in [1..w -> Bytes]
  PROVE  Seqs!Reverse(s) \in [1..w -> Bytes] /\ \A i \in 1..w : Seqs!Reverse(s)[i] = s[(w - i) + 1]
<1>1. Len(s) = w
  <2>1. s \in Seq(Bytes) /\ DOMAIN s = 1..w
    BY SeqDef
  <2> QED
    BY <2>1, LenProperties
<1>2. Seqs!Reverse(s) = [i \in 1..w |-> s[(w - i) + 1]]
  BY <1>1 DEF Seqs!Reverse
<1>3. \A i \in 1..w : (w - i) + 1 \in 1..w
  OBVIOUS
<1> QED
  BY <1>2, <1>3

\* The bytes of an integer turned round are its bytes in network order.
LEMMA ReversedIsBigEndian ==
  ASSUME NEW w \in Widths, NEW v \in 0..(Base ^ w - 1)
  PROVE  Seqs!Reverse(Store(v, w)) = String!BigEndian(v, w)
<1>1. w \in Nat
  BY BufferAssumption
<1> DEFINE s == Store(v, w)
           b == String!BigEndian(v, w)
<1>2. /\ Seqs!Reverse(s) \in [1..w -> Bytes]
      /\ \A i \in 1..w : Seqs!Reverse(s)[i] = s[(w - i) + 1]
  <2>1. s \in [1..w -> Bytes]
    BY StoreIs
  <2> HIDE DEF s
  <2> QED
    BY <1>1, <2>1, ReverseIs
<1>3. b = [i \in 1..w |-> (v \div (Base ^ (w - i))) % Base]
  BY DEF String!BigEndian
<1>4. ASSUME NEW i \in 1..w PROVE s[(w - i) + 1] = b[i]
  <2> DEFINE j == (w - i) + 1
  <2>1. j \in 1..w /\ j - 1 = w - i
    BY <1>1
  <2> HIDE DEF j
  <2>2. s[j] = (v \div (Base ^ (j - 1))) % Base
    BY <2>1 DEF Store
  <2>3. b[i] = (v \div (Base ^ (w - i))) % Base
    BY <1>3
  <2>4. s[j] = b[i]
    BY <2>1, <2>2, <2>3
  <2> QED
    BY <2>4 DEF j
<1> HIDE DEF s, b
<1>5. Seqs!Reverse(s) = b
  BY <1>2, <1>3, <1>4
<1> QED
  BY <1>5 DEF s, b

LEMMA IntegerWritten ==
  ASSUME NEW w \in Widths, NEW v \in 0..(Base ^ w - 1)
  PROVE  /\ Store(HostToNet(v, w), w) = String!BigEndian(v, w)
         /\ String!BigEndian(v, w) \in Seq(Bytes)
<1> DEFINE r == Seqs!Reverse(Store(v, w))
<1>1. w \in Nat
  BY BufferAssumption
<1>2. r \in [1..w -> Bytes]
  BY <1>1, StoreIs, ReverseIs
<1>3. r = String!BigEndian(v, w)
  BY ReversedIsBigEndian
<1>4. HostToNet(v, w) = Load(r)
  BY DEF HostToNet
<1> HIDE DEF r
<1>5. Store(Load(r), w) = r
  BY <1>2, LoadIs
<1>6. r \in Seq(Bytes)
  BY <1>1, <1>2, SeqDef
<1> QED
  BY <1>3, <1>4, <1>5, <1>6

LEMMA IntegerRead ==
  ASSUME NEW w \in Widths, NEW s \in [1..w -> Bytes]
  PROVE  /\ HostToNet(Load(s), w) \in 0..(Base ^ w - 1)
         /\ String!BigEndian(HostToNet(Load(s), w), w) = s
<1> DEFINE r == Seqs!Reverse(s)
           v == HostToNet(Load(s), w)
<1>1. w \in Nat
  BY BufferAssumption
<1>2. r \in [1..w -> Bytes] /\ \A i \in 1..w : r[i] = s[(w - i) + 1]
  BY <1>1, ReverseIs
<1>3. v = Load(r)
  BY LoadIs DEF HostToNet
<1> HIDE DEF r, v
<1>4. v \in 0..(Base ^ w - 1) /\ Store(v, w) = r
  BY <1>2, <1>3, LoadIs
<1>5. String!BigEndian(v, w) = Seqs!Reverse(r)
  BY <1>4, ReversedIsBigEndian
<1>6. Seqs!Reverse(r) \in [1..w -> Bytes] /\ \A i \in 1..w : Seqs!Reverse(r)[i] = r[(w - i) + 1]
  BY <1>1, <1>2, ReverseIs
<1>7. ASSUME NEW i \in 1..w PROVE r[(w - i) + 1] = s[i]
  <2>1. (w - i) + 1 \in 1..w /\ (w - ((w - i) + 1)) + 1 = i
    BY <1>1
  <2> QED
    BY <1>2, <2>1
<1>8. Seqs!Reverse(r) = s
  <2> DEFINE x == Seqs!Reverse(r)
  <2>1. x \in [1..w -> Bytes] /\ \A i \in 1..w : x[i] = s[i]
    BY <1>6, <1>7
  <2> HIDE DEF x
  <2>2. x = [i \in 1..w |-> x[i]] /\ s = [i \in 1..w |-> s[i]]
    BY <2>1
  <2>3. [i \in 1..w |-> x[i]] = [i \in 1..w |-> s[i]]
    BY <2>1
  <2> QED
    BY <2>2, <2>3, Zenon DEF x
<1> QED
  BY <1>4, <1>5, <1>8 DEF v

LEMMA AppendIntStep ==
  ASSUME IndicesSane, NEW w \in Widths, NEW v \in 0..(Base ^ w - 1), AppendInt(v, w)
  PROVE  IndicesSane' /\ String!AppendInt(v, w)
<1> DEFINE d == String!BigEndian(v, w)
<1>0. Inside(buf)
  BY DEF AppendInt, Does
<1>1. Store(HostToNet(v, w), w) = d /\ d \in Seq(Bytes)
  BY IntegerWritten
<1> HIDE DEF d
<1>2. Holds(AppendTo(buf, d), Readable(buf) \o d)
  BY <1>0, <1>1, HoldsNow, AppendIs
<1>3. Does("appendInt", <<v, w>>, 0, AppendTo(buf, d))
  BY <1>1 DEF AppendInt
<1>4. IndicesSane' /\ String!Does("appendInt", <<v, w>>, 0, Readable(buf) \o d)
  BY <1>2, <1>3, DoesIs DEF Operations
<1> QED
  BY <1>4 DEF String!AppendInt, d

LEMMA AddInFrontIntStep ==
  ASSUME IndicesSane, NEW w \in Widths, NEW v \in 0..(Base ^ w - 1), AddInFrontInt(v, w)
  PROVE  IndicesSane' /\ String!AddInFrontInt(v, w)
<1> DEFINE d == String!BigEndian(v, w)
<1>0. Inside(buf)
  BY DEF AddInFrontInt, Does
<1>1. Store(HostToNet(v, w), w) = d /\ d \in Seq(Bytes)
  BY IntegerWritten
<1> HIDE DEF d
<1>2. Holds(AddInFrontOf(buf, d), d \o Readable(buf))
  BY <1>0, <1>1, HoldsNow, AddInFrontIs
<1>3. Does("addInFrontInt", <<v, w>>, 0, AddInFrontOf(buf, d))
  BY <1>1 DEF AddInFrontInt
<1>4. IndicesSane' /\ String!Does("addInFrontInt", <<v, w>>, 0, d \o Readable(buf))
  BY <1>2, <1>3, DoesIs DEF Operations
<1> QED
  BY <1>4 DEF String!AddInFrontInt, d

LEMMA ReadIntStep ==
  ASSUME IndicesSane, NEW w \in Widths, ReadInt(w)
  PROVE  IndicesSane' /\ \E v \in 0..(Base ^ w - 1) : String!ReadInt(v, w)
<1> DEFINE s == Readable(buf)
           d == SubSeq(s, 1, w)
           v == HostToNet(Load(d), w)
<1>0. Inside(buf)
  BY DEF ReadInt, Does
<1>1. w \in Nat /\ s \in Seq(Bytes) /\ Len(s) \in Nat /\ w <= Len(s) /\ Holds(buf, s)
  <2>1. /\ w \in Nat /\ s \in Seq(Bytes) /\ Len(s) \in Nat /\ Len(s) >= w
        /\ Holds(buf, s)
    BY <1>0, BufferAssumption, HoldsNow DEF ReadInt
  <2> QED
    BY <2>1
<1>2. d \in [1..w -> Bytes]
  <2> DEFINE k == 0
  <2>1. k \in Nat /\ k <= w /\ w - k = w /\ k + 1 = 1
    BY <1>1
  <2> HIDE DEF k
  <2>2. SubSeq(s, k + 1, w) \in Seq(Bytes) /\ Len(SubSeq(s, k + 1, w)) = w - k
    BY <1>1, <2>1, PartIs
  <2>3. d \in Seq(Bytes) /\ Len(d) = w
    BY <2>1, <2>2
  <2> HIDE DEF d
  <2> QED
    BY <2>3, LenProperties
<1>3. Peek(buf, w) = d
  BY <1>1, <1>0, PeekIs
<1>4. v = PeekInt(buf, w)
  BY <1>3 DEF PeekInt
<1>5. Does("readInt", w, v, RetrieveFrom(buf, w))
  BY <1>4 DEF ReadInt
<1>6. v \in 0..(Base ^ w - 1) /\ String!BigEndian(v, w) = d
  BY <1>2, IntegerRead
<1>7. (IF w < Len(s) THEN w ELSE Len(s)) = w
  BY <1>1
<1>8. Leaves(RetrieveFrom(buf, w), String!From(w))
  BY <1>1, <1>7, RetrieveIs DEF String!From
<1> HIDE DEF v
<1>9. IndicesSane' /\ String!Does("readInt", w, v, String!From(w))
  BY <1>5, <1>8, TakesIs DEF Takes
<1>10. v < Base ^ w
  <2> DEFINE p == Base ^ w
  <2>1. p \in Nat /\ v \in 0..(p - 1)
    BY <1>1, <1>6, PowerIs
  <2> HIDE DEF p
  <2>2. v < p
    BY <2>1
  <2> QED
    BY <2>2 DEF p
<1>11. String!ReadInt(v, w)
  BY <1>1, <1>6, <1>9, <1>10 DEF String!ReadInt, String!IsValue, String!FirstOf
<1> QED
  BY <1>6, <1>9, <1>11

-----------------------------------------------------------------------------
(* The theorems *)

\* Every call keeps the invariant and is a call of the string.
LEMMA NextIs ==
  ASSUME IndicesSane, BufferNext
  PROVE  IndicesSane' /\ String!Next
<1>1. ASSUME NEW d \in Data, Append_(d) PROVE IndicesSane' /\ String!Next
  BY <1>1, AppendStep DEF String!Next
<1>2. ASSUME NEW d \in Data, AddInFront(d) PROVE IndicesSane' /\ String!Next
  BY <1>2, AddInFrontStep DEF String!Next
<1>3. ASSUME NEW d \in Data, ReadFd(d) PROVE IndicesSane' /\ String!Next
  BY <1>3, ReadFdStep DEF String!Next
<1>4. ASSUME NEW d \in Data, Find(d) PROVE IndicesSane' /\ String!Next
  BY <1>4, FindStep DEF String!Next
<1>5. ASSUME NEW d \in Data, NEW n \in InitLens, Swap(n, d) PROVE IndicesSane' /\ String!Next
  BY <1>5, SwapStep DEF String!Next
<1>6. ASSUME NEW w \in Widths, ReadInt(w) PROVE IndicesSane' /\ String!Next
  BY <1>6, ReadIntStep DEF String!Next
<1>7. ASSUME NEW w \in Widths, NEW v \in 0..(Base ^ w - 1), AppendInt(v, w)
      PROVE  IndicesSane' /\ String!Next
  BY <1>7, AppendIntStep DEF String!Next
<1>8. ASSUME NEW w \in Widths, NEW v \in 0..(Base ^ w - 1), AddInFrontInt(v, w)
      PROVE  IndicesSane' /\ String!Next
  BY <1>8, AddInFrontIntStep DEF String!Next
<1>9. ASSUME NEW n \in Lens, Retrieve(n) PROVE IndicesSane' /\ String!Next
  BY <1>9, RetrieveStep DEF String!Next
<1>10. ASSUME NEW n \in Lens, Read(n) PROVE IndicesSane' /\ String!Next
  BY <1>10, ReadStep DEF String!Next
<1>11. ASSUME NEW n \in Lens, Unwrite(n) PROVE IndicesSane' /\ String!Next
  BY <1>11, UnwriteStep DEF String!Next
<1> QED
  BY <1>1, <1>2, <1>3, <1>4, <1>5, <1>6, <1>7, <1>8, <1>9, <1>10, <1>11 DEF BufferNext

\* After any sequence of calls, whatever the base, the widths, the bytes kept free
\* and the lengths buffers are made with, head_ and tail_ are inside buffer_, which
\* has never been cut; or the last call has emptied a buffer made with fewer bytes
\* than are kept free in front, and both are behind its end.
THEOREM IndicesInside == BufferSpec => []IndicesSane
<1>1. BufferInit => IndicesSane
  BY InitIs
<1>2. IndicesSane /\ [BufferNext]_bufferVars => IndicesSane'
  <2> SUFFICES ASSUME IndicesSane, [BufferNext]_bufferVars PROVE IndicesSane'
    OBVIOUS
  <2>1. CASE BufferNext
    BY <2>1, NextIs
  <2>2. CASE UNCHANGED bufferVars
    BY <2>2 DEF bufferVars, IndicesSane, BufferTypeOK, Whole, Inside, CutShort
  <2> QED
    BY <2>1, <2>2
<1> QED
  BY <1>1, <1>2, PTL DEF BufferSpec

\* MsgBuffer implements a string of bytes: what append, addInFront, readFd,
\* retrieve, read, unwrite, swap, find and the integer calls do and return is
\* what they do to that string, however the vector is moved, grown and cut.
THEOREM BufferIsString == BufferSpec => ImplementsByteString
<1>1. BufferInit => String!Init
  BY InitIs
<1>2. IndicesSane /\ [BufferNext]_bufferVars => [String!Next]_String!vars
  <2> SUFFICES ASSUME IndicesSane, [BufferNext]_bufferVars PROVE [String!Next]_String!vars
    OBVIOUS
  <2>1. CASE BufferNext
    BY <2>1, NextIs
  <2>2. CASE UNCHANGED bufferVars
    <3>1. Readable(buf)' = Readable(buf) /\ call' = call
      BY <2>2 DEF bufferVars, Readable, Peek, ReadableBytes
    <3> QED
      BY <3>1 DEF String!vars
  <2> QED
    BY <2>1, <2>2
<1> QED
  BY <1>1, <1>2, IndicesInside, PTL DEF BufferSpec, ImplementsByteString, String!Spec

=============================================================================

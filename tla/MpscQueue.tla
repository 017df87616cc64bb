----------------------------- MODULE MpscQueue -----------------------------
(***************************************************************************)
(* cooper/util/LockFreeQueue.hpp: the lock-free multi-producer,            *)
(* single-consumer queue under the event loops and the log writer.         *)
(*                                                                         *)
(* A linked list of heap nodes.  Producers swap head_ and then link the    *)
(* previous head to their node; the consumer reads tail_->next_, moves the *)
(* item out of that node, makes it the new tail_ and frees the old one.    *)
(* Every atomic access is a step of its own.  A freed address may be       *)
(* handed out again by the next allocation.                                *)
(***************************************************************************)
EXTENDS Naturals, Sequences

CONSTANTS
    Threads,             \* the threads that hold a reference to the queue
    Producers,           \* those that call enqueue
    Consumers,           \* those that call dequeue and empty
    Nodes,               \* addresses a BufferNode can have
    Values,              \* items
    Null,                \* nullptr, and a pointer that holds nothing usable
    MaxEnq               \* bound: number of enqueue calls of a behaviour

ASSUME QueueAssumption ==
    /\ Producers \subseteq Threads
    /\ Consumers \subseteq Threads
    /\ Nodes # {}
    /\ Null \notin Nodes
    /\ Null \notin Values
    /\ MaxEnq \in Nat

VARIABLES
    head, tail,          \* head_, tail_
    next,                \* next_ of every node
    data,                \* *dataPtr_ of every node, Null when it has no item
    live,                \* the nodes that are allocated
    pc,                  \* where each thread is inside a queue operation
    node, prev,          \* enqueue's locals: node, prevhead
    ltail, lnext,        \* dequeue's locals: tail, next
    out,                 \* dequeue's output parameter
    ret,                 \* what the thread's last dequeue or empty returned
    phase,               \* life of the queue object
    order, log, taken    \* history: nodes and values in the order of the
                         \* exchanges, values in the order of the dequeues

vars == <<head, tail, next, data, live, pc, node, prev, ltail, lnext,
          out, ret, phase, order, log, taken>>

Steps == {"idle", "exchange", "link", "loadNext", "emptyNext", "take",
          "store", "delete"}

Ptr == Nodes \cup {Null}

TypeOK ==
    /\ head \in Nodes /\ tail \in Nodes
    /\ next \in [Nodes -> Ptr]
    /\ data \in [Nodes -> Values \cup {Null}]
    /\ live \in SUBSET Nodes
    /\ pc \in [Threads -> Steps]
    /\ node \in [Threads -> Ptr] /\ prev \in [Threads -> Ptr]
    /\ ltail \in [Threads -> Ptr] /\ lnext \in [Threads -> Ptr]
    /\ out \in [Threads -> Values \cup {Null}]
    /\ ret \in [Threads -> BOOLEAN]
    /\ phase \in {"open", "draining", "destroyed"}
    /\ order \in Seq(Nodes)
    /\ log \in Seq(Values)
    /\ taken \in Seq(Values)

\* The constructor: one node without an item is both head_ and tail_.
Init ==
    /\ head \in Nodes
    /\ tail = head
    /\ live = {head}
    /\ next = [n \in Nodes |-> Null]
    /\ data = [n \in Nodes |-> Null]
    /\ pc = [t \in Threads |-> "idle"]
    /\ node = [t \in Threads |-> Null] /\ prev = [t \in Threads |-> Null]
    /\ ltail = [t \in Threads |-> Null] /\ lnext = [t \in Threads |-> Null]
    /\ out = [t \in Threads |-> Null]
    /\ ret = [t \in Threads |-> FALSE]
    /\ phase = "open"
    /\ order = <<head>> /\ log = <<>> /\ taken = <<>>

Goto(t, from, to) ==
    /\ pc[t] = from
    /\ pc' = [pc EXCEPT ![t] = to]

-----------------------------------------------------------------------------
(* enqueue *)

NewNode(t, v) ==
    /\ Goto(t, "idle", "exchange")
    /\ \E n \in Nodes \ live :
          /\ live' = live \cup {n}
          /\ node' = [node EXCEPT ![t] = n]
          /\ next' = [next EXCEPT ![n] = Null]
          /\ data' = [data EXCEPT ![n] = v]
    /\ UNCHANGED <<head, tail, prev, ltail, lnext, out, ret, phase,
                   order, log, taken>>

\* The read and the write of head_ are one atomic step.
Exchange(t) ==
    /\ Goto(t, "exchange", "link")
    /\ prev' = [prev EXCEPT ![t] = head]
    /\ head' = node[t]
    /\ order' = Append(order, node[t])
    /\ log' = Append(log, data[node[t]])
    /\ UNCHANGED <<tail, next, data, live, node, ltail, lnext, out, ret,
                   phase, taken>>

\* Mutant: the previous head is never linked to the new node.
LinkForgotten(t) ==
    /\ Goto(t, "link", "idle")
    /\ UNCHANGED <<head, tail, next, data, live, node, prev, ltail, lnext, out,
                   ret, phase, order, log, taken>>

Link(t) ==
    /\ Goto(t, "link", "idle")
    /\ next' = [next EXCEPT ![prev[t]] = node[t]]
    /\ UNCHANGED <<head, tail, data, live, node, prev, ltail, lnext, out, ret,
                   phase, order, log, taken>>

-----------------------------------------------------------------------------
(* dequeue and empty *)

LoadTail(t, op) ==
    /\ Goto(t, "idle", op)
    /\ ltail' = [ltail EXCEPT ![t] = tail]
    /\ UNCHANGED <<head, tail, next, data, live, node, prev, lnext, out, ret,
                   phase, order, log, taken>>

LoadNext(t) ==
    LET n == next[ltail[t]] IN
    /\ Goto(t, "loadNext", IF n = Null THEN "idle" ELSE "take")
    /\ lnext' = [lnext EXCEPT ![t] = n]
    /\ ret' = [ret EXCEPT ![t] = n # Null]
    /\ UNCHANGED <<head, tail, next, data, live, node, prev, ltail, out,
                   phase, order, log, taken>>

\* Mutant: the item is moved out of the old tail instead of its successor.
TakeFromTail(t) ==
    /\ Goto(t, "take", "store")
    /\ out' = [out EXCEPT ![t] = data[ltail[t]]]
    /\ data' = [data EXCEPT ![ltail[t]] = Null]
    /\ UNCHANGED <<head, tail, next, live, node, prev, ltail, lnext, ret,
                   phase, order, log, taken>>

TakeData(t) ==
    /\ Goto(t, "take", "store")
    /\ out' = [out EXCEPT ![t] = data[lnext[t]]]
    /\ data' = [data EXCEPT ![lnext[t]] = Null]
    /\ UNCHANGED <<head, tail, next, live, node, prev, ltail, lnext, ret,
                   phase, order, log, taken>>

\* Mutant: tail_ jumps to the newest node instead of the next one.
StoreHeadAsTail(t) ==
    /\ Goto(t, "store", "delete")
    /\ tail' = head
    /\ taken' = Append(taken, out[t])
    /\ UNCHANGED <<head, next, data, live, node, prev, ltail, lnext, out, ret,
                   phase, order, log>>

StoreTail(t) ==
    /\ Goto(t, "store", "delete")
    /\ tail' = lnext[t]
    /\ taken' = Append(taken, out[t])
    /\ UNCHANGED <<head, next, data, live, node, prev, ltail, lnext, out, ret,
                   phase, order, log>>

\* Mutant: the node that has just become the tail is freed.
DeleteNext(t) ==
    /\ Goto(t, "delete", "idle")
    /\ live' = live \ {lnext[t]}
    /\ UNCHANGED <<head, tail, next, data, node, prev, ltail, lnext, out, ret,
                   phase, order, log, taken>>

\* Mutant: the old tail is not freed.
DeleteNothing(t) ==
    /\ Goto(t, "delete", "idle")
    /\ UNCHANGED <<head, tail, next, data, live, node, prev, ltail, lnext, out,
                   ret, phase, order, log, taken>>

DeleteTail(t) ==
    /\ Goto(t, "delete", "idle")
    /\ live' = live \ {ltail[t]}
    /\ UNCHANGED <<head, tail, next, data, node, prev, ltail, lnext, out, ret,
                   phase, order, log, taken>>

EmptyNext(t) ==
    /\ Goto(t, "emptyNext", "idle")
    /\ ret' = [ret EXCEPT ![t] = next[ltail[t]] = Null]
    /\ UNCHANGED <<head, tail, next, data, live, node, prev, ltail, lnext, out,
                   phase, order, log, taken>>

-----------------------------------------------------------------------------
(* The destructor, run by t when no other thread is inside an operation:   *)
(* dequeue until it returns false, then delete the node head_ points to.   *)

BeginDestroy(t) ==
    /\ phase = "open"
    /\ \A u \in Threads : pc[u] = "idle"
    /\ phase' = "draining"
    /\ ret' = [ret EXCEPT ![t] = TRUE]
    /\ UNCHANGED <<head, tail, next, data, live, pc, node, prev, ltail, lnext,
                   out, order, log, taken>>

DeleteFront(t) ==
    /\ phase = "draining"
    /\ pc[t] = "idle"
    /\ ~ret[t]
    /\ phase' = "destroyed"
    /\ live' = live \ {head}
    /\ UNCHANGED <<head, tail, next, data, pc, node, prev, ltail, lnext, out,
                   ret, order, log, taken>>

-----------------------------------------------------------------------------

Enqueue(t) ==
    /\ phase = "open"
    /\ Len(log) < MaxEnq
    /\ \E v \in Values : NewNode(t, v)

EnqueueStep(t) == Exchange(t) \/ Link(t)

Dequeue(t) ==
    /\ phase = "open" \/ (phase = "draining" /\ ret[t])
    /\ LoadTail(t, "loadNext")

Empty(t) ==
    /\ phase = "open"
    /\ LoadTail(t, "emptyNext")

DequeueStep(t) ==
    \/ LoadNext(t) \/ TakeData(t) \/ StoreTail(t) \/ DeleteTail(t)
    \/ EmptyNext(t)

Next ==
    \/ \E t \in Producers : Enqueue(t) \/ EnqueueStep(t)
    \/ \E t \in Consumers : Dequeue(t) \/ Empty(t) \/ DequeueStep(t)
                           \/ BeginDestroy(t) \/ DeleteFront(t)

Spec == Init /\ [][Next]_vars

\* Operations that have begun run to their end, and the consumer keeps asking
\* (doRunInLoopFuncs and flushAll call dequeue again and again, with calls of
\* empty in between, hence the strong fairness).
Fairness ==
    /\ \A t \in Producers : WF_vars(EnqueueStep(t))
    /\ \A t \in Consumers : SF_vars(Dequeue(t)) /\ WF_vars(DequeueStep(t))

FairSpec == Spec /\ Fairness

-----------------------------------------------------------------------------
(* Properties *)

\* "This method must be called in a single thread" (dequeue, line 52).
SingleConsumer == \A s, t \in Consumers : s = t

\* No thread ever dereferences, frees or moves from a node that is not
\* allocated, and dequeue moves from a node that still has its item: the
\* delete of the old tail (line 64) never pulls a node from under a producer
\* that has swapped head_ and not yet linked (line 39).
MemorySafe ==
    /\ \A t \in Threads :
          /\ pc[t] \in {"loadNext", "emptyNext", "take", "store", "delete"}
                => ltail[t] \in live
          /\ pc[t] \in {"take", "store", "delete"} => lnext[t] \in live
          /\ pc[t] = "take" => data[lnext[t]] # Null
          /\ pc[t] \in {"exchange", "link"} => node[t] \in live
          /\ pc[t] = "link" => prev[t] \in live
    /\ phase # "destroyed" => {head, tail} \subseteq live

\* dequeue hands out exactly the enqueued items, in the order in which their
\* producers swapped head_: none lost, duplicated or overtaken.
DeliveredInOrder ==
    /\ Len(taken) <= Len(log)
    /\ taken = SubSeq(log, 1, Len(taken))

\* When the consumer finds no item although some were enqueued, the item at
\* the front belongs to a producer that is still between line 38 and line 39:
\* an enqueue that has returned is hidden only by an earlier one that has not.
HiddenOnlyByPending ==
    (phase # "destroyed" /\ next[tail] = Null /\ Len(taken) < Len(log)
        /\ \A t \in Consumers : pc[t] \in {"idle", "loadNext", "emptyNext"})
      => \E t \in Producers : pc[t] = "link" /\ prev[t] = tail

\* The destructor hands back every node and has taken every item.
NothingLeaked ==
    phase = "destroyed" =>
      /\ live = {}
      /\ taken = log
      /\ \A n \in Nodes : data[n] = Null

\* Every item given to enqueue is eventually handed out by dequeue.
EventuallyDelivered ==
    \A i \in 1..MaxEnq : (Len(log) >= i) ~> (Len(taken) >= i)

-----------------------------------------------------------------------------
(* The queue implements FifoQueue: an exchange claims a place, the link    *)
(* makes the item visible, the store to tail_ takes it.                    *)

QueueItems ==
    [i \in 1..(Len(log) - Len(taken)) |->
        [val     |-> log[Len(taken) + i],
         visible |-> next[order[Len(taken) + i]] # Null]]

Fifo == INSTANCE FifoQueue WITH items <- QueueItems, delivered <- taken

\* Seen from outside the queue is a FIFO with two-step insertion.
ImplementsFifo == Fifo!FifoSpec
-----------------------------------------------------------------------------
(* The inductive invariant behind the safety properties, for one consumer. *)
(* The places First..Last of order hold the list as it is now.             *)

First == Len(taken) + 1
Last == Len(order)

\* tail_ and head_ are the ends of the list; no node is in it twice.
ListShape ==
    /\ Last = Len(log) + 1
    /\ Len(taken) <= Len(log)
    /\ tail = order[First]
    /\ head = order[Last]
    /\ \A i, j \in First..Last : order[i] = order[j] => i = j

\* t has put its node behind place i of the list and not yet linked it.
Linking(t, i) == pc[t] = "link" /\ prev[t] = order[i] /\ node[t] = order[i + 1]

\* A node points to the one behind it or waits for one producer's link.
ListLinks ==
    /\ next[head] = Null
    /\ \A i \in First..(Last - 1) :
          next[order[i]] # order[i + 1] =>
             next[order[i]] = Null /\ \E t \in Producers : Linking(t, i)
    /\ \A t \in Threads : pc[t] = "link" =>
          \E i \in First..(Last - 1) : Linking(t, i) /\ next[order[i]] = Null
    /\ \A t, u \in Threads :
          pc[t] = "link" /\ pc[u] = "link" /\ prev[t] = prev[u] => t = u

\* Who can be where.
Roles ==
    /\ \A t \in Threads : pc[t] \in {"exchange", "link"} =>
          t \in Producers /\ phase = "open"
    /\ \A t \in Threads :
          pc[t] \in {"loadNext", "emptyNext", "take", "store", "delete"} =>
             t \in Consumers /\ phase # "destroyed"
    /\ \A t \in Threads : pc[t] = "emptyNext" => phase = "open"

\* What the consumer has read is still so.
ConsumerView ==
    \A t \in Threads :
      /\ pc[t] \in {"loadNext", "emptyNext", "take", "store"} => ltail[t] = tail
      /\ pc[t] \in {"take", "store"} =>
            /\ First < Last
            /\ lnext[t] = order[First + 1] /\ next[tail] = order[First + 1]
      /\ pc[t] = "store" =>
            out[t] = log[First] /\ data[order[First + 1]] = Null
      /\ pc[t] = "delete" => lnext[t] = tail
      /\ pc[t] \in {"take", "store", "delete"} => ret[t]

\* The items that wait are those of the log, in its order, and nothing else
\* holds an item except the nodes that are about to be appended.
ListData ==
    /\ \A i \in 1..Len(taken) : taken[i] = log[i]
    /\ \A i \in (First + 1)..Last :
          \/ data[order[i]] = log[i - 1]
          \/ i = First + 1 /\ \E t \in Consumers : pc[t] = "store"
    /\ \A n \in Nodes : data[n] # Null =>
          \/ \E i \in (First + 1)..Last : n = order[i]
          \/ \E t \in Threads : pc[t] = "exchange" /\ node[t] = n

\* A node being built belongs to its producer alone.
NewNodes ==
    \A t \in Threads : pc[t] = "exchange" =>
      /\ node[t] \in live
      /\ next[node[t]] = Null /\ data[node[t]] # Null
      /\ \A i \in First..Last : node[t] # order[i]
      /\ \A u \in Threads : pc[u] = "exchange" /\ node[u] = node[t] => u = t

\* The old tail_ belongs to the consumer alone.
OldTail ==
    \A t \in Threads : pc[t] = "delete" =>
      /\ ltail[t] \in live
      /\ \A i \in First..Last : ltail[t] # order[i]
      /\ \A u \in Threads : pc[u] = "exchange" => node[u] # ltail[t]

\* Exactly the nodes of the list and those two kinds are allocated.
LiveNodes ==
    /\ phase # "destroyed" => \A i \in First..Last : order[i] \in live
    /\ \A n \in live :
          \/ phase # "destroyed" /\ \E i \in First..Last : n = order[i]
          \/ \E t \in Threads : pc[t] = "exchange" /\ node[t] = n
          \/ \E t \in Threads : pc[t] = "delete" /\ ltail[t] = n

\* A drained queue is empty.
Drained ==
    /\ phase = "draining" =>
          \A t \in Consumers : pc[t] = "idle" /\ ~ret[t] => First = Last
    /\ phase = "destroyed" => First = Last

\* The whole state of the list and of the threads in it, from which memory
\* safety, the order of delivery and the absence of leaks follow.
ListInvariant ==
    /\ ListShape /\ ListLinks /\ Roles /\ ConsumerView /\ ListData
    /\ NewNodes /\ OldTail /\ LiveNodes /\ Drained

IInv == TypeOK /\ ListInvariant
=============================================================================

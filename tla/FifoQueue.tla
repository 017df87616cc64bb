----------------------------- MODULE FifoQueue -----------------------------
(***************************************************************************)
(* What MpscQueue promises to its callers: a FIFO in which an item gets    *)
(* its place in one step (Claim) and becomes visible to the consumer in a  *)
(* later one (Publish).  Only the item at the front can be taken, and only *)
(* when it is visible: an item whose producer has not finished enqueue     *)
(* hides every item behind it.                                             *)
(***************************************************************************)
EXTENDS Naturals, Sequences

CONSTANT Values          \* the items callers may enqueue

VARIABLES
    items,               \* claimed, not yet taken: [val, visible], oldest first
    delivered            \* the values dequeue has handed out, in order

fifoVars == <<items, delivered>>

Item == [val : Values, visible : BOOLEAN]

FifoTypeOK == items \in Seq(Item) /\ delivered \in Seq(Values)

FifoInit == items = <<>> /\ delivered = <<>>

Claim(v) ==
    /\ items' = Append(items, [val |-> v, visible |-> FALSE])
    /\ UNCHANGED delivered

Publish(i) ==
    /\ ~items[i].visible
    /\ items' = [items EXCEPT ![i].visible = TRUE]
    /\ UNCHANGED delivered

\* The queue's empty(): nothing the consumer can take now.
NothingVisible(q) == ~(q # <<>> /\ q[1].visible)

Take ==
    /\ ~NothingVisible(items)
    /\ delivered' = Append(delivered, Head(items).val)
    /\ items' = Tail(items)

FifoNext ==
    \/ \E v \in Values : Claim(v)
    \/ \E i \in DOMAIN items : Publish(i)
    \/ Take

FifoSpec == FifoInit /\ [][FifoNext]_fifoVars
=============================================================================

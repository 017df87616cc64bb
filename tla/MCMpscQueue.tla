--------------------------- MODULE MCMpscQueue -----------------------------
(* Two producers, one of which is also the consumer, as in an event loop   *)
(* that queues work for itself while other threads do.                     *)
EXTENDS MpscQueue

CONSTANTS p1, c1, n1, n2, n3

MCProducers == {p1, c1}
MCThreads == {p1, c1}
MCConsumers == {c1}
MCNodes3 == {n1, n2, n3}
=============================================================================

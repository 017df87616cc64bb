--------------------------- MODULE MCConnTimeouts ---------------------------
(* Three wheels of two buckets for a timeout of five ticks, and thirds of  *)
(* a second: the least that shows a connection closed early.               *)
EXTENDS ConnTimeouts
=============================================================================

---------------------------- MODULE MCThreadPool ----------------------------
(* A pool with a few workers and one caller.                               *)
EXTENDS ThreadPool

CONSTANTS w1, w2, w3

MCWorkers == {w1, w2}
MCWorkers3 == {w1, w2, w3}
=============================================================================

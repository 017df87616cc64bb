------------------------- MODULE MCEventLoopThread --------------------------
(* An event loop, in an EventLoopThread or not, and two calling threads.   *)
EXTENDS EventLoopThread

CONSTANTS o, c

MCCallers == {o, c}
=============================================================================

---------------------------- MODULE MCTcpServer -----------------------------
(* One I/O loop beside the server's loop: both are given by the program    *)
(* and used in turn, or a pool of the server's own holds it.               *)
EXTENDS TcpServer

MCSetups == {[loops |-> <<"main", "io">>, own |-> FALSE, idle |-> TRUE],
             [loops |-> <<"io">>, own |-> TRUE, idle |-> FALSE],
             [loops |-> <<"io">>, own |-> TRUE, idle |-> TRUE]}
=============================================================================

-------------------------- MODULE MCTcpConnection ---------------------------
(* A connection used by its loop thread and by other threads.              *)
EXTENDS TcpConnection
=============================================================================

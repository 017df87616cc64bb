----------------------------- MODULE MCTcpClient ----------------------------
EXTENDS TcpClient

=============================================================================

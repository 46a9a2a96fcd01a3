---------------------------- MODULE MCTcpSession ----------------------------
EXTENDS TcpSession
=============================================================================

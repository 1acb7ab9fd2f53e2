----------------------------- MODULE MCTcpSplice ----------------------------
(* TcpSplice for TLC.                                                      *)
EXTENDS TcpSplice
=============================================================================

---------------------------- MODULE MCTcpServer ----------------------------
(* TcpServer for TLC: three clients of a process that has descriptors for   *)
(* two of them and reads two bytes at a time.  The first client sends up to *)
(* three bytes: they come in one to three reads, and a read may be full.    *)
EXTENDS TcpServer

Bytes == [c \in Clients |-> IF c = 1 THEN 3 ELSE 0]
=============================================================================

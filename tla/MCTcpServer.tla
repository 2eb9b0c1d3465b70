---------------------------- MODULE MCTcpServer ----------------------------
(* TcpServer for TLC: the connections are model values and interchangeable. *)
EXTENDS TcpServer, TLC

Symmetry == Permutations(Conns)
=============================================================================

------------------------------ MODULE MCTcpClient ------------------------------
(* Clients that differ in nothing but their name.                           *)
EXTENDS TcpClient, TLC

Symmetry == Permutations(Clients)
=============================================================================

----------------------------- MODULE MCTcpServer -----------------------------
(* A main loop with a pool of one or two io loops.                         *)
EXTENDS TcpServerStart, TLC

CONSTANTS io1, io2

OneLoop == <<io1>>
TwoLoops == <<io1, io2>>

Symmetry == Permutations(Clients)

=============================================================================

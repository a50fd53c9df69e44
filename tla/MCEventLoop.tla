----------------------------- MODULE MCEventLoop -----------------------------
(* Threads that call into one event loop, interchangeable.                 *)
EXTENDS EventLoop, TLC

Symmetry == Permutations(Threads)

=============================================================================

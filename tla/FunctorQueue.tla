---------------------------- MODULE FunctorQueue ----------------------------
(***************************************************************************)
(* What EventLoop::runInLoop promises to the other threads: a functor      *)
(* handed over is run at most once, in the order in which the loop         *)
(* accepted the functors, and only functors that were handed over are run. *)
(***************************************************************************)
EXTENDS Naturals, Sequences

CONSTANT Functors       \* what other threads may hand over

VARIABLES
  accepted,             \* every functor handed over so far, in order
  executed              \* every functor run so far, in order

queueVars == <<accepted, executed>>

Init ==
  /\ accepted = << >>
  /\ executed = << >>

Accept(f) ==
  /\ accepted' = Append(accepted, f)
  /\ UNCHANGED executed

Execute ==
  /\ Len(executed) < Len(accepted)
  /\ executed' = Append(executed, accepted[Len(executed) + 1])
  /\ UNCHANGED accepted

Next ==
  \/ \E f \in Functors : Accept(f)
  \/ Execute

Spec == Init /\ [][Next]_queueVars

=============================================================================

----------------------------- MODULE Selections -----------------------------
(***************************************************************************)
(* Numbers in their order, and what a sequence holds at chosen places.     *)
(***************************************************************************)
EXTENDS Integers, Sequences, FiniteSets

(* The numbers of a finite set, the smallest first.                        *)
InOrder(S) == [k \in 1..Cardinality(S) |-> CHOOSE i \in S : Cardinality({j \in S : j < i}) = k - 1]

(* The elements of a sequence at the places S.                             *)
Kept(seq, S) == LET places == InOrder(S) IN [k \in 1..Len(places) |-> seq[places[k]]]

=============================================================================

------------------------- MODULE ConnectionLifecycle -------------------------
(***************************************************************************)
(* What TcpServer and TcpConnection promise about every connection object, *)
(* threads and loops aside: it is created on a descriptor nobody owns, it  *)
(* is established at most once, closed at most once and only after it was  *)
(* established, and gives its descriptor back only after it was closed.    *)
(***************************************************************************)
CONSTANTS Conns, Fds

VARIABLES
  phase,            \* where each connection is in its life
  owns              \* the descriptor of each connection, while it lives

lifeVars == <<phase, owns>>

Init ==
  /\ phase = [c \in Conns |-> "none"]
  /\ owns = [c \in Conns |-> {}]

Move(c, from, to) ==
  /\ phase[c] = from
  /\ phase' = [phase EXCEPT ![c] = to]

Create(c) ==
  \E fd \in Fds :
    /\ \A d \in Conns : fd \notin owns[d]
    /\ owns' = [owns EXCEPT ![c] = {fd}]
    /\ Move(c, "none", "created")

Establish(c) == Move(c, "created", "established") /\ UNCHANGED owns

Close(c) == Move(c, "established", "closed") /\ UNCHANGED owns

(* Dropping the last references can release several connections at once.   *)
Release(C) ==
  /\ \A c \in C : phase[c] = "closed"
  /\ phase' = [c \in Conns |-> IF c \in C THEN "gone" ELSE phase[c]]
  /\ owns' = [c \in Conns |-> IF c \in C THEN {} ELSE owns[c]]

Next ==
  \/ \E c \in Conns : Create(c) \/ Establish(c) \/ Close(c)
  \/ \E C \in (SUBSET Conns) \ {{}} : Release(C)

Spec == Init /\ [][Next]_lifeVars

=============================================================================

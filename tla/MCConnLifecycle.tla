-------------------------- MODULE MCConnLifecycle --------------------------
(* Constants for checking ConnLifecycle on two event-loops. *)
EXTENDS ConnLifecycle, TLC

CONSTANTS c1, c2, c3, l1, l2

\* c1 and c2 share no loop; c3 shares c1's.
MCLoopOf == [c \in Conns |-> IF c = c2 THEN l2 ELSE l1]

\* The joins of each connection; two of c1 may run at the same time.
MCNoJoin == [c \in Conns |-> 0]
MCJoins == [c \in Conns |-> IF c = c1 THEN 2 ELSE 1]

MCSymmetry == Permutations(Workers) \cup Permutations(Users \ Banned)
                \cup Permutations(Rooms)
=============================================================================

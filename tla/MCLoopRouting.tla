--------------------------- MODULE MCLoopRouting ---------------------------
(* Two event-loops with a connection each, and two pool goroutines.  Loops are *)
(* swapped together with their connections.                                    *)
EXTENDS LoopRouting, TLC
CONSTANTS l1, l2, c1, c2, u1, u2, g1, g2
MCLoopOf == [c \in Conns |-> IF c = c2 THEN l2 ELSE l1]
Swap == (l1 :> l2) @@ (l2 :> l1) @@ (c1 :> c2) @@ (c2 :> c1)
SwapOrNot == {Swap, [x \in DOMAIN Swap |-> x]}
Symmetry == {s @@ p @@ q : s \in SwapOrNot, p \in Permutations(Pool), q \in Permutations(Users)}
=============================================================================

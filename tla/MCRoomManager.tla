--------------------------- MODULE MCRoomManager ---------------------------
(* Constants for checking RoomManager: c2 is on loop l2, the others on l1. *)
EXTENDS RoomManager, TLC

CONSTANTS c1, c2, c3, l1, l2, r1, r2

MCLoopOf == [c \in Conns |-> IF c = c2 THEN l2 ELSE l1]
MCObjs == 1..3

\* Under the contract three joins into one room, or one into each of two (the first
\* into r1, which loses nothing: the rooms are alike); two joins without.
Into(n, m) == [r \in Rooms |-> IF r = r1 THEN n ELSE m]
MCJoins ==
  [b \in BOOLEAN |-> {Into(n, 0) : n \in 0 .. IF b THEN 3 ELSE 2}
                       \cup IF b THEN {Into(1, 1)} ELSE {}]
=============================================================================

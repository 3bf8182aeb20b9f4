---------------------------- MODULE MCTextFilter ----------------------------
(* Up to four versions, in sizes that repeat; the third cannot be read. *)
EXTENDS TextFilter
MCSizeOf == [v \in Versions |-> 1 + (v % 2)]
=============================================================================

----------------------------- MODULE MCConsumer -----------------------------
(* A read timeout of two seconds and pauses of up to four. *)
EXTENDS Consumer
=============================================================================

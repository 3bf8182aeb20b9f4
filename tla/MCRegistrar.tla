---------------------------- MODULE MCRegistrar ----------------------------
(* Leases and heartbeats of a few seconds. *)
EXTENDS Registrar
=============================================================================

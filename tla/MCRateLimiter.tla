--------------------------- MODULE MCRateLimiter ---------------------------
(* The limiter on a small clock; users are independent, one does. *)
EXTENDS RateLimiter
=============================================================================

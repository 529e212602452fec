--------------------------- MODULE MCRateLimiter ---------------------------
(* Instances of RateLimiter for TLC. *)
EXTENDS RateLimiter, TLC

(* Clients have equal rights; only runs without liveness use this. *)
ClientSymmetry == Permutations(Clients)
=============================================================================

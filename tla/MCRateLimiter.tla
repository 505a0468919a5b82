-------------------------- MODULE MCRateLimiter --------------------------
(* Small instances of RateLimiter for TLC.                                 *)
EXTENDS RateLimiter, TLC

CONSTANTS p1, p2

MCOffset == (p1 :> 0) @@ (p2 :> Skew)
Symmetry == Permutations(Requests)
=============================================================================

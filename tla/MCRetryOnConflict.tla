------------------------- MODULE MCRetryOnConflict -------------------------
(* Small instances of RetryOnConflict for TLC: no symmetry, liveness is    *)
(* checked in the same run.                                                *)
EXTENDS RetryOnConflict
=============================================================================

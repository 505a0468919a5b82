--------------------------- MODULE MCCacheAside ---------------------------
(* Small instances of CacheAside for TLC: no symmetry, liveness is checked *)
(* in the same run.                                                        *)
EXTENDS CacheAside
===========================================================================

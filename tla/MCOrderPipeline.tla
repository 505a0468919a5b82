-------------------------- MODULE MCOrderPipeline --------------------------
(* Small instances of OrderPipeline for TLC.                               *)
EXTENDS OrderPipeline, TLC

Symmetry == Permutations(Relays) \cup Permutations(Consumers)
=============================================================================

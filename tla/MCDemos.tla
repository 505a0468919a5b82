------------------------------ MODULE MCDemos ------------------------------
(* A small instance of Demos for TLC.                                      *)
EXTENDS Demos, TLC

AllScripts == {"duplicate", "dlq", "publish", "relay", "outbox", "workers"}

Symmetry == Permutations(Workers)
=============================================================================

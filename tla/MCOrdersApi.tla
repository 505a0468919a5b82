---------------------------- MODULE MCOrdersApi ----------------------------
(* Small instances of OrdersApi for TLC.                                   *)
EXTENDS OrdersApi, TLC

Symmetry == Permutations(Handlers) \cup Permutations(Keys)
            \cup Permutations(Readers) \cup Permutations(Sockets)
=============================================================================

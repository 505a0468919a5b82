---------------------------- MODULE MCCatalogue ----------------------------
(* Small instances of Catalogue for TLC.                                   *)
EXTENDS Catalogue

Limit(inserts, aborts, seeds, walks, added) ==
  [inserts |-> inserts, aborts |-> aborts, seeds |-> seeds, walks |-> walks, items |-> added]

(* Walks among inserts; walks and inserts around a seed; a seed and two    *)
(* clients at one order.                                                   *)
MCBudgets ==
  { Limit(3, 1, 0, 2, 0), Limit(5, 1, 2, 0, 0), Limit(2, 0, 1, 1, 0), Limit(0, 1, 2, 0, 4) }

MCLines == {<<1, 2>>, <<2, 1>>}
=============================================================================

----------------------------- MODULE MCCheckout -----------------------------
(* Small instances of Checkout for TLC.                                    *)
EXTENDS Checkout, TLC

(* Prices differ from quantities, so money and stock cannot be confused.   *)
MCPrice == [p \in Products |-> 2]
MCStock == [p \in Products |-> 2]
MCLastItem == [p \in Products |-> 1]
MCQuantities == {-1, 1, 2}
MCBalance == [u \in Users |-> 5]

Symmetry == Permutations(Handlers) \cup Permutations(OrderIds)
            \cup Permutations(Keys)
=============================================================================

---------------------------- MODULE RedisClock ----------------------------
(* What SessionStore and RatingQueue share: the clock of Redis in seconds, *)
(* and how often each thing may still happen, which bounds a behaviour.    *)
EXTENDS Integers

VARIABLES clock, left

Spend(k) == left[k] > 0 /\ left' = [left EXCEPT ![k] = @ - 1]
=============================================================================

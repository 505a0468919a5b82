------------------------------ MODULE PickOnce ------------------------------
(***************************************************************************)
(* What the way from the outbox to the warehouse promises, with no relay,  *)
(* broker or consumer in sight: a placed order gets its picking task once. *)
(* The detailed module OrderPipeline implements this one.                  *)
(***************************************************************************)
CONSTANT Orders

VARIABLES placed,   \* orders committed with their outbox row
          tasks     \* how many picking tasks each order has

pickVars == <<placed, tasks>>

Init == placed = {} /\ tasks = [o \in Orders |-> 0]

Place(o) ==
  /\ o \notin placed
  /\ placed' = placed \cup {o}
  /\ UNCHANGED tasks

Pick(o) ==
  /\ o \in placed
  /\ tasks[o] = 0
  /\ tasks' = [tasks EXCEPT ![o] = 1]
  /\ UNCHANGED placed

Next == \E o \in Orders : Place(o) \/ Pick(o)

Spec == Init /\ [][Next]_pickVars
=============================================================================

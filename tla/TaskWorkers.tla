---------------------------- MODULE TaskWorkers ----------------------------
(***************************************************************************)
(* The pool of post-processing workers (demo-workers.ts): each takes the   *)
(* first free pending task with FOR UPDATE SKIP LOCKED, works with the     *)
(* transaction open, and commits result and status together.  A worker     *)
(* gives up after IdleRetries empty rounds in a row, and for good when a   *)
(* transaction of its throws or its process dies.                          *)
(***************************************************************************)
EXTENDS Integers

CONSTANTS Tasks,        \* ids of the tasks table
          Late,         \* tasks that a checkout inserts while the pool runs
          Workers, None,
          IdleRetries,
          MaxFaults     \* bound: transactions that fail

ASSUME WorkersAssumption ==
  /\ Tasks \subseteq Nat
  /\ Late \subseteq Tasks
  /\ None \notin Tasks
  /\ Workers # {}
  /\ IdleRetries \in Nat \ {0}
  /\ MaxFaults \in Nat

VARIABLES status, processed,   \* columns of tasks
          pc, task,            \* per worker: where it is, the row it locked
          idleInARow,
          faults

vars == <<status, processed, pc, task, idleInARow, faults>>

Init ==
  /\ status = [t \in Tasks |-> IF t \in Late THEN "none" ELSE "pending"]
  /\ processed = [t \in Tasks |-> 0]
  /\ pc = [w \in Workers |-> "claim"]
  /\ task = [w \in Workers |-> None]
  /\ idleInARow = [w \in Workers |-> 0]
  /\ faults = 0

(* COMMIT of a checkout: its task appears.                                 *)
Enqueue(t) ==
  /\ status[t] = "none"
  /\ status' = [status EXCEPT ![t] = "pending"]
  /\ UNCHANGED <<processed, pc, task, idleInARow, faults>>

(* Mutant: no row lock, every pending task is free.                        *)
FreeUnlocked(t) == status[t] = "pending"

Free(t) == status[t] = "pending" /\ \A w \in Workers : task[w] # t

(* SELECT ... WHERE status = 'pending' ORDER BY id FOR UPDATE SKIP LOCKED  *)
(* LIMIT 1, in SQL or by the query builder.                                *)
Claim(w) ==
  /\ pc[w] = "claim"
  /\ \E t \in Tasks :
       /\ Free(t)
       /\ \A u \in Tasks : Free(u) => t <= u
       /\ task' = [task EXCEPT ![w] = t]
  /\ pc' = [pc EXCEPT ![w] = "work"]
  /\ UNCHANGED <<status, processed, idleInARow, faults>>

(* Nothing is free now: one idle round, the last of which ends the worker. *)
Idle(w) ==
  /\ pc[w] = "claim"
  /\ \A t \in Tasks : ~Free(t)
  /\ idleInARow' = [idleInARow EXCEPT ![w] = @ + 1]
  /\ pc' = IF idleInARow[w] + 1 = IdleRetries THEN [pc EXCEPT ![w] = "stopped"]
           ELSE pc
  /\ UNCHANGED <<status, processed, task, faults>>

(* Mutant: "return" where the loop should go on.                           *)
FinishAndStop(w) ==
  /\ pc[w] = "work"
  /\ status' = [status EXCEPT ![task[w]] = "done"]
  /\ processed' = [processed EXCEPT ![task[w]] = @ + 1]
  /\ pc' = [pc EXCEPT ![w] = "stopped"]
  /\ task' = [task EXCEPT ![w] = None]
  /\ UNCHANGED <<idleInARow, faults>>

(* UPDATE tasks SET status = 'done', processed = processed + 1; COMMIT.    *)
Finish(w) ==
  /\ pc[w] = "work"
  /\ status' = [status EXCEPT ![task[w]] = "done"]
  /\ processed' = [processed EXCEPT ![task[w]] = @ + 1]
  /\ pc' = [pc EXCEPT ![w] = "claim"]
  /\ task' = [task EXCEPT ![w] = None]
  /\ idleInARow' = [idleInARow EXCEPT ![w] = 0]
  /\ UNCHANGED faults

(* The work, a statement or COMMIT fails, or the process dies: the lock is *)
(* gone, the task is as it was, and runWorker ends.                        *)
Fails(w) ==
  /\ pc[w] # "stopped"
  /\ faults < MaxFaults
  /\ faults' = faults + 1
  /\ pc' = [pc EXCEPT ![w] = "stopped"]
  /\ task' = [task EXCEPT ![w] = None]
  /\ UNCHANGED <<status, processed, idleInARow>>

Next ==
  \/ \E t \in Tasks : Enqueue(t)
  \/ \E w \in Workers : Claim(w) \/ Idle(w) \/ Finish(w) \/ Fails(w)

Spec == Init /\ [][Next]_vars

----------------------------------------------------------------------------
(* Properties.                                                             *)

(* "Each task is processed exactly once": the counter that demo:workers    *)
(* looks at is 1 for a task that is done and 0 for any other, whoever      *)
(* raced for it and whoever died with it in hand.                          *)
ProcessedOnce ==
  \A t \in Tasks : processed[t] = IF status[t] = "done" THEN 1 ELSE 0

(* The pool as a whole does not stop early: the workers' private idle      *)
(* counters never strand a task that was there from the start, unless a    *)
(* worker failed.                                                          *)
NoTaskStranded ==
  (\A w \in Workers : pc[w] = "stopped") /\ faults = 0
    => \A t \in Tasks \ Late : status[t] = "done"

(* Both.                                                                   *)
PoolIsFair == ProcessedOnce /\ NoTaskStranded
=============================================================================

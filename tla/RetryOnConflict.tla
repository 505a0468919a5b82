-------------------------- MODULE RetryOnConflict --------------------------
(***************************************************************************)
(* Transactions that read a balance, think, and write a new one            *)
(* (demo-retry.ts, readModifyWrite), wrapped in withRetry (retry.ts).      *)
(* Under REPEATABLE READ Postgres refuses, with 40001, to update a row     *)
(* that somebody committed after the snapshot.                             *)
(***************************************************************************)
EXTENDS Integers, FiniteSets

CONSTANTS Txs, None,
          Start,          \* START_BALANCE_CENTS in units of DECREMENT_CENTS
          MaxAttempts

ASSUME RetryAssumption ==
  /\ IsFiniteSet(Txs) /\ None \notin Txs
  /\ Start \in Nat
  /\ MaxAttempts \in Nat \ {0}

VARIABLES balance, version,   \* the row: its value, and how often it was committed
          lock,               \* the transaction that has updated it, or None
          pc, current, seen,  \* per transaction: value and version it has read
          attempt,
          committed           \* history: whose COMMIT the database has done

retryVars == <<balance, version, lock, pc, current, seen, attempt, committed>>

RetryInit ==
  /\ balance = Start /\ version = 0
  /\ lock = None
  /\ pc = [t \in Txs |-> "read"]
  /\ current = [t \in Txs |-> Start]
  /\ seen = [t \in Txs |-> 0]
  /\ attempt = [t \in Txs |-> 1]
  /\ committed = {}

Goto(t, l) == pc' = [pc EXCEPT ![t] = l]

(* BEGIN; SELECT, which takes the snapshot.                                *)
Read(t) ==
  /\ pc[t] = "read"
  /\ current' = [current EXCEPT ![t] = balance]
  /\ seen' = [seen EXCEPT ![t] = version]
  /\ Goto(t, "update")
  /\ UNCHANGED <<balance, version, lock, attempt, committed>>

(* UPDATE: waits for the row, and goes through if nobody changed it.       *)
Update(t) ==
  /\ pc[t] = "update" /\ lock = None
  /\ version = seen[t]
  /\ lock' = t
  /\ Goto(t, "commit")
  /\ UNCHANGED <<balance, version, current, seen, attempt, committed>>

(* Mutants: only the transaction's write is retried; an attempt too few.   *)
ConflictKeepsRead(t) ==
  /\ pc[t] = "update" /\ lock = None
  /\ version # seen[t]
  /\ IF attempt[t] < MaxAttempts
       THEN Goto(t, "update") /\ attempt' = [attempt EXCEPT ![t] = @ + 1]
       ELSE Goto(t, "exhausted") /\ UNCHANGED attempt
  /\ seen' = [seen EXCEPT ![t] = version]
  /\ UNCHANGED <<balance, version, lock, current, committed>>

ConflictOneLess(t) ==
  /\ pc[t] = "update" /\ lock = None
  /\ version # seen[t]
  /\ IF attempt[t] + 1 < MaxAttempts
       THEN Goto(t, "read") /\ attempt' = [attempt EXCEPT ![t] = @ + 1]
       ELSE Goto(t, "exhausted") /\ UNCHANGED attempt
  /\ UNCHANGED <<balance, version, lock, current, seen, committed>>

(* 40001: withRetry sleeps and starts all over, or rethrows.               *)
Conflict(t) ==
  /\ pc[t] = "update" /\ lock = None
  /\ version # seen[t]
  /\ IF attempt[t] < MaxAttempts
       THEN Goto(t, "read") /\ attempt' = [attempt EXCEPT ![t] = @ + 1]
       ELSE Goto(t, "exhausted") /\ UNCHANGED attempt
  /\ UNCHANGED <<balance, version, lock, current, seen, committed>>

(* Mutant: every error is retried.                                         *)
FailsAndRetries(t) ==
  /\ pc[t] \in {"read", "update", "commit"}
  /\ \/ UNCHANGED <<balance, version, committed>>
     \/ /\ pc[t] = "commit"
        /\ balance' = current[t] - 1 /\ version' = version + 1
        /\ committed' = committed \cup {t}
  /\ lock' = IF lock = t THEN None ELSE lock
  /\ attempt[t] < MaxAttempts
  /\ attempt' = [attempt EXCEPT ![t] = @ + 1]
  /\ Goto(t, "read")
  /\ UNCHANGED <<current, seen>>

(* Mutant: a failed transaction keeps its connection, and the lock.        *)
FailsKeepsLock(t) ==
  /\ pc[t] \in {"read", "update", "commit"}
  /\ Goto(t, "failed")
  /\ UNCHANGED <<balance, version, lock, current, seen, attempt, committed>>

(* COMMIT.                                                                 *)
Commit(t) ==
  /\ pc[t] = "commit"
  /\ balance' = current[t] - 1
  /\ version' = version + 1
  /\ committed' = committed \cup {t}
  /\ lock' = None
  /\ Goto(t, "done")
  /\ UNCHANGED <<current, seen, attempt>>

(* Any other error is rethrown at once.  A connection that breaks during   *)
(* COMMIT leaves open whether the database has done it.                    *)
Fails(t) ==
  /\ pc[t] \in {"read", "update", "commit"}
  /\ \/ UNCHANGED <<balance, version, committed>>
     \/ /\ pc[t] = "commit"
        /\ balance' = current[t] - 1 /\ version' = version + 1
        /\ committed' = committed \cup {t}
  /\ lock' = IF lock = t THEN None ELSE lock
  /\ Goto(t, "failed")
  /\ UNCHANGED <<current, seen, attempt>>

Step(t) == Read(t) \/ Update(t) \/ Conflict(t) \/ Commit(t)

RetryNext == \E t \in Txs : Step(t) \/ Fails(t)

(* Postgres and Node run what they can run.                                *)
RetrySpec == RetryInit /\ [][RetryNext]_retryVars
FairSpec == RetrySpec /\ \A t \in Txs : WF_retryVars(Step(t))

----------------------------------------------------------------------------
(* Properties.                                                             *)

TypeOK ==
  /\ balance \in Int /\ version \in Nat
  /\ lock \in Txs \cup {None}
  /\ pc \in [Txs -> {"read", "update", "commit", "done", "failed", "exhausted"}]
  /\ current \in [Txs -> Int] /\ seen \in [Txs -> Nat]
  /\ attempt \in [Txs -> 1 .. MaxAttempts]
  /\ committed \subseteq Txs

(* Phase B of demo:retry: every committed decrement is in the balance,     *)
(* exactly once, however the attempts interleaved and failed.              *)
NoLostUpdate == balance = Start - Cardinality(committed)

(* Whoever was told "done" has committed, and nobody who was told that the *)
(* attempts are used up has.                                               *)
OutcomeIsTrue ==
  \A t \in Txs :
    /\ pc[t] = "done" => t \in committed
    /\ pc[t] \notin {"done", "failed"} => t \notin committed

(* Every 40001 is somebody else's success: a caller is told that the       *)
(* attempts are used up only when that many others have committed.         *)
ExhaustedByOthers ==
  \A t \in Txs :
    pc[t] = "exhausted" => MaxAttempts <= Cardinality(committed \ {t})

(* Every transaction gets an outcome.                                      *)
EveryTxEnds == \A t \in Txs : <>(pc[t] \in {"done", "failed", "exhausted"})
=============================================================================

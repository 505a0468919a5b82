---------------------------- MODULE RatingQueue ----------------------------
(***************************************************************************)
(* The queue of redis/queue.ts: its job options, its handler, and what     *)
(* BullMQ does with them.  Jobs have a jobId.  A worker here is one of the *)
(* slots of the Worker (concurrency: 2) of a process of demo-queue.ts,     *)
(* which nothing starts again, and which begins by emptying the queue.     *)
(***************************************************************************)
EXTENDS RedisClock

CONSTANTS Jobs,          \* values of jobId
          Workers,       \* slots of the Worker
          FailTimes,     \* failTimes of a job
          Attempts,      \* attempts
          Retain         \* RETAIN_COMPLETED_SECONDS

ASSUME QueueAssumption ==
  /\ {"none", "gone"} \cap Jobs = {}
  /\ Attempts \in Nat \ {0} /\ Retain \in Nat /\ FailTimes \in [Jobs -> Nat]

VARIABLES job,           \* the hash of a job and the list it is in
          worker,        \* the job of a slot and the number of the attempt
          fresh,         \* the process was started and has not emptied the queue
          doneAt,        \* history: when the job was completed last, or -1
          dropped        \* history: jobs taken out by hand, or lost by Redis

MaxStalled == 1

(* since is the timestamp of the add, and finishedOn in the end.           *)
JobAt(at, since) == [at |-> at, made |-> 0, stalled |-> 0, owner |-> "none", since |-> since]
NoJob == JobAt("none", 0)
Idle == [job |-> "none", attempt |-> 0]
Gone == [job |-> "gone", attempt |-> 0]

jobVars == <<job, doneAt, dropped>>

Serving == \E w \in Workers : worker[w] # Gone

QueueInit ==
  /\ job = [j \in Jobs |-> NoJob]
  /\ worker = [w \in Workers |-> Idle]
  /\ fresh = FALSE
  /\ doneAt = [j \in Jobs |-> -1]
  /\ dropped = {}

(* add(): a jobId that is there, in whatever state, makes no new job.      *)
Add(j) ==
  IF job[j].at # "none" THEN UNCHANGED jobVars
  ELSE /\ job' = [job EXCEPT ![j] = JobAt("waiting", clock)]
       /\ dropped' = dropped \ {j}
       /\ UNCHANGED doneAt

(* remove(): refused, and the refusal swallowed, while a worker has it.    *)
Remove(j) ==
  IF job[j].owner # "none" \/ job[j].at = "none" THEN UNCHANGED jobVars
  ELSE /\ job' = [job EXCEPT ![j] = NoJob]
       /\ doneAt' = [doneAt EXCEPT ![j] = -1]
       /\ dropped' = dropped \cup {j}

----------------------------------------------------------------------------
(* Mutant: a counter in the process, which a restart sets back.            *)
AttemptOfProcess(j) == 1

Attempt(j) == job[j].made + 1

Take(w, j) ==
  /\ worker[w] = Idle /\ job[j].at = "waiting"
  /\ job' = [job EXCEPT ![j].at = "active", ![j].owner = w]
  /\ worker' = [worker EXCEPT ![w] = [job |-> j, attempt |-> Attempt(j)]]
  /\ UNCHANGED <<left, fresh, doneAt, dropped>>

(* Jobs that finished more than Retain ago go when another one finishes    *)
(* the same way.                                                           *)
Swept(jobs, at) ==
  [j \in Jobs |-> IF jobs[j].at = at /\ jobs[j].since + Retain <= clock THEN NoJob ELSE jobs[j]]

Finished(j, at) ==
  Swept([job EXCEPT ![j].at = at, ![j].made = @ + 1, ![j].owner = "none", ![j].since = clock], at)

(* Mutant: removeOnComplete: true.                                         *)
CompletedAndRemoved(j) == [job EXCEPT ![j] = NoJob]

Completed(j) == Finished(j, "completed")

Failed(j) ==
  IF job[j].made + 1 >= Attempts THEN Finished(j, "failed")
  ELSE [job EXCEPT ![j] = [at |-> "delayed", made |-> @.made + 1, stalled |-> @.stalled,
                           owner |-> "none", since |-> @.since]]

(* The handler returns or throws; who has lost the lock is not heard.      *)
Finish(w) ==
  LET j == worker[w].job IN
  /\ worker[w] \notin {Idle, Gone}
  /\ worker' = [worker EXCEPT ![w] = Idle]
  /\ IF job[j].at # "active" \/ job[j].owner # w THEN UNCHANGED <<job, doneAt>>
     ELSE IF worker[w].attempt <= FailTimes[j]
     THEN job' = Failed(j) /\ UNCHANGED doneAt
     ELSE job' = Completed(j) /\ doneAt' = [doneAt EXCEPT ![j] = clock]
  /\ UNCHANGED <<left, fresh, dropped>>

(* A Worker moves the delayed jobs that are due.                           *)
BackoffEnds(j) ==
  /\ job[j].at = "delayed" /\ Serving
  /\ job' = [job EXCEPT ![j].at = "waiting"]
  /\ UNCHANGED <<left, worker, fresh, doneAt, dropped>>

WorkerDies ==
  /\ Serving /\ Spend("stalls")
  /\ worker' = [w \in Workers |-> Gone] /\ fresh' = FALSE
  /\ UNCHANGED jobVars

(* Somebody runs the program again.                                        *)
WorkerStarts ==
  /\ ~Serving /\ Spend("starts")
  /\ worker' = [w \in Workers |-> Idle] /\ fresh' = TRUE
  /\ UNCHANGED jobVars

(* obliterate({ force: true }): also what is active.                       *)
Obliterate ==
  /\ fresh /\ fresh' = FALSE
  /\ job' = [j \in Jobs |-> NoJob]
  /\ doneAt' = [j \in Jobs |-> -1]
  /\ dropped' = dropped \cup {j \in Jobs : job[j].at # "none"}
  /\ UNCHANGED <<left, worker>>

(* The lock is not renewed: its worker has gone, or is too busy.           *)
LockExpires(j) ==
  /\ job[j].owner # "none" /\ worker[job[j].owner].job # j
  /\ job' = [job EXCEPT ![j].owner = "none"]
  /\ UNCHANGED <<left, worker, fresh, doneAt, dropped>>

LockLost(w) ==
  /\ worker[w] \notin {Idle, Gone} /\ job[worker[w].job].owner = w /\ Spend("stalls")
  /\ job' = [job EXCEPT ![worker[w].job].owner = "none"]
  /\ UNCHANGED <<worker, fresh, doneAt, dropped>>

(* A Worker finds a job in the active list that nobody has locked.         *)
StalledCheck(j) ==
  /\ job[j].at = "active" /\ job[j].owner = "none" /\ Serving
  /\ job' = IF job[j].stalled >= MaxStalled
            THEN [job EXCEPT ![j].at = "failed", ![j].stalled = @ + 1, ![j].since = clock]
            ELSE [job EXCEPT ![j].at = "waiting", ![j].stalled = @ + 1]
  /\ UNCHANGED <<left, worker, fresh, doneAt, dropped>>

----------------------------------------------------------------------------
(* Properties.                                                             *)

(* A jobId that was completed is not given to a worker again while the job *)
(* is retained, whoever adds it again or whose add is repeated, and        *)
(* whatever worker answers late; unless somebody took it out (or, in       *)
(* RedisQueue, Redis has lost the second in which it was completed).       *)
DoneOnce ==
  [][\A j \in Jobs, w \in Workers :
       doneAt[j] >= 0 /\ clock < doneAt[j] + Retain /\ worker'[w].job = j
         => worker[w].job = j]_<<worker, doneAt, clock>>

Settled(j) ==
  \/ job[j].at = "completed"
  \/ job[j].at = "failed" /\ (FailTimes[j] >= Attempts \/ job[j].stalled > MaxStalled)

(* As long as somebody runs a worker in the end, every job is completed,   *)
(* also one that fails twice first, whose worker dies or whose Redis is    *)
(* restarted between the attempts; it is given up only if it fails at      *)
(* every attempt or stalls twice, and it vanishes only if somebody takes   *)
(* it out or Redis loses the second in which it was added.                 *)
JobsEndWell ==
  []<>Serving => \A j \in Jobs : job[j].at # "none" ~> (Settled(j) \/ j \in dropped)
=============================================================================

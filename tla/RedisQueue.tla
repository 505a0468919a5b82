---------------------------- MODULE RedisQueue ----------------------------
(***************************************************************************)
(* The instance redis-queue, which keeps the sessions and the rating queue *)
(* (redis/connections.ts, demo-session.ts, demo-queue.ts, docker-compose): *)
(* clients whose commands are repeated after a lost connection             *)
(* (maxRetriesPerRequest: null), and an AOF that is synced every second    *)
(* (--appendfsync everysec), so that a restart goes back up to a second.   *)
(* Nothing is evicted (noeviction).                                        *)
(***************************************************************************)
EXTENDS SessionStore, RatingQueue

CONSTANTS Clients,       \* connections of pods and demos
          Lag,           \* how old the synced AOF may be
          Budgets        \* bound: how often each thing happens

Things == {"ticks", "creates", "touches", "destroys", "adds", "removes", "losses",
           "deaths", "stalls", "starts", "restarts"}

ASSUME RedisAssumption == Lag \in Nat /\ Budgets \subseteq [Things -> Nat]

VARIABLES call,          \* the command of a connection that is not answered yet
          known,         \* sessions whose id a client was told
          disk, syncedAt \* what the AOF gives back; when it was synced

store == <<key, expireAt, job>>
vars == <<clock, left, sessionVars, jobVars, worker, fresh, call, known, disk, syncedAt>>

NoCall == [op |-> "none", arg |-> "none", ran |-> FALSE]

Init ==
  /\ clock = 0 /\ left \in Budgets
  /\ SessionInit /\ QueueInit
  /\ call = [c \in Clients |-> NoCall]
  /\ known = {}
  /\ disk = store /\ syncedAt = 0

----------------------------------------------------------------------------
(* Clients.                                                                *)

Send(c, op, arg) ==
  /\ call[c] = NoCall
  /\ call' = [call EXCEPT ![c] = [op |-> op, arg |-> arg, ran |-> FALSE]]
  /\ UNCHANGED <<clock, sessionVars, jobVars, worker, fresh, known, disk, syncedAt>>

(* create() draws a fresh id.                                              *)
SendCreate(c, s) ==
  /\ s \notin known /\ key[s] = "absent" /\ seen[s] = {}
  /\ \A d \in Clients : call[d].arg # s
  /\ Spend("creates") /\ Send(c, "create", s)

SendTouch(c, s) == s \in known /\ Spend("touches") /\ Send(c, "touch", s)
SendDestroy(c, s) == s \in known /\ Spend("destroys") /\ Send(c, "destroy", s)

SendAdd(c, j) == Spend("adds") /\ Send(c, "add", j)
SendRemove(c, j) == Spend("removes") /\ Send(c, "remove", j)

(* The command reaches Redis.                                              *)
Run(c) ==
  LET op == call[c].op
      x == call[c].arg
  IN /\ op # "none" /\ ~call[c].ran
     /\ call' = [call EXCEPT ![c].ran = TRUE]
     /\ \/ op = "create" /\ Create(x) /\ UNCHANGED jobVars
        \/ op = "touch" /\ Touch(x) /\ UNCHANGED jobVars
        \/ op = "destroy" /\ Destroy(x) /\ UNCHANGED jobVars
        \/ op = "add" /\ Add(x) /\ UNCHANGED sessionVars
        \/ op = "remove" /\ Remove(x) /\ UNCHANGED sessionVars
     /\ UNCHANGED <<clock, left, worker, fresh, known, disk, syncedAt>>

Reply(c) ==
  /\ call[c].ran
  /\ known' = IF call[c].op = "create" THEN known \cup {call[c].arg} ELSE known
  /\ call' = [call EXCEPT ![c] = NoCall]
  /\ UNCHANGED <<clock, left, sessionVars, jobVars, worker, fresh, disk, syncedAt>>

(* ioredis sends what is not answered again over the next connection.      *)
ConnectionLost(c) ==
  /\ call[c].ran /\ Spend("losses")
  /\ call' = [call EXCEPT ![c].ran = FALSE]
  /\ UNCHANGED <<clock, sessionVars, jobVars, worker, fresh, known, disk, syncedAt>>

ClientDies(c) ==
  /\ call[c] # NoCall /\ Spend("deaths")
  /\ call' = [call EXCEPT ![c] = NoCall]
  /\ UNCHANGED <<clock, sessionVars, jobVars, worker, fresh, known, disk, syncedAt>>

----------------------------------------------------------------------------
(* Redis.                                                                  *)

Sync ==
  /\ left.restarts > 0 /\ <<disk, syncedAt>> # <<store, clock>>
  /\ disk' = store /\ syncedAt' = clock
  /\ UNCHANGED <<clock, left, sessionVars, jobVars, worker, fresh, call, known>>

(* Commands that were not answered are sent again to the new process.      *)
Restart ==
  /\ Spend("restarts")
  /\ key' = Unexpired(disk[1], disk[2], clock)
  /\ expireAt' = disk[2]
  /\ job' = disk[3]
  /\ call' = [c \in Clients |-> [call[c] EXCEPT !.ran = FALSE]]
  /\ seen' = [s \in Sessions |-> {t \in seen[s] : t + Lag < clock}]
  /\ doneAt' = [j \in Jobs |-> IF doneAt[j] + Lag < clock THEN doneAt[j] ELSE -1]
  /\ dropped' = {j \in Jobs : disk[3][j].at = "none" /\
                                (j \in dropped \/ (job[j].at # "none" /\ job[j].since + Lag >= clock))}
  /\ UNCHANGED <<clock, destroyedAt, worker, fresh, known, disk, syncedAt>>

Tick ==
  /\ Spend("ticks")
  /\ left.restarts > 0 => clock + 1 <= syncedAt + Lag
  /\ clock' = clock + 1
  /\ key' = Unexpired(key, expireAt, clock + 1)
  /\ UNCHANGED <<expireAt, seen, destroyedAt, jobVars, worker, fresh, call, known, disk, syncedAt>>

Working(A) == A /\ UNCHANGED <<clock, sessionVars, call, known, disk, syncedAt>>

Next ==
  \/ \E c \in Clients :
       \/ \E s \in Sessions : SendCreate(c, s) \/ SendTouch(c, s) \/ SendDestroy(c, s)
       \/ \E j \in Jobs : SendAdd(c, j) \/ SendRemove(c, j)
       \/ Run(c) \/ Reply(c) \/ ConnectionLost(c) \/ ClientDies(c)
  \/ \E w \in Workers :
       \/ \E j \in Jobs : Working(Take(w, j))
       \/ Working(Finish(w)) \/ Working(LockLost(w))
  \/ \E j \in Jobs : Working(BackoffEnds(j)) \/ Working(LockExpires(j)) \/ Working(StalledCheck(j))
  \/ Working(WorkerDies) \/ Working(WorkerStarts) \/ Working(Obliterate)
  \/ Sync \/ Restart \/ Tick

(* A worker that is alive runs, and the timers of BullMQ fire; nobody need *)
(* start a worker, and the lock of one that is alive need not be lost.     *)
Fairness ==
  /\ \A w \in Workers : WF_vars(Working(Finish(w)))
  /\ \A j \in Jobs :
       /\ WF_vars(Working(\E w \in Workers : Take(w, j)))
       /\ WF_vars(Working(BackoffEnds(j)))
       /\ WF_vars(Working(LockExpires(j)))
       /\ WF_vars(Working(StalledCheck(j)))

Spec == Init /\ [][Next]_vars /\ Fairness

----------------------------------------------------------------------------
(* Properties.                                                             *)

(* A session that its client knows and that was destroyed or has expired   *)
(* never has its user again, whatever touches of other tabs and pods       *)
(* arrive late or twice.  Only a restart of Redis brings one back, and     *)
(* only one that was destroyed in the second before it.                    *)
NeverBack ==
  [][\A s \in known :
       key[s] # "full" /\ key'[s] = "full" =>
         left'.restarts < left.restarts /\ destroyedAt[s] >= clock - Lag /\ destroyedAt[s] >= 0]_vars
=============================================================================

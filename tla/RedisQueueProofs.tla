------------------------- MODULE RedisQueueProofs -------------------------
(***************************************************************************)
(* StaysWhileActive, NeverBack and DoneOnce for every number of sessions,  *)
(* jobs, workers, clients, lost answers, deaths and restarts of Redis.     *)
(***************************************************************************)
EXTENDS RedisQueue, TLAPS

Key == {"absent", "partial", "full"}
Places == {"none", "waiting", "active", "delayed", "completed", "failed"}
Job == [at : Places, made : Nat, stalled : Nat, owner : Workers \cup {"none"}, since : Int]
Call == [op : {"none", "create", "touch", "destroy", "add", "remove"},
         arg : Sessions \cup Jobs \cup {"none"}, ran : BOOLEAN]

(* What the AOF holds of the keys.                                         *)
DiskKey == disk[1]
DiskExpire == disk[2]
DiskJob == disk[3]

SessionTypeOK ==
  /\ clock \in Nat /\ syncedAt \in Nat /\ syncedAt <= clock
  /\ left \in [Things -> Nat]
  /\ left.restarts > 0 => clock <= syncedAt + Lag
  /\ key \in [Sessions -> Key] /\ DiskKey \in [Sessions -> Key]
  /\ expireAt \in [Sessions -> Nat] /\ DiskExpire \in [Sessions -> Nat]
  /\ seen \in [Sessions -> SUBSET Nat]
  /\ destroyedAt \in [Sessions -> Int]

CallInv ==
  /\ known \subseteq Sessions
  /\ call \in [Clients -> Call]
  /\ \A c \in Clients :
       /\ call[c].op \in {"create", "touch", "destroy"} => call[c].arg \in Sessions
       /\ call[c].op \in {"add", "remove"} => call[c].arg \in Jobs

(* Nobody creates a session that is known, and no two clients the same.    *)
CreateInv ==
  \A c \in Clients : call[c].op = "create" =>
    /\ call[c].arg \notin known
    /\ \A d \in Clients : call[d].op = "create" /\ call[d].arg = call[c].arg => d = c

(* A session that is used does not expire for a TTL, and what the AOF has  *)
(* of it does not either.                                                  *)
SeenInv ==
  \A s \in Sessions : \A t \in seen[s] : clock < t + Ttl =>
    /\ key[s] = "full" /\ expireAt[s] >= t + Ttl
    /\ t < syncedAt => DiskKey[s] = "full" /\ DiskExpire[s] >= t + Ttl

(* A session that the AOF has and Redis has not was destroyed after the    *)
(* sync: no copy outlives the original.                                    *)
BackInv ==
  \A s \in Sessions :
    /\ DiskExpire[s] <= clock + Ttl
    /\ DiskKey[s] = "full" /\ DiskExpire[s] > clock =>
         IF key[s] = "full" THEN expireAt[s] >= DiskExpire[s]
                            ELSE destroyedAt[s] >= syncedAt

StoreInv == SeenInv /\ BackInv /\ \A s \in Sessions : expireAt[s] <= clock + Ttl

(* A job that is done lies in the list of completed jobs, at the AOF too.  *)
DoneInv ==
  /\ clock \in Nat
  /\ job \in [Jobs -> Job] /\ DiskJob \in [Jobs -> Job]
  /\ doneAt \in [Jobs -> Int]
  /\ \A w \in Workers : worker[w] \notin {Idle, Gone} => worker[w].job \in Jobs
  /\ DOMAIN worker = Workers
  /\ \A j \in Jobs : doneAt[j] >= 0 /\ clock < doneAt[j] + Retain =>
       /\ job[j].at = "completed" /\ job[j].since = doneAt[j]
       /\ doneAt[j] < syncedAt => DiskJob[j].at = "completed" /\ DiskJob[j].since = doneAt[j]

IInv == SessionTypeOK /\ CallInv /\ CreateInv /\ StoreInv /\ DoneInv

----------------------------------------------------------------------------

LEMMA InitInv == Init => IInv
<1>. SUFFICES ASSUME Init PROVE IInv
  OBVIOUS
<1>. USE RedisAssumption, SessionAssumption, QueueAssumption
         DEF Init, SessionInit, QueueInit, store, DiskKey, DiskExpire, DiskJob
<1>1. SessionTypeOK
  BY DEF SessionTypeOK, Key, Things
<1>2. CallInv /\ CreateInv
  BY DEF CallInv, CreateInv, NoCall, Call
<1>3. StoreInv
  BY DEF StoreInv, SeenInv, BackInv
<1>4. DoneInv
  BY DEF DoneInv, Job, Places, NoJob, JobAt
<1>. QED  BY <1>1, <1>2, <1>3, <1>4 DEF IInv

(* Only a restart spends a restart.                                        *)
LEMMA SpendIt ==
  ASSUME left \in [Things -> Nat], NEW k \in Things, Spend(k)
  PROVE  /\ left' \in [Things -> Nat]
         /\ left'.restarts <= left.restarts
         /\ k = "restarts" => left.restarts > 0 /\ left'.restarts < left.restarts
  BY DEF Spend, Things

----------------------------------------------------------------------------
(* Commands that are under way.                                            *)

LEMMA SendInv ==
  ASSUME CallInv, CreateInv, NEW c \in Clients,
         NEW op \in {"create", "touch", "destroy", "add", "remove"}, NEW x, Send(c, op, x),
         op \in {"create", "touch", "destroy"} => x \in Sessions,
         op \in {"add", "remove"} => x \in Jobs,
         op = "create" => x \notin known /\ \A d \in Clients : call[d].arg # x
  PROVE  CallInv' /\ CreateInv'
<1>1. /\ call[c] = NoCall /\ UNCHANGED known
      /\ call' = [call EXCEPT ![c] = [op |-> op, arg |-> x, ran |-> FALSE]]
  BY DEF Send
<1>2. [op |-> op, arg |-> x, ran |-> FALSE] \in Call
  BY DEF Call
<1>3. CallInv'
  BY <1>1, <1>2 DEF CallInv
<1>4. CreateInv'
  BY <1>1 DEF CreateInv, CallInv
<1>. QED  BY <1>3, <1>4

LEMMA LostReply ==
  ASSUME NEW k \in Call
  PROVE  /\ [k EXCEPT !.ran = FALSE] \in Call
         /\ [k EXCEPT !.ran = FALSE].op = k.op /\ [k EXCEPT !.ran = FALSE].arg = k.arg
  BY DEF Call

LEMMA NextCallInv == CallInv /\ CreateInv /\ [Next]_vars => CallInv' /\ CreateInv'
<1>. SUFFICES ASSUME CallInv, CreateInv, [Next]_vars
              PROVE  CallInv' /\ CreateInv'
  OBVIOUS
<1>1. ASSUME NEW c \in Clients, NEW s \in Sessions,
             SendCreate(c, s) \/ SendTouch(c, s) \/ SendDestroy(c, s)
      PROVE  CallInv' /\ CreateInv'
  BY <1>1, SendInv DEF SendCreate, SendTouch, SendDestroy
<1>2. ASSUME NEW c \in Clients, NEW j \in Jobs, SendAdd(c, j) \/ SendRemove(c, j)
      PROVE  CallInv' /\ CreateInv'
  BY <1>2, SendInv DEF SendAdd, SendRemove
<1>3. ASSUME NEW c \in Clients, Run(c) \/ ConnectionLost(c)
      PROVE  CallInv' /\ CreateInv'
  <2>1. PICK b \in BOOLEAN : call' = [call EXCEPT ![c].ran = b]
    BY <1>3 DEF Run, ConnectionLost
  <2>2. UNCHANGED known
    BY <1>3 DEF Run, ConnectionLost
  <2>3. /\ call' \in [Clients -> Call]
        /\ \A d \in Clients : call'[d].op = call[d].op /\ call'[d].arg = call[d].arg
    BY <2>1 DEF CallInv, Call
  <2>. QED  BY <2>2, <2>3 DEF CallInv, CreateInv
<1>4. ASSUME NEW c \in Clients, Reply(c) \/ ClientDies(c)
      PROVE  CallInv' /\ CreateInv'
  <2>1. call' = [call EXCEPT ![c] = NoCall] /\ NoCall \in Call
    BY <1>4 DEF Reply, ClientDies, NoCall, Call
  <2>2. known' = known \/ (call[c].op = "create" /\ known' = known \cup {call[c].arg})
    BY <1>4 DEF Reply, ClientDies
  <2>3. CallInv'
    <3>1. known' \subseteq Sessions
      BY <1>4, <2>2 DEF CallInv
    <3>2. call' \in [Clients -> Call]
      BY <2>1 DEF CallInv
    <3>. QED  BY <2>1, <3>1, <3>2 DEF CallInv, NoCall
  <2>4. CreateInv'
    BY <2>1, <2>2 DEF CreateInv, CallInv, NoCall
  <2>. QED  BY <2>3, <2>4
<1>5. CASE Restart
  <2>1. call' = [c \in Clients |-> [call[c] EXCEPT !.ran = FALSE]]
    BY <1>5 DEF Restart
  <2>2. /\ call' \in [Clients -> Call]
        /\ \A d \in Clients : call'[d].op = call[d].op /\ call'[d].arg = call[d].arg
    BY <2>1, LostReply DEF CallInv
  <2>3. UNCHANGED known
    BY <1>5 DEF Restart
  <2>. QED  BY <2>2, <2>3 DEF CallInv, CreateInv
<1>6. CASE UNCHANGED <<call, known>>
  BY <1>6 DEF CallInv, CreateInv
<1>7. ASSUME Sync \/ Tick \/ UNCHANGED vars
      PROVE  UNCHANGED <<call, known>>
  BY <1>7 DEF Sync, Tick, vars
<1>8. ASSUME \/ \E w \in Workers :
                  \/ \E j \in Jobs : Working(Take(w, j))
                  \/ Working(Finish(w)) \/ Working(LockLost(w))
             \/ \E j \in Jobs :
                  Working(BackoffEnds(j)) \/ Working(LockExpires(j)) \/ Working(StalledCheck(j))
             \/ Working(WorkerDies) \/ Working(WorkerStarts) \/ Working(Obliterate)
      PROVE  UNCHANGED <<call, known>>
  BY <1>8 DEF Working
<1>. QED  BY <1>1, <1>2, <1>3, <1>4, <1>5, <1>6, <1>7, <1>8 DEF Next

----------------------------------------------------------------------------
(* Sessions.                                                               *)

KeysInv == SessionTypeOK /\ StoreInv

(* What does not concern the keys only spends.                             *)
LEMMA SpendInv ==
  ASSUME KeysInv, UNCHANGED <<clock, sessionVars, disk, syncedAt>>,
         UNCHANGED left \/ \E k \in Things : Spend(k)
  PROVE  KeysInv'
<1>1. left' \in [Things -> Nat] /\ left'.restarts <= left.restarts
  <2>1. CASE UNCHANGED left
    BY <2>1 DEF KeysInv, SessionTypeOK, Things
  <2>2. CASE \E k \in Things : Spend(k)
    BY <2>2, SpendIt DEF KeysInv, SessionTypeOK
  <2>. QED  BY <2>1, <2>2
<1>2. left.restarts \in Nat /\ left'.restarts \in Nat
  BY <1>1 DEF KeysInv, SessionTypeOK, Things
<1>3. SessionTypeOK'
  BY <1>1, <1>2, RedisAssumption
     DEF KeysInv, SessionTypeOK, sessionVars, DiskKey, DiskExpire
<1>4. StoreInv'
  BY DEF KeysInv, StoreInv, SeenInv, BackInv, sessionVars, DiskKey, DiskExpire
<1>. QED  BY <1>3, <1>4 DEF KeysInv

LEMMA CommandInv ==
  ASSUME KeysInv, NEW s \in Sessions, Create(s) \/ Touch(s) \/ Destroy(s),
         UNCHANGED <<clock, left, disk, syncedAt>>
  PROVE  KeysInv'
<1>. USE SessionAssumption DEF KeysInv, SessionTypeOK, DiskKey, DiskExpire
<1>1. CASE Create(s)
  <2>1. SessionTypeOK'
    BY <1>1 DEF Create, Key
  <2>2. SeenInv'
    BY <1>1 DEF StoreInv, SeenInv, Create, Key
  <2>3. BackInv' /\ \A t \in Sessions : expireAt'[t] <= clock' + Ttl
    BY <1>1 DEF StoreInv, BackInv, Create, Key
  <2>. QED  BY <2>1, <2>2, <2>3 DEF StoreInv
<1>2. CASE Touch(s)
  <2>1. seen' \in [Sessions -> SUBSET Nat]
    BY <1>2 DEF Touch, Seen
  <2>2. key' \in [Sessions -> Key]
    BY <1>2 DEF Touch, Key
  <2>3. SessionTypeOK'
    BY <1>2, <2>1, <2>2 DEF Touch
  <2>4. SeenInv'
    BY <1>2 DEF StoreInv, SeenInv, Touch, Seen, Key
  <2>5. BackInv' /\ \A t \in Sessions : expireAt'[t] <= clock' + Ttl
    BY <1>2 DEF StoreInv, BackInv, Touch, Key
  <2>. QED  BY <2>3, <2>4, <2>5 DEF StoreInv
<1>3. CASE Destroy(s)
  <2>1. SessionTypeOK'
    BY <1>3 DEF Destroy, Key
  <2>2. SeenInv'
    BY <1>3 DEF StoreInv, SeenInv, Destroy, Key
  <2>3. BackInv' /\ \A t \in Sessions : expireAt'[t] <= clock' + Ttl
    BY <1>3 DEF StoreInv, BackInv, Destroy, Key
  <2>. QED  BY <2>1, <2>2, <2>3 DEF StoreInv
<1>. QED  BY <1>1, <1>2, <1>3

LEMMA SyncInv ==
  ASSUME KeysInv, Sync
  PROVE  KeysInv'
<1>. USE DEF KeysInv, SessionTypeOK, DiskKey, DiskExpire
<1>1. /\ DiskKey' = key /\ DiskExpire' = expireAt /\ syncedAt' = clock
      /\ UNCHANGED <<clock, left, key, expireAt, seen, destroyedAt>>
  BY DEF Sync, store, sessionVars
<1>2. SessionTypeOK'
  BY <1>1, RedisAssumption
<1>3. StoreInv'
  BY <1>1 DEF StoreInv, SeenInv, BackInv
<1>. QED  BY <1>2, <1>3

(* What was done more than Lag ago is at the AOF.                          *)
LEMMA RestartInv ==
  ASSUME KeysInv, Restart
  PROVE  KeysInv' /\ clock <= syncedAt + Lag /\ left'.restarts < left.restarts
<1>. USE RedisAssumption DEF KeysInv, SessionTypeOK
<1>1. /\ left' \in [Things -> Nat] /\ left.restarts > 0 /\ left'.restarts < left.restarts
      /\ clock <= syncedAt + Lag
  BY SpendIt DEF Restart, Things
<1>2. /\ key' = Unexpired(DiskKey, DiskExpire, clock) /\ expireAt' = DiskExpire
      /\ seen' = [s \in Sessions |-> {t \in seen[s] : t + Lag < clock}]
      /\ UNCHANGED <<clock, destroyedAt, disk, syncedAt>>
      /\ UNCHANGED <<DiskKey, DiskExpire>>
  BY DEF Restart, DiskKey, DiskExpire
<1>3. SessionTypeOK'
  <2>1. key' \in [Sessions -> Key]
    BY <1>2 DEF Unexpired, Key
  <2>2. seen' \in [Sessions -> SUBSET Nat]
    BY <1>2
  <2>. QED  BY <1>1, <1>2, <2>1, <2>2
<1>4. SeenInv'
  <2>. SUFFICES ASSUME NEW s \in Sessions, NEW t \in seen[s], t + Lag < clock, clock < t + Ttl
                PROVE  /\ key'[s] = "full" /\ DiskKey[s] = "full"
                       /\ DiskExpire[s] >= t + Ttl
    BY <1>2 DEF SeenInv
  <2>1. t \in Nat /\ t < syncedAt
    BY <1>1
  <2>2. DiskKey[s] = "full" /\ DiskExpire[s] >= t + Ttl
    BY <2>1 DEF StoreInv, SeenInv
  <2>3. ~(clock >= DiskExpire[s])
    BY <2>1, <2>2, SessionAssumption
  <2>. QED  BY <1>2, <2>2, <2>3 DEF Unexpired
<1>5. BackInv' /\ \A s \in Sessions : expireAt'[s] <= clock' + Ttl
  BY <1>2 DEF StoreInv, BackInv, Unexpired
<1>. QED  BY <1>1, <1>3, <1>4, <1>5 DEF StoreInv

LEMMA TickInv ==
  ASSUME KeysInv, Tick
  PROVE  KeysInv'
<1>. USE SessionAssumption, RedisAssumption DEF KeysInv, SessionTypeOK, DiskKey, DiskExpire
<1>1. left' \in [Things -> Nat] /\ left'.restarts <= left.restarts
  BY SpendIt DEF Tick, Things
<1>2. left.restarts \in Nat /\ left'.restarts \in Nat
  BY <1>1 DEF Things
<1>3. /\ key' = Unexpired(key, expireAt, clock + 1) /\ clock' = clock + 1
      /\ left.restarts > 0 => clock + 1 <= syncedAt + Lag
      /\ UNCHANGED <<expireAt, seen, destroyedAt, disk, syncedAt>>
  BY DEF Tick
<1>4. SessionTypeOK'
  BY <1>1, <1>2, <1>3 DEF Unexpired, Key
<1>5. SeenInv'
  BY <1>3 DEF StoreInv, SeenInv, Unexpired
<1>6. BackInv' /\ \A s \in Sessions : expireAt'[s] <= clock' + Ttl
  BY <1>3 DEF StoreInv, BackInv, Unexpired
<1>. QED  BY <1>4, <1>5, <1>6 DEF StoreInv

(* Steps of a worker or of BullMQ's timers.                                *)
BullStep ==
  \/ \E w \in Workers :
       \/ \E j \in Jobs : Take(w, j)
       \/ Finish(w) \/ LockLost(w)
  \/ \E j \in Jobs : BackoffEnds(j) \/ LockExpires(j) \/ StalledCheck(j)
  \/ WorkerDies \/ WorkerStarts \/ Obliterate

LEMMA BullSteps ==
  ASSUME \/ \E w \in Workers :
              \/ \E j \in Jobs : Working(Take(w, j))
              \/ Working(Finish(w)) \/ Working(LockLost(w))
         \/ \E j \in Jobs :
              Working(BackoffEnds(j)) \/ Working(LockExpires(j)) \/ Working(StalledCheck(j))
         \/ Working(WorkerDies) \/ Working(WorkerStarts) \/ Working(Obliterate)
  PROVE  /\ BullStep
         /\ UNCHANGED <<clock, sessionVars, call, known, disk, syncedAt>>
         /\ UNCHANGED left \/ \E k \in Things : Spend(k)
<1>1. BullStep /\ UNCHANGED <<clock, sessionVars, call, known, disk, syncedAt>>
  BY DEF Working, BullStep
<1>2. BullStep => UNCHANGED left \/ Spend("stalls") \/ Spend("starts")
  BY DEF BullStep, Take, Finish, LockLost, BackoffEnds, LockExpires, StalledCheck,
         WorkerDies, WorkerStarts, Obliterate
<1>. QED  BY <1>1, <1>2 DEF Things

LEMMA NextKeysInv ==
  ASSUME KeysInv, CallInv, [Next]_vars
  PROVE  KeysInv'
<1>. USE DEF Things
<1>1. ASSUME NEW c \in Clients, NEW s \in Sessions,
             SendCreate(c, s) \/ SendTouch(c, s) \/ SendDestroy(c, s)
      PROVE  KeysInv'
  BY <1>1, SpendInv DEF SendCreate, SendTouch, SendDestroy, Send
<1>2. ASSUME NEW c \in Clients, NEW j \in Jobs, SendAdd(c, j) \/ SendRemove(c, j)
      PROVE  KeysInv'
  BY <1>2, SpendInv DEF SendAdd, SendRemove, Send
<1>3. ASSUME NEW c \in Clients, Reply(c) \/ ConnectionLost(c) \/ ClientDies(c)
      PROVE  KeysInv'
  BY <1>3, SpendInv DEF Reply, ConnectionLost, ClientDies
<1>4. ASSUME NEW c \in Clients, Run(c)
      PROVE  KeysInv'
  <2>1. CASE call[c].op \in {"create", "touch", "destroy"}
    BY <1>4, <2>1, CommandInv DEF Run, CallInv
  <2>2. CASE call[c].op \in {"add", "remove"}
    BY <1>4, <2>2, SpendInv DEF Run
  <2>. QED  BY <1>4, <2>1, <2>2 DEF Run
<1>5. CASE UNCHANGED vars
  BY <1>5, SpendInv DEF vars
<1>. QED  BY <1>1, <1>2, <1>3, <1>4, <1>5, SyncInv, RestartInv, TickInv, BullSteps, SpendInv
          DEF Next

----------------------------------------------------------------------------
(* Jobs.                                                                   *)

(* The sweep takes only jobs that have been there for Retain.              *)
LEMMA FinishedInv ==
  ASSUME job \in [Jobs -> Job], NEW j \in Jobs, NEW at \in Places, clock \in Nat
  PROVE  /\ Finished(j, at) \in [Jobs -> Job]
         /\ clock < clock + Retain =>
              Finished(j, at)[j].at = at /\ Finished(j, at)[j].since = clock
         /\ \A i \in Jobs : i # j /\ clock < job[i].since + Retain => Finished(j, at)[i] = job[i]
<1>. DEFINE g == [job EXCEPT ![j].at = at, ![j].made = @ + 1, ![j].owner = "none", ![j].since = clock]
<1>1. g = [job EXCEPT ![j].at = at, ![j].made = @ + 1, ![j].owner = "none", ![j].since = clock]
  OBVIOUS
<1>2. Finished(j, at) = Swept(g, at)
  BY DEF Finished
<1>3. NoJob \in Job
  BY DEF NoJob, JobAt, Job, Places
<1>. HIDE DEF g
<1>4. /\ g \in [Jobs -> Job] /\ g[j].at = at /\ g[j].since = clock
      /\ \A i \in Jobs : i # j => g[i] = job[i]
  <2>1. g \in [Jobs -> Job]
    BY <1>1 DEF Job
  <2>2. g[j].at = at /\ g[j].since = clock /\ \A i \in Jobs : i # j => g[i] = job[i]
    BY <1>1 DEF Job
  <2>. QED  BY <2>1, <2>2
<1>5. /\ Swept(g, at) \in [Jobs -> Job]
      /\ \A i \in Jobs : clock < g[i].since + Retain => Swept(g, at)[i] = g[i]
  <2>1. Swept(g, at) = [i \in Jobs |-> IF g[i].at = at /\ g[i].since + Retain <= clock THEN NoJob ELSE g[i]]
    BY DEF Swept
  <2>2. \A i \in Jobs : g[i].since \in Int
    BY <1>4 DEF Job
  <2>3. \A i \in Jobs : clock < g[i].since + Retain => ~(g[i].since + Retain <= clock)
    BY <2>2, QueueAssumption
  <2>. QED  BY <1>3, <1>4, <2>1, <2>3
<1>. QED  BY <1>2, <1>4, <1>5

(* A step keeps DoneInv when it keeps the types and the jobs that are done *)
(* and retained.                                                           *)
Retained(j) == doneAt[j] >= 0 /\ clock < doneAt[j] + Retain

LEMMA KeepsDone ==
  ASSUME DoneInv, UNCHANGED <<clock, disk, syncedAt>>,
         syncedAt <= clock, syncedAt \in Nat,
         job' \in [Jobs -> Job], doneAt' \in [Jobs -> Int],
         DOMAIN worker' = Workers,
         \A w \in Workers : worker'[w] \notin {Idle, Gone} => worker'[w].job \in Jobs,
         \A j \in Jobs : Retained(j)' =>
           \/ Retained(j) /\ job'[j].at = job[j].at /\ job'[j].since = job[j].since
              /\ doneAt'[j] = doneAt[j]
           \/ doneAt'[j] = clock /\ job'[j].at = "completed" /\ job'[j].since = clock
  PROVE  DoneInv'
<1>1. UNCHANGED DiskJob
  BY DEF DiskJob
<1>2. ASSUME NEW j \in Jobs, Retained(j)'
      PROVE  /\ job'[j].at = "completed" /\ job'[j].since = doneAt'[j]
             /\ doneAt'[j] < syncedAt => DiskJob[j].at = "completed" /\ DiskJob[j].since = doneAt'[j]
  BY <1>2 DEF DoneInv, Retained
<1>. QED  BY <1>1, <1>2 DEF DoneInv, Retained

LEMMA TakeInv ==
  ASSUME DoneInv, SessionTypeOK, NEW w \in Workers, NEW j \in Jobs, Take(w, j),
         UNCHANGED <<clock, disk, syncedAt>>
  PROVE  DoneInv'
<1>1. /\ job[j].at = "waiting" /\ UNCHANGED doneAt
      /\ job' = [job EXCEPT ![j].at = "active", ![j].owner = w]
      /\ worker' = [worker EXCEPT ![w] = [job |-> j, attempt |-> Attempt(j)]]
  BY DEF Take
<1>2. job' \in [Jobs -> Job]
  <2>1. job \in [Jobs -> Job] /\ "active" \in Places
    BY DEF DoneInv, Places
  <2>. QED  BY <1>1, <2>1 DEF Job
<1>3. \A i \in Jobs : i # j => job'[i] = job[i]
  BY <1>1 DEF DoneInv
<1>4. DOMAIN worker' = Workers /\ \A v \in Workers : worker'[v] \notin {Idle, Gone} => worker'[v].job \in Jobs
  BY <1>1 DEF DoneInv
<1>5. ~Retained(j) /\ doneAt' \in [Jobs -> Int]
  BY <1>1 DEF DoneInv, Retained
<1>6. syncedAt <= clock /\ syncedAt \in Nat
  BY DEF SessionTypeOK
<1>7. \A i \in Jobs : Retained(i)' =>
        Retained(i) /\ job'[i].at = job[i].at /\ job'[i].since = job[i].since /\ doneAt'[i] = doneAt[i]
  BY <1>1, <1>3, <1>5 DEF Retained
<1>. QED  BY <1>2, <1>4, <1>5, <1>6, <1>7, KeepsDone

LEMMA FinishInv ==
  ASSUME DoneInv, SessionTypeOK, NEW w \in Workers, Finish(w),
         UNCHANGED <<clock, disk, syncedAt>>
  PROVE  DoneInv'
<1>1. PICK j \in Jobs : j = worker[w].job /\ worker' = [worker EXCEPT ![w] = Idle]
  BY DEF Finish, DoneInv
<1>2. DOMAIN worker' = Workers /\ \A v \in Workers : worker'[v] \notin {Idle, Gone} => worker'[v].job \in Jobs
  BY <1>1 DEF DoneInv
<1>3. syncedAt <= clock /\ syncedAt \in Nat /\ clock \in Nat
  BY DEF SessionTypeOK
<1>4. job \in [Jobs -> Job] /\ doneAt \in [Jobs -> Int] /\ {"completed", "failed", "delayed"} \subseteq Places
  BY DEF DoneInv, Places
<1>5. CASE UNCHANGED <<job, doneAt>>
  BY <1>2, <1>3, <1>4, <1>5, KeepsDone DEF Retained
<1>6. CASE /\ job[j].at = "active"
           /\ \/ job' = Finished(j, "failed") /\ UNCHANGED doneAt
              \/ job' = Finished(j, "completed") /\ doneAt' = [doneAt EXCEPT ![j] = clock]
  <2>1. job' \in [Jobs -> Job] /\ doneAt' \in [Jobs -> Int]
    BY <1>1, <1>3, <1>4, <1>6, FinishedInv
  <2>2. ASSUME NEW i \in Jobs, i # j, Retained(i)'
        PROVE  Retained(i) /\ job'[i] = job[i] /\ doneAt'[i] = doneAt[i]
    <3>1. doneAt'[i] = doneAt[i] /\ Retained(i)
      BY <1>4, <1>6, <2>2 DEF Retained
    <3>2. clock < job[i].since + Retain
      BY <3>1 DEF DoneInv, Retained
    <3>. QED  BY <1>1, <1>3, <1>4, <1>6, <2>2, <3>1, <3>2, FinishedInv
  <2>3. ASSUME Retained(j)'
        PROVE  doneAt'[j] = clock /\ job'[j].at = "completed" /\ job'[j].since = clock
    <3>1. ~Retained(j)
      BY <1>1, <1>6 DEF DoneInv, Retained
    <3>2. ~(UNCHANGED doneAt)
      BY <2>3, <3>1 DEF Retained
    <3>3. job' = Finished(j, "completed") /\ doneAt'[j] = clock
      BY <1>1, <1>4, <1>6, <3>2
    <3>4. clock < clock + Retain
      BY <2>3, <3>3 DEF Retained
    <3>. QED  BY <1>1, <1>3, <1>4, <3>3, <3>4, FinishedInv
  <2>4. \A i \in Jobs : Retained(i)' =>
          \/ Retained(i) /\ job'[i].at = job[i].at /\ job'[i].since = job[i].since
             /\ doneAt'[i] = doneAt[i]
          \/ doneAt'[i] = clock /\ job'[i].at = "completed" /\ job'[i].since = clock
    BY <2>2, <2>3
  <2>. QED  BY <1>2, <1>3, <2>1, <2>4, KeepsDone
<1>7. CASE /\ job[j].at = "active" /\ UNCHANGED doneAt
           /\ job' = [job EXCEPT ![j] = [at |-> "delayed", made |-> @.made + 1, stalled |-> @.stalled,
                                         owner |-> "none", since |-> @.since]]
  <2>1. job[j] \in Job /\ job[j].made + 1 \in Nat
    BY <1>1, <1>4 DEF Job
  <2>2. job' \in [Jobs -> Job] /\ \A i \in Jobs : i # j => job'[i] = job[i]
    BY <1>1, <1>4, <1>7, <2>1 DEF Job
  <2>3. ~Retained(j)
    BY <1>1, <1>7 DEF DoneInv, Retained
  <2>4. \A i \in Jobs : Retained(i)' =>
          Retained(i) /\ job'[i].at = job[i].at /\ job'[i].since = job[i].since /\ doneAt'[i] = doneAt[i]
    BY <1>7, <2>2, <2>3 DEF Retained
  <2>. QED  BY <1>2, <1>3, <1>4, <1>7, <2>2, <2>4, KeepsDone
<1>. QED  BY <1>1, <1>5, <1>6, <1>7 DEF Finish, Failed, Completed

(* Whatever BullMQ does by itself, it does to jobs that are not completed, *)
(* or to the lock alone.                                                   *)
LEMMA BullInv ==
  ASSUME DoneInv, SessionTypeOK, BullStep, UNCHANGED <<clock, disk, syncedAt>>
  PROVE  DoneInv'
<1>1. syncedAt <= clock /\ syncedAt \in Nat /\ clock \in Nat
  BY DEF SessionTypeOK
<1>2. /\ job \in [Jobs -> Job] /\ doneAt \in [Jobs -> Int]
      /\ {"waiting", "failed"} \subseteq Places
  BY DEF DoneInv, Places
<1>3. CASE WorkerDies \/ WorkerStarts
  <2>1. /\ UNCHANGED <<job, doneAt>>
        /\ worker' = [w \in Workers |-> Gone] \/ worker' = [w \in Workers |-> Idle]
    BY <1>3 DEF WorkerDies, WorkerStarts, jobVars
  <2>2. DOMAIN worker' = Workers /\ \A v \in Workers : worker'[v] \notin {Idle, Gone} => worker'[v].job \in Jobs
    BY <2>1 DEF DoneInv
  <2>. QED  BY <1>1, <1>2, <2>1, <2>2, KeepsDone DEF Retained
<1>4. ASSUME NEW j \in Jobs, UNCHANGED <<worker, doneAt>>,
             job' \in [Jobs -> Job], \A i \in Jobs : i # j => job'[i] = job[i],
             \/ job[j].at \in {"delayed", "active"}
             \/ job'[j].at = job[j].at /\ job'[j].since = job[j].since
      PROVE  DoneInv'
  <2>1. job[j].at \in {"delayed", "active"} => ~Retained(j)
    BY DEF DoneInv, Retained
  <2>2. \A i \in Jobs : Retained(i)' =>
          Retained(i) /\ job'[i].at = job[i].at /\ job'[i].since = job[i].since /\ doneAt'[i] = doneAt[i]
    BY <1>4, <2>1 DEF Retained
  <2>3. DOMAIN worker' = Workers /\ \A v \in Workers : worker'[v] \notin {Idle, Gone} => worker'[v].job \in Jobs
    BY <1>4 DEF DoneInv
  <2>. QED  BY <1>1, <1>2, <1>4, <2>2, <2>3, KeepsDone
<1>5. ASSUME NEW j \in Jobs, UNCHANGED <<worker, doneAt>>,
             job' = [job EXCEPT ![j].owner = "none"]
      PROVE  DoneInv'
  <2>1. /\ job' \in [Jobs -> Job] /\ \A i \in Jobs : i # j => job'[i] = job[i]
        /\ job'[j].at = job[j].at /\ job'[j].since = job[j].since
    BY <1>2, <1>5 DEF Job
  <2>. QED  BY <1>4, <1>5, <2>1
<1>6. ASSUME NEW w \in Workers, LockLost(w)
      PROVE  DoneInv'
  <2>1. worker[w].job \in Jobs
    BY <1>6 DEF LockLost, DoneInv
  <2>. QED  BY <1>5, <1>6, <2>1 DEF LockLost
<1>7. ASSUME NEW j \in Jobs, LockExpires(j)
      PROVE  DoneInv'
  BY <1>5, <1>7 DEF LockExpires
<1>8. ASSUME NEW j \in Jobs, BackoffEnds(j)
      PROVE  DoneInv'
  <2>1. /\ job' = [job EXCEPT ![j].at = "waiting"] /\ job[j].at = "delayed"
        /\ UNCHANGED <<worker, doneAt>>
    BY <1>8 DEF BackoffEnds
  <2>2. job' \in [Jobs -> Job] /\ \A i \in Jobs : i # j => job'[i] = job[i]
    BY <1>2, <2>1 DEF Job
  <2>. QED  BY <1>4, <2>1, <2>2
<1>9. ASSUME NEW j \in Jobs, StalledCheck(j)
      PROVE  DoneInv'
  <2>1. job[j].at = "active" /\ UNCHANGED <<worker, doneAt>>
    BY <1>9 DEF StalledCheck
  <2>2. CASE job' = [job EXCEPT ![j].at = "failed", ![j].stalled = @ + 1, ![j].since = clock]
    <3>1. job' \in [Jobs -> Job]
      BY <1>1, <1>2, <2>2 DEF Job
    <3>2. \A i \in Jobs : i # j => job'[i] = job[i]
      BY <1>2, <2>2
    <3>. QED  BY <1>4, <2>1, <3>1, <3>2
  <2>3. CASE job' = [job EXCEPT ![j].at = "waiting", ![j].stalled = @ + 1]
    <3>1. job' \in [Jobs -> Job]
      BY <1>2, <2>3 DEF Job
    <3>2. \A i \in Jobs : i # j => job'[i] = job[i]
      BY <1>2, <2>3
    <3>. QED  BY <1>4, <2>1, <3>1, <3>2
  <2>. QED  BY <1>9, <2>2, <2>3 DEF StalledCheck
<1>10. CASE Obliterate
  <2>1. /\ job' = [j \in Jobs |-> NoJob] /\ doneAt' = [j \in Jobs |-> -1] /\ UNCHANGED worker
    BY <1>10 DEF Obliterate
  <2>2. job' \in [Jobs -> Job] /\ doneAt' \in [Jobs -> Int] /\ \A j \in Jobs : ~Retained(j)'
    BY <2>1 DEF NoJob, JobAt, Job, Places, Retained
  <2>3. DOMAIN worker' = Workers /\ \A v \in Workers : worker'[v] \notin {Idle, Gone} => worker'[v].job \in Jobs
    BY <2>1 DEF DoneInv
  <2>. QED  BY <1>1, <2>2, <2>3, KeepsDone
<1>. QED  BY <1>3, <1>6, <1>7, <1>8, <1>9, <1>10, TakeInv, FinishInv DEF BullStep

(* A restart forgets what was done in the last Lag, and brings back the    *)
(* rest.                                                                   *)
LEMMA NextDoneInv ==
  ASSUME DoneInv, KeysInv, CallInv, [Next]_vars
  PROVE  DoneInv'
<1>. USE DEF DiskJob
<1>0. syncedAt <= clock /\ syncedAt \in Nat /\ clock \in Nat
  BY DEF KeysInv, SessionTypeOK
<1>1. CASE UNCHANGED <<clock, job, worker, doneAt, disk, syncedAt>>
  BY <1>1 DEF DoneInv, Idle
<1>2. ASSUME NEW c \in Clients,
             \/ \E s \in Sessions : SendCreate(c, s) \/ SendTouch(c, s) \/ SendDestroy(c, s)
             \/ \E j \in Jobs : SendAdd(c, j) \/ SendRemove(c, j)
             \/ Reply(c) \/ ConnectionLost(c) \/ ClientDies(c)
      PROVE  UNCHANGED <<clock, job, worker, doneAt, disk, syncedAt>>
  BY <1>2 DEF SendCreate, SendTouch, SendDestroy, SendAdd, SendRemove, Send,
              Reply, ConnectionLost, ClientDies, jobVars
<1>3. ASSUME NEW c \in Clients, Run(c)
      PROVE  DoneInv'
  <2>. DEFINE x == call[c].arg
  <2>1. UNCHANGED <<clock, worker, disk, syncedAt>>
    BY <1>3 DEF Run
  <2>2. CASE UNCHANGED <<job, doneAt>>
    BY <1>1, <2>1, <2>2
  <2>3. CASE Add(x) /\ x \in Jobs
    <3>. DEFINE new == JobAt("waiting", clock)
    <3>1. /\ job' = job \/ (job[x].at = "none" /\ job' = [job EXCEPT ![x] = new])
          /\ UNCHANGED doneAt
      BY <2>3 DEF Add, jobVars
    <3>2. new \in Job
      BY <1>0 DEF JobAt, Job, Places
    <3>. HIDE DEF new
    <3>3. job' \in [Jobs -> Job]
      BY <2>3, <3>1, <3>2 DEF DoneInv
    <3>4. \A j \in Jobs : job[j].at # "none" => job'[j] = job[j]
      BY <2>3, <3>1 DEF DoneInv
    <3>. QED  BY <2>1, <3>1, <3>3, <3>4 DEF DoneInv
  <2>4. CASE Remove(x) /\ x \in Jobs
    <3>1. \/ UNCHANGED <<job, doneAt>>
          \/ job' = [job EXCEPT ![x] = NoJob] /\ doneAt' = [doneAt EXCEPT ![x] = -1]
      BY <2>4 DEF Remove, jobVars
    <3>2. NoJob \in Job
      BY DEF NoJob, JobAt, Job, Places
    <3>. QED  BY <2>1, <2>2, <2>4, <3>1, <3>2 DEF DoneInv
  <2>. QED  BY <1>3, <2>2, <2>3, <2>4 DEF Run, CallInv, jobVars
<1>4. CASE Sync
  <2>1. DiskJob' = job /\ syncedAt' = clock /\ UNCHANGED <<clock, job, worker, doneAt>>
    BY <1>4 DEF Sync, store, jobVars
  <2>. QED  BY <2>1 DEF DoneInv
<1>5. CASE Restart
  <2>1. clock <= syncedAt + Lag
    BY <1>5, RestartInv
  <2>2. /\ job' = DiskJob /\ UNCHANGED <<clock, worker, DiskJob, syncedAt>>
        /\ doneAt' = [j \in Jobs |-> IF doneAt[j] + Lag < clock THEN doneAt[j] ELSE -1]
    BY <1>5 DEF Restart
  <2>3. doneAt' \in [Jobs -> Int]
    BY <2>2 DEF DoneInv
  <2>4. ASSUME NEW j \in Jobs, doneAt'[j] >= 0
        PROVE  doneAt'[j] = doneAt[j] /\ doneAt[j] < syncedAt
    BY <1>0, <2>1, <2>2, <2>4, RedisAssumption DEF DoneInv
  <2>. QED  BY <2>2, <2>3, <2>4 DEF DoneInv
<1>6. CASE Tick
  BY <1>0, <1>6, QueueAssumption DEF Tick, DoneInv, jobVars
<1>7. CASE UNCHANGED vars
  BY <1>1, <1>7 DEF vars, jobVars
<1>. QED  BY <1>1, <1>2, <1>3, <1>4, <1>5, <1>6, <1>7, BullSteps, BullInv DEF Next, KeysInv

----------------------------------------------------------------------------

LEMMA NextInv == IInv /\ [Next]_vars => IInv'
  BY NextCallInv, NextKeysInv, NextDoneInv DEF IInv, KeysInv

THEOREM Invariant == Spec => []IInv
  BY InitInv, NextInv, PTL DEF Spec

(* Rolling TTL (session.ts:59-72), through repeated and late commands and  *)
(* a restart that goes back by the unsynced second.                        *)
THEOREM ActiveStays == Spec => []StaysWhileActive
<1>1. IInv => StaysWhileActive
  BY DEF IInv, StoreInv, SeenInv, StaysWhileActive
<1>. QED  BY <1>1, Invariant, PTL

(* A create that is sent again comes before its client knows the session,  *)
(* and a touch leaves no user in a key that is gone: only the AOF of an    *)
(* earlier second has one.                                                 *)
THEOREM GoneStaysGone == Spec => NeverBack
<1>1. ASSUME IInv, Next, NEW s \in known, key[s] # "full", key'[s] = "full"
      PROVE  /\ left'.restarts < left.restarts
             /\ destroyedAt[s] >= clock - Lag /\ destroyedAt[s] >= 0
  <2>. USE <1>1 DEF IInv
  <2>1. s \in Sessions /\ ~(UNCHANGED sessionVars) /\ ~(UNCHANGED key)
    BY DEF CallInv, sessionVars
  <2>2. ASSUME NEW c \in Clients, Run(c)
        PROVE  FALSE
    <3>1. CASE call[c].op = "create" /\ Create(call[c].arg)
      <4>1. call[c].arg \in Sessions /\ call[c].arg # s
        BY <3>1 DEF CallInv, CreateInv
      <4>. QED  BY <2>1, <3>1, <4>1 DEF Create, SessionTypeOK
    <3>2. CASE Touch(call[c].arg)
      BY <2>1, <3>2 DEF Touch, SessionTypeOK
    <3>3. CASE Destroy(call[c].arg)
      BY <2>1, <3>3 DEF Destroy, SessionTypeOK
    <3>. QED  BY <2>1, <2>2, <3>1, <3>2, <3>3 DEF Run
  <2>3. ASSUME NEW c \in Clients,
               \/ \E x \in Sessions : SendCreate(c, x) \/ SendTouch(c, x) \/ SendDestroy(c, x)
               \/ \E j \in Jobs : SendAdd(c, j) \/ SendRemove(c, j)
               \/ Reply(c) \/ ConnectionLost(c) \/ ClientDies(c)
        PROVE  UNCHANGED sessionVars
    BY <2>3 DEF SendCreate, SendTouch, SendDestroy, SendAdd, SendRemove, Send,
                Reply, ConnectionLost, ClientDies
  <2>4. ~Sync
    BY <2>1 DEF Sync
  <2>5. ~Tick
    BY <2>1 DEF Tick, Unexpired, SessionTypeOK
  <2>6. Restart
    BY <2>1, <2>2, <2>3, <2>4, <2>5, BullSteps DEF Next
  <2>7. left'.restarts < left.restarts /\ clock <= syncedAt + Lag
    BY <2>6, RestartInv DEF KeysInv
  <2>8. DiskKey[s] = "full" /\ DiskExpire[s] > clock
    BY <2>1, <2>6 DEF Restart, Unexpired, DiskKey, DiskExpire, SessionTypeOK
  <2>9. destroyedAt[s] >= syncedAt
    BY <2>1, <2>8 DEF StoreInv, BackInv
  <2>. QED  BY <2>1, <2>7, <2>9, RedisAssumption DEF SessionTypeOK
<1>2. ASSUME IInv, [Next]_vars
      PROVE  [\A s \in known : key[s] # "full" /\ key'[s] = "full" =>
                left'.restarts < left.restarts /\ destroyedAt[s] >= clock - Lag
                /\ destroyedAt[s] >= 0]_vars
  BY <1>1, <1>2
<1>. QED  BY <1>2, Invariant, PTL DEF Spec, NeverBack

(* removeOnComplete.age (queue.ts:29-31): while a job lies among the       *)
(* completed ones no add, late worker or stalled check starts it again.    *)
THEOREM JobsRunOnce == Spec => DoneOnce
<1>1. ASSUME IInv, Next, NEW j \in Jobs, NEW w \in Workers, Retained(j), worker'[w].job = j
      PROVE  worker[w].job = j
  <2>. USE <1>1 DEF IInv
  <2>1. job[j].at = "completed" /\ DOMAIN worker = Workers
    BY DEF DoneInv, Retained
  <2>2. ASSUME NEW v \in Workers, NEW i \in Jobs, Take(v, i)
        PROVE  worker[w].job = j
    <3>1. i # j /\ worker' = [worker EXCEPT ![v] = [job |-> i, attempt |-> Attempt(i)]]
      BY <2>1, <2>2 DEF Take
    <3>. QED  BY <2>1, <3>1
  <2>3. ASSUME NEW v \in Workers, worker' = [worker EXCEPT ![v] = Idle]
        PROVE  worker[w].job = j
    BY <2>1, <2>3, QueueAssumption DEF Idle
  <2>4. CASE BullStep
    <3>1. ASSUME NEW v \in Workers, Finish(v)
          PROVE  worker' = [worker EXCEPT ![v] = Idle]
      BY <3>1 DEF Finish
    <3>2. ASSUME \/ \E v \in Workers : LockLost(v)
                 \/ \E i \in Jobs : BackoffEnds(i) \/ LockExpires(i) \/ StalledCheck(i)
                 \/ Obliterate
          PROVE  UNCHANGED worker
      BY <3>2 DEF LockLost, BackoffEnds, LockExpires, StalledCheck, Obliterate
    <3>3. ~(WorkerDies \/ WorkerStarts)
      BY QueueAssumption DEF WorkerDies, WorkerStarts, Idle, Gone
    <3>. QED  BY <2>2, <2>3, <2>4, <3>1, <3>2, <3>3 DEF BullStep
  <2>5. ASSUME NEW c \in Clients,
               \/ \E x \in Sessions : SendCreate(c, x) \/ SendTouch(c, x) \/ SendDestroy(c, x)
               \/ \E i \in Jobs : SendAdd(c, i) \/ SendRemove(c, i)
               \/ Run(c) \/ Reply(c) \/ ConnectionLost(c) \/ ClientDies(c)
        PROVE  UNCHANGED worker
    BY <2>5 DEF SendCreate, SendTouch, SendDestroy, SendAdd, SendRemove, Send,
                Run, Reply, ConnectionLost, ClientDies
  <2>6. Sync \/ Restart \/ Tick => UNCHANGED worker
    BY DEF Sync, Restart, Tick
  <2>. QED  BY <2>4, <2>5, <2>6, BullSteps DEF Next
<1>2. ASSUME IInv, [Next]_vars
      PROVE  [\A j \in Jobs, w \in Workers :
                doneAt[j] >= 0 /\ clock < doneAt[j] + Retain /\ worker'[w].job = j
                  => worker[w].job = j]_<<worker, doneAt, clock>>
  BY <1>1, <1>2 DEF Retained, vars
<1>. QED  BY <1>2, Invariant, PTL DEF Spec, DoneOnce
=============================================================================

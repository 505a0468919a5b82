--------------------------- MODULE SessionStore ---------------------------
(***************************************************************************)
(* Sessions with a rolling TTL (redis/session.ts): what the commands of    *)
(* its methods do to the keys of Redis.  Every method is one MULTI or one  *)
(* command, which Redis runs without interruption.  A key is "full" when   *)
(* it holds what create() wrote, "partial" when it holds only what touch() *)
(* writes.  RedisQueue sends, loses and repeats these commands.            *)
(***************************************************************************)
EXTENDS RedisClock

CONSTANTS Sessions,      \* ids, each a randomUUID()
          Ttl            \* ttlSeconds

ASSUME SessionAssumption == Ttl \in Nat \ {0}

VARIABLES key, expireAt,
          seen,          \* history: when a full session was created and touched
          destroyedAt    \* history: when a full session was destroyed last, or -1

sessionVars == <<key, expireAt, seen, destroyedAt>>

SessionInit ==
  /\ key = [s \in Sessions |-> "absent"]
  /\ expireAt = [s \in Sessions |-> 0]
  /\ seen = [s \in Sessions |-> {}]
  /\ destroyedAt = [s \in Sessions |-> -1]

(* MULTI HSET EXPIRE                                                       *)
Create(s) ==
  /\ key' = [key EXCEPT ![s] = "full"]
  /\ expireAt' = [expireAt EXCEPT ![s] = clock + Ttl]
  /\ seen' = [seen EXCEPT ![s] = @ \cup {clock}]
  /\ UNCHANGED destroyedAt

Seen(s) == IF key[s] = "full" THEN [seen EXCEPT ![s] = @ \cup {clock}] ELSE seen

(* Mutants: no EXPIRE; all of the session written back.                    *)
TouchWithoutExpire(s) ==
  /\ key' = [key EXCEPT ![s] = IF @ = "absent" THEN "partial" ELSE @]
  /\ seen' = Seen(s)
  /\ UNCHANGED <<expireAt, destroyedAt>>

TouchWritesAll(s) ==
  /\ key' = [key EXCEPT ![s] = "full"]
  /\ expireAt' = [expireAt EXCEPT ![s] = clock + Ttl]
  /\ seen' = Seen(s)
  /\ UNCHANGED destroyedAt

(* MULTI HGETALL HINCRBY HSET EXPIRE: HINCRBY and HSET create a key that   *)
(* is not there.                                                           *)
Touch(s) ==
  /\ key' = [key EXCEPT ![s] = IF @ = "absent" THEN "partial" ELSE @]
  /\ expireAt' = [expireAt EXCEPT ![s] = clock + Ttl]
  /\ seen' = Seen(s)
  /\ UNCHANGED destroyedAt

(* DEL                                                                     *)
Destroy(s) ==
  /\ key' = [key EXCEPT ![s] = "absent"]
  /\ seen' = [seen EXCEPT ![s] = {}]
  /\ destroyedAt' = IF key[s] = "full" THEN [destroyedAt EXCEPT ![s] = clock] ELSE destroyedAt
  /\ UNCHANGED expireAt

(* What is left of the keys at a time.                                     *)
Unexpired(keys, until, time) ==
  [s \in Sessions |-> IF time >= until[s] THEN "absent" ELSE keys[s]]

----------------------------------------------------------------------------
(* Properties.                                                             *)

(* Rolling TTL: whoever comes back within the TTL of a request is still    *)
(* logged in, unless the session was destroyed (or, in RedisQueue, the     *)
(* request is in the second that a restart of Redis loses).                *)
StaysWhileActive ==
  \A s \in Sessions : \A t \in seen[s] : clock < t + Ttl => key[s] = "full"
=============================================================================

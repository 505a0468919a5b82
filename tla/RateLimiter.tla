---------------------------- MODULE RateLimiter ----------------------------
(***************************************************************************)
(* The sliding-window rate limiter (redis/rate-limit.ts) of one client:    *)
(* every pod stamps a request with its own clock and sends one Lua script, *)
(* which Redis runs atomically on the client's ZSET.  Between the stamp    *)
(* and the script lie the network and the other pods.                      *)
(*                                                                         *)
(* The connection is that of redis-queue: an eval never rejects; one that  *)
(* is not answered when the connection breaks is sent again with the same  *)
(* stamp and the same member.  A restart of redis-queue goes back to its   *)
(* last fsync.                                                             *)
(*                                                                         *)
(* Time is in ticks; "clock" is the time of Redis.                         *)
(***************************************************************************)
EXTENDS Integers, FiniteSets

CONSTANTS Pods,
          Requests,      \* the requests of the client, each a member of the ZSET
          Limit,
          Window,        \* windowMs
          Second,        \* ticks in a second
          Offset,        \* how far each pod's clock is ahead of Redis
          Skew,          \* bound of Offset
          MaxDelay,      \* ticks from a stamp to the answer, re-sent or not
          MaxTime,       \* bound: the clock
          MaxBreaks      \* bound: lost connections and restarts

ASSUME RateLimiterAssumption ==
  /\ IsFiniteSet(Requests)
  /\ Limit \in Nat \ {0} /\ Window \in Nat \ {0} /\ Second \in Nat \ {0}
  /\ Skew \in Nat /\ MaxDelay \in Nat /\ MaxTime \in Nat /\ MaxBreaks \in Nat
  /\ Skew + MaxDelay < Window
  /\ Offset \in [Pods -> 0 .. Skew]

VARIABLES clock,
          zset, expireAt,      \* members of the key, and the end of its TTL
          disk,                \* both as of the last fsync
          stage, pod, sentAt,  \* per request
          retryAfter,          \* seconds that a refused request is told to wait
          breaks,              \* how many connections and restarts were lost
          lost,                \* history: members that a restart has forgotten
          waiting              \* history: refused, and nobody was let in since

limiterVars == <<clock, zset, expireAt, disk, stage, pod, sentAt, retryAfter, breaks, lost, waiting>>

LimiterInit ==
  /\ clock = 0
  /\ zset = {} /\ expireAt = 0
  /\ disk = [zset |-> {}, expireAt |-> 0]
  /\ stage = [r \in Requests |-> "new"]
  /\ pod \in [Requests -> Pods]
  /\ sentAt = [r \in Requests |-> 0]
  /\ retryAfter = [r \in Requests |-> 0]
  /\ breaks = 0 /\ lost = {} /\ waiting = {}

(* Date.now() of the pod that serves r: the score of member r.             *)
Now(r) == sentAt[r] + Offset[pod[r]]

(* The script has not run since it was sent; it has, and the answer is on  *)
(* its way.                                                                *)
Unanswered(r) == stage[r] \in {"sent", "letin", "turned"}

(* check() calls eval.                                                     *)
Check(r) ==
  /\ stage[r] = "new"
  /\ stage' = [stage EXCEPT ![r] = "sent"]
  /\ sentAt' = [sentAt EXCEPT ![r] = clock]
  /\ UNCHANGED <<clock, zset, expireAt, disk, pod, retryAfter, breaks, lost, waiting>>

(* The script of r is the next one: a pod's connection keeps the order.    *)
Arrives(r) ==
  /\ stage[r] = "sent"
  /\ \A q \in Requests : stage[q] = "sent" /\ pod[q] = pod[r] => sentAt[q] >= sentAt[r]

(* Mutants: a window taken for seconds, a hint rounded down.               *)
KeptForSeconds(now) == {q \in zset : Now(q) > now - (Window \div Second)}
SecondsRoundedDown(ticks) == IF ticks < Second THEN 1 ELSE ticks \div Second

(* ZREMRANGEBYSCORE key 0 now-window                                       *)
Kept(now) == {q \in zset : Now(q) > now - Window}
HasRoom(used) == used < Limit
Ttl == Window + Second

(* Math.max(1, Math.ceil(ms / 1000))                                       *)
Seconds(ticks) ==
  IF ticks < Second THEN 1 ELSE (ticks + Second - 1) \div Second

(* ZADD and PEXPIRE; a member that is there already stays one.             *)
Allow(r) ==
  /\ Arrives(r)
  /\ HasRoom(Cardinality(Kept(Now(r))))
  /\ zset' = Kept(Now(r)) \cup {r}
  /\ expireAt' = clock + Ttl
  /\ stage' = [stage EXCEPT ![r] = "letin"]
  /\ lost' = lost \ {r} /\ waiting' = {}
  /\ UNCHANGED <<clock, disk, pod, sentAt, retryAfter, breaks>>

(* The oldest member (ZRANGE key 0 0) says when a slot is free.            *)
Refuse(r) ==
  /\ Arrives(r)
  /\ ~HasRoom(Cardinality(Kept(Now(r))))
  /\ zset' = Kept(Now(r))
  /\ \E oldest \in zset' :
       /\ \A q \in zset' : Now(oldest) <= Now(q)
       /\ retryAfter' = [retryAfter EXCEPT ![r] = Seconds(Window - (Now(r) - Now(oldest)))]
  /\ stage' = [stage EXCEPT ![r] = "turned"]
  /\ waiting' = waiting \cup {r}
  /\ UNCHANGED <<clock, expireAt, disk, pod, sentAt, breaks, lost>>

(* The answer, for a refusal 429 with its Retry-After.                     *)
Answer(r) ==
  /\ stage[r] \in {"letin", "turned"}
  /\ stage' = [stage EXCEPT ![r] = IF stage[r] = "letin" THEN "allowed" ELSE "refused"]
  /\ UNCHANGED <<clock, zset, expireAt, disk, pod, sentAt, retryAfter, breaks, lost, waiting>>

(* ioredis reconnects and sends again what was not answered, whether the   *)
(* script had run or not.                                                  *)
Resent(pods) ==
  [r \in Requests |-> IF pod[r] \in pods /\ Unanswered(r) THEN "sent" ELSE stage[r]]

ConnectionLost(p) ==
  /\ breaks < MaxBreaks /\ breaks' = breaks + 1
  /\ stage' = Resent({p})
  /\ UNCHANGED <<clock, zset, expireAt, disk, pod, sentAt, retryAfter, lost, waiting>>

(* appendfsync everysec; how long ago the last one was does not matter.    *)
Fsync ==
  /\ disk' = [zset |-> zset, expireAt |-> expireAt]
  /\ UNCHANGED <<clock, zset, expireAt, stage, pod, sentAt, retryAfter, breaks, lost, waiting>>

(* redis-queue restarts from its append-only file.                         *)
RedisRestarts ==
  /\ breaks < MaxBreaks /\ breaks' = breaks + 1
  /\ zset' = IF clock >= disk.expireAt THEN {} ELSE disk.zset
  /\ expireAt' = disk.expireAt
  /\ lost' = lost \cup (zset \ zset')
  /\ stage' = Resent(Pods)
  /\ UNCHANGED <<clock, disk, pod, sentAt, retryAfter, waiting>>

(* Time passes, the key may expire.  Nobody waits for an answer for longer *)
(* than MaxDelay.                                                          *)
Tick ==
  /\ clock < MaxTime
  /\ \A r \in Requests : Unanswered(r) => clock < sentAt[r] + MaxDelay
  /\ clock' = clock + 1
  /\ zset' = IF clock + 1 >= expireAt THEN {} ELSE zset
  /\ UNCHANGED <<expireAt, disk, stage, pod, sentAt, retryAfter, breaks, lost, waiting>>

LimiterNext ==
  \/ Tick \/ Fsync \/ RedisRestarts
  \/ \E p \in Pods : ConnectionLost(p)
  \/ \E r \in Requests : Check(r) \/ Allow(r) \/ Refuse(r) \/ Answer(r)

LimiterSpec == LimiterInit /\ [][LimiterNext]_limiterVars

----------------------------------------------------------------------------
(* Properties.                                                             *)

LimiterTypeOK ==
  /\ clock \in Nat /\ expireAt \in Nat
  /\ zset \subseteq Requests /\ Cardinality(zset) <= Limit
  /\ disk.expireAt \in Nat
  /\ disk.zset \subseteq Requests /\ Cardinality(disk.zset) <= Limit
  /\ stage \in [Requests -> {"new", "sent", "letin", "turned", "allowed", "refused"}]
  /\ pod \in [Requests -> Pods]
  /\ sentAt \in [Requests -> Nat]
  /\ retryAfter \in [Requests -> Nat]
  /\ breaks \in Nat /\ lost \subseteq Requests /\ waiting \subseteq Requests

(* Let in, as the last run of their script said.                           *)
Allowed == {r \in Requests : stage[r] \in {"letin", "allowed"}}

(* Requests let in whose stamps lie in the n ticks from t on.              *)
AllowedWithin(t, n) == {r \in Allowed : t <= Now(r) /\ Now(r) < t + n}

(* What the limiter guarantees: stamps that differ by less than the        *)
(* window, minus what clocks and network can shift them, number at most    *)
(* Limit, whichever pods they came through, however often the key expired  *)
(* and whatever was sent twice; those that a restart of redis-queue has    *)
(* forgotten are not counted.                                              *)
LimitHolds ==
  \A r \in Allowed :
    Cardinality(AllowedWithin(Now(r), Window - Skew - MaxDelay) \ lost) <= Limit

(* How much longer than Retry-After the client of q must wait when it      *)
(* comes back to the pod of r: its clock may be behind.                    *)
Lag(q, r) ==
  IF Offset[pod[q]] > Offset[pod[r]] THEN Offset[pod[q]] - Offset[pod[r]] ELSE 0

(* Retry-After is honest in the client's own time: who comes back so many  *)
(* seconds after a refused request, and as much later as the clock of the  *)
(* pod that he comes back to is behind, is refused only if somebody was    *)
(* let in meanwhile; that may be he himself, by a run of his script whose  *)
(* answer was lost.  Restarts do not matter.                               *)
HonestRetryAfter ==
  [][\A r, q \in Requests :
       /\ stage[r] = "sent" /\ stage'[r] = "turned"
       /\ stage[q] = "refused" /\ q \in waiting
       => sentAt[r] < sentAt[q] + retryAfter[q] * Second + Lag(q, r)]_limiterVars
=============================================================================

-------------------------- MODULE RedisCacheProofs --------------------------
(***************************************************************************)
(* The two components that keep one Redis key per subject: the rate limiter*)
(* (RateLimiter), for every number of pods and requests, every limit,      *)
(* window, offset and delay; and the cache (CacheAside), for every number  *)
(* of readers, changes of the product and failures.                        *)
(***************************************************************************)
EXTENDS RateLimiter, CacheAside, FiniteSetTheorems, SequenceTheorems, TLAPS

----------------------------------------------------------------------------
(* The rate limiter.                                                       *)
----------------------------------------------------------------------------

(* A stamp is taken in the past, and its script is not late, sent again or *)
(* not.                                                                    *)
StampInv ==
  \A r \in Requests : stage[r] # "new" =>
    /\ sentAt[r] <= clock
    /\ Unanswered(r) => clock <= sentAt[r] + MaxDelay

(* Members have a stamp; the key lives until all of them are out of        *)
(* everybody's window.                                                     *)
TtlInv ==
  /\ \A r \in zset \cup disk.zset : stage[r] # "new"
  /\ \A r \in zset : Now(r) + Window + Second <= expireAt + Skew
  /\ \A r \in disk.zset : Now(r) + Window + Second <= disk.expireAt + Skew

(* A request that was let in and is no member any more is older than a     *)
(* window for the fastest clock, or a restart has forgotten it.            *)
MemberInv ==
  \A r \in Allowed : r \in zset \/ r \in lost \/ Now(r) + Window <= clock + Skew

(* What a restart would bring back is old, and older than all members.     *)
DiskInv ==
  \A p \in disk.zset \ zset :
    /\ Now(p) + Window <= clock + Skew
    /\ \A m \in zset : Now(p) < Now(m)

(* While nobody is let in after a refusal, fewer than Limit members will   *)
(* outlast the hint, and after a restart, too.                             *)
Outlast(S, q) == {m \in S : Now(m) + Window > Now(q) + retryAfter[q] * Second}

HintInv ==
  \A q \in waiting :
    /\ stage[q] # "new"
    /\ Cardinality(Outlast(zset, q)) < Limit
    /\ Cardinality(Outlast(disk.zset, q)) < Limit

LimiterInv ==
  LimiterTypeOK /\ StampInv /\ TtlInv /\ MemberInv /\ DiskInv /\ LimitHolds /\ HintInv

----------------------------------------------------------------------------
(* Every set of requests is finite.                                        *)
LEMMA FiniteRequests ==
  ASSUME NEW S, S \subseteq Requests
  PROVE  /\ IsFiniteSet(S) /\ Cardinality(S) \in Nat
         /\ \A T : T \subseteq S =>
              /\ Cardinality(T) \in Nat /\ Cardinality(T) <= Cardinality(S)
              /\ Cardinality(T) = Cardinality(S) => T = S
<1>1. IsFiniteSet(S)
  BY FS_Subset, RateLimiterAssumption
<1> QED  BY <1>1, FS_Subset, FS_CardinalityType

(* A hint in whole seconds is at least as long as the wait in ticks.       *)
LEMMA SecondsCover ==
  ASSUME NEW t \in Int
  PROVE  Seconds(t) \in Nat /\ t <= Seconds(t) * Second
<1>1. CASE t < Second
  BY <1>1, RateLimiterAssumption DEF Seconds
<1>2. CASE t >= Second
  <2> DEFINE d == (t + Second - 1) \div Second
             m == (t + Second - 1) % Second
  <2>1. d \in Int /\ m \in 0 .. Second - 1 /\ t + Second - 1 = Second * d + m
    BY RateLimiterAssumption
  <2>2. d * Second = Second * d /\ Second * d \in Int
    BY <2>1, RateLimiterAssumption
  <2>3. t <= d * Second
    BY <2>1, <2>2, RateLimiterAssumption
  <2>4. d \in Nat
    BY <2>1, <2>3, <1>2, RateLimiterAssumption
  <2> QED  BY <2>3, <2>4, <1>2, RateLimiterAssumption DEF Seconds
<1> QED  BY <1>1, <1>2, RateLimiterAssumption

(* A stamp is the time of Redis plus at most Skew.                         *)
LEMMA StampBounds ==
  ASSUME LimiterTypeOK
  PROVE  \A r \in Requests :
           /\ Now(r) \in Nat
           /\ sentAt[r] <= Now(r) /\ Now(r) <= sentAt[r] + Skew
BY RateLimiterAssumption DEF LimiterTypeOK, Now

(* The initial states satisfy the invariant.                               *)
LEMMA LimiterInitInv == LimiterInit => LimiterInv
<1> SUFFICES ASSUME LimiterInit PROVE LimiterInv
  OBVIOUS
<1>1. Allowed = {} /\ disk.zset = {} /\ disk.expireAt = 0
  BY DEF LimiterInit, Allowed
<1>2. LimiterTypeOK
  BY <1>1, FS_EmptySet, RateLimiterAssumption DEF LimiterInit, LimiterTypeOK
<1>3. StampInv /\ TtlInv /\ MemberInv /\ DiskInv /\ HintInv /\ LimitHolds
  BY <1>1 DEF LimiterInit, StampInv, TtlInv, MemberInv, DiskInv, HintInv, LimitHolds
<1> QED  BY <1>2, <1>3 DEF LimiterInv

----------------------------------------------------------------------------
(* Parts of the invariant that most steps keep for one reason.             *)

(* Nobody new is let in, and nothing is remembered again.                  *)
LEMMA LimitKept ==
  ASSUME LimiterTypeOK, LimitHolds, Allowed' \subseteq Allowed, lost \subseteq lost',
         \A r \in Allowed : Now(r)' = Now(r)
  PROVE  LimitHolds'
<1> DEFINE width == Window - Skew - MaxDelay
<1> SUFFICES ASSUME NEW r \in Allowed'
             PROVE  Cardinality((AllowedWithin(Now(r), width) \ lost)') <= Limit
  BY DEF LimitHolds
<1>1. r \in Allowed /\ Now(r)' = Now(r) /\ Allowed \subseteq Requests
  BY DEF Allowed
<1>2. (AllowedWithin(Now(r), width) \ lost)' \subseteq AllowedWithin(Now(r), width) \ lost
  BY <1>1 DEF AllowedWithin
<1>3. AllowedWithin(Now(r), width) \ lost \subseteq Requests
  BY <1>1 DEF AllowedWithin
<1>4. Cardinality(AllowedWithin(Now(r), width) \ lost) <= Limit
  BY <1>1 DEF LimitHolds
<1> HIDE DEF width
<1> QED  BY <1>2, <1>3, <1>4, FiniteRequests, RateLimiterAssumption

(* Members go, the hints stay.                                             *)
LEMMA FewerOutlast ==
  ASSUME LimiterTypeOK, NEW q \in Requests, NEW S, NEW T,
         S \subseteq T, T \subseteq Requests, Cardinality(Outlast(T, q)) < Limit
  PROVE  Cardinality(Outlast(S, q)) < Limit
<1>1. Outlast(S, q) \subseteq Outlast(T, q) /\ Outlast(T, q) \subseteq Requests
  BY DEF Outlast
<1> QED  BY <1>1, FiniteRequests, RateLimiterAssumption

LEMMA HintKept ==
  ASSUME LimiterTypeOK, TtlInv, HintInv, waiting' = waiting, retryAfter' = retryAfter,
         zset' \subseteq zset \/ zset' \subseteq disk.zset,
         disk'.zset \subseteq zset \/ disk'.zset \subseteq disk.zset,
         \A r \in Requests : stage[r] # "new" => stage'[r] # "new" /\ Now(r)' = Now(r)
  PROVE  HintInv'
<1> SUFFICES ASSUME NEW q \in waiting
             PROVE  /\ stage'[q] # "new"
                    /\ Cardinality(Outlast(zset, q)') < Limit
                    /\ Cardinality(Outlast(disk.zset, q)') < Limit
  BY DEF HintInv
<1>1. /\ q \in Requests /\ stage[q] # "new" /\ Now(q)' = Now(q)
      /\ zset \subseteq Requests /\ disk.zset \subseteq Requests
      /\ \A r \in zset \cup disk.zset : Now(r)' = Now(r)
  BY DEF LimiterTypeOK, HintInv, TtlInv
<1>2. Outlast(zset, q)' = Outlast(zset', q) /\ Outlast(disk.zset, q)' = Outlast(disk'.zset, q)
  BY <1>1 DEF Outlast
<1>3. Cardinality(Outlast(zset, q)) < Limit /\ Cardinality(Outlast(disk.zset, q)) < Limit
  BY DEF HintInv
<1>4. Cardinality(Outlast(zset', q)) < Limit /\ Cardinality(Outlast(disk'.zset, q)) < Limit
  BY <1>1, <1>3, FewerOutlast
<1> QED  BY <1>1, <1>2, <1>4

(* ZREMRANGEBYSCORE: what goes is old, and older than what stays.          *)
LEMMA ForgottenIsOld ==
  ASSUME LimiterTypeOK, StampInv, NEW r \in Requests, stage[r] = "sent"
  PROVE  \A p \in zset \ Kept(Now(r)) :
           /\ Now(p) + Window <= clock + Skew
           /\ Now(p) < Now(r)
           /\ \A m \in Kept(Now(r)) : Now(p) < Now(m)
<1>1. \A q \in Requests : Now(q) \in Nat /\ Now(q) <= sentAt[q] + Skew
  BY StampBounds
<1>2. sentAt[r] <= clock /\ sentAt[r] \in Nat /\ clock \in Nat
  BY DEF StampInv, LimiterTypeOK
<1>3. zset \subseteq Requests
  BY DEF LimiterTypeOK
<1> QED  BY <1>1, <1>2, <1>3, RateLimiterAssumption DEF Kept

----------------------------------------------------------------------------
(* Time: members expire only when their TTL says that they are out of      *)
(* every window.                                                           *)
LEMMA TickKeeps == ASSUME LimiterInv, Tick PROVE LimiterInv'
<1> USE DEF LimiterInv
<1>1. Allowed' = Allowed /\ \A r \in Requests : Now(r)' = Now(r) /\ Unanswered(r)' = Unanswered(r)
  BY DEF Tick, Allowed, Now, Unanswered
<1>2. /\ zset' \subseteq zset /\ zset \subseteq Requests /\ disk.zset \subseteq Requests
      /\ Allowed \subseteq Requests
      /\ clock' = clock + 1 /\ clock \in Nat /\ expireAt \in Nat /\ disk.expireAt \in Nat
      /\ UNCHANGED <<expireAt, disk, stage, pod, sentAt, retryAfter, breaks, lost, waiting>>
  BY DEF Tick, LimiterTypeOK, Allowed
<1>3. LimiterTypeOK'
  <2>1. Cardinality(zset') <= Limit
    BY FS_EmptySet, RateLimiterAssumption DEF Tick, LimiterTypeOK
  <2> QED  BY <2>1, <1>2 DEF LimiterTypeOK
<1>4. StampInv'
  BY <1>1, <1>2, RateLimiterAssumption DEF Tick, StampInv, LimiterTypeOK
<1>5. TtlInv'
  BY <1>1, <1>2 DEF TtlInv
<1>6. \A r \in Requests : Now(r) \in Nat
  BY StampBounds
<1>7. \A r \in zset \ zset' : Now(r) + Window <= clock' + Skew
  <2> SUFFICES ASSUME NEW r \in zset, r \notin zset'
               PROVE  Now(r) + Window <= clock + 1 + Skew
    BY <1>2
  <2>1. clock + 1 >= expireAt
    BY DEF Tick
  <2>2. Now(r) + Window + Second <= expireAt + Skew
    BY DEF TtlInv
  <2> QED  BY <1>2, <1>6, <2>1, <2>2, RateLimiterAssumption
<1>8. \A r \in Requests : Now(r) + Window <= clock + Skew => Now(r) + Window <= clock' + Skew
  BY <1>2, <1>6, RateLimiterAssumption
<1>9. MemberInv'
  BY <1>1, <1>2, <1>7, <1>8 DEF MemberInv
<1>10. DiskInv'
  <2>1. zset' = zset \/ zset' = {}
    BY DEF Tick
  <2> QED  BY <1>1, <1>2, <1>7, <1>8, <2>1 DEF DiskInv
<1>11. LimitHolds'
  BY <1>1, <1>2, LimitKept
<1>12. HintInv'
  BY <1>1, <1>2, HintKept
<1> QED  BY <1>3, <1>4, <1>5, <1>9, <1>10, <1>11, <1>12

(* A new request is stamped.                                               *)
LEMMA CheckKeeps == ASSUME LimiterInv, NEW r \in Requests, Check(r) PROVE LimiterInv'
<1> USE DEF LimiterInv
<1>1. /\ stage[r] = "new" /\ stage' = [stage EXCEPT ![r] = "sent"]
      /\ sentAt' = [sentAt EXCEPT ![r] = clock]
      /\ UNCHANGED <<clock, zset, expireAt, disk, pod, retryAfter, breaks, lost, waiting>>
  BY DEF Check
<1>2. /\ Allowed' = Allowed /\ r \notin Allowed /\ Allowed \subseteq Requests
      /\ r \notin zset /\ r \notin disk.zset
      /\ zset \subseteq Requests /\ disk.zset \subseteq Requests
      /\ \A q \in Requests \ {r} : Now(q)' = Now(q) /\ stage'[q] = stage[q]
      /\ stage'[r] = "sent"
  BY <1>1 DEF Allowed, Now, LimiterTypeOK, TtlInv
<1>3. LimiterTypeOK'
  BY <1>1 DEF LimiterTypeOK
<1>4. StampInv'
  BY <1>1, RateLimiterAssumption DEF StampInv, LimiterTypeOK, Unanswered
<1>5. TtlInv' /\ MemberInv' /\ DiskInv'
  BY <1>1, <1>2 DEF TtlInv, MemberInv, DiskInv
<1>6. LimitHolds' /\ HintInv'
  BY <1>1, <1>2, LimitKept, HintKept
<1> QED  BY <1>3, <1>4, <1>5, <1>6

(* A request is refused: Redis only forgets what is out of this window,    *)
(* and the hint is computed from the oldest member that is left.           *)
LEMMA RefuseKeeps == ASSUME LimiterInv, NEW r \in Requests, Refuse(r) PROVE LimiterInv'
<1> USE DEF LimiterInv
<1>1. /\ stage[r] = "sent" /\ stage' = [stage EXCEPT ![r] = "turned"]
      /\ zset' = Kept(Now(r)) /\ waiting' = waiting \cup {r}
      /\ UNCHANGED <<clock, expireAt, disk, pod, sentAt, breaks, lost>>
  BY DEF Refuse, Arrives
<1>2. /\ Allowed' = Allowed /\ zset' \subseteq zset
      /\ zset \subseteq Requests /\ Allowed \subseteq Requests /\ disk.zset \subseteq Requests
      /\ Cardinality(zset) <= Limit
      /\ \A q \in Requests : Now(q)' = Now(q)
      /\ \A q \in Requests : stage'[q] # "new" <=> stage[q] # "new"
      /\ \A q \in Requests : Unanswered(q)' => Unanswered(q)
  BY <1>1 DEF Allowed, Now, LimiterTypeOK, Kept, Unanswered
<1>3. \A q \in Requests : Now(q) \in Nat
  BY StampBounds
<1>4. PICK oldest \in zset' :
        /\ \A q \in zset' : Now(oldest) <= Now(q)
        /\ retryAfter' = [retryAfter EXCEPT ![r] = Seconds(Window - (Now(r) - Now(oldest)))]
  BY DEF Refuse
<1> DEFINE wait == Window - (Now(r) - Now(oldest))
<1>5. wait \in Int /\ Seconds(wait) \in Nat /\ wait <= Seconds(wait) * Second
  <2>1. wait \in Int
    BY <1>2, <1>3, <1>4, RateLimiterAssumption
  <2> QED  BY <2>1, SecondsCover
<1>6. /\ IsFiniteSet(zset') /\ Cardinality(zset') \in Nat /\ Cardinality(zset') <= Limit
      /\ zset' \subseteq Requests
  BY <1>2, FiniteRequests, RateLimiterAssumption
<1>7. LimiterTypeOK'
  <2>1. retryAfter' \in [Requests -> Nat]
    BY <1>4, <1>5 DEF LimiterTypeOK
  <2> QED  BY <1>1, <1>6, <2>1 DEF LimiterTypeOK
<1>8. StampInv' /\ TtlInv'
  BY <1>1, <1>2 DEF StampInv, TtlInv
<1>9. \A p \in zset \ zset' : /\ Now(p) + Window <= clock + Skew
                              /\ \A m \in zset' : Now(p) < Now(m)
  BY <1>1, ForgottenIsOld
<1>10. MemberInv'
  BY <1>1, <1>2, <1>9 DEF MemberInv
<1>11. DiskInv'
  BY <1>1, <1>2, <1>9 DEF DiskInv
<1>12. LimitHolds'
  BY <1>1, <1>2, LimitKept
<1>13. HintInv'
  <2> SUFFICES ASSUME NEW q \in waiting \cup {r}
               PROVE  /\ stage'[q] # "new"
                      /\ Cardinality(Outlast(zset, q)') < Limit
                      /\ Cardinality(Outlast(disk.zset, q)') < Limit
    BY <1>1 DEF HintInv
  <2>1. CASE q = r
    <3>1. retryAfter'[q] = Seconds(wait) /\ q \in Requests
      BY <2>1, <1>4 DEF LimiterTypeOK
    <3>2. ~(Now(oldest) + Window > Now(q) + retryAfter'[q] * Second)
      <4>1. Now(oldest) + Window = Now(q) + wait
        BY <2>1, <1>2, <1>3, <1>4, RateLimiterAssumption
      <4> HIDE DEF wait
      <4>2. Now(oldest) \in Nat /\ Now(q) \in Nat
        BY <1>2, <1>3, <1>4, <3>1
      <4>3. Seconds(wait) * Second \in Nat
        BY <1>5, RateLimiterAssumption
      <4> QED  BY <3>1, <4>1, <4>2, <4>3, <1>5, RateLimiterAssumption
    <3>3. Outlast(zset, q)' \subseteq zset' \ {oldest}
      BY <1>2, <3>1, <3>2 DEF Outlast
    <3>4. Outlast(disk.zset, q)' \subseteq zset' \ {oldest}
      <4> SUFFICES ASSUME NEW m \in disk.zset, Now(m) + Window > Now(q) + retryAfter'[q] * Second
                   PROVE  m \in zset'
        BY <1>1, <1>2, <3>1, <3>2 DEF Outlast
      <4>1. m \notin zset' => Now(m) < Now(oldest)
        BY <1>1, <1>2, <1>4, <1>11 DEF DiskInv
      <4>2. retryAfter'[q] * Second \in Nat
        BY <1>5, <3>1, RateLimiterAssumption
      <4> QED  BY <1>2, <1>3, <1>4, <3>1, <3>2, <4>1, <4>2, RateLimiterAssumption
    <3>5. Cardinality(zset' \ {oldest}) < Limit
      <4>1. Cardinality(zset' \ {oldest}) = Cardinality(zset') - 1
        BY <1>4, <1>6, FS_RemoveElement
      <4> QED  BY <1>6, <4>1, RateLimiterAssumption
    <3>6. zset' \ {oldest} \subseteq Requests
      BY <1>6
    <3>7. /\ Cardinality(Outlast(zset, q)') < Limit
          /\ Cardinality(Outlast(disk.zset, q)') < Limit
      BY <3>3, <3>4, <3>5, <3>6, FiniteRequests, RateLimiterAssumption
    <3> QED  BY <1>1, <1>2, <2>1, <3>7
  <2>2. CASE q # r
    <3>1. /\ q \in waiting /\ q \in Requests /\ stage[q] # "new"
          /\ retryAfter'[q] = retryAfter[q]
      BY <2>2, <1>4 DEF LimiterTypeOK, HintInv
    <3>2. /\ Outlast(zset, q)' = Outlast(zset', q)
          /\ Outlast(disk.zset, q)' = Outlast(disk.zset, q)
      BY <1>1, <1>2, <3>1 DEF Outlast
    <3>3. Cardinality(Outlast(zset', q)) < Limit /\ Cardinality(Outlast(disk.zset, q)) < Limit
      BY <1>2, <3>1, FewerOutlast DEF HintInv
    <3> QED  BY <1>2, <3>1, <3>2, <3>3
  <2> QED  BY <2>1, <2>2
<1> QED  BY <1>7, <1>8, <1>10, <1>11, <1>12, <1>13

(* A request is let in, perhaps for the second time: whoever was let in    *)
(* with a stamp close to it is still a member, hence was counted.          *)
LEMMA AllowKeeps == ASSUME LimiterInv, NEW r \in Requests, Allow(r) PROVE LimiterInv'
<1> USE DEF LimiterInv
<1> DEFINE kept == Kept(Now(r))
           width == Window - Skew - MaxDelay
<1>1. /\ stage[r] = "sent" /\ stage' = [stage EXCEPT ![r] = "letin"]
      /\ Cardinality(kept) < Limit /\ zset' = kept \cup {r}
      /\ expireAt' = clock + (Window + Second)
      /\ lost' = lost \ {r} /\ waiting' = {}
      /\ UNCHANGED <<clock, disk, pod, sentAt, retryAfter, breaks>>
  BY DEF Allow, Arrives, HasRoom, Ttl
<1>2. /\ Allowed' = Allowed \cup {r} /\ r \notin Allowed
      /\ kept \subseteq zset /\ zset \subseteq Requests /\ Allowed \subseteq Requests
      /\ disk.zset \subseteq Requests
      /\ \A q \in Requests : Now(q)' = Now(q)
      /\ \A q \in Requests : stage'[q] # "new" <=> stage[q] # "new"
      /\ \A q \in Requests : Unanswered(q)' => Unanswered(q)
  BY <1>1 DEF Allowed, Now, LimiterTypeOK, Kept, Unanswered
<1>3. \A q \in Requests : Now(q) \in Nat /\ sentAt[q] <= Now(q) /\ Now(q) <= sentAt[q] + Skew
  BY StampBounds
<1>4. /\ sentAt[r] \in Nat /\ clock \in Nat
      /\ sentAt[r] <= clock /\ clock <= sentAt[r] + MaxDelay
  BY <1>1 DEF StampInv, LimiterTypeOK, Unanswered
<1>5. /\ IsFiniteSet(zset') /\ Cardinality(zset') \in Nat
      /\ Cardinality(zset') <= Limit /\ r \in zset' /\ zset' \subseteq Requests
  <2>1. IsFiniteSet(kept) /\ Cardinality(kept) \in Nat /\ kept \subseteq Requests
    BY <1>2, FiniteRequests
  <2>2. Cardinality(zset') <= Cardinality(kept) + 1
    <3>1. r \in kept => zset' = kept
      BY <1>1
    <3>2. r \notin kept => Cardinality(zset') = Cardinality(kept) + 1
      BY <2>1, <1>1, FS_AddElement
    <3> HIDE DEF kept
    <3> QED  BY <2>1, <3>1, <3>2
  <2>3. zset' \subseteq Requests /\ r \in zset'
    BY <1>1, <2>1
  <2>4. IsFiniteSet(zset') /\ Cardinality(zset') \in Nat
    BY <2>3, FiniteRequests
  <2> HIDE DEF kept
  <2> QED  BY <2>1, <2>2, <2>3, <2>4, <1>1, RateLimiterAssumption
<1>6. LimiterTypeOK'
  BY <1>1, <1>4, <1>5, RateLimiterAssumption DEF LimiterTypeOK
<1>7. StampInv'
  BY <1>1, <1>2 DEF StampInv
<1>8. \A p \in zset \ kept : /\ Now(p) + Window <= clock + Skew
                             /\ Now(p) < Now(r)
                             /\ \A m \in kept : Now(p) < Now(m)
  BY <1>1, ForgottenIsOld
<1>9. TtlInv'
  <2>1. \A q \in zset' : stage[q] # "new"
    BY <1>1, <1>2 DEF TtlInv
  <2>2. ASSUME NEW q \in zset'
        PROVE  Now(q) + Window + Second <= clock + (Window + Second) + Skew
    <3>1. q \in Requests /\ sentAt[q] <= clock /\ sentAt[q] \in Nat
      BY <1>5, <2>1 DEF StampInv, LimiterTypeOK
    <3> QED  BY <3>1, <1>3, <1>4, RateLimiterAssumption
  <2> QED  BY <1>1, <1>2, <1>5, <2>1, <2>2 DEF TtlInv
<1>10. MemberInv'
  BY <1>1, <1>2, <1>8 DEF MemberInv
<1>11. DiskInv'
  <2> SUFFICES ASSUME NEW p \in disk.zset, p \notin zset'
               PROVE  /\ Now(p) + Window <= clock + Skew
                      /\ \A m \in zset' : Now(p) < Now(m)
    BY <1>1, <1>2, <1>5 DEF DiskInv
  <2>1. p \notin kept
    BY <1>1
  <2>2. /\ Now(p) + Window <= clock + Skew
        /\ \A m \in kept : Now(p) < Now(m)
    BY <1>2, <1>8, <2>1 DEF DiskInv
  <2>3. Now(p) < Now(r)
    BY <1>2, <1>3, <1>4, <2>2, RateLimiterAssumption
  <2> QED  BY <1>1, <2>2, <2>3
<1>12. LimitHolds'
  <2> SUFFICES ASSUME NEW q \in Allowed'
               PROVE  Cardinality((AllowedWithin(Now(q), width) \ lost)') <= Limit
    BY DEF LimitHolds
  <2> DEFINE close == {s \in Allowed \cup {r} : Now(q) <= Now(s) /\ Now(s) < Now(q) + width} \ lost'
  <2>1. q \in Requests /\ (AllowedWithin(Now(q), width) \ lost)' = close
    BY <1>2 DEF AllowedWithin
  <2>2. CASE Now(q) <= Now(r) /\ Now(r) < Now(q) + width
    <3>1. close \subseteq zset'
      <4> SUFFICES ASSUME NEW s \in Allowed, s # r, s \notin lost', Now(q) <= Now(s)
                   PROVE  s \in zset'
        BY <1>1
      <4>1. Now(s) > Now(r) - Window + Skew + MaxDelay
        BY <2>1, <2>2, <1>2, <1>3, RateLimiterAssumption
      <4>2. ~(Now(s) + Window <= clock + Skew)
        BY <4>1, <1>2, <1>3, <1>4, RateLimiterAssumption
      <4>3. s \in zset
        BY <4>2, <1>1 DEF MemberInv
      <4> QED  BY <4>2, <4>3, <1>1, <1>8
    <3>2. Cardinality(close) \in Nat /\ Cardinality(close) <= Cardinality(zset')
      BY <3>1, <1>5, FiniteRequests
    <3> HIDE DEF close
    <3> QED  BY <3>2, <2>1, <1>5, RateLimiterAssumption
  <2>3. CASE ~(Now(q) <= Now(r) /\ Now(r) < Now(q) + width)
    <3>1. q \in Allowed
      BY <2>1, <2>3, <1>2, <1>3, RateLimiterAssumption
    <3>2. close \subseteq AllowedWithin(Now(q), width) \ lost
      BY <2>3, <1>1 DEF AllowedWithin
    <3>3. AllowedWithin(Now(q), width) \ lost \subseteq Requests
      BY <1>2 DEF AllowedWithin
    <3>4. Cardinality(AllowedWithin(Now(q), width) \ lost) <= Limit
      BY <3>1 DEF LimitHolds
    <3> HIDE DEF close
    <3>5. Cardinality(close) <= Cardinality(AllowedWithin(Now(q), width) \ lost)
          /\ Cardinality(close) \in Nat /\ Cardinality(AllowedWithin(Now(q), width) \ lost) \in Nat
      BY <3>2, <3>3, FiniteRequests
    <3> QED  BY <3>4, <3>5, <2>1, RateLimiterAssumption
  <2> QED  BY <2>2, <2>3
<1>13. HintInv'
  BY <1>1 DEF HintInv
<1> QED  BY <1>6, <1>7, <1>9, <1>10, <1>11, <1>12, <1>13

(* An answer arrives, or a connection breaks and what was not answered is  *)
(* sent again.                                                             *)
LEMMA StageKeeps ==
  ASSUME LimiterInv,
         (\E r \in Requests : Answer(r)) \/ (\E p \in Pods : ConnectionLost(p))
  PROVE  LimiterInv'
<1> USE DEF LimiterInv
<1>1. /\ UNCHANGED <<clock, zset, expireAt, disk, pod, sentAt, retryAfter, lost, waiting>>
      /\ breaks' = breaks \/ breaks' = breaks + 1
  BY DEF Answer, ConnectionLost
<1>2. /\ stage' \in [Requests -> {"new", "sent", "letin", "turned", "allowed", "refused"}]
      /\ Allowed' \subseteq Allowed
      /\ \A q \in Requests : stage'[q] # "new" <=> stage[q] # "new"
      /\ \A q \in Requests : Unanswered(q)' => Unanswered(q)
  BY DEF Answer, ConnectionLost, Resent, LimiterTypeOK, Allowed, Unanswered
<1>3. \A q \in Requests : Now(q)' = Now(q)
  BY <1>1 DEF Now
<1>4. /\ zset \subseteq Requests /\ disk.zset \subseteq Requests /\ Allowed \subseteq Requests
  BY DEF LimiterTypeOK, Allowed
<1>5. LimiterTypeOK' /\ StampInv'
  <2>1. breaks' \in Nat
    BY <1>1 DEF LimiterTypeOK
  <2> QED  BY <1>1, <1>2, <2>1 DEF LimiterTypeOK, StampInv
<1>6. TtlInv' /\ MemberInv' /\ DiskInv'
  BY <1>1, <1>2, <1>3, <1>4 DEF TtlInv, MemberInv, DiskInv
<1>7. LimitHolds' /\ HintInv'
  BY <1>1, <1>2, <1>3, <1>4, LimitKept, HintKept
<1> QED  BY <1>5, <1>6, <1>7

LEMMA FsyncKeeps == ASSUME LimiterInv, Fsync PROVE LimiterInv'
<1> USE DEF LimiterInv
<1>1. /\ disk'.zset = zset /\ disk'.expireAt = expireAt
      /\ UNCHANGED <<clock, zset, expireAt, stage, pod, sentAt, retryAfter, breaks, lost, waiting>>
  BY DEF Fsync
<1>2. /\ Allowed' = Allowed /\ Allowed \subseteq Requests /\ zset \subseteq Requests
      /\ \A q \in Requests : Now(q)' = Now(q) /\ Unanswered(q)' = Unanswered(q)
  BY <1>1 DEF Allowed, Now, Unanswered, LimiterTypeOK
<1>3. LimiterTypeOK' /\ StampInv'
  BY <1>1, <1>2 DEF LimiterTypeOK, StampInv
<1>4. TtlInv' /\ MemberInv' /\ DiskInv'
  BY <1>1, <1>2 DEF TtlInv, MemberInv, DiskInv
<1>5. LimitHolds' /\ HintInv'
  BY <1>1, <1>2, LimitKept, HintKept
<1> QED  BY <1>3, <1>4, <1>5

(* redis-queue restarts: what it forgets is noted, what it remembers again *)
(* is out of every window.                                                 *)
LEMMA RestartKeeps == ASSUME LimiterInv, RedisRestarts PROVE LimiterInv'
<1> USE DEF LimiterInv
<1>1. /\ (zset' = {} /\ clock >= disk.expireAt) \/ zset' = disk.zset
      /\ expireAt' = disk.expireAt /\ breaks' = breaks + 1
      /\ lost' = lost \cup (zset \ zset') /\ stage' = Resent(Pods)
      /\ UNCHANGED <<clock, disk, pod, sentAt, retryAfter, waiting>>
  BY DEF RedisRestarts
<1>2. /\ stage' \in [Requests -> {"new", "sent", "letin", "turned", "allowed", "refused"}]
      /\ Allowed' \subseteq Allowed
      /\ \A q \in Requests : stage'[q] # "new" <=> stage[q] # "new"
      /\ \A q \in Requests : Unanswered(q)' => Unanswered(q)
  BY <1>1 DEF Resent, LimiterTypeOK, Allowed, Unanswered
<1>3. /\ \A q \in Requests : Now(q)' = Now(q)
      /\ \A q \in Requests : Now(q) \in Nat
  BY <1>1, StampBounds DEF Now
<1>4. /\ zset \subseteq Requests /\ disk.zset \subseteq Requests /\ Allowed \subseteq Requests
      /\ zset' \subseteq disk.zset /\ clock \in Nat /\ disk.expireAt \in Nat
  BY <1>1 DEF LimiterTypeOK, Allowed
<1>5. LimiterTypeOK'
  <2>1. Cardinality(zset') <= Limit
    <3>1. Cardinality({}) <= Limit
      BY FS_EmptySet, RateLimiterAssumption
    <3> QED  BY <1>1, <3>1 DEF LimiterTypeOK
  <2>2. breaks' \in Nat /\ lost' \subseteq Requests
    BY <1>1, <1>4 DEF LimiterTypeOK
  <2> QED  BY <1>1, <1>2, <1>4, <2>1, <2>2 DEF LimiterTypeOK
<1>6. StampInv'
  BY <1>1, <1>2 DEF StampInv
<1>7. TtlInv'
  BY <1>1, <1>2, <1>3, <1>4 DEF TtlInv
<1>8. MemberInv'
  BY <1>1, <1>2, <1>3, <1>4 DEF MemberInv
<1>9. DiskInv'
  <2>1. CASE zset' = {} /\ clock >= disk.expireAt
    <3>1. \A p \in disk.zset : Now(p) + Window + Second <= disk.expireAt + Skew
      BY DEF TtlInv
    <3>2. \A p \in disk.zset : Now(p) + Window <= clock + Skew
      BY <1>3, <1>4, <2>1, <3>1, RateLimiterAssumption
    <3> QED  BY <1>1, <1>3, <1>4, <2>1, <3>2 DEF DiskInv
  <2>2. CASE zset' = disk.zset
    BY <1>1, <2>2 DEF DiskInv
  <2> QED  BY <1>1, <2>1, <2>2
<1>10. LimitHolds'
  BY <1>1, <1>2, <1>3, <1>4, LimitKept
<1>11. HintInv'
  BY <1>1, <1>2, <1>3, <1>4, HintKept
<1> QED  BY <1>5, <1>6, <1>7, <1>8, <1>9, <1>10, <1>11

----------------------------------------------------------------------------
(* The invariant is inductive.                                             *)
LEMMA LimiterNextInv == LimiterInv /\ [LimiterNext]_limiterVars => LimiterInv'
<1> SUFFICES ASSUME LimiterInv, [LimiterNext]_limiterVars PROVE LimiterInv'
  OBVIOUS
<1>1. CASE Tick \/ Fsync \/ RedisRestarts
  BY <1>1, TickKeeps, FsyncKeeps, RestartKeeps
<1>2. ASSUME NEW r \in Requests, Check(r) \/ Allow(r) \/ Refuse(r) PROVE LimiterInv'
  BY <1>2, CheckKeeps, AllowKeeps, RefuseKeeps
<1>3. CASE (\E r \in Requests : Answer(r)) \/ (\E p \in Pods : ConnectionLost(p))
  BY <1>3, StageKeeps
<1>4. CASE UNCHANGED limiterVars
  BY <1>4 DEF limiterVars, LimiterInv, LimiterTypeOK, StampInv, TtlInv, MemberInv, DiskInv,
              LimitHolds, HintInv, Allowed, AllowedWithin, Outlast, Now, Unanswered
<1> QED  BY <1>1, <1>2, <1>3, <1>4 DEF LimiterNext

LEMMA LimiterInvariance == LimiterSpec => []LimiterInv
BY LimiterInitInv, LimiterNextInv, PTL DEF LimiterSpec

(* Types: among them, the ZSET never grows beyond the limit.               *)
THEOREM TypeCorrect == LimiterSpec => []LimiterTypeOK
<1>1. LimiterInv => LimiterTypeOK
  BY DEF LimiterInv
<1> QED  BY <1>1, LimiterInvariance, PTL

(* The limit holds for stamps that are closer than the window less skew    *)
(* and delay, for every number of pods, requests, broken connections and   *)
(* restarts, and every offset.                                             *)
THEOREM LimitIsKept == LimiterSpec => []LimitHolds
<1>1. LimiterInv => LimitHolds
  BY DEF LimiterInv
<1> QED  BY <1>1, LimiterInvariance, PTL

(* Who comes back Retry-After seconds after a refused request, and as much *)
(* later as the clock of the pod is behind, is refused only if somebody    *)
(* was let in meanwhile.                                                   *)
THEOREM RetryAfterIsHonest == LimiterSpec => HonestRetryAfter
<1> DEFINE Honest ==
      \A r, q \in Requests :
        /\ stage[r] = "sent" /\ stage'[r] = "turned"
        /\ stage[q] = "refused" /\ q \in waiting
        => sentAt[r] < sentAt[q] + retryAfter[q] * Second + Lag(q, r)
<1>1. LimiterInv /\ [LimiterNext]_limiterVars => [Honest]_limiterVars
  <2> SUFFICES ASSUME LimiterInv, LimiterNext, NEW r \in Requests, NEW q \in Requests,
                      stage[r] = "sent", stage'[r] = "turned", q \in waiting
               PROVE  sentAt[r] < sentAt[q] + retryAfter[q] * Second + Lag(q, r)
    OBVIOUS
  <2> USE DEF LimiterInv
  <2>1. Refuse(r)
    BY DEF LimiterNext, Tick, Check, Allow, Refuse, Answer, Fsync, RedisRestarts, ConnectionLost,
           Resent, LimiterTypeOK
  <2>2. Cardinality(Kept(Now(r))) >= Limit
    <3>1. Kept(Now(r)) \subseteq Requests
      BY DEF Kept, LimiterTypeOK
    <3>2. Cardinality(Kept(Now(r))) \in Nat
      BY <3>1, FiniteRequests
    <3> QED  BY <2>1, <3>2, RateLimiterAssumption DEF Refuse, HasRoom
  <2>3. ~(Kept(Now(r)) \subseteq Outlast(zset, q))
    <3>1. Outlast(zset, q) \subseteq Requests
      BY DEF Outlast, LimiterTypeOK
    <3>2. Cardinality(Outlast(zset, q)) < Limit
      BY DEF HintInv
    <3> QED  BY <2>2, <3>1, <3>2, FiniteRequests, RateLimiterAssumption
  <2>4. PICK m \in zset : /\ Now(m) > Now(r) - Window
                          /\ ~(Now(m) + Window > Now(q) + retryAfter[q] * Second)
    BY <2>3 DEF Kept, Outlast
  <2>5. Now(m) \in Nat /\ Now(r) \in Nat /\ Now(q) \in Nat
    BY StampBounds DEF LimiterTypeOK
  <2>6. retryAfter[q] * Second \in Nat
    BY RateLimiterAssumption DEF LimiterTypeOK
  <2>7. Now(r) < Now(q) + retryAfter[q] * Second
    BY <2>4, <2>5, <2>6, RateLimiterAssumption
  <2>8. /\ Offset[pod[q]] \in Nat /\ Offset[pod[r]] \in Nat
        /\ sentAt[q] \in Nat /\ sentAt[r] \in Nat
    BY RateLimiterAssumption DEF LimiterTypeOK
  <2> QED  BY <2>6, <2>7, <2>8 DEF Now, Lag
<1>2. LimiterSpec => [][Honest]_limiterVars
  BY <1>1, LimiterInvariance, PTL DEF LimiterSpec
<1> QED  BY <1>2 DEF HonestRetryAfter

----------------------------------------------------------------------------
(* The cache.                                                              *)
----------------------------------------------------------------------------

TypeOK ==
  /\ db \in Seq(Nat) /\ db # <<>>
  /\ cache \in Nat \cup {None}
  /\ lock \in Readers \cup {None, Dead}
  /\ pc \in [Readers -> {"idle", "acquire", "wait", "loadAlone"} \cup Working]
  /\ value \in [Readers -> Nat]
  /\ due \in [Readers -> BOOLEAN]
  /\ loads \in Nat /\ newest \in Nat /\ trouble \in Nat
  /\ overtaken \subseteq Readers

(* The product only goes forward, and nobody is ahead of it.               *)
VersionInv ==
  /\ db[1] <= Current
  /\ newest <= Current
  /\ \A p \in Readers : pc[p] = "store" => value[p] <= Current

(* Whoever works under a lock that has not expired has it, and what it is  *)
(* about to store is the newest that such a reader stored.                 *)
LockInv ==
  \A p \in Readers :
    /\ pc[p] = "acquire" => p \notin overtaken
    /\ lock = p => pc[p] \in Working /\ p \notin overtaken
    /\ pc[p] \in Working /\ p \notin overtaken => lock = p
    /\ pc[p] = "store" /\ p \notin overtaken => newest <= value[p]

(* While nothing has gone wrong: a product that exists is in the cache     *)
(* when its lock is given back, so who waited for the lock finds it there; *)
(* and after the first load it is there or on its way.                     *)
ColdInv ==
  db[1] > 0 /\ trouble = 0 =>
    /\ overtaken = {} /\ lock # Dead
    /\ \A p \in Readers :
         /\ pc[p] # "loadAlone"
         /\ pc[p] = "store" => value[p] > 0
         /\ pc[p] = "unlock" \/ due[p] => Hit
    /\ loads <= 1
    /\ loads = 1 => Hit \/ \E p \in Readers : pc[p] \in {"load", "store"}

IInv == TypeOK /\ VersionInv /\ LockInv /\ ColdInv

----------------------------------------------------------------------------

LEMMA InitInv == Init => IInv
<1>. SUFFICES ASSUME Init PROVE IInv
  OBVIOUS
<1>1. PICK v \in Nat : db = <<v>>
  BY CacheAssumption DEF Init
<1>2. db \in Seq(Nat) /\ db # <<>> /\ Len(db) = 1 /\ db[1] = v
  BY <1>1
<1>3. Current = db[1]
  BY <1>2 DEF Current, Last
<1>4. TypeOK
  BY <1>2, CacheAssumption DEF Init, TypeOK
<1>5. VersionInv
  BY <1>2, <1>3 DEF Init, VersionInv
<1>6. LockInv /\ ColdInv
  BY CacheAssumption DEF Init, LockInv, ColdInv, Hit, Working
<1>. QED  BY <1>4, <1>5, <1>6 DEF IInv

LEMMA ChangeInv ==
  ASSUME IInv, Change
  PROVE  IInv'
<1>. USE DEF IInv
<1>1. Current \in Nat /\ Current = db[Len(db)] /\ Len(db) \in Nat /\ Len(db) > 0
  BY DEF Current, Last, TypeOK
<1>2. db' = Append(db, Current + 1) /\ Current + 1 \in Nat
  BY <1>1 DEF Change
<1>3. /\ db' \in Seq(Nat) /\ db' # <<>> /\ Len(db') = Len(db) + 1
      /\ db'[1] = db[1] /\ db'[Len(db')] = Current + 1
  BY <1>1, <1>2, AppendProperties DEF TypeOK
<1>4. Current' = Current + 1
  BY <1>3 DEF Current, Last
<1>5. TypeOK'
  BY <1>3 DEF TypeOK, Change
<1>6. VersionInv'
  BY <1>1, <1>3, <1>4 DEF VersionInv, Change, TypeOK
<1>7. LockInv'
  BY DEF LockInv, Change
<1>8. ColdInv'
  BY <1>3 DEF ColdInv, Change, Hit
<1>. QED  BY <1>5, <1>6, <1>7, <1>8

LEMMA ReaderInv ==
  ASSUME IInv, NEW p \in Readers,
         Get(p) \/ Acquire(p) \/ Poll(p) \/ GiveUp(p) \/ Recheck(p) \/ Throws(p) \/ Crash(p)
  PROVE  IInv'
<1>. USE CacheAssumption DEF IInv, CountLoad, Trouble, NoTrouble
<1>1. TypeOK'
  <2>1. UNCHANGED <<db, cache, value, newest>> /\ overtaken' \subseteq overtaken
    BY DEF Get, Acquire, Poll, GiveUp, Recheck, Throws, Crash
  <2>2. lock' \in Readers \cup {None, Dead} /\ trouble' \in Nat /\ loads' \in Nat
    BY DEF TypeOK, Get, Acquire, Poll, GiveUp, Recheck, Throws, Crash
  <2>3. due' \in [Readers -> BOOLEAN]
    <3>1. due' = due \/ due' = [due EXCEPT ![p] = FALSE]
      BY DEF Get, Acquire, Poll, GiveUp, Recheck, Throws, Crash
    <3>. QED  BY <3>1 DEF TypeOK
  <2>4. \/ Goto(p, "idle") \/ Goto(p, "acquire") \/ Goto(p, "wait") \/ Goto(p, "loadAlone")
        \/ Goto(p, "recheck") \/ Goto(p, "load") \/ Goto(p, "unlock")
    BY DEF Get, Acquire, Poll, GiveUp, Recheck, Throws, Crash
  <2>5. pc' \in [Readers -> {"idle", "acquire", "wait", "loadAlone"} \cup Working]
    BY <2>4 DEF TypeOK, Working, Goto
  <2>. QED  BY <2>1, <2>2, <2>3, <2>5 DEF TypeOK
<1>. USE DEF Goto
<1>2. VersionInv'
  BY DEF VersionInv, TypeOK, Get, Acquire, Poll, GiveUp, Recheck, Throws, Crash, Current
<1>3. LockInv'
  <2>. USE DEF LockInv, TypeOK, Working
  <2>1. CASE Get(p)
    BY <2>1 DEF Get
  <2>2. CASE Acquire(p)
    BY <2>2 DEF Acquire
  <2>3. CASE Poll(p) \/ GiveUp(p) \/ Recheck(p)
    BY <2>3 DEF Poll, GiveUp, Recheck
  <2>4. CASE Throws(p)
    BY <2>4 DEF Throws
  <2>5. CASE Crash(p)
    BY <2>5 DEF Crash
  <2>. QED  BY <2>1, <2>2, <2>3, <2>4, <2>5
<1>5. ColdInv'
  <2>. SUFFICES ASSUME db'[1] > 0, trouble' = 0
                PROVE  ColdInv'
    BY DEF ColdInv
  <2>1. trouble = 0 /\ db' = db
    BY DEF TypeOK, Get, Acquire, Poll, GiveUp, Recheck, Throws, Crash
  <2>2. /\ overtaken = {} /\ lock # Dead /\ loads <= 1
        /\ loads = 1 => Hit \/ \E q \in Readers : pc[q] \in {"load", "store"}
        /\ \A q \in Readers :
             /\ pc[q] # "loadAlone"
             /\ pc[q] = "store" => value[q] > 0
             /\ pc[q] = "unlock" \/ due[q] => Hit
             /\ pc[q] \in Working => lock = q
    BY <2>1 DEF ColdInv, LockInv
  <2>. USE <2>1, <2>2 DEF TypeOK, Working
  <2>3. CASE Get(p)
    BY <2>3 DEF ColdInv, Get, Hit
  <2>4. CASE Acquire(p)
    BY <2>4 DEF ColdInv, Acquire, Hit
  <2>5. CASE Poll(p)
    BY <2>5 DEF ColdInv, Poll, Hit
  <2>6. CASE GiveUp(p)
    BY <2>6 DEF ColdInv, GiveUp, Hit
  <2>7. CASE Recheck(p)
    <3>1. lock = p
      BY <2>7 DEF Recheck
    <3>2. CASE Hit
      BY <2>7, <3>1, <3>2 DEF ColdInv, Recheck, Hit
    <3>3. CASE ~Hit
      <4>1. loads = 0
        BY <2>7, <3>1, <3>3 DEF Recheck
      <4>. QED  BY <2>7, <3>1, <3>3, <4>1 DEF ColdInv, Recheck, Hit
    <3>. QED  BY <3>2, <3>3
  <2>8. ~Throws(p) /\ ~Crash(p)
    BY DEF Throws, Crash
  <2>. QED  BY <2>3, <2>4, <2>5, <2>6, <2>7, <2>8
<1>. QED  BY <1>1, <1>2, <1>3, <1>5

(* The load is of the product of now, which is no older than what anybody  *)
(* has stored.                                                             *)
LEMMA LoadInv ==
  ASSUME IInv, NEW p \in Readers, LoadReturns(p)
  PROVE  IInv'
<1>. USE DEF IInv, LoadReturns, Goto
<1>1. Current \in Nat
  BY ElementOfSeq DEF Current, Last, TypeOK
<1>2. TypeOK'
  BY <1>1 DEF TypeOK, Working
<1>3. VersionInv'
  BY <1>1 DEF VersionInv, Current, TypeOK
<1>4. LockInv'
  BY DEF LockInv, VersionInv, TypeOK, Working
<1>6. db[1] \in Nat /\ db[1] <= Current
  BY DEF VersionInv, TypeOK
<1>7. ColdInv'
  BY <1>1, <1>6 DEF ColdInv, TypeOK, Hit
<1>. QED  BY <1>2, <1>3, <1>4, <1>7

(* Whoever stores has the lock or has lost it to its TTL, so that of those *)
(* who still have theirs nobody stored a newer value meanwhile.            *)
LEMMA StoreInv ==
  ASSUME IInv, NEW p \in Readers, Store(p)
  PROVE  IInv'
<1>. USE CacheAssumption DEF IInv, Goto, Trouble, NoTrouble
<1>1. value[p] \in Nat /\ value[p] # None /\ pc[p] = "store"
  BY CacheAssumption DEF TypeOK, Store
<1>2. TypeOK'
  BY <1>1 DEF TypeOK, Store, Working
<1>3. VersionInv'
  BY <1>1 DEF VersionInv, TypeOK, Store, Current
<1>4. LockInv'
  <2>. SUFFICES ASSUME NEW q \in Readers
                PROVE  /\ pc'[q] = "acquire" => q \notin overtaken
                       /\ lock = q => pc'[q] \in Working /\ q \notin overtaken
                       /\ pc'[q] \in Working /\ q \notin overtaken => lock = q
                       /\ pc'[q] = "store" /\ q \notin overtaken => newest' <= value[q]
    BY DEF LockInv, Store
  <2>1. p \notin overtaken => lock = p
    BY <1>1 DEF LockInv, Working
  <2>2. p \in overtaken => newest' = newest
    BY DEF Store
  <2>3. CASE q = p
    BY <1>1, <2>3 DEF TypeOK, Store, LockInv, Working
  <2>4. CASE q # p
    BY <1>1, <2>1, <2>2, <2>4 DEF TypeOK, Store, LockInv, Working
  <2>. QED  BY <2>3, <2>4
<1>6. ColdInv'
  <2>. SUFFICES ASSUME db'[1] > 0, trouble' = 0
                PROVE  ColdInv'
    BY DEF ColdInv
  <2>1. trouble = 0 /\ db' = db /\ cache' = value[p]
    BY DEF TypeOK, Store
  <2>2. value[p] > 0 /\ Hit'
    BY <1>1, <2>1 DEF ColdInv, TypeOK, Hit
  <2>. QED  BY <1>1, <2>1, <2>2 DEF ColdInv, TypeOK, Store
<1>. QED  BY <1>2, <1>3, <1>4, <1>6

(* The lock goes back, or is left to its TTL.                              *)
LEMMA UnlockInv ==
  ASSUME IInv, NEW p \in Readers, Unlock(p)
  PROVE  IInv'
<1>. USE CacheAssumption DEF IInv, Goto, Trouble, NoTrouble, Release, Keep
<1>1. TypeOK'
  <2>1. due' \in [Readers -> BOOLEAN]
    <3>1. CASE Release
      BY <3>1
    <3>2. CASE UNCHANGED due
      BY <3>2 DEF TypeOK
    <3>. QED  BY <3>1, <3>2 DEF Unlock
  <2>2. lock' \in {lock, None, Dead} /\ trouble' \in Nat
    BY DEF TypeOK, Unlock
  <2>3. pc' \in [Readers -> {"idle", "acquire", "wait", "loadAlone"} \cup Working]
    BY DEF TypeOK, Unlock
  <2>4. UNCHANGED <<db, cache, value, loads, newest, overtaken>>
    BY DEF Unlock
  <2>. QED  BY <2>1, <2>2, <2>3, <2>4 DEF TypeOK
<1>2. VersionInv'
  BY DEF VersionInv, TypeOK, Unlock, Current
<1>3. LockInv'
  <2>1. \/ lock = p /\ lock' \in {None, Dead}
        \/ lock # p /\ lock' = lock
    BY DEF Unlock
  <2>. QED  BY <2>1 DEF LockInv, Unlock, TypeOK, Working
<1>5. ColdInv'
  <2>. SUFFICES ASSUME db'[1] > 0, trouble' = 0
                PROVE  ColdInv'
    BY DEF ColdInv
  <2>1. trouble = 0 /\ db' = db /\ lock' \in {None, lock}
    BY DEF TypeOK, Unlock
  <2>2. Hit
    BY <2>1 DEF ColdInv, Unlock
  <2>. QED  BY <2>1, <2>2 DEF ColdInv, TypeOK, Unlock, Hit
<1>. QED  BY <1>1, <1>2, <1>3, <1>5

(* The lock of a dead holder was nobody's.                                 *)
LEMMA LockExpiresInv ==
  ASSUME IInv, LockExpires
  PROVE  IInv'
<1>. USE CacheAssumption DEF IInv, LockExpires, Trouble, NoTrouble, Release
<1>1. TypeOK'
  BY DEF TypeOK
<1>2. VersionInv'
  BY DEF VersionInv, Current
<1>3. LockInv'
  BY DEF LockInv, TypeOK, Working
<1>4. trouble' # 0 \/ (lock = Dead /\ trouble' = trouble)
  BY DEF TypeOK
<1>5. ColdInv'
  BY <1>4 DEF ColdInv
<1>. QED  BY <1>1, <1>2, <1>3, <1>5

LEMMA CacheExpiresInv ==
  ASSUME IInv, CacheExpires
  PROVE  IInv'
<1>. USE CacheAssumption DEF IInv, CacheExpires, Trouble
<1>1. TypeOK'
  BY DEF TypeOK
<1>2. VersionInv' /\ LockInv'
  BY DEF VersionInv, LockInv, Current
<1>3. trouble' # 0
  BY DEF TypeOK
<1>. QED  BY <1>1, <1>2, <1>3 DEF ColdInv

LEMMA NextInv == IInv /\ [Next]_vars => IInv'
<1>. SUFFICES ASSUME IInv, [Next]_vars PROVE IInv'
  OBVIOUS
<1>1. CASE UNCHANGED vars
  BY <1>1 DEF vars, IInv, TypeOK, VersionInv, LockInv, ColdInv, Current, Hit
<1>2. ASSUME NEW p \in Readers, Get(p) \/ Step(p) \/ Throws(p) \/ Crash(p)
      PROVE  IInv'
  BY <1>2, ReaderInv, LoadInv, StoreInv, UnlockInv DEF Step
<1>. QED  BY <1>1, <1>2, LockExpiresInv, CacheExpiresInv, ChangeInv DEF Next

THEOREM Invariant == Spec => []IInv
  BY InitInv, NextInv, PTL DEF Spec

(* A product that exists costs one load, however many readers miss it      *)
(* together (cache.ts:66-110), while nothing fails.                        *)
THEOREM ColdLoadOnce == Spec => []ColdKeyLoadsOnce
<1>1. IInv => ColdKeyLoadsOnce
  BY DEF IInv, ColdInv, ColdKeyLoadsOnce
<1>. QED  BY <1>1, Invariant, PTL

(* The token of the lock (cache.ts:46-51, 99, 123) lets a reader work     *)
(* under its own lock alone: between its load and its store only readers   *)
(* whose lock has expired store anything.                                  *)
THEOREM CacheNeverOlder == Spec => NeverOlder
<1>. DEFINE Newer == \A p \in Readers \ overtaken :
                       pc[p] = "store" /\ pc'[p] # "store" /\ cache' # cache => cache' >= newest
<1>1. ASSUME IInv, Next, NEW p \in Readers \ overtaken,
             pc[p] = "store", pc'[p] # "store", cache' # cache
      PROVE  cache' >= newest
  <2>. USE <1>1 DEF IInv, Goto
  <2>1. ASSUME NEW q \in Readers, Get(q) \/ Step(q) \/ Throws(q) \/ Crash(q)
        PROVE  Store(q)
    BY <2>1 DEF Step, Get, Acquire, Poll, GiveUp, Recheck, LoadReturns, Unlock, Throws, Crash
  <2>2. ~LockExpires /\ ~CacheExpires /\ ~Change
    BY DEF LockExpires, CacheExpires, Change
  <2>3. PICK q \in Readers : Store(q)
    BY <2>1, <2>2 DEF Next
  <2>4. q = p
    BY <2>3 DEF Store, TypeOK
  <2>5. cache' = value[p] /\ newest <= value[p]
    BY <2>3, <2>4 DEF Store, LockInv
  <2>. QED  BY <2>5 DEF TypeOK
<1>2. IInv /\ [Next]_vars => [Newer]_vars
  BY <1>1
<1>. QED  BY <1>2, Invariant, PTL DEF Spec, NeverOlder
=============================================================================

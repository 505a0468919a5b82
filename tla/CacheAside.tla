---------------------------- MODULE CacheAside ----------------------------
(***************************************************************************)
(* Cache-aside reads of one product card (redis/cache.ts with the loader   *)
(* of redis/product-card.ts): a hit, or the lock and a load, or a wait for *)
(* the holder of the lock.  Every await is a step.                         *)
(*                                                                         *)
(* A version stands for the card; 0 is null, the card of a product that    *)
(* does not exist, which get() cannot tell from a miss.                    *)
(***************************************************************************)
EXTENDS Integers, Sequences, SequencesExt

CONSTANTS Readers, None,
          Dead,              \* a lock whose token nobody will present
          FirstVersions,     \* 0: the product does not exist yet
          MaxVersion,        \* bound: changes of the product
          MaxTrouble         \* bound: failures, expiries, delays over a timeout

ASSUME CacheAssumption ==
  /\ None \notin Readers \cup Nat /\ Dead \notin Readers \cup {None}
  /\ FirstVersions \subseteq Nat /\ MaxVersion \in Nat /\ MaxTrouble \in Nat

VARIABLES db,                \* the versions the product has had
          cache, lock,       \* the two Redis keys
          pc, value,         \* per reader
          due,               \* the holder that a waiting reader met is done
          loads,             \* history: loads so far, counted to 2
          overtaken,         \* readers under whom their lock expired
          newest,            \* history: newest version stored by any other reader
          trouble            \* history: things gone wrong

vars == <<db, cache, lock, pc, value, due, loads, newest, overtaken, trouble>>

Current == Last(db)
Working == {"recheck", "load", "store", "unlock"}

Init ==
  /\ db \in {<<v>> : v \in FirstVersions}
  /\ cache = None /\ lock = None
  /\ pc = [p \in Readers |-> "idle"]
  /\ value = [p \in Readers |-> 0]
  /\ due = [p \in Readers |-> FALSE]
  /\ loads = 0 /\ newest = 0 /\ overtaken = {} /\ trouble = 0

Hit == cache \notin {None, 0}
Goto(p, l) == pc' = [pc EXCEPT ![p] = l]
Trouble == trouble < MaxTrouble /\ trouble' = trouble + 1
NoTrouble == UNCHANGED trouble
CountLoad == loads' = IF loads < 2 THEN loads + 1 ELSE loads

(* The lock is gone: whoever waits will have waited long enough.           *)
Release == lock' = None /\ due' = [q \in Readers |-> due[q] \/ pc[q] = "wait"]
Keep == UNCHANGED <<lock, due>>

(* A hit ends the read.                                                    *)
Get(p) ==
  /\ pc[p] = "idle" /\ ~Hit
  /\ Goto(p, "acquire") /\ overtaken' = overtaken \ {p}
  /\ UNCHANGED <<db, cache, lock, value, due, loads, newest, trouble>>

(* Mutant: SET without NX.                                                 *)
AcquireAlways(p) ==
  /\ pc[p] = "acquire"
  /\ lock' = p /\ Goto(p, "recheck")
  /\ due' = [due EXCEPT ![p] = FALSE]
  /\ UNCHANGED <<db, cache, value, loads, newest, overtaken, trouble>>

(* SET lock token NX PX                                                    *)
Acquire(p) ==
  /\ pc[p] = "acquire"
  /\ IF lock = None THEN lock' = p /\ Goto(p, "recheck")
                    ELSE UNCHANGED lock /\ Goto(p, "wait")
  /\ due' = [due EXCEPT ![p] = FALSE]
  /\ UNCHANGED <<db, cache, value, loads, newest, overtaken, trouble>>

(* A poll that finds the value.                                            *)
Poll(p) ==
  /\ pc[p] = "wait" /\ Hit
  /\ Goto(p, "idle")
  /\ UNCHANGED <<db, cache, lock, value, due, loads, newest, overtaken, trouble>>

(* Mutant: wait until the lock is broken, not until a deadline.            *)
GiveUpOnDead(p) ==
  /\ pc[p] = "wait" /\ ~Hit /\ lock = Dead
  /\ NoTrouble
  /\ Goto(p, "loadAlone")
  /\ CountLoad
  /\ UNCHANGED <<db, cache, lock, value, due, newest, overtaken>>

(* The deadline: the load that p waited for is over and left no value, or  *)
(* its holder is dead, or (trouble) it takes longer than lockWaitMs.       *)
GiveUp(p) ==
  /\ pc[p] = "wait"
  /\ \/ ~Hit /\ (due[p] \/ lock = Dead) /\ NoTrouble
     \/ Trouble
  /\ Goto(p, "loadAlone")
  /\ CountLoad
  /\ UNCHANGED <<db, cache, lock, value, due, newest, overtaken>>

(* Mutant: straight to the database.                                       *)
RecheckNothing(p) ==
  /\ pc[p] = "recheck"
  /\ Goto(p, "load") /\ CountLoad
  /\ UNCHANGED <<db, cache, lock, value, due, newest, overtaken, trouble>>

(* The second get, under the lock.                                         *)
Recheck(p) ==
  /\ pc[p] = "recheck"
  /\ IF Hit THEN Goto(p, "unlock") /\ UNCHANGED loads
            ELSE Goto(p, "load") /\ CountLoad
  /\ UNCHANGED <<db, cache, lock, value, due, newest, overtaken, trouble>>

LoadReturns(p) ==
  /\ pc[p] \in {"load", "loadAlone"}
  /\ value' = [value EXCEPT ![p] = Current]
  /\ Goto(p, IF pc[p] = "load" THEN "store" ELSE "idle")
  /\ UNCHANGED <<db, cache, lock, due, loads, newest, overtaken, trouble>>

(* SET key value EX ttl; an error is swallowed.                            *)
Store(p) ==
  /\ pc[p] = "store"
  /\ \/ /\ cache' = value[p]
        /\ newest' = IF p \notin overtaken /\ value[p] > newest THEN value[p] ELSE newest
        /\ NoTrouble
     \/ Trouble /\ UNCHANGED <<cache, newest>>
  /\ Goto(p, "unlock")
  /\ UNCHANGED <<db, lock, value, due, loads, overtaken>>

(* Mutant: DEL, whosever the lock is.                                      *)
UnlockAnybodys(p) ==
  /\ pc[p] = "unlock" /\ Release /\ NoTrouble
  /\ Goto(p, "idle")
  /\ UNCHANGED <<db, cache, value, loads, newest, overtaken>>

(* UNLOCK_SCRIPT; an error is swallowed and leaves the lock to its TTL.    *)
Unlock(p) ==
  /\ pc[p] = "unlock"
  /\ \/ lock = p /\ Release /\ NoTrouble
     \/ lock # p /\ Keep /\ NoTrouble
     \/ lock = p /\ lock' = Dead /\ Trouble /\ UNCHANGED due
  /\ Goto(p, "idle")
  /\ UNCHANGED <<db, cache, value, loads, newest, overtaken>>

(* get, SET NX or the load throws: the read rejects, through "finally" if  *)
(* it is inside.  SET NX may have run all the same.                        *)
Throws(p) ==
  /\ Trouble
  /\ \/ pc[p] \in {"wait", "loadAlone"} /\ Goto(p, "idle") /\ UNCHANGED lock
     \/ pc[p] = "acquire" /\ Goto(p, "idle")
        /\ lock' \in {lock, IF lock = None THEN Dead ELSE lock}
     \/ pc[p] \in {"recheck", "load"} /\ Goto(p, "unlock") /\ UNCHANGED lock
  /\ UNCHANGED <<db, cache, value, due, loads, newest, overtaken>>

(* The process dies with its lock in hand, or not.                         *)
Crash(p) ==
  /\ pc[p] # "idle" /\ Trouble
  /\ Goto(p, "idle")
  /\ lock' = IF lock = p THEN Dead ELSE lock
  /\ UNCHANGED <<db, cache, value, due, loads, newest, overtaken>>

(* PX: in time for a dead holder, or (trouble) under a slow one.           *)
LockExpires ==
  /\ lock # None
  /\ IF lock = Dead THEN NoTrouble ELSE Trouble
  /\ Release
  /\ overtaken' = overtaken \cup ({lock} \cap Readers)
  /\ UNCHANGED <<db, cache, pc, value, loads, newest>>

(* EX, eviction, or an invalidation.                                       *)
CacheExpires ==
  /\ cache # None
  /\ Trouble
  /\ cache' = None
  /\ UNCHANGED <<db, lock, pc, value, due, loads, newest, overtaken>>

(* A checkout changes the product, and does not touch the cache.           *)
Change ==
  /\ Len(db) <= MaxVersion
  /\ db' = Append(db, Current + 1)
  /\ UNCHANGED <<cache, lock, pc, value, due, loads, newest, overtaken, trouble>>

Step(p) == \/ Acquire(p) \/ Poll(p) \/ GiveUp(p) \/ Recheck(p)
           \/ LoadReturns(p) \/ Store(p) \/ Unlock(p)

Next == \/ \E p \in Readers : Get(p) \/ Step(p) \/ Throws(p) \/ Crash(p)
        \/ LockExpires \/ CacheExpires \/ Change

(* A read that runs goes on.  The lock of a dead holder expires, but no    *)
(* read depends on it.                                                     *)
Spec == Init /\ [][Next]_vars
FairSpec == Spec /\ \A p \in Readers : WF_vars(Step(p))

----------------------------------------------------------------------------
(* Properties.                                                             *)

(* A cold key of a product that exists costs one load, however many read   *)
(* it together and whoever comes between a miss and the lock.              *)
ColdKeyLoadsOnce ==
  db[1] > 0 /\ trouble = 0 => loads <= 1

(* A reader whose own lock has not expired never puts an older value into  *)
(* the cache than another such reader did, across expiries and crashes;    *)
(* also when the locks of others expire under them and they unlock late:   *)
(* the token keeps them from the lock that is somebody else's by then.     *)
NeverOlder ==
  [][\A p \in Readers \ overtaken :
       pc[p] = "store" /\ pc'[p] # "store" /\ cache' # cache => cache' >= newest]_vars

(* Whatever the holder of the lock does, every read ends.                  *)
EveryReadEnds == \A p \in Readers : pc[p] # "idle" ~> pc[p] = "idle"
=============================================================================

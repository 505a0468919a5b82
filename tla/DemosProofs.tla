---------------------------- MODULE DemosProofs ----------------------------
(***************************************************************************)
(* The pool of workers and the programs that check themselves, for every   *)
(* number of tasks, workers, idle rounds and orders, every batch size,     *)
(* prefetch and delivery limit, and failures without bound.                *)
(***************************************************************************)
EXTENDS Demos, SequenceTheorems, FiniteSetTheorems, TLAPS

(* The pool of demo-workers.ts.                                            *)

TypeOK ==
  /\ status \in [Tasks -> {"none", "pending", "done"}]
  /\ processed \in [Tasks -> Nat]
  /\ pc \in [Workers -> {"claim", "work", "stopped"}]
  /\ task \in [Workers -> Tasks \cup {None}]
  /\ idleInARow \in [Workers -> Nat]
  /\ faults \in Nat

(* A worker at work has a pending task locked, nobody else has one.        *)
LockInv ==
  /\ \A w \in Workers : pc[w] = "work" <=> task[w] # None
  /\ \A w \in Workers : pc[w] = "work" => status[task[w]] = "pending"
  /\ \A v, w \in Workers : task[v] = task[w] /\ task[v] # None => v = w

(* Once a worker has found nothing free, nothing that was there from the   *)
(* start is free again, unless a transaction fails.                        *)
IdleInv ==
  faults = 0 =>
    \A w \in Workers : idleInARow[w] > 0 \/ pc[w] = "stopped" =>
      \A t \in Tasks \ Late : ~Free(t)

(* Without failures only idle rounds stop a worker, and what is there from *)
(* the start has not gone back.                                            *)
StartInv == \A t \in Tasks \ Late : status[t] # "none"

IInv == TypeOK /\ LockInv /\ ProcessedOnce /\ IdleInv /\ StartInv

----------------------------------------------------------------------------

LEMMA InitInv == Init => IInv
  BY WorkersAssumption DEF Init, IInv, TypeOK, LockInv, ProcessedOnce, IdleInv,
                           StartInv

LEMMA EnqueueInv ==
  ASSUME IInv, NEW t \in Tasks, Enqueue(t)
  PROVE  IInv'
<1> USE WorkersAssumption DEF IInv, TypeOK, Enqueue
<1>1. TypeOK'
  OBVIOUS
<1>2. LockInv'
  BY DEF LockInv
<1>3. ProcessedOnce'
  BY DEF ProcessedOnce
<1>4. t \in Late
  BY DEF StartInv
<1>5. IdleInv'
  BY <1>4 DEF IdleInv, Free
<1>6. StartInv'
  BY DEF StartInv
<1>. QED  BY <1>1, <1>2, <1>3, <1>5, <1>6

LEMMA ClaimInv ==
  ASSUME IInv, NEW w \in Workers, Claim(w)
  PROVE  IInv'
<1> USE WorkersAssumption DEF IInv, TypeOK, Claim
<1>. PICK t \in Tasks : Free(t) /\ task' = [task EXCEPT ![w] = t]
  OBVIOUS
<1>1. TypeOK'
  OBVIOUS
<1>2. LockInv'
  BY DEF LockInv, Free
<1>3. ProcessedOnce'
  BY DEF ProcessedOnce
<1>4. \A u \in Tasks : Free(u)' => Free(u)
  BY DEF LockInv, Free
<1>5. IdleInv'
  BY <1>4 DEF IdleInv
<1>6. StartInv'
  BY DEF StartInv
<1>. QED  BY <1>1, <1>2, <1>3, <1>5, <1>6

LEMMA IdleRoundInv ==
  ASSUME IInv, NEW w \in Workers, Idle(w)
  PROVE  IInv'
<1> USE WorkersAssumption DEF IInv, TypeOK, Idle
<1>1. TypeOK'
  OBVIOUS
<1>2. LockInv'
  BY DEF LockInv
<1>3. ProcessedOnce'
  BY DEF ProcessedOnce
<1>4. IdleInv'
  BY DEF IdleInv, Free
<1>5. StartInv'
  BY DEF StartInv
<1>. QED  BY <1>1, <1>2, <1>3, <1>4, <1>5

LEMMA FinishInv ==
  ASSUME IInv, NEW w \in Workers, Finish(w)
  PROVE  IInv'
<1> USE WorkersAssumption DEF IInv, TypeOK, Finish
<1>0. task[w] \in Tasks
  BY DEF LockInv
<1>1. TypeOK'
  <2>1. processed[task[w]] \in Nat
    BY <1>0
  <2>2. processed[task[w]] + 1 \in Nat
    BY <2>1
  <2>3. processed' \in [Tasks -> Nat]
    BY <2>2
  <2>. QED  BY <1>0, <2>3
<1>2. LockInv'
  BY DEF LockInv
<1>3. ProcessedOnce'
  BY <1>0 DEF ProcessedOnce, LockInv
<1>4. \A u \in Tasks : Free(u)' => Free(u)
  BY DEF Free, LockInv
<1>5. IdleInv'
  BY <1>4 DEF IdleInv
<1>6. StartInv'
  BY DEF StartInv
<1>. QED  BY <1>1, <1>2, <1>3, <1>5, <1>6

LEMMA FailsInv ==
  ASSUME IInv, NEW w \in Workers, Fails(w)
  PROVE  IInv'
<1> USE WorkersAssumption DEF IInv, TypeOK, Fails
<1>1. TypeOK'
  OBVIOUS
<1>2. LockInv'
  BY DEF LockInv
<1>3. ProcessedOnce'
  BY DEF ProcessedOnce
<1>4. IdleInv'
  BY DEF IdleInv
<1>5. StartInv'
  BY DEF StartInv
<1>. QED  BY <1>1, <1>2, <1>3, <1>4, <1>5

LEMMA NextInv == IInv /\ [Next]_vars => IInv'
<1>. SUFFICES ASSUME IInv, [Next]_vars PROVE IInv'
  OBVIOUS
<1>1. CASE UNCHANGED vars
  BY <1>1 DEF vars, IInv, TypeOK, LockInv, ProcessedOnce, IdleInv, StartInv, Free
<1>2. CASE \E t \in Tasks : Enqueue(t)
  BY <1>2, EnqueueInv
<1>3. CASE \E w \in Workers : Claim(w) \/ Idle(w) \/ Finish(w) \/ Fails(w)
  BY <1>3, ClaimInv, IdleRoundInv, FinishInv, FailsInv
<1>. QED  BY <1>1, <1>2, <1>3 DEF Next

LEMMA InvFair == IInv => PoolIsFair
<1>. SUFFICES ASSUME IInv PROVE NoTaskStranded
  BY DEF IInv, PoolIsFair
<1>. SUFFICES ASSUME \A w \in Workers : pc[w] = "stopped", faults = 0,
                     NEW t \in Tasks \ Late
              PROVE  status[t] = "done"
  BY DEF NoTaskStranded
<1>1. ~Free(t)
  BY WorkersAssumption DEF IInv, IdleInv
<1>2. \A v \in Workers : task[v] = None
  BY DEF IInv, LockInv
<1>3. status[t] # "pending"
  BY <1>1, <1>2, WorkersAssumption DEF Free
<1>. QED  BY <1>3 DEF IInv, TypeOK, StartInv

(* The workers of demo-workers.ts do each task once, and without failures  *)
(* the pool leaves none behind that was there from the start, whatever the *)
(* numbers of tasks, workers and idle rounds.                              *)
THEOREM PoolWorksOff == Spec => []PoolIsFair
<1>1. Spec => []IInv
  BY InitInv, NextInv, PTL DEF Spec
<1>. QED  BY <1>1, InvFair, PTL

----------------------------------------------------------------------------
(* The pipeline of a script, seen from its messages.                       *)

Ids == 1 .. Placed

Msg == [order : Ids \cup {Poison}, id : (Ids \cup {Poison}) \X {0},
        holder : {Main, Child, None}, at : {"ready", "held", "acked", "dead"},
        returns : Nat]

Run == [by : {Main, Child}, msg : Nat, nth : Nat,
        phase : {"received", "claimed", "committed", "done"}]

Stat == [deliveries : Nat, applied : Nat, skipped : Nat, rejected : Nat]

Rows == [todo : SUBSET Ids, marks : SUBSET Ids, failed : SUBSET Ids]

DemoTypes ==
  /\ script \in Scripts
  /\ row \in [Ids -> {"none", "pending", "published"}]
  /\ batch \in [{Relay} -> Rows]
  /\ bound = TRUE
  /\ msgs \in Seq(Msg)
  /\ consumer \in [{Main, Child} -> {"off", "on"}]
  /\ work \subseteq Run
  /\ picking \subseteq Ids \X {0}
  /\ mishaps \in Nat
  /\ stats \in [{Main, Child} -> Stat]
  /\ seen = [n \in Numbers |-> seen[n]]
  /\ late \in BOOLEAN

(* A callback works on a message that its channel holds, and on every      *)
(* message that is held exactly one does: no script cuts a connection and  *)
(* leaves the callback alive.                                              *)
HeldInv ==
  /\ \A m \in DOMAIN msgs : msgs[m].id = <<msgs[m].order, 0>>
  /\ \A k \in work :
       /\ k.msg \in DOMAIN msgs
       /\ msgs[k.msg].at = "held"
       /\ msgs[k.msg].holder = k.by
       /\ msgs[k.msg].returns = k.nth
       /\ stats[k.by].deliveries >= 1
  /\ \A j, k \in work : j.msg = k.msg => j = k
  /\ \A m \in DOMAIN msgs : msgs[m].at = "held" => \E k \in work : k.msg = m
  /\ script # "duplicate" => consumer[Child] = "off"
  /\ \A k \in work : consumer[k.by] = "on"

(* What is in the database was there before it was confirmed or counted.   *)
DoneInv ==
  /\ \A m \in DOMAIN msgs : msgs[m].at = "acked" => msgs[m].id \in picking
  /\ \A k \in work :
       /\ k.phase # "received" => msgs[k.msg].order # Poison
       /\ k.phase \in {"committed", "done"} => msgs[k.msg].id \in picking
       /\ k.phase = "claimed" => WithInbox
  /\ \A e \in picking : \E m \in DOMAIN msgs : e = msgs[m].id /\ msgs[m].order # Poison
  /\ WithInbox => inbox = picking
  /\ \A c \in {Main, Child} :
       stats[c].applied + stats[c].skipped >= 1 => picking # {}

----------------------------------------------------------------------------
(* What a script knows at its lines.                                       *)

Confirmed(m) ==
  msgs[m].at = "acked" \/ \E k \in work : k.msg = m /\ k.phase = "done"

Sure == {m \in DOMAIN msgs : Confirmed(m)}

DuplicateInv ==
  script = "duplicate" =>
  /\ at \in {"start", "ready", "child", "again", "wait", "drain", "count",
             "effect", "dlq", "reported"}
  /\ Len(msgs) = IF at \in {"start", "ready"} THEN 0 ELSE 1
  /\ \A m \in DOMAIN msgs : msgs[m].order = 1
  /\ at \in {"start", "ready", "child", "again"} =>
       consumer[Main] = "off" /\ stats[Main].deliveries = 0 /\ stats[Main].skipped = 0
  /\ at \notin {"start", "ready", "child"} =>
       /\ consumer[Child] = "off"
       /\ picking = {<<1, 0>>}
       /\ msgs[1].returns >= 1
       /\ mishaps >= 1
       /\ seen["deliveries"] \in Nat \ {0}
  /\ stats[Main].skipped >= 1 => Confirmed(1)
  /\ stats[Main].deliveries >= 1 /\ msgs[1].at = "dead" => mishaps >= 2
  /\ at \in {"drain", "count", "effect", "dlq", "reported"} /\ ~late =>
       stats[Main].deliveries >= 1
  /\ at \in {"count", "effect", "dlq", "reported"} /\ ~late => seen["work"] = 0
  /\ at \in {"effect", "dlq", "reported"} /\ ~late => seen["deliveries"] >= 2
  /\ at \in {"dlq", "reported"} =>
       seen["effect"] = 1 /\ seen["skipped"] \in 0 .. stats[Main].skipped
  /\ at = "reported" /\ ~late /\ mishaps = 1 => seen["dlq"] = 0

DlqInv ==
  script = "dlq" =>
  /\ at \in {"start", "publish", "wait", "poll", "count", "effect", "reported"}
  /\ Len(msgs) = IF at \in {"start", "publish"} THEN 0 ELSE 1
  /\ \A m \in DOMAIN msgs : msgs[m].order = Poison
  /\ stats[Main].rejected = IF Len(msgs) = 1 /\ msgs[1].at = "dead" THEN 1 ELSE 0
  /\ at \in {"poll", "count", "effect", "reported"} /\ ~late => msgs[1].at = "dead"
  /\ at \in {"count", "effect", "reported"} =>
       /\ ~late => seen["dlq"] = 1
       /\ seen["dlq"] = 1 => msgs[1].at = "dead"
  /\ at \in {"effect", "reported"} /\ ~late => seen["work"] = 0
  /\ at = "reported" => seen["effect"] = 0 /\ (~late => seen["rejected"] = 1)

PublishInv ==
  script = "publish" =>
  /\ at \in {"start", "loop", "work", "dlq", "reported"}
  /\ seen["published"] = Len(msgs)
  /\ Len(msgs) <= Placed
  /\ at = "start" => msgs = <<>>
  /\ at \in {"work", "dlq", "reported"} => Len(msgs) = Placed
  /\ \A m \in DOMAIN msgs : msgs[m].order = m
  /\ stats[Main].applied <= Cardinality(Sure)
  /\ at \in {"work", "dlq", "reported"} /\ ~late => stats[Main].applied >= Placed
  /\ at \in {"dlq", "reported"} /\ ~late => seen["work"] = 0
  /\ at = "reported" =>
       /\ ~late => seen["dlq"] = 0 /\ seen["applied"] = Placed
       /\ seen["dropped"] = 0
       /\ seen["applied"] = Placed => stats[Main].applied >= Placed

(* The one row, and the relay's transaction over it.                       *)
RowIs(state) == row = [o \in Ids |-> IF o = 1 THEN state ELSE "none"]
BatchIs(todo, marks) == batch[Relay] = [todo |-> todo, marks |-> marks, failed |-> {}]

RelayScriptInv ==
  script = "relay" =>
  /\ at \in {"start", "place", "select", "crash", "thrown", "wait", "unmarked",
             "second", "publishing", "marking", "delivered", "skipped", "marked",
             "effect", "processed", "reported"}
  /\ \A m \in DOMAIN msgs : msgs[m].order = 1
  /\ at \in {"start", "place", "select", "crash"} => Len(msgs) = 0
  /\ at \in {"thrown", "wait", "unmarked", "second", "publishing"} => Len(msgs) = 1
  /\ at \in {"marking", "delivered", "skipped", "marked", "effect", "processed",
             "reported"} => Len(msgs) = 2
  /\ at # "crash" => seen["published"] = Len(msgs)
  /\ at \in {"start", "place"} => RowIs("none")
  /\ at \in {"select", "crash", "thrown", "wait", "unmarked", "second", "publishing",
             "marking"} => RowIs("pending")
  /\ at \in {"delivered", "skipped", "marked", "effect", "processed", "reported"} =>
       RowIs("published")
  /\ at \in {"crash", "publishing"} => BatchIs({1}, {})
  /\ at \in {"thrown", "marking"} => BatchIs({}, {1})
  /\ at \notin {"crash", "publishing", "thrown", "marking"} => BatchIs({}, {})
  /\ at \in {"second", "publishing", "marking", "delivered", "skipped", "marked",
             "effect", "processed", "reported"} => seen["unmarked"] = 1
  /\ at \in {"skipped", "marked", "effect", "processed", "reported"} /\ ~late =>
       stats[Main].deliveries >= 2
  /\ at \in {"marked", "effect", "processed", "reported"} /\ ~late => picking # {}
  /\ at \in {"effect", "processed", "reported"} =>
       seen["marked"] = 1 /\ (~late => seen["deliveries"] >= 2)
  /\ at \in {"processed", "reported"} =>
       /\ ~late => seen["effect"] = 1
       /\ seen["effect"] = 1 => picking # {}
  /\ at = "reported" /\ ~late => seen["processed"] = 1

OutboxScriptInv ==
  script = "outbox" =>
  /\ at \in {"start", "first", "second", "count", "pass", "publishing", "marking",
             "delivered", "applied", "effect", "processed", "reported"}
  /\ \A m \in DOMAIN msgs : msgs[m].order = 1
  /\ at \in {"start", "first", "second", "count", "pass", "publishing"} =>
       Len(msgs) = 0
  /\ at \in {"marking", "delivered", "applied", "effect", "processed", "reported"} =>
       Len(msgs) = 1
  /\ seen["published"] = Len(msgs)
  /\ at \in {"start", "first"} => RowIs("none")
  /\ at \in {"second", "count", "pass", "publishing", "marking"} => RowIs("pending")
  /\ at \in {"delivered", "applied", "effect", "processed", "reported"} =>
       RowIs("published")
  /\ at = "publishing" => BatchIs({1}, {})
  /\ at = "marking" => BatchIs({}, {1})
  /\ at \notin {"publishing", "marking"} => BatchIs({}, {})
  /\ at \notin {"start", "first", "second"} => seen["replay"] = 1
  /\ at \notin {"start", "first", "second", "count"} => seen["outbox"] = 1
  /\ at \in {"effect", "processed", "reported"} /\ ~late => picking # {}
  /\ at \in {"processed", "reported"} =>
       /\ ~late => seen["effect"] = 1
       /\ seen["effect"] = 1 => picking # {}
  /\ at = "reported" /\ ~late => seen["processed"] = 1

(* main of demo:workers reads once the pool has stopped without a failure. *)
WorkersScriptInv ==
  script = "workers" =>
  /\ at \in {"start", "failed", "reported"}
  /\ at = "reported" =>
       /\ faults = 0
       /\ \A w \in Workers : pc[w] = "stopped"
       /\ seen["done"] = Cardinality({t \in Tasks : status[t] = "done"})
       /\ seen["twice"] = Cardinality({t \in Tasks : processed[t] > 1})
       /\ seen["pending"] = Cardinality({t \in Tasks : status[t] = "pending"})


----------------------------------------------------------------------------
(* What the steps of the pipeline amount to.                               *)

(* Message m gets a new place, the others stay as they are.                *)
Becomes(m, at1, holder, returns) ==
  /\ msgs' \in Seq(Msg)
  /\ Len(msgs') = Len(msgs)
  /\ DOMAIN msgs' = DOMAIN msgs
  /\ msgs'[m].order = msgs[m].order
  /\ msgs'[m].id = msgs[m].id
  /\ msgs'[m].at = at1
  /\ msgs'[m].holder = holder
  /\ msgs'[m].returns = returns
  /\ \A i \in DOMAIN msgs : i # m => msgs'[i] = msgs[i]

(* One counter of consumer c is one more.                                  *)
Counted(c, what) ==
  /\ stats' \in [{Main, Child} -> Stat]
  /\ \A d \in {Main, Child} : d # c => stats'[d] = stats[d]
  /\ stats'[c].deliveries = stats[c].deliveries + IF what = "deliveries" THEN 1 ELSE 0
  /\ stats'[c].applied = stats[c].applied + IF what = "applied" THEN 1 ELSE 0
  /\ stats'[c].skipped = stats[c].skipped + IF what = "skipped" THEN 1 ELSE 0
  /\ stats'[c].rejected = stats[c].rejected + IF what = "rejected" THEN 1 ELSE 0

(* Count counts what it says.                                              *)
LEMMA CountCounts ==
  ASSUME DemoTypes, NEW c \in {Main, Child},
         NEW what \in {"deliveries", "applied", "skipped", "rejected"}, Count(c, what)
  PROVE  Counted(c, what)
<1>1. stats \in [{Main, Child} -> Stat]
  BY DEF DemoTypes
<1>2. stats' = [stats EXCEPT ![c][what] = @ + 1]
  BY DEF Count
<1>3. stats' \in [{Main, Child} -> Stat]
  BY <1>1, <1>2 DEF Stat
<1>4. \A d \in {Main, Child} : d # c => stats'[d] = stats[d]
  BY <1>1, <1>2
<1>5. stats'[c] = [stats[c] EXCEPT ![what] = @ + 1]
  BY <1>1, <1>2
<1>6. stats[c] \in Stat
  BY <1>1
<1>7. CASE what = "deliveries"
  BY <1>3, <1>4, <1>5, <1>6, <1>7 DEF Counted, Stat
<1>8. CASE what = "applied"
  BY <1>3, <1>4, <1>5, <1>6, <1>8 DEF Counted, Stat
<1>9. CASE what = "skipped"
  BY <1>3, <1>4, <1>5, <1>6, <1>9 DEF Counted, Stat
<1>10. CASE what = "rejected"
  BY <1>3, <1>4, <1>5, <1>6, <1>10 DEF Counted, Stat
<1>. QED  BY <1>7, <1>8, <1>9, <1>10

(* What the types say of one message.                                      *)
LEMMA MessageTypes ==
  ASSUME DemoTypes
  PROVE  /\ \A m \in DOMAIN msgs : msgs[m] \in Msg
         /\ DOMAIN msgs = 1 .. Len(msgs)
         /\ Len(msgs) \in Nat
  BY DEF DemoTypes

(* An update of one message.                                               *)
LEMMA Replaced ==
  ASSUME DemoTypes, NEW m \in DOMAIN msgs, NEW new \in Msg,
         new.order = msgs[m].order, new.id = msgs[m].id,
         DOMAIN msgs' = DOMAIN msgs,
         msgs' = [i \in DOMAIN msgs |-> IF i = m THEN new ELSE msgs[i]]
  PROVE  Becomes(m, new.at, new.holder, new.returns)
<1>1. DOMAIN msgs = 1 .. Len(msgs) /\ Len(msgs) \in Nat
  BY MessageTypes
<1>2. \A i \in 1 .. Len(msgs) : msgs'[i] \in Msg
  BY <1>1, MessageTypes
<1>3. msgs' = [i \in 1 .. Len(msgs) |-> msgs'[i]]
  BY <1>1
<1>4. msgs' \in Seq(Msg)
  BY <1>1, <1>2, <1>3, IsASeq
<1>5. Len(msgs') = Len(msgs)
  BY <1>1, <1>4
<1>. QED  BY <1>4, <1>5 DEF Becomes

(* What the scripts leave to the pipeline.                                 *)
Aside == <<vars, row, attempts, batch, bound, consumer, script, at, seen, late>>

(* A delivery.                                                             *)
LEMMA ReceiveStep ==
  ASSUME DemoTypes, NEW c \in {Main, Child}, NEW m \in DOMAIN msgs, Receive(c, m)
  PROVE  /\ consumer[c] = "on"
         /\ msgs[m].at = "ready"
         /\ Becomes(m, "held", c, msgs[m].returns)
         /\ work' = work \cup {[by |-> c, msg |-> m, nth |-> msgs[m].returns,
                                phase |-> "received"]}
         /\ Counted(c, "deliveries")
         /\ UNCHANGED <<row, attempts, batch, bound, consumer, inbox, picking, mishaps>>
<1>. DEFINE new == [msgs[m] EXCEPT !.at = "held", !.holder = c]
<1>1. msgs[m] \in Msg
  BY MessageTypes
<1>2. /\ new \in Msg /\ new.order = msgs[m].order /\ new.id = msgs[m].id
      /\ new.at = "held" /\ new.holder = c /\ new.returns = msgs[m].returns
  BY <1>1 DEF Msg
<1>3. msgs' = [msgs EXCEPT ![m] = new]
  BY DEF Receive, P!Deliver
<1>. HIDE DEF new
<1>4. msgs' = [i \in DOMAIN msgs |-> IF i = m THEN new ELSE msgs[i]]
  BY <1>3
<1>5. Becomes(m, "held", c, msgs[m].returns)
  BY <1>2, <1>4, Replaced
<1>6. Counted(c, "deliveries")
  BY CountCounts DEF Receive
<1>. QED  BY <1>5, <1>6 DEF Receive, P!Deliver, P!relayVars, P!dbVars

(* A callback that settles its message finds it with its channel.          *)
LEMMA SettleStep ==
  ASSUME DemoTypes, HeldInv, NEW k \in work, NEW at1 \in {"dead", "acked"},
         P(FALSE)!Settle(k, at1)
  PROVE  Becomes(k.msg, at1, None, msgs[k.msg].returns)
<1>. DEFINE new == [msgs[k.msg] EXCEPT !.at = at1, !.holder = None]
<1>1. k.msg \in DOMAIN msgs /\ msgs[k.msg].at = "held" /\ msgs[k.msg].returns = k.nth
  BY DEF HeldInv
<1>2. msgs[k.msg] \in Msg
  BY <1>1, MessageTypes
<1>3. /\ new \in Msg /\ new.order = msgs[k.msg].order /\ new.id = msgs[k.msg].id
      /\ new.at = at1 /\ new.holder = None /\ new.returns = msgs[k.msg].returns
  BY <1>2 DEF Msg
<1>4. msgs' = [msgs EXCEPT ![k.msg] = new]
  BY <1>1 DEF P!Settle, P!Live
<1>. HIDE DEF new
<1>5. msgs' = [i \in DOMAIN msgs |-> IF i = k.msg THEN new ELSE msgs[i]]
  BY <1>4
<1>. QED  BY <1>1, <1>3, <1>5, Replaced

(* A message that leaves its channel unsettled goes back, or to the DLQ.   *)
LEMMA RequeueStep ==
  ASSUME DemoTypes, NEW m \in DOMAIN msgs, P(FALSE)!Requeue({m})
  PROVE  \E at1 \in {"ready", "dead"} : Becomes(m, at1, None, msgs[m].returns + 1)
<1>. DEFINE at1 == IF msgs[m].returns >= DeliveryLimit THEN "dead" ELSE "ready"
            new == [msgs[m] EXCEPT !.returns = @ + 1, !.holder = None, !.at = at1]
<1>1. msgs[m] \in Msg
  BY MessageTypes
<1>2. at1 \in {"ready", "dead"}
  OBVIOUS
<1>3. msgs' = [i \in DOMAIN msgs |-> IF i = m THEN new ELSE msgs[i]]
  BY DEF P!Requeue
<1>. HIDE DEF at1
<1>4. msgs[m].returns + 1 \in Nat
  BY <1>1 DEF Msg
<1>5. /\ new.order = msgs[m].order /\ new.id = msgs[m].id
      /\ new.at = at1 /\ new.holder = None /\ new.returns = msgs[m].returns + 1
  BY <1>1 DEF Msg
<1>6. new \in Msg
  BY <1>1, <1>2, <1>4 DEF Msg
<1>. HIDE DEF new
<1>7. DOMAIN msgs' = DOMAIN msgs
  BY <1>3
<1>. QED  BY <1>2, <1>3, <1>5, <1>6, <1>7, Replaced

(* A refused event goes to the DLQ.                                        *)
LEMMA RefuseStep ==
  ASSUME DemoTypes, HeldInv, NEW k \in work, Refuse(k)
  PROVE  /\ k.phase = "received"
         /\ msgs[k.msg].order = Poison
         /\ Becomes(k.msg, "dead", None, msgs[k.msg].returns)
         /\ work' = work \ {k}
         /\ Counted(k.by, "rejected")
         /\ UNCHANGED <<row, attempts, batch, bound, consumer, inbox, picking, mishaps>>
<1>. USE DEF Refuse, P!Reject, P!relayVars, P!dbVars
<1>1. Becomes(k.msg, "dead", None, msgs[k.msg].returns)
  BY SettleStep
<1>2. k.by \in {Main, Child}
  BY DEF DemoTypes, Run
<1>3. Counted(k.by, "rejected")
  BY <1>2, CountCounts
<1>. QED  BY <1>1, <1>3 DEF P!OrderOf

(* An ack.                                                                 *)
LEMMA ConfirmStep ==
  ASSUME DemoTypes, HeldInv, NEW k \in work, Confirm(k)
  PROVE  /\ k.phase = "done"
         /\ k.by # Child
         /\ Becomes(k.msg, "acked", None, msgs[k.msg].returns)
         /\ work' = work \ {k}
         /\ UNCHANGED <<row, attempts, batch, bound, consumer, inbox, picking, mishaps,
                        stats>>
<1>. USE DEF Confirm, P!Ack, P!relayVars, P!dbVars
<1>1. Becomes(k.msg, "acked", None, msgs[k.msg].returns)
  BY SettleStep
<1>. QED  BY <1>1

(* nack(requeue = true) after a failed statement.                          *)
LEMMA FumbleStep ==
  ASSUME DemoTypes, HeldInv, NEW k \in work, Fumble(k)
  PROVE  /\ k.phase # "done"
         /\ msgs[k.msg].order # Poison
         /\ \E at1 \in {"ready", "dead"} :
              Becomes(k.msg, at1, None, msgs[k.msg].returns + 1)
         /\ work' = work \ {k}
         /\ mishaps' = mishaps + 1
         /\ UNCHANGED <<row, attempts, batch, bound, consumer, inbox, picking, stats>>
<1>. USE DEF Fumble, P!ApplyFails, P!relayVars, P!dbVars, P!Fault
<1>1. k.msg \in DOMAIN msgs /\ msgs[k.msg].at = "held" /\ msgs[k.msg].returns = k.nth
  BY DEF HeldInv
<1>2. P(FALSE)!Requeue({k.msg})
  BY <1>1 DEF P!Live
<1>3. \E at1 \in {"ready", "dead"} : Becomes(k.msg, at1, None, msgs[k.msg].returns + 1)
  BY <1>1, <1>2, RequeueStep
<1>. QED  BY <1>3 DEF P!OrderOf

(* A callback gets on: it claims the event under the inbox, commits the    *)
(* effect, learns that it did, or finds that the event has its task.       *)
On(k, p) == work' = (work \ {k}) \cup {[k EXCEPT !.phase = p]}

Claimed(k) ==
  /\ WithInbox
  /\ On(k, "claimed")
  /\ UNCHANGED <<inbox, picking, stats>>

Committed(k) ==
  /\ On(k, "committed")
  /\ picking' = picking \cup {msgs[k.msg].id}
  /\ WithInbox => inbox' = picking'
  /\ UNCHANGED stats

Learned(k) ==
  /\ k.phase = "committed"
  /\ On(k, "done")
  /\ Counted(k.by, "applied")
  /\ UNCHANGED <<inbox, picking>>

Skipped(k) ==
  /\ msgs[k.msg].id \in picking
  /\ On(k, "done")
  /\ Counted(k.by, "skipped")
  /\ UNCHANGED <<inbox, picking>>

(* A callback that applies its event does one of the four.                 *)
LEMMA ApplyStep ==
  ASSUME DemoTypes, HeldInv, DoneInv, NEW k \in work, Apply(k)
  PROVE  /\ k.phase # "done"
         /\ msgs[k.msg].order # Poison
         /\ Claimed(k) \/ Committed(k) \/ Learned(k) \/ Skipped(k)
         /\ UNCHANGED <<row, attempts, batch, bound, msgs, consumer, mishaps>>
<1>0. k.by \in {Main, Child}
  BY DEF DemoTypes, Run
<1>1. CASE /\ ~WithInbox
           /\ P(FALSE)!ApplyPickingTask(k)
           /\ IF msgs[k.msg].id \in picking THEN Count(k.by, "skipped")
              ELSE UNCHANGED stats
  <2>. USE DEF P!ApplyPickingTask, P!GoOn, P!EventOf, P!OrderOf, P!relayVars, On
  <2>1. CASE msgs[k.msg].id \in picking
    <3>1. Counted(k.by, "skipped")
      BY <1>0, <1>1, <2>1, CountCounts
    <3>. QED  BY <1>1, <2>1, <3>1 DEF Skipped
  <2>2. CASE msgs[k.msg].id \notin picking
    BY <1>1, <2>2 DEF Committed
  <2>. QED  BY <2>1, <2>2
<1>2. CASE /\ WithInbox
           /\ P(TRUE)!ClaimInbox(k)
           /\ IF msgs[k.msg].id \in inbox THEN Count(k.by, "skipped")
              ELSE UNCHANGED stats
  <2>. USE DEF P!ClaimInbox, P!GoOn, P!EventOf, P!OrderOf, P!relayVars, P!dbVars, On
  <2>1. inbox = picking
    BY <1>2 DEF DoneInv
  <2>2. CASE msgs[k.msg].id \in inbox
    <3>1. Counted(k.by, "skipped")
      BY <1>0, <1>2, <2>2, CountCounts
    <3>. QED  BY <1>2, <2>1, <2>2, <3>1 DEF Skipped
  <2>3. CASE msgs[k.msg].id \notin inbox
    BY <1>2, <2>3 DEF Claimed
  <2>. QED  BY <2>2, <2>3
<1>3. CASE WithInbox /\ P(TRUE)!ApplyEffect(k) /\ UNCHANGED stats
  <2>. USE DEF P!ApplyEffect, P!GoOn, P!EventOf, P!relayVars, On
  <2>2. inbox = picking
    BY <1>3 DEF DoneInv
  <2>3. msgs[k.msg].order # Poison
    BY <1>3 DEF DoneInv
  <2>. QED  BY <1>3, <2>2, <2>3 DEF Committed
<1>4. CASE P(FALSE)!Told(k) /\ Count(k.by, "applied")
  <2>. USE DEF P!Told, P!GoOn, P!OrderOf, P!relayVars, On
  <2>1. Counted(k.by, "applied")
    BY <1>0, <1>4, CountCounts
  <2>2. msgs[k.msg].order # Poison
    BY <1>4 DEF DoneInv
  <2>. QED  BY <1>4, <2>1, <2>2 DEF Learned
<1>. QED  BY <1>1, <1>2, <1>3, <1>4 DEF Apply

----------------------------------------------------------------------------
(* The pipeline's part of the invariant, step by step.                     *)

PipeInv == DemoTypes /\ HeldInv /\ DoneInv

LEMMA WorkTypes ==
  ASSUME PipeInv, NEW k \in work
  PROVE  /\ k \in Run
         /\ k.by \in {Main, Child}
         /\ k.msg \in DOMAIN msgs
         /\ msgs[k.msg] \in Msg
         /\ stats[k.by] \in Stat
         /\ msgs[k.msg].at = "held"
         /\ msgs[k.msg].holder = k.by
         /\ msgs[k.msg].returns = k.nth
BY MessageTypes DEF PipeInv, DemoTypes, HeldInv, Run

LEMMA ReceiveInv ==
  ASSUME PipeInv, NEW c \in {Main, Child}, NEW m \in DOMAIN msgs, Receive(c, m),
         UNCHANGED <<script, seen, late>>
  PROVE  PipeInv'
<1>. DEFINE new == [by |-> c, msg |-> m, nth |-> msgs[m].returns, phase |-> "received"]
<1>0. /\ consumer[c] = "on"
      /\ msgs[m].at = "ready"
      /\ Becomes(m, "held", c, msgs[m].returns)
      /\ work' = work \cup {new}
      /\ Counted(c, "deliveries")
      /\ UNCHANGED <<row, attempts, batch, bound, consumer, inbox, picking, mishaps>>
  BY ReceiveStep DEF PipeInv
<1>1. msgs[m] \in Msg /\ m \in Nat /\ stats[c] \in Stat
  BY MessageTypes DEF PipeInv, DemoTypes
<1>2. new \in Run
  BY <1>1 DEF Run, Msg
<1>3. DemoTypes'
  BY <1>0, <1>2 DEF PipeInv, DemoTypes, Becomes, Counted
<1>4. \A k \in work : k.msg # m
  BY <1>0 DEF PipeInv, HeldInv
<1>5. stats'[c].deliveries >= 1
  BY <1>0, <1>1 DEF Counted, Stat
<1>6. \A d \in {Main, Child} : stats[d].deliveries >= 1 => stats'[d].deliveries >= 1
  BY <1>0, <1>5 DEF Counted
<1>7. HeldInv'
  <2>1. \A i \in DOMAIN msgs' : msgs'[i].id = <<msgs'[i].order, 0>>
    BY <1>0 DEF PipeInv, HeldInv, Becomes
  <2>2. ASSUME NEW k \in work'
        PROVE  /\ k.msg \in DOMAIN msgs'
               /\ msgs'[k.msg].at = "held"
               /\ msgs'[k.msg].holder = k.by
               /\ msgs'[k.msg].returns = k.nth
               /\ stats'[k.by].deliveries >= 1
               /\ consumer'[k.by] = "on"
    <3>1. CASE k = new
      BY <1>0, <1>1, <1>5, <3>1 DEF Becomes
    <3>2. CASE k \in work
      <4>1. k.by \in {Main, Child} /\ k.msg \in DOMAIN msgs /\ k.msg # m
        BY <1>4, <3>2, WorkTypes
      <4>2. stats[k.by].deliveries >= 1 /\ consumer[k.by] = "on"
        BY <3>2 DEF PipeInv, HeldInv
      <4>3. msgs'[k.msg] = msgs[k.msg] /\ DOMAIN msgs' = DOMAIN msgs
        BY <1>0, <4>1 DEF Becomes
      <4>4. stats'[k.by].deliveries >= 1 /\ consumer'[k.by] = "on"
        BY <1>0, <1>6, <4>1, <4>2
      <4>. QED  BY <3>2, <4>1, <4>3, <4>4, WorkTypes
    <3>. QED  BY <1>0, <3>1, <3>2
  <2>3. \A j, k \in work' : j.msg = k.msg => j = k
    BY <1>0, <1>4 DEF PipeInv, HeldInv
  <2>4. ASSUME NEW i \in DOMAIN msgs', msgs'[i].at = "held"
        PROVE  \E k \in work' : k.msg = i
    <3>1. CASE i = m
      <4>1. new \in work' /\ new.msg = i
        BY <1>0, <3>1
      <4>. QED  BY <4>1
    <3>2. CASE i # m
      BY <1>0, <2>4, <3>2 DEF Becomes, PipeInv, HeldInv
    <3>. QED  BY <3>1, <3>2
  <2>. QED  BY <1>0, <2>1, <2>2, <2>3, <2>4 DEF PipeInv, HeldInv
<1>8. DoneInv'
  <2>1. \A i \in DOMAIN msgs' : msgs'[i].at = "acked" => msgs'[i].id \in picking'
    BY <1>0 DEF Becomes, PipeInv, DoneInv
  <2>2. ASSUME NEW k \in work'
        PROVE  /\ k.phase # "received" => msgs'[k.msg].order # Poison
               /\ k.phase \in {"committed", "done"} => msgs'[k.msg].id \in picking'
               /\ k.phase = "claimed" => WithInbox'
    <3>1. CASE k = new
      BY <3>1
    <3>2. CASE k \in work
      BY <1>0, <1>4, <3>2, WorkTypes DEF Becomes, PipeInv, DoneInv, WithInbox
    <3>. QED  BY <1>0, <3>1, <3>2
  <2>3. \A e \in picking' : \E i \in DOMAIN msgs' : e = msgs'[i].id
                                                 /\ msgs'[i].order # Poison
    BY <1>0 DEF Becomes, PipeInv, DoneInv
  <2>4. WithInbox' => inbox' = picking'
    BY <1>0 DEF PipeInv, DoneInv, WithInbox
  <2>5. \A d \in {Main, Child} : stats'[d].applied + stats'[d].skipped >= 1 =>
          picking' # {}
    <3>1. stats'[c].applied = stats[c].applied /\ stats'[c].skipped = stats[c].skipped
      BY <1>0, <1>1 DEF Counted, Stat
    <3>. QED  BY <1>0, <3>1 DEF Counted, PipeInv, DoneInv
  <2>. QED  BY <2>1, <2>2, <2>3, <2>4, <2>5 DEF DoneInv
<1>. QED  BY <1>3, <1>7, <1>8 DEF PipeInv

(* A callback is over: its message is no longer held.                      *)
LEMMA LeaveHeld ==
  ASSUME PipeInv, NEW k \in work, NEW at1 \in {"ready", "acked", "dead"}, NEW n,
         Becomes(k.msg, at1, None, n), work' = work \ {k},
         UNCHANGED script,
         script # "duplicate" => consumer'[Child] = "off",
         \A j \in work' : consumer'[j.by] = "on",
         \A d \in {Main, Child} : stats'[d].deliveries = stats[d].deliveries
  PROVE  HeldInv'
<1>1. \A i \in DOMAIN msgs' : msgs'[i].id = <<msgs'[i].order, 0>>
  BY WorkTypes DEF PipeInv, HeldInv, Becomes
<1>2. ASSUME NEW j \in work'
      PROVE  /\ j.msg \in DOMAIN msgs'
             /\ msgs'[j.msg].at = "held"
             /\ msgs'[j.msg].holder = j.by
             /\ msgs'[j.msg].returns = j.nth
             /\ stats'[j.by].deliveries >= 1
  <2>1. j \in work /\ j.msg # k.msg
    BY DEF PipeInv, HeldInv
  <2>2. j.by \in {Main, Child}
    BY <2>1, WorkTypes
  <2>. QED  BY <2>1, <2>2 DEF Becomes, PipeInv, HeldInv
<1>3. \A i, j \in work' : i.msg = j.msg => i = j
  BY DEF PipeInv, HeldInv
<1>4. ASSUME NEW i \in DOMAIN msgs', msgs'[i].at = "held"
      PROVE  \E j \in work' : j.msg = i
  <2>1. i # k.msg
    BY <1>4 DEF Becomes
  <2>. QED  BY <1>4, <2>1 DEF Becomes, PipeInv, HeldInv
<1>. QED  BY <1>1, <1>2, <1>3, <1>4 DEF PipeInv, HeldInv

LEMMA LeaveDone ==
  ASSUME PipeInv, NEW k \in work, NEW at1 \in {"ready", "acked", "dead"}, NEW n,
         at1 = "acked" => k.phase = "done",
         Becomes(k.msg, at1, None, n), work' = work \ {k},
         UNCHANGED <<inbox, picking, script>>,
         \A d \in {Main, Child} : /\ stats'[d].applied = stats[d].applied
                                  /\ stats'[d].skipped = stats[d].skipped
  PROVE  DoneInv'
<1>0. k.msg \in DOMAIN msgs
  BY WorkTypes
<1>1. \A i \in DOMAIN msgs' : /\ i \in DOMAIN msgs
                              /\ msgs'[i].id = msgs[i].id
                              /\ msgs'[i].order = msgs[i].order
  BY <1>0 DEF Becomes
<1>2. \A i \in DOMAIN msgs' : msgs'[i].at = "acked" => msgs'[i].id \in picking'
  BY <1>0, <1>1 DEF Becomes, PipeInv, DoneInv
<1>3. \A j \in work' : /\ j.phase # "received" => msgs'[j.msg].order # Poison
                       /\ j.phase \in {"committed", "done"} => msgs'[j.msg].id \in picking'
                       /\ j.phase = "claimed" => WithInbox'
  BY <1>1, WorkTypes DEF Becomes, PipeInv, DoneInv, WithInbox
<1>4. \A e \in picking' : \E i \in DOMAIN msgs' : e = msgs'[i].id
                                               /\ msgs'[i].order # Poison
  BY <1>1 DEF Becomes, PipeInv, DoneInv
<1>5. WithInbox' => inbox' = picking'
  BY DEF PipeInv, DoneInv, WithInbox
<1>6. \A d \in {Main, Child} : stats'[d].applied + stats'[d].skipped >= 1 =>
        picking' # {}
  BY DEF PipeInv, DoneInv
<1>. QED  BY <1>2, <1>3, <1>4, <1>5, <1>6 DEF DoneInv

LEMMA RefuseInv ==
  ASSUME PipeInv, NEW k \in work, Refuse(k), UNCHANGED <<script, seen, late>>
  PROVE  PipeInv'
<1>1. /\ Becomes(k.msg, "dead", None, msgs[k.msg].returns)
      /\ work' = work \ {k}
      /\ Counted(k.by, "rejected")
      /\ UNCHANGED <<row, attempts, batch, bound, consumer, inbox, picking, mishaps>>
  BY RefuseStep DEF PipeInv
<1>2. k.by \in {Main, Child} /\ stats[k.by] \in Stat
  BY WorkTypes
<1>3. \A d \in {Main, Child} : /\ stats'[d].deliveries = stats[d].deliveries
                               /\ stats'[d].applied = stats[d].applied
                               /\ stats'[d].skipped = stats[d].skipped
  BY <1>1, <1>2 DEF Counted, Stat
<1>4. DemoTypes'
  BY <1>1 DEF PipeInv, DemoTypes, Becomes, Counted
<1>5. \A j \in work' : consumer'[j.by] = "on"
  BY <1>1 DEF PipeInv, HeldInv
<1>6. script # "duplicate" => consumer'[Child] = "off"
  BY <1>1 DEF PipeInv, HeldInv
<1>7. HeldInv'
  BY <1>1, <1>3, <1>5, <1>6, LeaveHeld
<1>8. DoneInv'
  BY <1>1, <1>3, LeaveDone
<1>. QED  BY <1>4, <1>7, <1>8 DEF PipeInv

LEMMA ConfirmInv ==
  ASSUME PipeInv, NEW k \in work, Confirm(k), UNCHANGED <<script, seen, late>>
  PROVE  PipeInv'
<1>1. /\ k.phase = "done"
      /\ Becomes(k.msg, "acked", None, msgs[k.msg].returns)
      /\ work' = work \ {k}
      /\ UNCHANGED <<row, attempts, batch, bound, consumer, inbox, picking, mishaps, stats>>
  BY ConfirmStep DEF PipeInv
<1>4. DemoTypes'
  BY <1>1 DEF PipeInv, DemoTypes, Becomes
<1>5. \A j \in work' : consumer'[j.by] = "on"
  BY <1>1 DEF PipeInv, HeldInv
<1>6. script # "duplicate" => consumer'[Child] = "off"
  BY <1>1 DEF PipeInv, HeldInv
<1>7. HeldInv'
  BY <1>1, <1>5, <1>6, LeaveHeld
<1>8. DoneInv'
  BY <1>1, LeaveDone
<1>. QED  BY <1>4, <1>7, <1>8 DEF PipeInv

LEMMA FumbleInv ==
  ASSUME PipeInv, NEW k \in work, Fumble(k), UNCHANGED <<script, seen, late>>
  PROVE  PipeInv'
<1>1. /\ work' = work \ {k}
      /\ mishaps' = mishaps + 1
      /\ UNCHANGED <<row, attempts, batch, bound, consumer, inbox, picking, stats>>
  BY FumbleStep DEF PipeInv
<1>2. PICK at1 \in {"ready", "dead"} : Becomes(k.msg, at1, None, msgs[k.msg].returns + 1)
  BY FumbleStep DEF PipeInv
<1>4. DemoTypes'
  BY <1>1, <1>2 DEF PipeInv, DemoTypes, Becomes
<1>5. \A j \in work' : consumer'[j.by] = "on"
  BY <1>1 DEF PipeInv, HeldInv
<1>6. script # "duplicate" => consumer'[Child] = "off"
  BY <1>1 DEF PipeInv, HeldInv
<1>7. HeldInv'
  BY <1>1, <1>2, <1>5, <1>6, LeaveHeld
<1>8. DoneInv'
  BY <1>1, <1>2, LeaveDone
<1>. QED  BY <1>4, <1>7, <1>8 DEF PipeInv

LEMMA ApplyInv ==
  ASSUME PipeInv, NEW k \in work, Apply(k), UNCHANGED <<script, seen, late>>
  PROVE  PipeInv'
<1>. DEFINE Next1(p) == [k EXCEPT !.phase = p]
<1>0. /\ k.phase # "done"
      /\ msgs[k.msg].order # Poison
      /\ Claimed(k) \/ Committed(k) \/ Learned(k) \/ Skipped(k)
      /\ UNCHANGED <<row, attempts, batch, bound, msgs, consumer, mishaps>>
  BY ApplyStep DEF PipeInv
<1>. PICK p \in {"claimed", "committed", "done"} :
       /\ work' = (work \ {k}) \cup {Next1(p)}
       /\ p = "claimed" => Claimed(k)
       /\ p = "committed" => Committed(k)
       /\ p = "done" => Learned(k) \/ Skipped(k)
  BY <1>0 DEF Claimed, Committed, Learned, Skipped, On
<1>1. /\ k \in Run /\ k.by \in {Main, Child} /\ k.msg \in DOMAIN msgs
      /\ msgs[k.msg] \in Msg /\ stats[k.by] \in Stat
  BY WorkTypes
<1>2. /\ Next1(p) \in Run
      /\ Next1(p).by = k.by /\ Next1(p).msg = k.msg /\ Next1(p).nth = k.nth /\ Next1(p).phase = p
  BY <1>1 DEF Run
<1>. HIDE DEF Next1
<1>3. msgs[k.msg].id \in Ids \X {0}
  BY <1>0, <1>1 DEF PipeInv, HeldInv, Msg
<1>4. /\ stats' \in [{Main, Child} -> Stat]
      /\ \A d \in {Main, Child} : stats'[d].deliveries = stats[d].deliveries
  <2>1. CASE Claimed(k) \/ Committed(k)
    BY <2>1 DEF Claimed, Committed, PipeInv, DemoTypes
  <2>2. CASE Counted(k.by, "applied") \/ Counted(k.by, "skipped")
    BY <1>1, <2>2 DEF Counted, Stat
  <2>. QED  BY <1>0, <2>1, <2>2 DEF Learned, Skipped
<1>5. picking \subseteq picking' /\ picking' \subseteq picking \cup {msgs[k.msg].id}
  BY <1>0 DEF Claimed, Committed, Learned, Skipped
<1>6. DemoTypes'
  BY <1>0, <1>2, <1>3, <1>4, <1>5 DEF PipeInv, DemoTypes
<1>7. HeldInv'
  <2>1. ASSUME NEW j \in work'
        PROVE  /\ j.msg \in DOMAIN msgs'
               /\ msgs'[j.msg].at = "held"
               /\ msgs'[j.msg].holder = j.by
               /\ msgs'[j.msg].returns = j.nth
               /\ stats'[j.by].deliveries >= 1
               /\ consumer'[j.by] = "on"
    <3>1. PICK i \in work : i.by = j.by /\ i.msg = j.msg /\ i.nth = j.nth
      BY <1>2
    <3>. QED  BY <1>0, <1>4, <3>1, WorkTypes DEF PipeInv, HeldInv
  <2>2. \A i, j \in work' : i.msg = j.msg => i = j
    BY <1>2 DEF PipeInv, HeldInv
  <2>3. ASSUME NEW m \in DOMAIN msgs', msgs'[m].at = "held"
        PROVE  \E j \in work' : j.msg = m
    <3>1. PICK i \in work : i.msg = m
      BY <1>0, <2>3 DEF PipeInv, HeldInv
    <3>. QED  BY <1>2, <3>1
  <2>. QED  BY <1>0, <2>1, <2>2, <2>3 DEF PipeInv, HeldInv
<1>8. DoneInv'
  <2>1. \A m \in DOMAIN msgs' : msgs'[m].at = "acked" => msgs'[m].id \in picking'
    BY <1>0, <1>5 DEF PipeInv, DoneInv
  <2>2. ASSUME NEW j \in work'
        PROVE  /\ j.phase # "received" => msgs'[j.msg].order # Poison
               /\ j.phase \in {"committed", "done"} => msgs'[j.msg].id \in picking'
               /\ j.phase = "claimed" => WithInbox'
    <3>1. CASE j = Next1(p)
      <4>1. p = "claimed" => WithInbox'
        BY DEF Claimed, WithInbox
      <4>2. p = "committed" => msgs'[k.msg].id \in picking'
        BY <1>0 DEF Committed
      <4>3. p = "done" => msgs'[k.msg].id \in picking'
        BY <1>0 DEF Learned, Skipped, PipeInv, DoneInv
      <4>. QED  BY <1>0, <1>2, <3>1, <4>1, <4>2, <4>3
    <3>2. CASE j \in work
      BY <1>0, <1>5, <3>2 DEF PipeInv, DoneInv, WithInbox
    <3>. QED  BY <3>1, <3>2
  <2>3. \A e \in picking' : \E m \in DOMAIN msgs' : e = msgs'[m].id
                                                 /\ msgs'[m].order # Poison
    BY <1>0, <1>1, <1>5 DEF PipeInv, DoneInv
  <2>4. WithInbox' => inbox' = picking'
    BY <1>0 DEF Claimed, Committed, Learned, Skipped, WithInbox, PipeInv, DoneInv
  <2>5. \A d \in {Main, Child} : stats'[d].applied + stats'[d].skipped >= 1 =>
          picking' # {}
    <3>1. CASE Claimed(k) \/ Committed(k)
      BY <3>1 DEF Claimed, Committed, PipeInv, DoneInv
    <3>2. CASE Learned(k) \/ Skipped(k)
      BY <3>2 DEF Learned, Skipped, PipeInv, DoneInv
    <3>. QED  BY <1>0, <3>1, <3>2
  <2>. QED  BY <2>1, <2>2, <2>3, <2>4, <2>5 DEF DoneInv
<1>. QED  BY <1>6, <1>7, <1>8 DEF PipeInv

(* What only looks, or touches the rows of the outbox.                     *)
LEMMA WatchInv ==
  ASSUME PipeInv, UNCHANGED <<msgs, consumer, work, inbox, picking, stats, script>>
  PROVE  HeldInv' /\ DoneInv'
BY DEF PipeInv, HeldInv, DoneInv, WithInbox

(* What main reads, it has read.                                           *)
LEMMA ReadReads ==
  ASSUME NEW new, Read(new)
  PROVE  /\ seen' = [n \in Numbers |-> seen'[n]]
         /\ \A n \in Numbers : n \notin DOMAIN new => seen'[n] = seen[n]
         /\ \A n \in Numbers : n \in DOMAIN new => seen'[n] = new[n]
BY DEF Read

LEMMA WaitInv ==
  ASSUME PipeInv, NEW condition, WaitFor(condition), UNCHANGED script
  PROVE  /\ PipeInv'
         /\ ~late' => ~late /\ condition
         /\ UNCHANGED <<pipeVars, stats, seen>>
<1>1. late' \in BOOLEAN
  BY DEF WaitFor
<1>2. DemoTypes'
  BY <1>1 DEF WaitFor, pipeVars, PipeInv, DemoTypes
<1>3. ~late' => ~late /\ condition
  BY DEF WaitFor
<1>4. UNCHANGED <<pipeVars, stats, seen>>
  BY DEF WaitFor
<1>. QED  BY <1>2, <1>3, <1>4, WatchInv DEF pipeVars, PipeInv

LEMMA LookInv ==
  ASSUME PipeInv, NEW new, Read(new), late' \in BOOLEAN,
         UNCHANGED <<pipeVars, stats, script>>
  PROVE  PipeInv'
<1>2. DemoTypes'
  BY ReadReads DEF pipeVars, PipeInv, DemoTypes
<1>. QED  BY <1>2, WatchInv DEF pipeVars, PipeInv

LEMMA SubscribeInv ==
  ASSUME PipeInv, NEW c \in {Main, Child}, script # "duplicate" => c = Main,
         Subscribe(c), UNCHANGED script
  PROVE  /\ PipeInv'
         /\ consumer' = [consumer EXCEPT ![c] = "on"]
         /\ UNCHANGED <<row, attempts, batch, bound, msgs, work, inbox, picking, mishaps,
                        stats, seen, late>>
<1>1. /\ consumer' = [consumer EXCEPT ![c] = "on"]
      /\ UNCHANGED <<row, attempts, batch, bound, msgs, work, inbox, picking, mishaps,
                     stats, seen, late>>
  BY DEF Subscribe, P!StartConsumer, P!relayVars, P!dbVars, PipeInv, DemoTypes
<1>2. DemoTypes'
  BY <1>1 DEF PipeInv, DemoTypes
<1>3. \A d \in {Main, Child} : consumer'[d] = consumer[d] \/ consumer'[d] = "on"
  BY <1>1 DEF PipeInv, DemoTypes
<1>4. script # "duplicate" => consumer'[Child] = "off"
  BY <1>1, DemosAssumption DEF PipeInv, HeldInv, DemoTypes
<1>5. \A k \in work : consumer'[k.by] = "on"
  BY <1>3, WorkTypes DEF PipeInv, HeldInv
<1>6. HeldInv'
  BY <1>1, <1>4, <1>5 DEF PipeInv, HeldInv
<1>7. DoneInv'
  BY <1>1 DEF PipeInv, DoneInv, WithInbox
<1>. QED  BY <1>1, <1>2, <1>6, <1>7 DEF PipeInv

(* A new message is at the end, and ready.                                 *)
Sent(o) ==
  /\ msgs' \in Seq(Msg)
  /\ Len(msgs') = Len(msgs) + 1
  /\ \A m \in DOMAIN msgs : m \in DOMAIN msgs' /\ msgs'[m] = msgs[m]
  /\ DOMAIN msgs' = DOMAIN msgs \cup {Len(msgs) + 1}
  /\ Len(msgs) + 1 \notin DOMAIN msgs
  /\ msgs'[Len(msgs) + 1].order = o
  /\ msgs'[Len(msgs) + 1].id = <<o, 0>>
  /\ msgs'[Len(msgs) + 1].at = "ready"

LEMMA SendSends ==
  ASSUME DemoTypes, NEW o \in Ids \cup {Poison},
         P(FALSE)!Send(o) \/ P(TRUE)!Send(o)
  PROVE  Sent(o)
<1>. DEFINE new == [order |-> o, id |-> <<o, 0>>, at |-> "ready", holder |-> None,
                    returns |-> 0]
<1>1. msgs' = Append(msgs, new)
  BY DEF P!Send, P!EventId, DemoTypes
<1>2. /\ new \in Msg /\ new.order = o /\ new.id = <<o, 0>> /\ new.at = "ready"
  BY DEF Msg
<1>. HIDE DEF new
<1>3. msgs \in Seq(Msg)
  BY DEF DemoTypes
<1>. QED  BY <1>1, <1>2, <1>3 DEF Sent

LEMMA SentInv ==
  ASSUME PipeInv, NEW o \in Ids \cup {Poison}, Sent(o),
         UNCHANGED <<consumer, work, inbox, picking, stats, script>>
  PROVE  HeldInv' /\ DoneInv'
<1>1. HeldInv'
  BY WorkTypes DEF PipeInv, HeldInv, Sent
<1>2. DoneInv'
  BY WorkTypes DEF PipeInv, DoneInv, Sent, WithInbox
<1>. QED  BY <1>1, <1>2

LEMMA PublishEventInv ==
  ASSUME PipeInv, NEW o \in Ids, PublishEvent(o), UNCHANGED script
  PROVE  /\ PipeInv'
         /\ Sent(o)
         /\ UNCHANGED <<row, attempts, batch, bound, consumer, work, inbox, picking,
                        mishaps, stats, late>>
<1>1. /\ Sent(o) /\ seen' = [n \in Numbers |-> seen'[n]]
      /\ UNCHANGED <<row, attempts, batch, bound, consumer, work, inbox, picking,
                     mishaps, stats, late>>
  BY SendSends, ReadReads DEF PublishEvent, PipeInv
<1>2. DemoTypes'
  BY <1>1 DEF PipeInv, DemoTypes, Sent
<1>. QED  BY <1>1, <1>2, SentInv DEF PipeInv

LEMMA PoisonInv ==
  ASSUME PipeInv, P(FALSE)!PublishPoison, UNCHANGED <<stats, seen, late, script>>
  PROVE  /\ PipeInv'
         /\ Sent(Poison)
         /\ UNCHANGED <<row, attempts, batch, bound, consumer, work, inbox, picking,
                        mishaps>>
<1>1. /\ Sent(Poison)
      /\ UNCHANGED <<row, attempts, batch, bound, consumer, work, inbox, picking, mishaps>>
  BY SendSends DEF P!PublishPoison, P!relayVars, P!dbVars, PipeInv
<1>2. DemoTypes'
  BY <1>1 DEF PipeInv, DemoTypes, Sent
<1>. QED  BY <1>1, <1>2, SentInv DEF PipeInv

(* The relay over the one row.                                             *)
LEMMA OneIsPlaced == 1 \in Ids
BY DemosAssumption DEF Ids

LEMMA PlaceStep ==
  ASSUME PipeInv, RowIs("none"), P(TRUE)!Place(1), UNCHANGED <<stats, seen, late, script>>
  PROVE  /\ PipeInv'
         /\ RowIs("pending")'
         /\ UNCHANGED <<batch, msgs, consumer, work, inbox, picking, mishaps>>
<1>1. /\ row' = [row EXCEPT ![1] = "pending"]
      /\ UNCHANGED <<batch, bound, msgs, consumer, work, inbox, picking, mishaps>>
  BY DEF P!Place, P!dbVars
<1>2. RowIs("pending")'
  BY <1>1 DEF RowIs
<1>3. DemoTypes'
  BY <1>1, OneIsPlaced DEF PipeInv, DemoTypes
<1>. QED  BY <1>1, <1>2, <1>3, WatchInv DEF PipeInv

LEMMA SelectStep ==
  ASSUME PipeInv, RowIs("pending"), BatchIs({}, {}), P(TRUE)!SelectBatch(Relay),
         UNCHANGED <<stats, seen, late, script>>
  PROVE  /\ PipeInv'
         /\ BatchIs({1}, {})'
         /\ UNCHANGED <<row, msgs, consumer, work, inbox, picking, mishaps>>
<1>. DEFINE pending == {o \in P(TRUE)!Unlocked : row[o] = "pending"}
            rows == P(TRUE)!Oldest(pending, BatchSize)
<1>1. /\ rows # {}
      /\ batch' = [batch EXCEPT ![Relay].todo = rows]
      /\ UNCHANGED <<row, bound, msgs, consumer, work, inbox, picking, mishaps>>
  BY DEF P!SelectBatch, P!dbVars
<1>2. pending \subseteq {1}
  BY DEF P!Unlocked, RowIs, Ids
<1>3. rows \subseteq pending
  BY DEF P!Oldest
<1>. HIDE DEF rows
<1>4. rows = {1}
  BY <1>1, <1>2, <1>3
<1>5. batch[Relay] \in Rows /\ batch[Relay] = [todo |-> {}, marks |-> {}, failed |-> {}]
  BY DEF PipeInv, DemoTypes, BatchIs
<1>6. batch'[Relay] = [todo |-> {1}, marks |-> {}, failed |-> {}]
  <2>1. batch'[Relay] = [batch[Relay] EXCEPT !.todo = {1}]
    BY <1>1, <1>4 DEF PipeInv, DemoTypes
  <2>. QED  BY <1>5, <2>1 DEF Rows
<1>7. batch'[Relay] \in Rows
  BY <1>6, OneIsPlaced DEF Rows
<1>8. DemoTypes'
  BY <1>1, <1>7 DEF PipeInv, DemoTypes
<1>. QED  BY <1>1, <1>6, <1>8, WatchInv DEF PipeInv, BatchIs

LEMMA PublishStep ==
  ASSUME PipeInv, BatchIs({1}, {}), P(TRUE)!Publish(Relay),
         seen' = [n \in Numbers |-> seen'[n]], UNCHANGED <<stats, late, script>>
  PROVE  /\ PipeInv'
         /\ Sent(1)
         /\ BatchIs({}, {1})'
         /\ UNCHANGED <<row, consumer, work, inbox, picking, mishaps>>
<1>. DEFINE t == P(TRUE)!Turn(Relay)
<1>1. /\ P(TRUE)!Send(t)
      /\ batch' = [batch EXCEPT ![Relay] = [todo |-> @.todo \ {t}, failed |-> @.failed,
                                            marks |-> @.marks \cup {t}]]
      /\ UNCHANGED <<row, bound, consumer, work, inbox, picking, mishaps>>
  BY DEF P!Publish, P!dbVars
<1>2. t = 1
  BY DEF P!Turn, P!Min, BatchIs
<1>. HIDE DEF t
<1>3. Sent(1)
  BY <1>1, <1>2, SendSends, OneIsPlaced DEF PipeInv
<1>4. batch'[Relay] = [todo |-> {}, marks |-> {1}, failed |-> {}]
  <2>1. batch'[Relay] = [todo |-> batch[Relay].todo \ {1},
                         failed |-> batch[Relay].failed,
                         marks |-> batch[Relay].marks \cup {1}]
    BY <1>1, <1>2 DEF PipeInv, DemoTypes
  <2>2. /\ batch[Relay].todo = {1} /\ batch[Relay].marks = {}
        /\ batch[Relay].failed = {}
    BY DEF BatchIs
  <2>3. {1} \ {1} = {} /\ {} \cup {1} = {1}
    OBVIOUS
  <2>. QED  BY <2>1, <2>2, <2>3
<1>5. batch'[Relay] \in Rows
  BY <1>4, OneIsPlaced DEF Rows
<1>6. DemoTypes'
  BY <1>1, <1>3, <1>5 DEF PipeInv, DemoTypes, Sent
<1>7. HeldInv' /\ DoneInv'
  BY <1>1, <1>3, SentInv, OneIsPlaced
<1>. QED  BY <1>1, <1>3, <1>4, <1>6, <1>7 DEF PipeInv, BatchIs

LEMMA CommitStep ==
  ASSUME PipeInv, RowIs("pending"), BatchIs({}, {1}), P(TRUE)!CommitBatch(Relay),
         UNCHANGED <<stats, seen, late, script>>
  PROVE  /\ PipeInv'
         /\ RowIs("published")'
         /\ BatchIs({}, {})'
         /\ UNCHANGED <<msgs, consumer, work, inbox, picking, mishaps>>
<1>1. /\ row' = [o \in Ids |-> IF o \in batch[Relay].marks THEN "published" ELSE row[o]]
      /\ batch' = [batch EXCEPT ![Relay] = [todo |-> {}, marks |-> {}, failed |-> {}]]
      /\ UNCHANGED <<bound, msgs, consumer, work, inbox, picking, mishaps>>
  BY DEF P!CommitBatch, P!dbVars, P!NoBatch, Ids
<1>2. RowIs("published")'
  BY <1>1 DEF RowIs, BatchIs
<1>3. batch'[Relay] = [todo |-> {}, marks |-> {}, failed |-> {}]
  BY <1>1 DEF PipeInv, DemoTypes
<1>4. DemoTypes'
  BY <1>1 DEF PipeInv, DemoTypes, Rows
<1>. QED  BY <1>1, <1>2, <1>3, <1>4, WatchInv DEF PipeInv, BatchIs

LEMMA RelayFailsStep ==
  ASSUME PipeInv, P(TRUE)!RelayFails(Relay), UNCHANGED <<stats, seen, late, script>>
  PROVE  /\ PipeInv'
         /\ BatchIs({}, {})'
         /\ UNCHANGED <<row, msgs, consumer, work, inbox, picking>>
<1>1. /\ batch' = [batch EXCEPT ![Relay] = [todo |-> {}, marks |-> {}, failed |-> {}]]
      /\ mishaps' = mishaps + 1
      /\ UNCHANGED <<row, bound, msgs, consumer, work, inbox, picking>>
  BY DEF P!RelayFails, P!Fault, P!dbVars, P!NoBatch
<1>2. batch'[Relay] = [todo |-> {}, marks |-> {}, failed |-> {}]
  BY <1>1 DEF PipeInv, DemoTypes
<1>3. DemoTypes'
  BY <1>1 DEF PipeInv, DemoTypes, Rows
<1>. QED  BY <1>1, <1>2, <1>3, WatchInv DEF PipeInv, BatchIs

(* The child dies with its one message, the effect in the database.        *)
LEMMA ChildDiesStep ==
  ASSUME PipeInv, NEW k \in work, k.by = Child, DOMAIN msgs = {1},
         P(FALSE)!ConsumerDies(Child), script = "duplicate",
         seen' = [n \in Numbers |-> seen'[n]], UNCHANGED <<stats, late, script>>
  PROVE  /\ PipeInv'
         /\ k.msg = 1
         /\ \E at1 \in {"ready", "dead"} : Becomes(1, at1, None, msgs[1].returns + 1)
         /\ work' = work \ {k}
         /\ consumer' = [consumer EXCEPT ![Child] = "off"]
         /\ mishaps' = mishaps + 1
         /\ UNCHANGED <<row, attempts, batch, bound, inbox, picking>>
<1>1. k.msg = 1 /\ msgs[1].at = "held" /\ msgs[1].holder = Child
  BY WorkTypes
<1>2. P(FALSE)!HeldBy(Child) = {1}
  BY <1>1 DEF P!HeldBy
<1>3. \A j \in work : j = k
  BY <1>1, WorkTypes DEF PipeInv, HeldInv
<1>4. /\ P(FALSE)!Requeue({1})
      /\ work' = work \ {k}
      /\ consumer' = [consumer EXCEPT ![Child] = "off"]
      /\ mishaps' = mishaps + 1
      /\ UNCHANGED <<row, attempts, batch, bound, inbox, picking>>
  BY <1>2, <1>3 DEF P!ConsumerDies, P!Fault, P!relayVars, P!dbVars
<1>5. PICK at1 \in {"ready", "dead"} : Becomes(1, at1, None, msgs[1].returns + 1)
  BY <1>4, RequeueStep DEF PipeInv
<1>6. DemoTypes'
  BY <1>4, <1>5 DEF PipeInv, DemoTypes, Becomes
<1>7. \A j \in work' : consumer'[j.by] = "on"
  BY <1>3, <1>4
<1>8. HeldInv'
  BY <1>1, <1>4, <1>5, <1>7, LeaveHeld
<1>9. DoneInv'
  BY <1>1, <1>4, <1>5, LeaveDone
<1>. QED  BY <1>1, <1>4, <1>5, <1>6, <1>8, <1>9 DEF PipeInv

----------------------------------------------------------------------------
(* The scripts while the consumers work.                                   *)

(* What a consumer does never takes back: messages, effects and counters.  *)
Grows ==
  /\ UNCHANGED <<vars, row, batch, consumer, script, at, seen, late>>
  /\ Len(msgs') = Len(msgs)
  /\ DOMAIN msgs' = DOMAIN msgs
  /\ \A m \in DOMAIN msgs : msgs'[m].order = msgs[m].order /\ msgs'[m].id = msgs[m].id
  /\ \A m \in DOMAIN msgs : msgs'[m].returns >= msgs[m].returns
  /\ picking \subseteq picking'
  /\ mishaps' >= mishaps
  /\ \A c \in {Main, Child} : /\ stats'[c].deliveries >= stats[c].deliveries
                              /\ stats'[c].applied >= stats[c].applied
                              /\ stats'[c].skipped >= stats[c].skipped

(* A counter that counts does not shrink.                                  *)
LEMMA CountedGrows ==
  ASSUME DemoTypes, NEW c \in {Main, Child}, NEW what, Counted(c, what)
  PROVE  \A d \in {Main, Child} : /\ stats'[d].deliveries >= stats[d].deliveries
                                  /\ stats'[d].applied >= stats[d].applied
                                  /\ stats'[d].skipped >= stats[d].skipped
<1>. SUFFICES ASSUME NEW d \in {Main, Child}
              PROVE  /\ stats'[d].deliveries >= stats[d].deliveries
                     /\ stats'[d].applied >= stats[d].applied
                     /\ stats'[d].skipped >= stats[d].skipped
  OBVIOUS
<1>1. stats[d] \in Stat
  BY DEF DemoTypes
<1>2. CASE d = c
  BY <1>1, <1>2 DEF Counted, Stat
<1>3. CASE d # c
  BY <1>1, <1>3 DEF Counted, Stat
<1>. QED  BY <1>2, <1>3

LEMMA BecomesGrows ==
  ASSUME DemoTypes, NEW m \in DOMAIN msgs, NEW at1, NEW holder, NEW n \in Nat,
         n >= msgs[m].returns, Becomes(m, at1, holder, n)
  PROVE  /\ Len(msgs') = Len(msgs)
         /\ DOMAIN msgs' = DOMAIN msgs
         /\ \A i \in DOMAIN msgs : /\ msgs'[i].order = msgs[i].order
                                   /\ msgs'[i].id = msgs[i].id
                                   /\ msgs'[i].returns >= msgs[i].returns
<1>1. \A i \in DOMAIN msgs : msgs[i].returns \in Nat
  BY MessageTypes DEF Msg
<1>2. DOMAIN msgs' = DOMAIN msgs /\ Len(msgs') = Len(msgs)
  BY DEF Becomes
<1>3. /\ msgs'[m].order = msgs[m].order /\ msgs'[m].id = msgs[m].id
      /\ msgs'[m].returns >= msgs[m].returns
  BY <1>1 DEF Becomes
<1>4. \A i \in DOMAIN msgs : i # m => msgs'[i] = msgs[i]
  BY DEF Becomes
<1>5. \A i \in DOMAIN msgs : msgs[i].returns >= msgs[i].returns
  BY <1>1
<1>. QED  BY <1>2, <1>3, <1>4, <1>5

LEMMA ConsumerGrows ==
  ASSUME PipeInv, ConsumerStep
  PROVE  PipeInv' /\ Grows
<1>. USE DEF ConsumerStep
<1>0. /\ mishaps \in Nat
      /\ \A c \in {Main, Child} : stats[c] \in Stat
      /\ \A m \in DOMAIN msgs : msgs[m].returns \in Nat
  BY MessageTypes DEF PipeInv, DemoTypes, Msg
<1>a. UNCHANGED stats => \A d \in {Main, Child} :
        /\ stats'[d].deliveries >= stats[d].deliveries
        /\ stats'[d].applied >= stats[d].applied
        /\ stats'[d].skipped >= stats[d].skipped
  BY <1>0 DEF Stat
<1>1. ASSUME NEW c \in {Main, Child}, NEW m \in DOMAIN msgs, Receive(c, m)
      PROVE  PipeInv' /\ Grows
  <2>1. /\ Becomes(m, "held", c, msgs[m].returns)
        /\ Counted(c, "deliveries")
        /\ UNCHANGED <<row, attempts, batch, bound, consumer, inbox, picking, mishaps>>
    BY <1>1, ReceiveStep DEF PipeInv
  <2>2. msgs[m].returns \in Nat /\ msgs[m].returns >= msgs[m].returns
    BY <1>0
  <2>. QED  BY <1>0, <1>1, <2>1, <2>2, ReceiveInv, CountedGrows, BecomesGrows
            DEF Grows, PipeInv
<1>2. ASSUME NEW k \in work, Refuse(k)
      PROVE  PipeInv' /\ Grows
  <2>1. /\ Becomes(k.msg, "dead", None, msgs[k.msg].returns)
        /\ Counted(k.by, "rejected")
        /\ UNCHANGED <<row, attempts, batch, bound, consumer, inbox, picking, mishaps>>
    BY <1>2, RefuseStep DEF PipeInv
  <2>2. msgs[k.msg].returns \in Nat /\ msgs[k.msg].returns >= msgs[k.msg].returns
    BY <1>0, WorkTypes
  <2>3. k.by \in {Main, Child} /\ k.msg \in DOMAIN msgs
    BY WorkTypes
  <2>. QED  BY <1>0, <1>2, <2>1, <2>2, <2>3, RefuseInv, CountedGrows, BecomesGrows
            DEF Grows, PipeInv
<1>3. ASSUME NEW k \in work, Apply(k)
      PROVE  PipeInv' /\ Grows
  <2>1. /\ Claimed(k) \/ Committed(k) \/ Learned(k) \/ Skipped(k)
        /\ UNCHANGED <<row, attempts, batch, bound, msgs, consumer, mishaps>>
    BY <1>3, ApplyStep DEF PipeInv
  <2>2. k.by \in {Main, Child}
    BY WorkTypes
  <2>3. \A d \in {Main, Child} : /\ stats'[d].deliveries >= stats[d].deliveries
                                 /\ stats'[d].applied >= stats[d].applied
                                 /\ stats'[d].skipped >= stats[d].skipped
    <3>1. Counted(k.by, "applied") \/ Counted(k.by, "skipped") \/ UNCHANGED stats
      BY <2>1 DEF Claimed, Committed, Learned, Skipped
    <3>. QED  BY <1>a, <2>2, <3>1, CountedGrows DEF PipeInv
  <2>4. picking \subseteq picking'
    BY <2>1 DEF Claimed, Committed, Learned, Skipped
  <2>5. \A m \in DOMAIN msgs : msgs'[m].returns >= msgs[m].returns
    BY <1>0, <2>1
  <2>. QED  BY <1>0, <1>3, <2>1, <2>3, <2>4, <2>5, ApplyInv DEF Grows
<1>4. ASSUME NEW k \in work, Confirm(k)
      PROVE  PipeInv' /\ Grows
  <2>1. /\ Becomes(k.msg, "acked", None, msgs[k.msg].returns)
        /\ UNCHANGED <<row, attempts, batch, bound, consumer, inbox, picking, mishaps,
                       stats>>
    BY <1>4, ConfirmStep DEF PipeInv
  <2>2. /\ k.msg \in DOMAIN msgs /\ msgs[k.msg].returns \in Nat
        /\ msgs[k.msg].returns >= msgs[k.msg].returns
    BY <1>0, WorkTypes
  <2>. QED  BY <1>0, <1>a, <1>4, <2>1, <2>2, ConfirmInv, BecomesGrows DEF Grows, PipeInv
<1>5. ASSUME NEW k \in work, Fumble(k)
      PROVE  PipeInv' /\ Grows
  <2>1. /\ mishaps' = mishaps + 1
        /\ UNCHANGED <<row, attempts, batch, bound, consumer, inbox, picking, stats>>
    BY <1>5, FumbleStep DEF PipeInv
  <2>2. PICK at1 : Becomes(k.msg, at1, None, msgs[k.msg].returns + 1)
    BY <1>5, FumbleStep DEF PipeInv
  <2>3. /\ k.msg \in DOMAIN msgs /\ msgs[k.msg].returns + 1 \in Nat
        /\ msgs[k.msg].returns + 1 >= msgs[k.msg].returns
        /\ mishaps + 1 >= mishaps
    BY <1>0, WorkTypes
  <2>. QED  BY <1>0, <1>a, <1>5, <2>1, <2>2, <2>3, FumbleInv, BecomesGrows
            DEF Grows, PipeInv
<1>. QED  BY <1>1, <1>2, <1>3, <1>4, <1>5

(* So what a script knows at a line stays true while the consumers work.   *)
LEMMA GrowsRelay ==
  ASSUME PipeInv, PipeInv', Grows, RelayScriptInv
  PROVE  RelayScriptInv'
<1>1. /\ stats[Main].deliveries \in Nat /\ stats'[Main].deliveries \in Nat
      /\ stats'[Main].deliveries >= stats[Main].deliveries
  BY DEF PipeInv, DemoTypes, Stat, Grows
<1>2. stats'[Main].deliveries >= 2 \/ ~(stats[Main].deliveries >= 2)
  BY <1>1
<1>. QED  BY <1>2 DEF Grows, RelayScriptInv, RowIs, BatchIs

LEMMA GrowsOutbox ==
  ASSUME PipeInv, Grows, OutboxScriptInv
  PROVE  OutboxScriptInv'
BY DEF Grows, OutboxScriptInv, RowIs, BatchIs

LEMMA GrowsWorkers ==
  ASSUME Grows, WorkersScriptInv
  PROVE  WorkersScriptInv'
BY DEF Grows, WorkersScriptInv, vars

(* An applied event stays with an acknowledged message, or with a callback *)
(* that has only its ack before it.                                        *)
LEMMA DoneConfirms ==
  ASSUME PipeInv, NEW k \in work, On(k, "done")
  PROVE  Confirmed(k.msg)'
<1>1. k \in Run
  BY WorkTypes
<1>2. [k EXCEPT !.phase = "done"].msg = k.msg /\ [k EXCEPT !.phase = "done"].phase = "done"
  BY <1>1 DEF Run
<1>. QED  BY <1>2 DEF On, Confirmed

LEMMA ConfirmedStays ==
  ASSUME PipeInv, ConsumerStep, NEW m \in DOMAIN msgs, Confirmed(m)
  PROVE  Confirmed(m)'
<1>. USE DEF ConsumerStep
<1>1. ASSUME NEW k \in work, k.phase = "done", k.msg = m
      PROVE  msgs[m].at = "held" /\ \A j \in work : j.msg = m => j = k
  BY <1>1, WorkTypes DEF PipeInv, HeldInv
<1>2. ASSUME NEW c \in {Main, Child}, NEW i \in DOMAIN msgs, Receive(c, i)
      PROVE  Confirmed(m)'
  BY <1>1, <1>2, ReceiveStep DEF PipeInv, Confirmed, Becomes
<1>3. ASSUME NEW k \in work, Refuse(k)
      PROVE  Confirmed(m)'
  <2>1. k.phase = "received" /\ msgs[k.msg].at = "held" /\ k.msg \in DOMAIN msgs
    BY <1>3, RefuseStep, WorkTypes DEF PipeInv
  <2>2. k.msg # m
    BY <1>1, <2>1 DEF Confirmed
  <2>3. Becomes(k.msg, "dead", None, msgs[k.msg].returns) /\ work' = work \ {k}
    BY <1>3, RefuseStep DEF PipeInv
  <2>. QED  BY <2>1, <2>2, <2>3 DEF Confirmed, Becomes
<1>4. ASSUME NEW k \in work, Apply(k)
      PROVE  Confirmed(m)'
  <2>1. UNCHANGED msgs /\ k.phase # "done"
    BY <1>4, ApplyStep DEF PipeInv
  <2>2. \A j \in work : j # k => j \in work'
    BY <1>4, ApplyStep DEF PipeInv, Claimed, Committed, Learned, Skipped, On
  <2>. QED  BY <2>1, <2>2 DEF Confirmed
<1>5. ASSUME NEW k \in work, Confirm(k)
      PROVE  Confirmed(m)'
  <2>1. Becomes(k.msg, "acked", None, msgs[k.msg].returns) /\ work' = work \ {k}
    BY <1>5, ConfirmStep DEF PipeInv
  <2>2. CASE k.msg = m
    BY <2>1, <2>2 DEF Confirmed, Becomes
  <2>3. CASE k.msg # m
    BY <2>1, <2>3, WorkTypes DEF Confirmed, Becomes
  <2>. QED  BY <2>2, <2>3
<1>6. ASSUME NEW k \in work, Fumble(k)
      PROVE  Confirmed(m)'
  <2>1. k.phase # "done" /\ work' = work \ {k}
    BY <1>6, FumbleStep DEF PipeInv
  <2>2. PICK at1 : Becomes(k.msg, at1, None, msgs[k.msg].returns + 1)
    BY <1>6, FumbleStep DEF PipeInv
  <2>3. msgs[k.msg].at = "held" /\ k.msg \in DOMAIN msgs
    BY WorkTypes
  <2>4. k.msg # m
    BY <1>1, <2>1, <2>3 DEF Confirmed
  <2>. QED  BY <2>1, <2>2, <2>3, <2>4 DEF Confirmed, Becomes
<1>. QED  BY <1>2, <1>3, <1>4, <1>5, <1>6

(* A consumer that is off does nothing.                                    *)
LEMMA OffIsQuiet ==
  ASSUME PipeInv, ConsumerStep, NEW c \in {Main, Child}, consumer[c] = "off"
  PROVE  stats'[c] = stats[c]
<1>. USE DEF ConsumerStep
<1>0. \A k \in work : k.by # c
  BY DEF PipeInv, HeldInv
<1>1. ASSUME NEW d \in {Main, Child}, NEW m \in DOMAIN msgs, Receive(d, m)
      PROVE  stats'[c] = stats[c]
  BY <1>1, ReceiveStep DEF PipeInv, Counted
<1>2. ASSUME NEW k \in work, Refuse(k)
      PROVE  stats'[c] = stats[c]
  BY <1>0, <1>2, RefuseStep DEF PipeInv, Counted
<1>3. ASSUME NEW k \in work, Apply(k)
      PROVE  stats'[c] = stats[c]
  BY <1>0, <1>3, ApplyStep DEF PipeInv, Counted, Claimed, Committed, Learned, Skipped
<1>4. ASSUME NEW k \in work, Confirm(k) \/ Fumble(k)
      PROVE  stats'[c] = stats[c]
  BY <1>4, ConfirmStep, FumbleStep DEF PipeInv
<1>. QED  BY <1>1, <1>2, <1>3, <1>4

(* demo:dlq counts the rejected message when it is dead.                   *)
LEMMA ConsumerDlq ==
  ASSUME PipeInv, DlqInv, ConsumerStep
  PROVE  DlqInv'
<1>0. PipeInv' /\ Grows
  BY ConsumerGrows
<1>. SUFFICES ASSUME script = "dlq" PROVE DlqInv'
  BY <1>0 DEF DlqInv, Grows
<1>. USE DEF ConsumerStep
<1>1. \A m \in DOMAIN msgs : m = 1 /\ Len(msgs) = 1 /\ msgs[m].order = Poison
  BY MessageTypes DEF DlqInv, PipeInv
<1>2. \A k \in work : k.by = Main /\ k.msg = 1 /\ k.phase = "received"
  BY <1>1, WorkTypes DEF PipeInv, HeldInv, DoneInv, Run
<1>. DEFINE Rejected == stats[Main].rejected = IF Len(msgs) = 1 /\ msgs[1].at = "dead"
                                                THEN 1 ELSE 0
            Stays == Len(msgs) = 1 /\ msgs[1].at = "dead" => msgs'[1].at = "dead"
<1>3. Rejected
  BY DEF DlqInv
<1>4. Rejected' /\ Stays
  <2>0. stats[Main] \in Stat
    BY DEF PipeInv, DemoTypes
  <2>1. ASSUME NEW c \in {Main, Child}, NEW m \in DOMAIN msgs, Receive(c, m)
        PROVE  Rejected' /\ Stays
    <3>1. /\ msgs[m].at = "ready" /\ Counted(c, "deliveries")
          /\ Becomes(m, "held", c, msgs[m].returns)
      BY <2>1, ReceiveStep DEF PipeInv
    <3>2. stats'[Main].rejected = stats[Main].rejected
      BY <2>0, <3>1 DEF Counted, Stat
    <3>. QED  BY <1>1, <1>3, <3>1, <3>2 DEF Becomes
  <2>2. ASSUME NEW k \in work, Refuse(k)
        PROVE  Rejected' /\ Stays
    <3>1. /\ Counted(k.by, "rejected")
          /\ Becomes(k.msg, "dead", None, msgs[k.msg].returns)
      BY <2>2, RefuseStep DEF PipeInv
    <3>2. stats'[Main].rejected = stats[Main].rejected + 1
      BY <1>2, <3>1 DEF Counted
    <3>3. msgs[1].at = "held" /\ 1 \in DOMAIN msgs
      BY <1>2, WorkTypes
    <3>. QED  BY <1>1, <1>2, <1>3, <3>1, <3>2, <3>3 DEF Becomes
  <2>3. ASSUME NEW k \in work, Apply(k) \/ Confirm(k) \/ Fumble(k)
        PROVE  FALSE
    BY <1>1, <1>2, <2>3, ApplyStep, ConfirmStep, FumbleStep, WorkTypes DEF PipeInv
  <2>. QED  BY <2>1, <2>2, <2>3
<1>. QED  BY <1>0, <1>4 DEF Grows, DlqInv

(* demo:duplicate knows more: which message is held, and how often it      *)
(* came.                                                                   *)
LEMMA ConsumerDuplicate ==
  ASSUME PipeInv, DuplicateInv, ConsumerStep
  PROVE  DuplicateInv'
<1>0. PipeInv' /\ Grows
  BY ConsumerGrows
<1>. SUFFICES ASSUME script = "duplicate" PROVE DuplicateInv'
  BY <1>0 DEF DuplicateInv, Grows
<1>. USE DEF ConsumerStep
<1>1. \A m \in DOMAIN msgs : m = 1 /\ msgs[m].order = 1 /\ msgs[m].id = <<1, 0>>
  BY MessageTypes DEF DuplicateInv, PipeInv, HeldInv
<1>2. stats[Main] \in Stat /\ stats'[Main] \in Stat /\ mishaps \in Nat /\ mishaps' \in Nat
  BY <1>0 DEF PipeInv, DemoTypes
<1>3. consumer[Main] = "off" => stats'[Main] = stats[Main]
  BY OffIsQuiet
<1>4. picking = {<<1, 0>>} => picking' = {<<1, 0>>}
  <2>1. PipeInv' => \A e \in picking' : \E m \in DOMAIN msgs' : e = msgs'[m].id
    BY DEF PipeInv, DoneInv
  <2>2. \A m \in DOMAIN msgs' : msgs'[m].id = <<1, 0>>
    BY <1>0, <1>1 DEF Grows
  <2>. QED  BY <1>0, <2>1, <2>2 DEF Grows
<1>5. stats'[Main].skipped >= 1 => Confirmed(1)'
  <2>1. CASE stats[Main].skipped >= 1
    <3>1. at \notin {"start", "ready"}
      BY <2>1 DEF DuplicateInv
    <3>2. 1 \in DOMAIN msgs
      BY <3>1, MessageTypes DEF DuplicateInv, PipeInv
    <3>. QED  BY <2>1, <3>2, ConfirmedStays DEF DuplicateInv
  <2>2. ASSUME ~(stats[Main].skipped >= 1), stats'[Main].skipped >= 1
        PROVE  Confirmed(1)'
    <3>1. ASSUME NEW c \in {Main, Child}, NEW m \in DOMAIN msgs, Receive(c, m)
          PROVE  FALSE
      <4>1. Counted(c, "deliveries")
        BY <3>1, ReceiveStep DEF PipeInv
      <4>. QED  BY <1>2, <2>2, <4>1 DEF Counted, Stat
    <3>2. ASSUME NEW k \in work, Refuse(k)
          PROVE  FALSE
      <4>1. Counted(k.by, "rejected") /\ k.by \in {Main, Child}
        BY <3>2, RefuseStep, WorkTypes DEF PipeInv
      <4>. QED  BY <1>2, <2>2, <4>1 DEF Counted, Stat
    <3>3. ASSUME NEW k \in work, Confirm(k) \/ Fumble(k)
          PROVE  FALSE
      BY <2>2, <3>3, ConfirmStep, FumbleStep DEF PipeInv
    <3>4. ASSUME NEW k \in work, Apply(k)
          PROVE  Confirmed(1)'
      <4>1. k.msg = 1
        BY <1>1, WorkTypes
      <4>2. CASE Claimed(k) \/ Committed(k)
        BY <2>2, <4>2 DEF Claimed, Committed
      <4>3. CASE Learned(k) \/ Skipped(k)
        BY <4>1, <4>3, DoneConfirms DEF Learned, Skipped
      <4>. QED  BY <3>4, <4>2, <4>3, ApplyStep DEF PipeInv
    <3>. QED  BY <3>1, <3>2, <3>3, <3>4
  <2>. QED  BY <2>1, <2>2
<1>6. stats'[Main].deliveries >= 1 /\ msgs'[1].at = "dead" => mishaps' >= 2
  <2>. SUFFICES ASSUME stats'[Main].deliveries >= 1, msgs'[1].at = "dead"
                PROVE  mishaps' >= 2
    OBVIOUS
  <2>1. at \notin {"start", "ready", "child", "again"}
    <3>1. stats'[Main] # stats[Main] \/ stats[Main].deliveries # 0
      BY <1>2
    <3>. QED  BY <1>3, <3>1 DEF DuplicateInv
  <2>2. 1 \in DOMAIN msgs /\ mishaps >= 1
    BY <2>1, MessageTypes DEF DuplicateInv, PipeInv
  <2>3. ASSUME NEW c \in {Main, Child}, NEW m \in DOMAIN msgs, Receive(c, m)
        PROVE  FALSE
    BY <1>1, <2>3, ReceiveStep DEF PipeInv, Becomes
  <2>4. ASSUME NEW k \in work, Refuse(k)
        PROVE  FALSE
    BY <1>1, <2>4, RefuseStep, WorkTypes, OneIsPlaced, DemosAssumption DEF PipeInv, Ids
  <2>5. ASSUME NEW k \in work, Apply(k)
        PROVE  FALSE
    BY <1>1, <2>5, ApplyStep, WorkTypes DEF PipeInv
  <2>6. ASSUME NEW k \in work, Confirm(k)
        PROVE  FALSE
    BY <1>1, <2>6, ConfirmStep, WorkTypes DEF PipeInv, Becomes
  <2>7. ASSUME NEW k \in work, Fumble(k)
        PROVE  mishaps' >= 2
    BY <1>2, <2>2, <2>7, FumbleStep DEF PipeInv
  <2>. QED  BY <2>3, <2>4, <2>5, <2>6, <2>7
<1>7. 1 \in DOMAIN msgs /\ msgs[1].returns >= 1 => msgs'[1].returns >= 1
  <2>1. 1 \in DOMAIN msgs => msgs[1] \in Msg /\ msgs'[1] \in Msg
    BY <1>0 DEF Grows, PipeInv, DemoTypes
  <2>2. 1 \in DOMAIN msgs => /\ msgs[1].returns \in Nat /\ msgs'[1].returns \in Nat
                             /\ msgs'[1].returns >= msgs[1].returns
    BY <1>0, <2>1 DEF Grows, Msg
  <2>. QED  BY <2>2
<1>8. /\ stats[Main].deliveries \in Nat /\ stats'[Main].deliveries \in Nat
      /\ stats[Main].skipped \in Nat /\ stats'[Main].skipped \in Nat
      /\ stats'[Main].deliveries >= stats[Main].deliveries
      /\ stats'[Main].skipped >= stats[Main].skipped
      /\ mishaps' >= mishaps
  BY <1>0, <1>2 DEF Stat, Grows
<1>9. /\ stats[Main].deliveries >= 1 => stats'[Main].deliveries >= 1
      /\ 0 .. stats[Main].skipped \subseteq 0 .. stats'[Main].skipped
      /\ mishaps >= 1 => mishaps' >= 1
      /\ mishaps >= 1 /\ mishaps' = 1 => mishaps = 1
  BY <1>2, <1>8
<1>10. at \notin {"start", "ready"} => 1 \in DOMAIN msgs
  BY MessageTypes DEF PipeInv, DuplicateInv
<1>. QED
  BY <1>0, <1>3, <1>4, <1>5, <1>6, <1>7, <1>9, <1>10 DEF Grows, DuplicateInv

(* The orders of demo:publish.                                             *)
LEMMA IdsCount == IsFiniteSet(Ids) /\ Cardinality(Ids) = Placed
<1>1. 1 \in Int /\ Placed \in Int /\ (IF 1 > Placed THEN 0 ELSE Placed - 1 + 1) = Placed
  BY DemosAssumption
<1>. QED  BY <1>1, FS_Interval DEF Ids

LEMMA IdsFinite ==
  ASSUME NEW S, S \subseteq Ids \X {0}
  PROVE  IsFiniteSet(S) /\ Cardinality(S) \in Nat
<1>1. IsFiniteSet(Ids) /\ IsFiniteSet({0})
  BY IdsCount, FS_Singleton
<1>2. IsFiniteSet(Ids \X {0})
  BY <1>1, FS_Product
<1>3. IsFiniteSet(S)
  BY <1>2, FS_Subset
<1>. QED  BY <1>3, FS_CardinalityType

LEMMA PartsFinite ==
  ASSUME NEW ms \in Seq(Msg), NEW S, S \subseteq DOMAIN ms
  PROVE  IsFiniteSet(S)
<1>1. DOMAIN ms = 1 .. Len(ms) /\ Len(ms) \in Nat
  OBVIOUS
<1>2. IsFiniteSet(DOMAIN ms)
  BY <1>1, FS_Interval
<1>. QED  BY <1>2, FS_Subset

(* demo:publish counts what is in the database, each order once.           *)
LEMMA ConsumerPublish ==
  ASSUME PipeInv, PublishInv, ConsumerStep
  PROVE  PublishInv'
<1>0. PipeInv' /\ Grows
  BY ConsumerGrows
<1>. SUFFICES ASSUME script = "publish" PROVE PublishInv'
  BY <1>0 DEF PublishInv, Grows
<1>. USE DEF ConsumerStep
<1>1. \A m \in DOMAIN msgs : msgs[m].order = m /\ msgs[m].id = <<m, 0>>
  BY DEF PublishInv, PipeInv, HeldInv
<1>2. \A k \in work : k.by = Main
  BY WorkTypes DEF PipeInv, HeldInv
<1>3. stats[Main] \in Stat /\ stats'[Main] \in Stat
  BY <1>0 DEF PipeInv, DemoTypes
<1>4. ~WithInbox
  BY DEF WithInbox
<1>. DEFINE CountIs == stats[Main].applied <= Cardinality(Sure)
<1>5. CountIs
  BY DEF PublishInv
<1>a. IsFiniteSet(Sure) /\ IsFiniteSet(Sure')
  BY <1>0, PartsFinite DEF Sure, PipeInv, DemoTypes
<1>b. Cardinality(Sure) \in Nat /\ Cardinality(Sure') \in Nat
  BY <1>a, FS_CardinalityType
<1>6. Sure \subseteq Sure'
  BY <1>0, ConfirmedStays DEF Sure, Grows
<1>c. Cardinality(Sure) <= Cardinality(Sure')
  BY <1>a, <1>6, FS_Subset
<1>d. ASSUME stats'[Main].applied = stats[Main].applied
      PROVE  CountIs'
  <2>1. stats[Main].applied \in Nat
    BY <1>3 DEF Stat
  <2>. QED  BY <1>5, <1>b, <1>c, <1>d, <2>1
<1>7. ASSUME NEW c \in {Main, Child}, NEW m \in DOMAIN msgs, Receive(c, m)
      PROVE  CountIs'
  <2>1. Counted(c, "deliveries")
    BY <1>7, ReceiveStep DEF PipeInv
  <2>2. stats'[Main].applied = stats[Main].applied
    BY <1>3, <2>1 DEF Counted, Stat
  <2>. QED  BY <1>d, <2>2
<1>8. ASSUME NEW k \in work, Refuse(k)
      PROVE  CountIs'
  <2>1. Counted(k.by, "rejected")
    BY <1>8, RefuseStep DEF PipeInv
  <2>2. stats'[Main].applied = stats[Main].applied
    BY <1>2, <1>3, <2>1 DEF Counted, Stat
  <2>. QED  BY <1>d, <2>2
<1>9. ASSUME NEW k \in work, Confirm(k) \/ Fumble(k)
      PROVE  CountIs'
  <2>1. stats' = stats
    BY <1>9, ConfirmStep, FumbleStep DEF PipeInv
  <2>. QED  BY <1>d, <2>1
<1>10. ASSUME NEW k \in work, Apply(k)
       PROVE  CountIs'
  <2>0. Claimed(k) \/ Committed(k) \/ Learned(k) \/ Skipped(k)
    BY <1>10, ApplyStep DEF PipeInv
  <2>1. CASE Claimed(k) \/ Committed(k)
    BY <1>d, <2>1 DEF Claimed, Committed
  <2>2. CASE Skipped(k)
    <3>1. stats'[Main].applied = stats[Main].applied
      BY <1>2, <1>3, <2>2 DEF Skipped, Counted, Stat
    <3>. QED  BY <1>d, <3>1
  <2>3. CASE Learned(k)
    <3>1. k.msg \in DOMAIN msgs /\ msgs[k.msg].at = "held"
      BY WorkTypes
    <3>2. k.msg \notin Sure
      BY <2>3, <3>1 DEF Learned, Sure, Confirmed, PipeInv, HeldInv
    <3>3. k.msg \in Sure'
      BY <1>0, <2>3, <3>1, DoneConfirms DEF Learned, Sure, Grows
    <3>4. Cardinality(Sure \cup {k.msg}) = Cardinality(Sure) + 1
      BY <1>a, <3>2, FS_AddElement
    <3>5. Cardinality(Sure \cup {k.msg}) <= Cardinality(Sure')
      BY <1>a, <1>6, <3>3, FS_Subset
    <3>6. stats'[Main].applied = stats[Main].applied + 1
      BY <1>2, <2>3 DEF Learned, Counted
    <3>7. stats[Main].applied \in Nat
      BY <1>3 DEF Stat
    <3>. QED  BY <1>5, <1>b, <3>4, <3>5, <3>6, <3>7
  <2>. QED  BY <2>0, <2>1, <2>2, <2>3
<1>11. CountIs'
  BY <1>7, <1>8, <1>9, <1>10
<1>12. stats[Main].applied >= Placed => stats'[Main].applied >= Placed
  <2>1. /\ stats[Main].applied \in Nat /\ stats'[Main].applied \in Nat
        /\ stats'[Main].applied >= stats[Main].applied
    BY <1>0, <1>3 DEF Stat, Grows
  <2>. QED  BY <2>1, DemosAssumption
<1>13. \A m \in DOMAIN msgs' : msgs'[m].order = m
  BY <1>0, <1>1 DEF Grows
<1>14. at = "start" => msgs' = <<>>
  BY <1>0 DEF PublishInv, Grows, PipeInv, DemoTypes
<1>. HIDE DEF ConsumerStep, CountIs
<1>15. stats'[Main].applied <= Cardinality(Sure')
  BY <1>11 DEF CountIs
<1>. QED  BY <1>0, <1>11, <1>12, <1>13, <1>14, <1>15 DEF Grows, PublishInv

----------------------------------------------------------------------------
(* The lines of the scripts.                                               *)

(* What a count of messages says when there is one, or none there.         *)
LEMMA DepthOfOne ==
  ASSUME DOMAIN msgs = {1}, NEW place
  PROVE  Depth(place) = IF msgs[1].at = place THEN 1 ELSE 0
<1>1. CASE msgs[1].at = place
  <2>1. {m \in DOMAIN msgs : msgs[m].at = place} = {1}
    BY <1>1
  <2>. QED  BY <1>1, <2>1, FS_Singleton DEF Depth
<1>2. CASE msgs[1].at # place
  <2>1. {m \in DOMAIN msgs : msgs[m].at = place} = {}
    BY <1>2
  <2>. QED  BY <1>2, <2>1, FS_EmptySet DEF Depth
<1>. QED  BY <1>1, <1>2

LEMMA DepthOfNone ==
  ASSUME NEW place, \A m \in DOMAIN msgs : msgs[m].at # place
  PROVE  Depth(place) = 0
<1>1. {m \in DOMAIN msgs : msgs[m].at = place} = {}
  OBVIOUS
<1>. QED  BY <1>1, FS_EmptySet DEF Depth

LEMMA OneMessage ==
  ASSUME PipeInv
  PROVE  /\ Len(msgs) = 1 => DOMAIN msgs = {1}
         /\ Len(msgs) = 0 => DOMAIN msgs = {}
         /\ Len(msgs) \in Nat
BY MessageTypes DEF PipeInv

(* The event of order 1 has its task, or nothing has.                      *)
LEMMA EffectOfOne ==
  ASSUME PipeInv, \A m \in DOMAIN msgs : msgs[m].order = 1
  PROVE  /\ picking = {} \/ picking = {<<1, 0>>}
         /\ Effect = IF picking = {} THEN 0 ELSE 1
<1>1. \A e \in picking : e = <<1, 0>>
  <2>1. \A e \in picking : \E m \in DOMAIN msgs : e = msgs[m].id
    BY DEF PipeInv, DoneInv
  <2>2. \A m \in DOMAIN msgs : msgs[m].id = <<msgs[m].order, 0>>
    BY DEF PipeInv, HeldInv
  <2>. QED  BY <2>1, <2>2
<1>2. picking = {} \/ picking = {<<1, 0>>}
  BY <1>1
<1>. QED  BY <1>2, FS_EmptySet, FS_Singleton DEF Effect

(* demo:dlq.                                                               *)
LEMMA DlqStep ==
  ASSUME PipeInv, DlqInv, Dlq
  PROVE  PipeInv' /\ DlqInv'
<1>0. script = "dlq" /\ UNCHANGED <<vars, script>>
  BY DEF Dlq, Line
<1>. USE DEF Line
<1>1. CASE Line("dlq", "start", "publish") /\ Subscribe(Main)
  <2>1. PipeInv' /\ UNCHANGED <<msgs, stats, seen, late>>
    BY <1>1, SubscribeInv
  <2>. QED  BY <1>1, <2>1 DEF DlqInv
<1>2. CASE /\ Line("dlq", "publish", "wait")
           /\ P(FALSE)!PublishPoison /\ UNCHANGED <<stats, seen, late>>
  <2>1. PipeInv' /\ Sent(Poison)
    BY <1>2, PoisonInv
  <2>2. Len(msgs) = 0 /\ DOMAIN msgs = {}
    BY <1>2, OneMessage DEF DlqInv
  <2>. QED  BY <1>2, <2>1, <2>2 DEF DlqInv, Sent
<1>3. CASE Line("dlq", "wait", "poll") /\ WaitFor(stats[Main].rejected >= 1)
  <2>1. /\ PipeInv'
        /\ ~late' => ~late /\ stats[Main].rejected >= 1
        /\ UNCHANGED <<pipeVars, stats, seen>>
    BY <1>3, WaitInv
  <2>. QED  BY <1>3, <2>1 DEF DlqInv, pipeVars
<1>4. CASE /\ Line("dlq", "poll", "count")
           /\ late' = (late \/ Depth("dead") < 1)
           /\ Read([dlq |-> Depth("dead")])
           /\ UNCHANGED <<pipeVars, stats>>
  <2>1. PipeInv'
    BY <1>4, LookInv
  <2>2. seen'["dlq"] = Depth("dead")
    BY <1>4 DEF Read, Numbers
  <2>3. Depth("dead") = IF msgs[1].at = "dead" THEN 1 ELSE 0
    BY <1>4, DepthOfOne, OneMessage DEF DlqInv
  <2>4. ~late' => ~late /\ Depth("dead") = 1
    <3>1. ~late' => ~late /\ ~(Depth("dead") < 1)
      BY <1>4
    <3>2. ~(Depth("dead") < 1) => Depth("dead") = 1
      BY <2>3
    <3>. QED  BY <3>1, <3>2
  <2>5. UNCHANGED <<msgs, stats>> /\ at = "poll" /\ at' = "count"
    BY <1>4 DEF pipeVars
  <2>. QED  BY <1>0, <2>1, <2>2, <2>3, <2>4, <2>5 DEF DlqInv
<1>5. CASE Line("dlq", "count", "effect") /\ Look([work |-> Depth("ready")])
  <2>1. PipeInv'
    BY <1>5, LookInv DEF Look, PipeInv, DemoTypes
  <2>2. seen'["work"] = Depth("ready") /\ seen'["dlq"] = seen["dlq"]
    BY <1>5 DEF Look, Read, Numbers
  <2>3. Depth("ready") = IF msgs[1].at = "ready" THEN 1 ELSE 0
    BY <1>5, DepthOfOne, OneMessage DEF DlqInv
  <2>. QED  BY <1>5, <2>1, <2>2, <2>3 DEF DlqInv, Look, pipeVars
<1>6. CASE /\ Line("dlq", "effect", "reported")
           /\ Look([effect |-> Effect, rejected |-> stats[Main].rejected])
  <2>1. PipeInv'
    BY <1>6, LookInv DEF Look, PipeInv, DemoTypes
  <2>2. /\ seen'["effect"] = Effect /\ seen'["rejected"] = stats[Main].rejected
        /\ seen'["work"] = seen["work"] /\ seen'["dlq"] = seen["dlq"]
    BY <1>6 DEF Look, Read, Numbers
  <2>3. picking = {}
    BY <1>0 DEF DlqInv, PipeInv, DoneInv
  <2>4. Effect = 0
    BY <2>3, FS_EmptySet DEF Effect
  <2>. QED  BY <1>6, <2>1, <2>2, <2>4 DEF DlqInv, Look, pipeVars
<1>. QED  BY <1>1, <1>2, <1>3, <1>4, <1>5, <1>6 DEF Dlq

(* demo:duplicate, the child and then main.                                *)
LEMMA DuplicateChildStep ==
  ASSUME PipeInv, DuplicateInv, DuplicateChild
  PROVE  PipeInv' /\ DuplicateInv'
<1>0. script = "duplicate" /\ UNCHANGED <<vars, script>>
  BY DEF DuplicateChild, Line
<1>. USE DEF Line
<1>1. CASE Line("duplicate", "start", "ready") /\ Subscribe(Child)
  <2>1. /\ PipeInv' /\ consumer' = [consumer EXCEPT ![Child] = "on"]
        /\ UNCHANGED <<msgs, work, picking, mishaps, stats, seen, late>>
    BY <1>1, SubscribeInv
  <2>2. consumer'[Main] = consumer[Main]
    BY <2>1, DemosAssumption DEF PipeInv, DemoTypes
  <2>. QED  BY <1>1, <2>1, <2>2 DEF DuplicateInv, Confirmed
<1>2. CASE Line("duplicate", "ready", "child") /\ PublishEvent(1)
  <2>1. /\ PipeInv' /\ Sent(1)
        /\ UNCHANGED <<consumer, work, picking, mishaps, stats, late>>
    BY <1>2, PublishEventInv, OneIsPlaced
  <2>2. Len(msgs) = 0 /\ DOMAIN msgs = {}
    BY <1>2, OneMessage DEF DuplicateInv
  <2>3. stats[Main].deliveries = 0 /\ stats[Main].skipped = 0 /\ consumer[Main] = "off"
    BY <1>2 DEF DuplicateInv
  <2>. QED  BY <1>2, <2>1, <2>2, <2>3 DEF DuplicateInv, Sent
<1>3. CASE /\ Line("duplicate", "child", "again")
           /\ \E k \in work : k.by = Child /\ k.phase = "done"
           /\ P(FALSE)!ConsumerDies(Child)
           /\ Read([deliveries |-> stats[Child].deliveries])
           /\ UNCHANGED <<stats, late>>
  <2>1. PICK k \in work : k.by = Child /\ k.phase = "done"
    BY <1>3
  <2>2. Len(msgs) = 1 /\ DOMAIN msgs = {1}
    BY <1>3, OneMessage DEF DuplicateInv
  <2>3. seen' = [n \in Numbers |-> seen'[n]] /\ seen'["deliveries"] = stats[Child].deliveries
    BY <1>3 DEF Read, Numbers
  <2>4. /\ PipeInv'
        /\ k.msg = 1
        /\ \E at1 \in {"ready", "dead"} : Becomes(1, at1, None, msgs[1].returns + 1)
        /\ consumer' = [consumer EXCEPT ![Child] = "off"]
        /\ mishaps' = mishaps + 1
        /\ UNCHANGED picking
    BY <1>0, <1>3, <2>1, <2>2, <2>3, ChildDiesStep
  <2>5. seen'["deliveries"] \in Nat \ {0}
    BY <2>1, <2>3, WorkTypes DEF PipeInv, HeldInv, Stat
  <2>6. picking = {<<1, 0>>}
    <3>1. msgs[1].id \in picking
      BY <2>1, <2>4 DEF PipeInv, DoneInv
    <3>. QED  BY <1>0, <3>1, EffectOfOne DEF DuplicateInv
  <2>7. msgs'[1].returns >= 1 /\ Len(msgs') = 1 /\ DOMAIN msgs' = {1} /\ msgs'[1].order = 1
    <3>1. msgs[1].returns \in Nat /\ msgs[1].order = 1
      BY <1>0, <2>2, MessageTypes DEF Msg, PipeInv, DuplicateInv
    <3>. QED  BY <2>2, <2>4, <3>1 DEF Becomes
  <2>8. consumer'[Main] = "off" /\ consumer'[Child] = "off" /\ mishaps' >= 1
    BY <1>3, <2>4, DemosAssumption DEF DuplicateInv, PipeInv, DemoTypes
  <2>9. stats[Main].deliveries = 0 /\ stats[Main].skipped = 0
    BY <1>3 DEF DuplicateInv
  <2>. QED  BY <1>3, <2>4, <2>5, <2>6, <2>7, <2>8, <2>9 DEF DuplicateInv
<1>. QED  BY <1>1, <1>2, <1>3 DEF DuplicateChild

LEMMA DuplicateMainStep ==
  ASSUME PipeInv, DuplicateInv, DuplicateMain
  PROVE  PipeInv' /\ DuplicateInv'
<1>0. script = "duplicate" /\ UNCHANGED <<vars, script>>
  BY DEF DuplicateMain, Line
<1>a. DOMAIN msgs = {1} /\ stats[Main] \in Stat
  BY OneMessage DEF DuplicateMain, Line, DuplicateInv, PipeInv, DemoTypes
<1>b. UNCHANGED <<pipeVars, stats>> => UNCHANGED <<msgs, consumer, work, picking, mishaps, stats>>
  BY DEF pipeVars
<1>. USE DEF Line
<1>1. CASE Line("duplicate", "again", "wait") /\ Subscribe(Main)
  <2>1. /\ PipeInv' /\ consumer' = [consumer EXCEPT ![Main] = "on"]
        /\ UNCHANGED <<msgs, work, picking, mishaps, stats, seen, late>>
    BY <1>1, SubscribeInv
  <2>2. consumer'[Child] = consumer[Child]
    BY <2>1, DemosAssumption DEF PipeInv, DemoTypes
  <2>. QED  BY <1>1, <2>1, <2>2 DEF DuplicateInv, Confirmed
<1>2. CASE Line("duplicate", "wait", "drain") /\ WaitFor(stats[Main].deliveries >= 1)
  <2>1. /\ PipeInv'
        /\ ~late' => ~late /\ stats[Main].deliveries >= 1
        /\ UNCHANGED <<pipeVars, stats, seen>>
    BY <1>2, WaitInv
  <2>. QED  BY <1>2, <1>b, <2>1 DEF DuplicateInv, Confirmed
<1>3. CASE /\ Line("duplicate", "drain", "count")
           /\ late' = (late \/ Depth("ready") > 0)
           /\ Read([work |-> Depth("ready")])
           /\ UNCHANGED <<pipeVars, stats>>
  <2>1. PipeInv'
    BY <1>3, LookInv
  <2>2. seen'["work"] = Depth("ready") /\ seen'["deliveries"] = seen["deliveries"]
    BY <1>3 DEF Read, Numbers
  <2>3. ~late' => ~late /\ ~(Depth("ready") > 0)
    BY <1>3
  <2>4. ~(Depth("ready") > 0) => Depth("ready") = 0
    BY <1>a, DepthOfOne
  <2>. QED  BY <1>3, <1>b, <2>1, <2>2, <2>3, <2>4 DEF DuplicateInv, Confirmed
<1>4. CASE /\ Line("duplicate", "count", "effect")
           /\ Look([deliveries |-> seen["deliveries"] + stats[Main].deliveries])
  <2>1. PipeInv' /\ UNCHANGED <<late, pipeVars, stats>>
    BY <1>4, LookInv DEF Look, PipeInv, DemoTypes
  <2>2. /\ seen'["deliveries"] = seen["deliveries"] + stats[Main].deliveries
        /\ seen'["work"] = seen["work"]
    BY <1>4 DEF Look, Read, Numbers
  <2>3. seen["deliveries"] \in Nat \ {0} /\ stats[Main].deliveries \in Nat
    BY <1>4, <1>a DEF DuplicateInv, Stat
  <2>4. /\ seen'["deliveries"] \in Nat \ {0}
        /\ stats[Main].deliveries >= 1 => seen'["deliveries"] >= 2
    BY <2>2, <2>3
  <2>. QED  BY <1>4, <1>b, <2>1, <2>2, <2>4 DEF DuplicateInv, Confirmed
<1>5. CASE /\ Line("duplicate", "effect", "dlq")
           /\ Look([effect |-> Effect, skipped |-> stats[Main].skipped])
  <2>1. PipeInv' /\ UNCHANGED <<late, pipeVars, stats>>
    BY <1>5, LookInv DEF Look, PipeInv, DemoTypes
  <2>2. /\ seen'["effect"] = Effect /\ seen'["skipped"] = stats[Main].skipped
        /\ seen'["work"] = seen["work"] /\ seen'["deliveries"] = seen["deliveries"]
    BY <1>5 DEF Look, Read, Numbers
  <2>3. Effect = 1
    BY <1>5, EffectOfOne DEF DuplicateInv
  <2>4. stats[Main].skipped \in 0 .. stats[Main].skipped
    BY <1>a DEF Stat
  <2>. QED  BY <1>5, <1>b, <2>1, <2>2, <2>3, <2>4 DEF DuplicateInv, Confirmed
<1>6. CASE Line("duplicate", "dlq", "reported") /\ Look([dlq |-> Depth("dead")])
  <2>1. PipeInv' /\ UNCHANGED <<late, pipeVars, stats>>
    BY <1>6, LookInv DEF Look, PipeInv, DemoTypes
  <2>2. /\ seen'["dlq"] = Depth("dead") /\ seen'["effect"] = seen["effect"]
        /\ seen'["skipped"] = seen["skipped"] /\ seen'["work"] = seen["work"]
        /\ seen'["deliveries"] = seen["deliveries"]
    BY <1>6 DEF Look, Read, Numbers
  <2>3. Depth("dead") = IF msgs[1].at = "dead" THEN 1 ELSE 0
    BY <1>a, DepthOfOne
  <2>4. ~late /\ mishaps = 1 => msgs[1].at # "dead"
    BY <1>6 DEF DuplicateInv
  <2>. QED  BY <1>6, <1>b, <2>1, <2>2, <2>3, <2>4 DEF DuplicateInv, Confirmed
<1>. QED  BY <1>1, <1>2, <1>3, <1>4, <1>5, <1>6 DEF DuplicateMain

(* Every event has its task: then no message is waiting, lost or dead.     *)
LEMMA AllPicked ==
  ASSUME PipeInv, PublishInv, script = "publish", Len(msgs) = Placed,
         stats[Main].applied >= Placed
  PROVE  /\ Effect = Placed
         /\ stats[Main].applied = Placed
         /\ \A m \in DOMAIN msgs : msgs[m].at \in {"held", "acked"}
<1>1. IsFiniteSet(Ids \X {0}) /\ Cardinality(Ids \X {0}) = Placed
  <2>1. IsFiniteSet(Ids) /\ Cardinality(Ids) = Placed
    BY IdsCount
  <2>2. IsFiniteSet({0}) /\ Cardinality({0}) = 1
    BY FS_Singleton
  <2>3. IsFiniteSet(Ids \X {0}) /\ Cardinality(Ids \X {0}) = Cardinality(Ids) * Cardinality({0})
    BY <2>1, <2>2, FS_Product
  <2>4. Placed * 1 = Placed
    BY DemosAssumption
  <2>. QED  BY <2>1, <2>2, <2>3, <2>4
<1>2. DOMAIN msgs = Ids /\ Sure \subseteq Ids
  BY MessageTypes DEF PipeInv, Ids, Sure
<1>3. Cardinality(Sure) <= Placed /\ Cardinality(Sure) \in Nat
  BY <1>2, IdsCount, FS_Subset, FS_CardinalityType
<1>4. stats[Main].applied <= Cardinality(Sure) /\ stats[Main].applied \in Nat
  BY DEF PublishInv, PipeInv, DemoTypes, Stat
<1>5. Cardinality(Sure) = Placed /\ stats[Main].applied = Placed
  BY <1>3, <1>4, DemosAssumption
<1>6. Sure = Ids
  BY <1>2, <1>5, IdsCount, FS_Subset
<1>7. ASSUME NEW m \in Ids
      PROVE  msgs[m].at \in {"held", "acked"} /\ <<m, 0>> \in picking
  <2>1. m \in DOMAIN msgs /\ Confirmed(m)
    BY <1>6 DEF Sure
  <2>2. msgs[m].id = <<m, 0>>
    BY <2>1 DEF PublishInv, PipeInv, HeldInv
  <2>3. msgs[m].at \in {"held", "acked"}
    BY <2>1, WorkTypes DEF Confirmed
  <2>4. msgs[m].id \in picking
    BY <2>1 DEF Confirmed, PipeInv, DoneInv
  <2>. QED  BY <2>2, <2>3, <2>4
<1>8. picking = Ids \X {0}
  BY <1>7 DEF PipeInv, DemoTypes
<1>. QED  BY <1>1, <1>2, <1>5, <1>7, <1>8 DEF Effect

(* demo:publish.                                                           *)
LEMMA PublishAllStep ==
  ASSUME PipeInv, PublishInv, PublishAll
  PROVE  PipeInv' /\ PublishInv'
<1>0. script = "publish" /\ UNCHANGED <<vars, script>>
  BY DEF PublishAll, Line
<1>a. UNCHANGED <<pipeVars, stats>> => UNCHANGED <<msgs, work, picking, stats>>
  BY DEF pipeVars
<1>b. Len(msgs) \in Nat /\ DOMAIN msgs = 1 .. Len(msgs) /\ Placed \in Nat \ {0}
  BY MessageTypes, DemosAssumption DEF PipeInv
<1>c. stats[Main].applied >= Placed /\ Len(msgs) = Placed =>
        /\ stats[Main].applied = Placed
        /\ Depth("ready") = 0
        /\ Depth("dead") = 0
  <2>1. ASSUME stats[Main].applied >= Placed, Len(msgs) = Placed
        PROVE  Depth("ready") = 0 /\ Depth("dead") = 0
    <3>1. \A m \in DOMAIN msgs : msgs[m].at # "ready" /\ msgs[m].at # "dead"
      BY <1>0, <2>1, AllPicked
    <3>. QED  BY <3>1, DepthOfNone
  <2>. QED  BY <1>0, <2>1, AllPicked
<1>. USE DEF Line
<1>1. CASE Line("publish", "start", "loop") /\ Subscribe(Main)
  <2>1. /\ PipeInv'
        /\ UNCHANGED <<msgs, work, picking, stats, seen, late>>
    BY <1>1, SubscribeInv
  <2>. QED  BY <1>1, <2>1 DEF PublishInv, Sure, Confirmed
<1>2. CASE /\ Line("publish", "loop", "loop")
           /\ seen["published"] < Placed
           /\ PublishEvent(seen["published"] + 1)
  <2>. DEFINE o == seen["published"] + 1
  <2>1. o \in Ids /\ o = Len(msgs) + 1 /\ o <= Placed
    BY <1>0, <1>2, <1>b DEF PublishInv, Ids
  <2>2. /\ PipeInv' /\ Sent(o)
        /\ UNCHANGED <<work, picking, stats, late>>
    BY <1>2, <2>1, PublishEventInv
  <2>3. seen'["published"] = o
    BY <1>2 DEF PublishEvent, Read, Numbers
  <2>. HIDE DEF o
  <2>4. \A m \in DOMAIN msgs' : msgs'[m].order = m
    BY <1>0, <2>1, <2>2 DEF Sent, PublishInv
  <2>5. stats'[Main].applied <= Cardinality(Sure')
    <3>1. ASSUME NEW m \in DOMAIN msgs
          PROVE  m \in DOMAIN msgs' /\ (Confirmed(m) => Confirmed(m)')
      BY <2>2 DEF Sent, Confirmed
    <3>2. Sure \subseteq Sure'
      BY <3>1 DEF Sure
    <3>3. IsFiniteSet(Sure) /\ IsFiniteSet(Sure')
      BY <2>2, PartsFinite DEF Sure, PipeInv, DemoTypes
    <3>4. Cardinality(Sure) <= Cardinality(Sure')
      BY <3>2, <3>3, FS_Subset
    <3>5. Cardinality(Sure) \in Nat /\ Cardinality(Sure') \in Nat
      BY <3>3, FS_CardinalityType
    <3>6. stats[Main].applied <= Cardinality(Sure) /\ stats[Main].applied \in Nat
      BY <1>0 DEF PublishInv, PipeInv, DemoTypes, Stat
    <3>. QED  BY <2>2, <3>4, <3>5, <3>6
  <2>6. Len(msgs') = o
    BY <2>1, <2>2 DEF Sent
  <2>. QED  BY <1>2, <2>1, <2>2, <2>3, <2>4, <2>5, <2>6 DEF PublishInv
<1>3. CASE /\ Line("publish", "loop", "work")
           /\ seen["published"] = Placed
           /\ WaitFor(stats[Main].applied >= Placed)
  <2>1. /\ PipeInv'
        /\ ~late' => ~late /\ stats[Main].applied >= Placed
        /\ UNCHANGED <<pipeVars, stats, seen>>
    BY <1>3, WaitInv
  <2>. QED  BY <1>3, <1>a, <2>1 DEF PublishInv, Sure, Confirmed
<1>4. CASE Line("publish", "work", "dlq") /\ Look([work |-> Depth("ready")])
  <2>1. PipeInv' /\ UNCHANGED <<late, pipeVars, stats>>
    BY <1>4, LookInv DEF Look, PipeInv, DemoTypes
  <2>2. seen'["work"] = Depth("ready") /\ seen'["published"] = seen["published"]
    BY <1>4 DEF Look, Read, Numbers
  <2>. QED  BY <1>4, <1>a, <1>c, <2>1, <2>2 DEF PublishInv, Sure, Confirmed
<1>5. CASE /\ Line("publish", "dlq", "reported")
           /\ Look([dlq |-> Depth("dead"), applied |-> stats[Main].applied,
                    dropped |-> Depth("dropped")])
  <2>1. PipeInv' /\ UNCHANGED <<late, pipeVars, stats>>
    BY <1>5, LookInv DEF Look, PipeInv, DemoTypes
  <2>2. /\ seen'["dlq"] = Depth("dead") /\ seen'["applied"] = stats[Main].applied
        /\ seen'["dropped"] = Depth("dropped")
        /\ seen'["published"] = seen["published"] /\ seen'["work"] = seen["work"]
    BY <1>5 DEF Look, Read, Numbers
  <2>3. Depth("dropped") = 0
    <3>1. \A m \in DOMAIN msgs : msgs[m].at # "dropped"
      BY MessageTypes DEF Msg, PipeInv
    <3>. QED  BY <3>1, DepthOfNone
  <2>4. Placed >= Placed
    BY <1>b
  <2>. QED  BY <1>5, <1>a, <1>c, <2>1, <2>2, <2>3, <2>4 DEF PublishInv, Sure, Confirmed
<1>. QED  BY <1>1, <1>2, <1>3, <1>4, <1>5 DEF PublishAll

(* The counts over the one row.                                            *)
LEMMA RowCounts ==
  ASSUME PipeInv, NEW state \in {"pending", "published"}, RowIs(state)
  PROVE  /\ Unmarked = IF state = "pending" THEN 1 ELSE 0
         /\ Marked = IF state = "published" THEN 1 ELSE 0
         /\ row[1] = state
<1>1. \A s \in {"pending", "published"} :
        {o \in DOMAIN row : row[o] = s} = IF s = state THEN {1} ELSE {}
  BY OneIsPlaced DEF RowIs
<1>. QED  BY <1>1, OneIsPlaced, FS_EmptySet, FS_Singleton DEF Unmarked, Marked, RowIs

LEMMA RowCountsPending ==
  ASSUME PipeInv, RowIs("pending")
  PROVE  Unmarked = 1 /\ Marked = 0 /\ row[1] = "pending"
BY RowCounts

LEMMA RowCountsPublished ==
  ASSUME PipeInv, RowIs("published")
  PROVE  Unmarked = 0 /\ Marked = 1 /\ row[1] = "published"
BY RowCounts

(* What a script sees of the rest while it only looks.                     *)
LEMMA Unseen ==
  UNCHANGED <<pipeVars, stats>> =>
    UNCHANGED <<row, batch, msgs, consumer, work, inbox, picking, mishaps, stats>>
BY DEF pipeVars

(* demo:crash-relay, the first pass and then the second.                   *)
LEMMA CrashRelayStep ==
  ASSUME PipeInv, RelayScriptInv, CrashRelay
  PROVE  PipeInv' /\ RelayScriptInv'
<1>0. script = "relay" /\ UNCHANGED <<vars, script>>
  BY DEF CrashRelay, Line
<1>a. DOMAIN msgs = 1 .. Len(msgs) /\ Len(msgs) \in Nat
  BY MessageTypes DEF PipeInv
<1>. USE DEF Line
<1>1. CASE Line("relay", "start", "place") /\ Subscribe(Main)
  <2>1. PipeInv' /\ UNCHANGED <<row, batch, msgs, picking, stats, seen, late>>
    BY <1>1, SubscribeInv
  <2>. QED  BY <1>1, <2>1 DEF RelayScriptInv, RowIs, BatchIs
<1>2. CASE /\ Line("relay", "place", "select")
           /\ P(TRUE)!Place(1) /\ UNCHANGED <<stats, seen, late>>
  <2>1. PipeInv' /\ RowIs("pending")' /\ UNCHANGED <<batch, msgs, picking>>
    BY <1>2, PlaceStep DEF RelayScriptInv
  <2>. QED  BY <1>2, <2>1 DEF RelayScriptInv, BatchIs
<1>3. CASE /\ Line("relay", "select", "crash")
           /\ P(TRUE)!SelectBatch(Relay) /\ UNCHANGED <<stats, seen, late>>
  <2>1. PipeInv' /\ BatchIs({1}, {})' /\ UNCHANGED <<row, msgs, picking>>
    BY <1>3, SelectStep DEF RelayScriptInv
  <2>. QED  BY <1>3, <2>1 DEF RelayScriptInv, RowIs
<1>4. CASE /\ Line("relay", "crash", "thrown")
           /\ P(TRUE)!Publish(Relay)
           /\ Read([published |-> 1]) /\ UNCHANGED <<stats, late>>
  <2>1. seen' = [n \in Numbers |-> seen'[n]] /\ seen'["published"] = 1
    BY <1>4 DEF Read, Numbers
  <2>2. PipeInv' /\ Sent(1) /\ BatchIs({}, {1})' /\ UNCHANGED <<row, picking>>
    BY <1>4, <2>1, PublishStep DEF RelayScriptInv
  <2>3. Len(msgs') = 1 /\ \A m \in DOMAIN msgs' : msgs'[m].order = 1
    BY <1>4, <1>a, <2>2 DEF RelayScriptInv, Sent
  <2>. QED  BY <1>4, <2>1, <2>2, <2>3 DEF RelayScriptInv, RowIs
<1>5. CASE /\ Line("relay", "thrown", "wait")
           /\ P(TRUE)!RelayFails(Relay) /\ UNCHANGED <<stats, seen, late>>
  <2>1. PipeInv' /\ BatchIs({}, {})' /\ UNCHANGED <<row, msgs, picking>>
    BY <1>5, RelayFailsStep
  <2>. QED  BY <1>5, <2>1 DEF RelayScriptInv, RowIs
<1>. QED  BY <1>1, <1>2, <1>3, <1>4, <1>5 DEF CrashRelay

LEMMA RelayAgainStep ==
  ASSUME PipeInv, RelayScriptInv, RelayAgain
  PROVE  PipeInv' /\ RelayScriptInv'
<1>0. script = "relay" /\ UNCHANGED <<vars, script>>
  BY DEF RelayAgain, RelayPass, Line
<1>a. DOMAIN msgs = 1 .. Len(msgs) /\ Len(msgs) \in Nat /\ stats[Main] \in Stat
  BY MessageTypes DEF PipeInv, DemoTypes
<1>. USE DEF Line
<1>1. CASE Line("relay", "wait", "unmarked") /\ WaitFor(stats[Main].deliveries >= 1)
  <2>1. PipeInv' /\ (~late' => ~late) /\ UNCHANGED <<pipeVars, stats, seen>>
    BY <1>1, WaitInv
  <2>. QED  BY <1>1, <2>1, Unseen DEF RelayScriptInv, RowIs, BatchIs
<1>2. CASE Line("relay", "unmarked", "second") /\ Look([unmarked |-> Unmarked])
  <2>1. PipeInv' /\ UNCHANGED <<late, pipeVars, stats>>
    BY <1>2, LookInv DEF Look, PipeInv, DemoTypes
  <2>2. seen'["unmarked"] = Unmarked /\ seen'["published"] = seen["published"]
    BY <1>2 DEF Look, Read, Numbers
  <2>3. Unmarked = 1
    BY <1>2, RowCountsPending DEF RelayScriptInv
  <2>. QED  BY <1>2, <2>1, <2>2, <2>3, Unseen DEF RelayScriptInv, RowIs, BatchIs
<1>3. CASE /\ Line("relay", "second", "publishing")
           /\ P(TRUE)!SelectBatch(Relay) /\ UNCHANGED <<stats, seen, late>>
  <2>1. PipeInv' /\ BatchIs({1}, {})' /\ UNCHANGED <<row, msgs, picking>>
    BY <1>3, SelectStep DEF RelayScriptInv
  <2>. QED  BY <1>3, <2>1 DEF RelayScriptInv, RowIs
<1>4. CASE /\ Line("relay", "publishing", "marking")
           /\ P(TRUE)!Publish(Relay)
           /\ Read([published |-> seen["published"] + 1])
           /\ UNCHANGED <<stats, late>>
  <2>1. /\ seen' = [n \in Numbers |-> seen'[n]]
        /\ seen'["published"] = seen["published"] + 1
        /\ seen'["unmarked"] = seen["unmarked"]
    BY <1>4 DEF Read, Numbers
  <2>2. PipeInv' /\ Sent(1) /\ BatchIs({}, {1})' /\ UNCHANGED <<row, picking>>
    BY <1>4, <2>1, PublishStep DEF RelayScriptInv
  <2>3. /\ Len(msgs') = 2 /\ seen'["published"] = 2
        /\ \A m \in DOMAIN msgs' : msgs'[m].order = 1
    BY <1>4, <1>a, <2>1, <2>2 DEF RelayScriptInv, Sent
  <2>. QED  BY <1>4, <2>1, <2>2, <2>3 DEF RelayScriptInv, RowIs
<1>5. CASE /\ Line("relay", "marking", "delivered")
           /\ P(TRUE)!CommitBatch(Relay) /\ UNCHANGED <<stats, seen, late>>
  <2>1. PipeInv' /\ RowIs("published")' /\ BatchIs({}, {})' /\ UNCHANGED <<msgs, picking>>
    BY <1>5, CommitStep DEF RelayScriptInv
  <2>. QED  BY <1>5, <2>1 DEF RelayScriptInv
<1>6. CASE Line("relay", "delivered", "skipped") /\ WaitFor(stats[Main].deliveries >= 2)
  <2>1. /\ PipeInv'
        /\ ~late' => ~late /\ stats[Main].deliveries >= 2
        /\ UNCHANGED <<pipeVars, stats, seen>>
    BY <1>6, WaitInv
  <2>. QED  BY <1>6, <2>1, Unseen DEF RelayScriptInv, RowIs, BatchIs
<1>7. CASE Line("relay", "skipped", "marked") /\ WaitFor(stats[Main].skipped >= 1)
  <2>1. /\ PipeInv'
        /\ ~late' => ~late /\ stats[Main].skipped >= 1
        /\ UNCHANGED <<pipeVars, stats, seen>>
    BY <1>7, WaitInv
  <2>2. stats[Main].skipped >= 1 => picking # {}
    BY <1>a DEF Stat, PipeInv, DoneInv
  <2>. QED  BY <1>7, <2>1, <2>2, Unseen DEF RelayScriptInv, RowIs, BatchIs
<1>8. CASE /\ Line("relay", "marked", "effect")
           /\ Look([deliveries |-> stats[Main].deliveries, marked |-> Marked])
  <2>1. PipeInv' /\ UNCHANGED <<late, pipeVars, stats>>
    BY <1>8, LookInv DEF Look, PipeInv, DemoTypes
  <2>2. /\ seen'["deliveries"] = stats[Main].deliveries /\ seen'["marked"] = Marked
        /\ seen'["published"] = seen["published"] /\ seen'["unmarked"] = seen["unmarked"]
    BY <1>8 DEF Look, Read, Numbers
  <2>3. Marked = 1
    BY <1>8, RowCountsPublished DEF RelayScriptInv
  <2>. QED  BY <1>8, <2>1, <2>2, <2>3, Unseen DEF RelayScriptInv, RowIs, BatchIs
<1>9. CASE Line("relay", "effect", "processed") /\ Look([effect |-> Effect])
  <2>1. PipeInv' /\ UNCHANGED <<late, pipeVars, stats>>
    BY <1>9, LookInv DEF Look, PipeInv, DemoTypes
  <2>2. /\ seen'["effect"] = Effect
        /\ seen'["deliveries"] = seen["deliveries"] /\ seen'["marked"] = seen["marked"]
        /\ seen'["published"] = seen["published"] /\ seen'["unmarked"] = seen["unmarked"]
    BY <1>9 DEF Look, Read, Numbers
  <2>3. Effect = IF picking = {} THEN 0 ELSE 1
    BY <1>0, EffectOfOne DEF RelayScriptInv
  <2>. QED  BY <1>9, <2>1, <2>2, <2>3, Unseen DEF RelayScriptInv, RowIs, BatchIs
<1>10. CASE Line("relay", "processed", "reported") /\ Look([processed |-> Cardinality(inbox)])
  <2>1. PipeInv' /\ UNCHANGED <<late, pipeVars, stats>>
    BY <1>10, LookInv DEF Look, PipeInv, DemoTypes
  <2>2. /\ seen'["processed"] = Cardinality(inbox) /\ seen'["effect"] = seen["effect"]
        /\ seen'["deliveries"] = seen["deliveries"] /\ seen'["marked"] = seen["marked"]
        /\ seen'["published"] = seen["published"] /\ seen'["unmarked"] = seen["unmarked"]
    BY <1>10 DEF Look, Read, Numbers
  <2>3. Effect = IF picking = {} THEN 0 ELSE 1
    BY <1>0, EffectOfOne DEF RelayScriptInv
  <2>4. Cardinality(inbox) = Effect
    BY <1>0 DEF Effect, PipeInv, DoneInv, WithInbox
  <2>. QED  BY <1>10, <2>1, <2>2, <2>3, <2>4, Unseen DEF RelayScriptInv, RowIs, BatchIs
<1>. QED  BY <1>1, <1>2, <1>3, <1>4, <1>5, <1>6, <1>7, <1>8, <1>9, <1>10
          DEF RelayAgain, RelayPass

(* demo:outbox.                                                            *)
LEMMA OutboxStep ==
  ASSUME PipeInv, OutboxScriptInv, OutboxMain
  PROVE  PipeInv' /\ OutboxScriptInv'
<1>0. script = "outbox" /\ UNCHANGED <<vars, script>>
  BY DEF OutboxMain, RelayPass, Line
<1>a. DOMAIN msgs = 1 .. Len(msgs) /\ Len(msgs) \in Nat /\ stats[Main] \in Stat
  BY MessageTypes DEF PipeInv, DemoTypes
<1>. USE DEF Line
<1>1. CASE Line("outbox", "start", "first") /\ Subscribe(Main)
  <2>1. PipeInv' /\ UNCHANGED <<row, batch, msgs, picking, stats, seen, late>>
    BY <1>1, SubscribeInv
  <2>. QED  BY <1>1, <2>1 DEF OutboxScriptInv, RowIs, BatchIs
<1>2. CASE /\ Line("outbox", "first", "second")
           /\ P(TRUE)!Place(1) /\ UNCHANGED <<stats, seen, late>>
  <2>1. PipeInv' /\ RowIs("pending")' /\ UNCHANGED <<batch, msgs, picking>>
    BY <1>2, PlaceStep DEF OutboxScriptInv
  <2>. QED  BY <1>2, <2>1 DEF OutboxScriptInv, BatchIs
<1>3. CASE /\ Line("outbox", "second", "count")
           /\ Look([replay |-> IF row[1] = "none" THEN 0 ELSE 1])
  <2>1. PipeInv' /\ UNCHANGED <<late, pipeVars, stats>>
    BY <1>3, LookInv DEF Look, PipeInv, DemoTypes
  <2>2. row[1] = "pending"
    BY <1>3, RowCountsPending DEF OutboxScriptInv
  <2>3. seen'["replay"] = 1 /\ seen'["published"] = seen["published"]
    BY <1>3, <2>2 DEF Look, Read, Numbers
  <2>. QED  BY <1>3, <2>1, <2>3, Unseen DEF OutboxScriptInv, RowIs, BatchIs
<1>4. CASE Line("outbox", "count", "pass") /\ Look([outbox |-> Marked + Unmarked])
  <2>1. PipeInv' /\ UNCHANGED <<late, pipeVars, stats>>
    BY <1>4, LookInv DEF Look, PipeInv, DemoTypes
  <2>2. Marked + Unmarked = 1
    BY <1>4, RowCountsPending DEF OutboxScriptInv
  <2>3. /\ seen'["outbox"] = Marked + Unmarked
        /\ seen'["replay"] = seen["replay"] /\ seen'["published"] = seen["published"]
    BY <1>4 DEF Look, Read, Numbers
  <2>. QED  BY <1>4, <2>1, <2>2, <2>3, Unseen DEF OutboxScriptInv, RowIs, BatchIs
<1>5. CASE /\ Line("outbox", "pass", "publishing")
           /\ P(TRUE)!SelectBatch(Relay) /\ UNCHANGED <<stats, seen, late>>
  <2>1. PipeInv' /\ BatchIs({1}, {})' /\ UNCHANGED <<row, msgs, picking>>
    BY <1>5, SelectStep DEF OutboxScriptInv
  <2>. QED  BY <1>5, <2>1 DEF OutboxScriptInv, RowIs
<1>6. CASE /\ Line("outbox", "publishing", "marking")
           /\ P(TRUE)!Publish(Relay)
           /\ Read([published |-> seen["published"] + 1])
           /\ UNCHANGED <<stats, late>>
  <2>1. /\ seen' = [n \in Numbers |-> seen'[n]]
        /\ seen'["published"] = seen["published"] + 1
        /\ seen'["replay"] = seen["replay"] /\ seen'["outbox"] = seen["outbox"]
    BY <1>6 DEF Read, Numbers
  <2>2. PipeInv' /\ Sent(1) /\ BatchIs({}, {1})' /\ UNCHANGED <<row, picking>>
    BY <1>6, <2>1, PublishStep DEF OutboxScriptInv
  <2>3. /\ Len(msgs') = 1 /\ seen'["published"] = 1
        /\ \A m \in DOMAIN msgs' : msgs'[m].order = 1
    BY <1>6, <1>a, <2>1, <2>2 DEF OutboxScriptInv, Sent
  <2>. QED  BY <1>6, <2>1, <2>2, <2>3 DEF OutboxScriptInv, RowIs
<1>7. CASE /\ Line("outbox", "marking", "delivered")
           /\ P(TRUE)!CommitBatch(Relay) /\ UNCHANGED <<stats, seen, late>>
  <2>1. PipeInv' /\ RowIs("published")' /\ BatchIs({}, {})' /\ UNCHANGED <<msgs, picking>>
    BY <1>7, CommitStep DEF OutboxScriptInv
  <2>. QED  BY <1>7, <2>1 DEF OutboxScriptInv
<1>8. CASE Line("outbox", "delivered", "applied") /\ WaitFor(stats[Main].deliveries >= 1)
  <2>1. PipeInv' /\ (~late' => ~late) /\ UNCHANGED <<pipeVars, stats, seen>>
    BY <1>8, WaitInv
  <2>. QED  BY <1>8, <2>1, Unseen DEF OutboxScriptInv, RowIs, BatchIs
<1>9. CASE Line("outbox", "applied", "effect") /\ WaitFor(stats[Main].applied >= 1)
  <2>1. /\ PipeInv'
        /\ ~late' => ~late /\ stats[Main].applied >= 1
        /\ UNCHANGED <<pipeVars, stats, seen>>
    BY <1>9, WaitInv
  <2>2. stats[Main].applied >= 1 => picking # {}
    BY <1>a DEF Stat, PipeInv, DoneInv
  <2>. QED  BY <1>9, <2>1, <2>2, Unseen DEF OutboxScriptInv, RowIs, BatchIs
<1>10. CASE Line("outbox", "effect", "processed") /\ Look([effect |-> Effect])
  <2>1. PipeInv' /\ UNCHANGED <<late, pipeVars, stats>>
    BY <1>10, LookInv DEF Look, PipeInv, DemoTypes
  <2>2. /\ seen'["effect"] = Effect
        /\ seen'["published"] = seen["published"] /\ seen'["replay"] = seen["replay"]
        /\ seen'["outbox"] = seen["outbox"]
    BY <1>10 DEF Look, Read, Numbers
  <2>3. Effect = IF picking = {} THEN 0 ELSE 1
    BY <1>0, EffectOfOne DEF OutboxScriptInv
  <2>. QED  BY <1>10, <2>1, <2>2, <2>3, Unseen DEF OutboxScriptInv, RowIs, BatchIs
<1>11. CASE Line("outbox", "processed", "reported") /\ Look([processed |-> Cardinality(inbox)])
  <2>1. PipeInv' /\ UNCHANGED <<late, pipeVars, stats>>
    BY <1>11, LookInv DEF Look, PipeInv, DemoTypes
  <2>2. /\ seen'["processed"] = Cardinality(inbox) /\ seen'["effect"] = seen["effect"]
        /\ seen'["published"] = seen["published"] /\ seen'["replay"] = seen["replay"]
        /\ seen'["outbox"] = seen["outbox"]
    BY <1>11 DEF Look, Read, Numbers
  <2>3. Effect = IF picking = {} THEN 0 ELSE 1
    BY <1>0, EffectOfOne DEF OutboxScriptInv
  <2>4. Cardinality(inbox) = Effect
    BY <1>0 DEF Effect, PipeInv, DoneInv, WithInbox
  <2>. QED  BY <1>11, <2>1, <2>2, <2>3, <2>4, Unseen DEF OutboxScriptInv, RowIs, BatchIs
<1>. QED  BY <1>1, <1>2, <1>3, <1>4, <1>5, <1>6, <1>7, <1>8, <1>9, <1>10, <1>11
          DEF OutboxMain, RelayPass

(* demo:workers.                                                           *)
LEMMA WorkersMainStep ==
  ASSUME IInv, PipeInv, WorkersScriptInv, WorkersMain
  PROVE  PipeInv' /\ WorkersScriptInv'
<1>1. PipeInv'
  BY LookInv, WatchInv DEF WorkersMain, PipeInv, DemoTypes, pipeVars
<1>0. script' = "workers" /\ UNCHANGED vars
  BY DEF WorkersMain
<1>2. CASE faults > 0
  <2>1. at' = "failed"
    BY <1>2 DEF WorkersMain
  <2>. QED  BY <1>0, <1>1, <2>1 DEF WorkersScriptInv
<1>3. CASE ~(faults > 0)
  <2>1. /\ \A w \in Workers : pc[w] = "stopped"
        /\ at' = "reported"
        /\ Read([done |-> Cardinality({t \in Tasks : status[t] = "done"}),
                 twice |-> Cardinality({t \in Tasks : processed[t] > 1}),
                 pending |-> Cardinality({t \in Tasks : status[t] = "pending"})])
    BY <1>3 DEF WorkersMain
  <2>2. /\ seen'["done"] = Cardinality({t \in Tasks : status[t] = "done"})
        /\ seen'["twice"] = Cardinality({t \in Tasks : processed[t] > 1})
        /\ seen'["pending"] = Cardinality({t \in Tasks : status[t] = "pending"})
    BY <2>1 DEF Read, Numbers
  <2>3. faults = 0
    BY <1>3 DEF IInv, TypeOK
  <2>4. UNCHANGED <<status, processed, pc, faults>>
    BY <1>0 DEF vars
  <2>5. /\ {t \in Tasks : status'[t] = "done"} = {t \in Tasks : status[t] = "done"}
        /\ {t \in Tasks : processed'[t] > 1} = {t \in Tasks : processed[t] > 1}
        /\ {t \in Tasks : status'[t] = "pending"}
             = {t \in Tasks : status[t] = "pending"}
    BY <2>4
  <2>6. /\ seen'["done"] = Cardinality({t \in Tasks : status'[t] = "done"})
        /\ seen'["twice"] = Cardinality({t \in Tasks : processed'[t] > 1})
        /\ seen'["pending"] = Cardinality({t \in Tasks : status'[t] = "pending"})
    BY <2>2, <2>5
  <2>7. faults' = 0 /\ \A w \in Workers : pc'[w] = "stopped"
    BY <2>1, <2>3, <2>4
  <2>. QED  BY <1>0, <1>1, <2>1, <2>6, <2>7 DEF WorkersScriptInv
<1>. QED  BY <1>1, <1>2, <1>3

----------------------------------------------------------------------------
(* The invariant of all scripts.                                           *)

ScriptInv ==
  /\ DuplicateInv /\ DlqInv /\ PublishInv
  /\ RelayScriptInv /\ OutboxScriptInv /\ WorkersScriptInv

DemoInv == IInv /\ PipeInv /\ ScriptInv

LEMMA DemoInitInv == DemoInit => DemoInv
<1>. SUFFICES ASSUME DemoInit PROVE DemoInv
  OBVIOUS
<1>. USE DEF DemoInit
<1>1. IInv
  BY InitInv
<1>2. /\ row = [o \in Ids |-> "none"]
      /\ batch = [w \in {Relay} |-> [todo |-> {}, marks |-> {}, failed |-> {}]]
      /\ bound = TRUE /\ msgs = <<>>
      /\ consumer = [c \in {Main, Child} |-> "off"]
      /\ work = {} /\ inbox = {} /\ picking = {} /\ mishaps = 0
  BY DEF P!Init, P!NoBatch, Ids
<1>3. /\ stats[Main] = [deliveries |-> 0, applied |-> 0, skipped |-> 0, rejected |-> 0]
      /\ stats \in [{Main, Child} -> Stat]
      /\ Len(msgs) = 0 /\ DOMAIN msgs = {} /\ msgs \in Seq(Msg)
  BY <1>2 DEF Stat
<1>4. \A c \in {Main, Child} : stats[c].applied + stats[c].skipped = 0
  OBVIOUS
<1>5. DemoTypes
  <2>1. row \in [Ids -> {"none", "pending", "published"}] /\ batch \in [{Relay} -> Rows]
    BY <1>2 DEF Rows
  <2>2. seen = [n \in Numbers |-> seen[n]] /\ late \in BOOLEAN
    OBVIOUS
  <2>3. consumer \in [{Main, Child} -> {"off", "on"}]
    BY <1>2
  <2>. QED  BY <1>2, <1>3, <2>1, <2>2, <2>3 DEF DemoTypes
<1>6. HeldInv
  BY <1>2, <1>3 DEF HeldInv
<1>7. DoneInv
  BY <1>2, <1>3, <1>4 DEF DoneInv
<1>8. Cardinality(Sure) = 0 /\ stats[Main].applied <= 0
  <2>1. Sure = {}
    BY <1>3 DEF Sure
  <2>. QED  BY <1>3, <2>1, FS_EmptySet
<1>9. DuplicateInv /\ DlqInv
  BY <1>2, <1>3 DEF DuplicateInv, DlqInv
<1>10. PublishInv
  BY <1>2, <1>3, <1>8, DemosAssumption DEF PublishInv, Numbers
<1>11. RowIs("none") /\ BatchIs({}, {})
  BY <1>2 DEF RowIs, BatchIs
<1>12. RelayScriptInv /\ OutboxScriptInv
  BY <1>2, <1>3, <1>11 DEF RelayScriptInv, OutboxScriptInv, Numbers
<1>13. WorkersScriptInv
  BY DEF WorkersScriptInv
<1>. QED  BY <1>1, <1>5, <1>6, <1>7, <1>9, <1>10, <1>12, <1>13
          DEF DemoInv, PipeInv, ScriptInv

LEMMA DemoNextInv == DemoInv /\ [DemoNext]_demoVars => DemoInv'
<1>. SUFFICES ASSUME DemoInv, [DemoNext]_demoVars PROVE DemoInv'
  OBVIOUS
<1>. USE DEF DemoInv, ScriptInv
<1>a. UNCHANGED vars => IInv'
  BY NextInv
<1>b. ASSUME UNCHANGED script, script = "duplicate", DuplicateInv'
      PROVE  ScriptInv'
  BY <1>b DEF DlqInv, PublishInv, RelayScriptInv, OutboxScriptInv, WorkersScriptInv
<1>c. ASSUME UNCHANGED script, script = "relay", RelayScriptInv'
      PROVE  ScriptInv'
  BY <1>c DEF DuplicateInv, DlqInv, PublishInv, OutboxScriptInv, WorkersScriptInv
<1>1. CASE UNCHANGED demoVars
  <2>1. /\ UNCHANGED <<vars, pipeVars, stats, script>> /\ DemoTypes'
    BY <1>1 DEF demoVars, pipeVars, PipeInv, DemoTypes
  <2>2. PipeInv'
    BY <2>1, WatchInv DEF pipeVars, PipeInv
  <2>3. ScriptInv'
    BY <1>1 DEF demoVars, pipeVars, vars, DuplicateInv, DlqInv, PublishInv, Sure,
                Confirmed, RelayScriptInv, OutboxScriptInv, WorkersScriptInv, RowIs, BatchIs
  <2>. QED  BY <1>a, <2>1, <2>2, <2>3
<1>2. CASE ConsumerStep
  <2>1. PipeInv' /\ Grows /\ UNCHANGED vars
    BY <1>2, ConsumerGrows DEF Grows
  <2>. QED  BY <1>2, <1>a, <2>1, ConsumerDuplicate, ConsumerDlq, ConsumerPublish,
               GrowsRelay, GrowsOutbox, GrowsWorkers
<1>3. CASE DuplicateChild
  <2>1. script = "duplicate" /\ UNCHANGED <<vars, script>>
    BY <1>3 DEF DuplicateChild, Line
  <2>. QED  BY <1>3, <1>a, <1>b, <2>1, DuplicateChildStep
<1>4. CASE DuplicateMain
  <2>1. script = "duplicate" /\ UNCHANGED <<vars, script>>
    BY <1>4 DEF DuplicateMain, Line
  <2>. QED  BY <1>4, <1>a, <1>b, <2>1, DuplicateMainStep
<1>5. CASE Dlq
  <2>1. script = "dlq" /\ UNCHANGED <<vars, script>>
    BY <1>5 DEF Dlq, Line
  <2>2. PipeInv' /\ DlqInv'
    BY <1>5, DlqStep
  <2>3. ScriptInv'
    BY <2>1, <2>2 DEF DuplicateInv, PublishInv, RelayScriptInv, OutboxScriptInv,
                      WorkersScriptInv
  <2>. QED  BY <1>a, <2>1, <2>2, <2>3
<1>6. CASE PublishAll
  <2>1. script = "publish" /\ UNCHANGED <<vars, script>>
    BY <1>6 DEF PublishAll, Line
  <2>2. PipeInv' /\ PublishInv'
    BY <1>6, PublishAllStep
  <2>3. ScriptInv'
    BY <2>1, <2>2 DEF DuplicateInv, DlqInv, RelayScriptInv, OutboxScriptInv,
                      WorkersScriptInv
  <2>. QED  BY <1>a, <2>1, <2>2, <2>3
<1>7. CASE CrashRelay
  <2>1. script = "relay" /\ UNCHANGED <<vars, script>>
    BY <1>7 DEF CrashRelay, Line
  <2>. QED  BY <1>7, <1>a, <1>c, <2>1, CrashRelayStep
<1>8. CASE RelayAgain
  <2>1. script = "relay" /\ UNCHANGED <<vars, script>>
    BY <1>8 DEF RelayAgain, RelayPass, Line
  <2>. QED  BY <1>8, <1>a, <1>c, <2>1, RelayAgainStep
<1>9. CASE OutboxMain
  <2>1. script = "outbox" /\ UNCHANGED <<vars, script>>
    BY <1>9 DEF OutboxMain, RelayPass, Line
  <2>2. PipeInv' /\ OutboxScriptInv'
    BY <1>9, OutboxStep
  <2>3. ScriptInv'
    BY <2>1, <2>2 DEF DuplicateInv, DlqInv, PublishInv, RelayScriptInv,
                      WorkersScriptInv
  <2>. QED  BY <1>a, <2>1, <2>2, <2>3
<1>10. CASE WorkersMain
  <2>1. script = "workers" /\ UNCHANGED <<vars, script>>
    BY <1>10 DEF WorkersMain
  <2>2. PipeInv' /\ WorkersScriptInv'
    BY <1>10, WorkersMainStep
  <2>3. ScriptInv'
    BY <2>1, <2>2 DEF DuplicateInv, DlqInv, PublishInv, RelayScriptInv,
                      OutboxScriptInv
  <2>. QED  BY <1>a, <2>1, <2>2, <2>3
<1>11. CASE PoolStep
  <2>1. script = "workers" /\ at # "reported" /\ Next
        /\ UNCHANGED <<pipeVars, script, at, stats, seen, late>>
    BY <1>11 DEF PoolStep
  <2>2. IInv'
    BY <2>1, NextInv
  <2>3. PipeInv'
    <3>1. DemoTypes'
      BY <2>1 DEF pipeVars, PipeInv, DemoTypes
    <3>. QED  BY <2>1, <3>1, WatchInv DEF pipeVars, PipeInv
  <2>4. ScriptInv'
    BY <2>1 DEF DuplicateInv, DlqInv, PublishInv, RelayScriptInv, OutboxScriptInv,
                WorkersScriptInv
  <2>. QED  BY <2>2, <2>3, <2>4
<1>. QED  BY <1>1, <1>2, <1>3, <1>4, <1>5, <1>6, <1>7, <1>8, <1>9, <1>10, <1>11
          DEF DemoNext

----------------------------------------------------------------------------
(* What the reports say.                                                   *)

LEMMA DuplicateReport ==
  ASSUME DemoInv, script = "duplicate", at = "reported"
  PROVE  ReportsAreRight
<1>. USE DEF DemoInv, ScriptInv
<1>1. Checks = DuplicateChecks
  BY DEF Checks
<1>2. Broken = {c \in {"twice", "once", "skipped", "drained", "noDead"} : ~DuplicateChecks[c]}
  <2>1. DOMAIN DuplicateChecks = {"twice", "once", "skipped", "drained", "noDead"}
    BY DEF DuplicateChecks
  <2>. QED  BY <1>1, <2>1 DEF Broken
<1>3. Broken = {} => seen["skipped"] >= 1
  <2>1. Broken = {} => DuplicateChecks["skipped"]
    BY <1>2
  <2>. QED  BY <2>1 DEF DuplicateChecks
<1>4. seen["effect"] = 1 /\ DOMAIN msgs = {1} /\ Effect = 1 /\ msgs[1].returns >= 1
  BY EffectOfOne, OneMessage DEF DuplicateInv
<1>5. SuccessIsTrue
  <2>1. ASSUME Broken = {}
        PROVE  msgs[1].at \in {"held", "acked"}
    <3>1. stats[Main].skipped >= 1
      BY <1>3, <2>1 DEF DuplicateInv, PipeInv, DemoTypes, Stat
    <3>2. Confirmed(1)
      BY <3>1 DEF DuplicateInv
    <3>. QED  BY <3>2, WorkTypes DEF Confirmed
  <2>. QED  BY <1>4, <2>1 DEF SuccessIsTrue, Shown
<1>6. FailureHasReason
  <2>1. ASSUME ~late, mishaps = 1
        PROVE  Broken \subseteq {"skipped"}
    <3>1. /\ seen["deliveries"] >= 2 /\ seen["effect"] = 1
          /\ seen["work"] = 0 /\ seen["dlq"] = 0
      BY <2>1 DEF DuplicateInv
    <3>2. /\ DuplicateChecks["twice"] /\ DuplicateChecks["once"]
          /\ DuplicateChecks["drained"] /\ DuplicateChecks["noDead"]
      BY <3>1 DEF DuplicateChecks
    <3>. QED  BY <1>2, <3>2
  <2>. QED  BY <2>1 DEF FailureHasReason
<1>. QED  BY <1>5, <1>6 DEF ReportsAreRight

LEMMA DlqReport ==
  ASSUME DemoInv, script = "dlq", at = "reported"
  PROVE  ReportsAreRight
<1>. USE DEF DemoInv, ScriptInv
<1>1. Checks = DlqChecks
  BY DEF Checks
<1>2. Broken = {c \in {"rejected", "drained", "dead", "noEffect"} : ~DlqChecks[c]}
  <2>1. DOMAIN DlqChecks = {"rejected", "drained", "dead", "noEffect"}
    BY DEF DlqChecks
  <2>. QED  BY <1>1, <2>1 DEF Broken
<1>3. Broken = {} => seen["dlq"] = 1
  <2>1. Broken = {} => DlqChecks["dead"]
    BY <1>2
  <2>. QED  BY <2>1 DEF DlqChecks
<1>4. DOMAIN msgs = {1} /\ picking = {}
  BY OneMessage DEF DlqInv, PipeInv, DoneInv
<1>5. SuccessIsTrue
  <2>1. ASSUME Broken = {}
        PROVE  Effect = 0 /\ Depth("dead") = 1 /\ Depth("ready") = 0
    <3>1. msgs[1].at = "dead"
      BY <1>3, <2>1 DEF DlqInv
    <3>. QED  BY <1>4, <3>1, DepthOfOne, FS_EmptySet DEF Effect
  <2>. QED  BY <2>1 DEF SuccessIsTrue, Shown
<1>6. FailureHasReason
  <2>1. ASSUME ~late
        PROVE  Broken = {}
    <3>1. /\ seen["rejected"] = 1 /\ seen["work"] = 0
          /\ seen["dlq"] = 1 /\ seen["effect"] = 0
      BY <2>1 DEF DlqInv
    <3>2. /\ DlqChecks["rejected"] /\ DlqChecks["drained"]
          /\ DlqChecks["dead"] /\ DlqChecks["noEffect"]
      BY <3>1 DEF DlqChecks
    <3>. QED  BY <1>2, <3>2
  <2>. QED  BY <2>1 DEF FailureHasReason
<1>. QED  BY <1>5, <1>6 DEF ReportsAreRight

LEMMA PublishReport ==
  ASSUME DemoInv, script = "publish", at = "reported"
  PROVE  ReportsAreRight
<1>. USE DEF DemoInv, ScriptInv
<1>1. Checks = PublishChecks
  BY DEF Checks
<1>2. Broken = {c \in {"published", "applied", "noDead", "drained", "routed"} : ~PublishChecks[c]}
  <2>1. DOMAIN PublishChecks = {"published", "applied", "noDead", "drained", "routed"}
    BY DEF PublishChecks
  <2>. QED  BY <1>1, <2>1 DEF Broken
<1>3. Broken = {} => seen["applied"] = Placed
  <2>1. Broken = {} => PublishChecks["applied"]
    BY <1>2
  <2>. QED  BY <2>1 DEF PublishChecks
<1>4. SuccessIsTrue
  <2>1. ASSUME Broken = {}
        PROVE  Effect = Placed /\ \A m \in DOMAIN msgs : msgs[m].at \in {"held", "acked"}
    <3>1. stats[Main].applied >= Placed /\ Len(msgs) = Placed
      BY <1>3, <2>1 DEF PublishInv
    <3>. QED  BY <3>1, AllPicked
  <2>. QED  BY <2>1 DEF SuccessIsTrue, Shown
<1>5. FailureHasReason
  <2>1. ASSUME ~late
        PROVE  Broken = {}
    <3>1. /\ seen["published"] = Placed /\ seen["applied"] = Placed
          /\ seen["dlq"] = 0 /\ seen["work"] = 0 /\ seen["dropped"] = 0
      BY <2>1 DEF PublishInv
    <3>2. /\ PublishChecks["published"] /\ PublishChecks["applied"]
          /\ PublishChecks["noDead"] /\ PublishChecks["drained"]
          /\ PublishChecks["routed"]
      BY <3>1 DEF PublishChecks
    <3>. QED  BY <1>2, <3>2
  <2>. QED  BY <2>1 DEF FailureHasReason
<1>. QED  BY <1>4, <1>5 DEF ReportsAreRight

LEMMA RelayReport ==
  ASSUME DemoInv, script = "relay", at = "reported"
  PROVE  ReportsAreRight
<1>. USE DEF DemoInv, ScriptInv
<1>1. Checks = RelayChecks
  BY DEF Checks
<1>2. Broken = {c \in {"published", "twice", "marked", "once", "processed",
                            "unmarked"} : ~RelayChecks[c]}
  <2>1. DOMAIN RelayChecks = {"published", "twice", "marked", "once", "processed",
                            "unmarked"}
    BY DEF RelayChecks
  <2>. QED  BY <1>1, <2>1 DEF Broken
<1>3. Broken = {} => seen["effect"] = 1
  <2>1. Broken = {} => RelayChecks["once"]
    BY <1>2
  <2>. QED  BY <2>1 DEF RelayChecks
<1>4. Len(msgs) = 2 /\ Marked = 1 /\ inbox = picking
  BY RowCountsPublished DEF RelayScriptInv, PipeInv, DoneInv, WithInbox
<1>5. SuccessIsTrue
  <2>1. ASSUME Broken = {}
        PROVE  Effect = 1
    BY <1>3, <2>1, EffectOfOne DEF RelayScriptInv
  <2>. QED  BY <1>4, <2>1 DEF SuccessIsTrue, Shown
<1>6. FailureHasReason
  <2>1. ASSUME ~late
        PROVE  Broken = {}
    <3>1. /\ seen["published"] = 2 /\ seen["deliveries"] >= 2 /\ seen["marked"] = 1
          /\ seen["effect"] = 1 /\ seen["processed"] = 1 /\ seen["unmarked"] = 1
      BY <2>1 DEF RelayScriptInv
    <3>2. RelayChecks["published"] /\ RelayChecks["twice"]
      <4>1. seen["published"] >= 2 /\ seen["deliveries"] >= 2
        BY <3>1
      <4>. QED  BY <4>1 DEF RelayChecks
    <3>3. /\ RelayChecks["marked"] /\ RelayChecks["once"]
          /\ RelayChecks["processed"] /\ RelayChecks["unmarked"]
      BY <3>1 DEF RelayChecks
    <3>. QED  BY <1>2, <3>2, <3>3
  <2>. QED  BY <2>1 DEF FailureHasReason
<1>. QED  BY <1>5, <1>6 DEF ReportsAreRight

LEMMA OutboxReport ==
  ASSUME DemoInv, script = "outbox", at = "reported"
  PROVE  ReportsAreRight
<1>. USE DEF DemoInv, ScriptInv
<1>1. Checks = OutboxChecks
  BY DEF Checks
<1>2. Broken = {c \in {"outbox", "published", "once", "processed", "replay"} : ~OutboxChecks[c]}
  <2>1. DOMAIN OutboxChecks = {"outbox", "published", "once", "processed", "replay"}
    BY DEF OutboxChecks
  <2>. QED  BY <1>1, <2>1 DEF Broken
<1>3. Broken = {} => seen["effect"] = 1
  <2>1. Broken = {} => OutboxChecks["once"]
    BY <1>2
  <2>. QED  BY <2>1 DEF OutboxChecks
<1>4. Len(msgs) = 1 /\ Marked = 1 /\ inbox = picking
  BY RowCountsPublished DEF OutboxScriptInv, PipeInv, DoneInv, WithInbox
<1>5. SuccessIsTrue
  <2>1. ASSUME Broken = {}
        PROVE  Effect = 1
    BY <1>3, <2>1, EffectOfOne DEF OutboxScriptInv
  <2>. QED  BY <1>4, <2>1 DEF SuccessIsTrue, Shown
<1>6. FailureHasReason
  <2>1. ASSUME ~late
        PROVE  Broken = {}
    <3>1. /\ seen["outbox"] = 1 /\ seen["published"] = 1 /\ seen["effect"] = 1
          /\ seen["processed"] = 1 /\ seen["replay"] = 1
      BY <2>1 DEF OutboxScriptInv
    <3>2. /\ OutboxChecks["outbox"] /\ OutboxChecks["published"]
          /\ OutboxChecks["once"] /\ OutboxChecks["processed"]
          /\ OutboxChecks["replay"]
      BY <3>1 DEF OutboxChecks
    <3>. QED  BY <1>2, <3>2
  <2>. QED  BY <2>1 DEF FailureHasReason
<1>. QED  BY <1>5, <1>6 DEF ReportsAreRight

LEMMA WorkersReport ==
  ASSUME DemoInv, script = "workers", at = "reported"
  PROVE  ReportsAreRight
<1>. USE DEF DemoInv, ScriptInv
<1>1. Checks = WorkersChecks
  BY DEF Checks
<1>2. Broken = {c \in {"twice", "done", "pending"} : ~WorkersChecks[c]}
  <2>1. DOMAIN WorkersChecks = {"twice", "done", "pending"}
    BY DEF WorkersChecks
  <2>. QED  BY <1>1, <2>1 DEF Broken
<1>3. /\ seen["done"] = Cardinality({t \in Tasks : status[t] = "done"})
      /\ seen["twice"] = Cardinality({t \in Tasks : processed[t] > 1})
      /\ seen["pending"] = Cardinality({t \in Tasks : status[t] = "pending"})
  BY DEF WorkersScriptInv
<1>4. \A t \in Tasks \ Late : status[t] = "done"
  BY InvFair DEF WorkersScriptInv, PoolIsFair, NoTaskStranded
<1>5. \A t \in Tasks : processed[t] = IF status[t] = "done" THEN 1 ELSE 0
  BY DEF IInv, ProcessedOnce
<1>6. SuccessIsTrue
  BY <1>4, <1>5 DEF SuccessIsTrue, Shown
<1>7. FailureHasReason
  <2>1. ASSUME \A t \in Late : status[t] = "none"
        PROVE  Broken = {}
    <3>1. {t \in Tasks : status[t] = "done"} = Tasks \ Late
      BY <1>4, <2>1
    <3>2. {t \in Tasks : processed[t] > 1} = {}
      BY <1>5
    <3>3. {t \in Tasks : status[t] = "pending"} = {}
      BY <1>4, <2>1
    <3>4. /\ seen["done"] = Cardinality(Tasks \ Late)
          /\ seen["twice"] = 0 /\ seen["pending"] = 0
      BY <1>3, <3>1, <3>2, <3>3, FS_EmptySet
    <3>5. /\ WorkersChecks["twice"] /\ WorkersChecks["done"]
          /\ WorkersChecks["pending"]
      BY <3>4 DEF WorkersChecks
    <3>. QED  BY <1>2, <3>5
  <2>. QED  BY <2>1 DEF FailureHasReason
<1>. QED  BY <1>6, <1>7 DEF ReportsAreRight

LEMMA ReportsFollow == DemoInv => ReportsAreRight
<1>. SUFFICES ASSUME DemoInv PROVE ReportsAreRight
  OBVIOUS
<1>1. CASE at # "reported"
  BY <1>1 DEF ReportsAreRight, SuccessIsTrue, FailureHasReason
<1>2. CASE at = "reported"
  <2>1. script \in {"duplicate", "dlq", "publish", "relay", "outbox", "workers"}
    BY DemosAssumption DEF DemoInv, PipeInv, DemoTypes
  <2>. QED  BY <1>2, <2>1, DuplicateReport, DlqReport, PublishReport, RelayReport,
               OutboxReport, WorkersReport
<1>. QED  BY <1>1, <1>2

(* The six demonstration programs report what is so: their numbers are     *)
(* read one after another from a pipeline that goes on, and still no       *)
(* success is reported without what it claims, and no failure without a    *)
(* reason, for any number of orders, prefetch, delivery limit and failures.*)
THEOREM ReportsTellTheTruth == DemoSpec => []ReportsAreRight
<1>1. DemoSpec => []DemoInv
  BY DemoInitInv, DemoNextInv, PTL DEF DemoSpec
<1>. QED  BY <1>1, ReportsFollow, PTL

(* In a script the pipeline keeps its types, a held message has exactly    *)
(* one callback, and nothing is confirmed or counted before it is in the   *)
(* database.                                                               *)
THEOREM ScriptsKeepThePipeline == DemoSpec => [](DemoTypes /\ HeldInv /\ DoneInv)
<1>1. DemoSpec => []DemoInv
  BY DemoInitInv, DemoNextInv, PTL DEF DemoSpec
<1>2. DemoInv => DemoTypes /\ HeldInv /\ DoneInv
  BY DEF DemoInv, PipeInv
<1>. QED  BY <1>1, <1>2, PTL
=============================================================================

--------------------------- MODULE OrderPipeline ---------------------------
(***************************************************************************)
(* The way of an order.placed event: outbox row, relay, RabbitMQ quorum    *)
(* queue, consumer, picking task (outbox/relay.ts, messaging/, outbox/     *)
(* inbox.ts).  Relays are transactions over a batch of rows; a consumer    *)
(* runs one callback per delivery, and its awaits interleave.              *)
(*                                                                         *)
(* A delivery is <<message, number of returns before it>>.  A callback     *)
(* outlives the connection its delivery came over: the broker then has     *)
(* the message back while the callback still works on it.                  *)
(***************************************************************************)
EXTENDS Integers, Sequences, FiniteSets, FiniteSetsExt

CONSTANTS Orders,          \* order ids, in the order of created_at, id
          Relays, Consumers, None,
          Poison,          \* content that parseOrderPlaced refuses
          BatchSize, Prefetch, DeliveryLimit,
          UseInbox,        \* applyWithInbox or the natural key alone
          TopologyFirst,   \* the queue is bound before the first publish
          Faults,          \* kinds of failure a run admits
          MaxFaults,       \* bound: failures in one behaviour
          MaxPoison        \* bound: poison messages

FaultKinds == {"publishFails", "confirmLost", "relayFails", "aborted", "applyFails",
               "connectionLost", "consumerDies", "cancelled"}

ASSUME PipelineAssumption ==
  /\ Orders \subseteq Nat
  /\ IsFiniteSet(Orders)
  /\ Poison \notin Orders
  /\ None \notin Consumers
  /\ BatchSize \in Nat \ {0}
  /\ Prefetch \in Nat \ {0}
  /\ DeliveryLimit \in Nat
  /\ UseInbox \in BOOLEAN
  /\ TopologyFirst \in BOOLEAN
  /\ Faults \subseteq FaultKinds
  /\ MaxFaults \in Nat
  /\ MaxPoison \in Nat

VARIABLES
  row, attempts,   \* outbox: published_at and attempts of each order's row
  batch,           \* per relay: its open transaction
  bound,           \* the queue exists and is bound to the exchange
  msgs,            \* every message ever published, in order
  status,          \* per consumer: "off", "on" or "cancelled"
  work,            \* running callbacks of the consumers
  inbox, picking,  \* committed processed_messages and picking_tasks
  applied,         \* per order: times a callback learned "applied"
  running,         \* relays whose runRelay loop has not ended
  faults           \* failures and stops so far

relayVars == <<row, attempts, batch>>
dbVars == <<inbox, picking, applied>>
vars == <<row, attempts, batch, bound, msgs, status, work, inbox, picking,
          applied, running, faults>>

(* relayOnce and a consumer leave the loop around a pass alone: their      *)
(* actions do not mention running, Next adds it.                           *)

(* Mutant: a fresh uuid for every publication.                             *)
FreshEventId(o, n) == <<o, n>>

(* eventId is derived from the fact, evt_order_placed_<order>, not from    *)
(* the n-th publication that carries it.                                   *)
EventId(o, n) == <<o, 0>>

EventIds == (Orders \cup {Poison}) \X Nat

Message == [order : Orders \cup {Poison}, id : EventIds, holder : Consumers \cup {None},
            at : {"dropped", "ready", "held", "acked", "dead"}, returns : Nat]

Callback == [by : Consumers, msg : Nat, nth : Nat,
             phase : {"received", "claimed", "committed", "done"}]

Batch == [todo : SUBSET Orders, marks : SUBSET Orders, failed : SUBSET Orders]
NoBatch == [todo |-> {}, marks |-> {}, failed |-> {}]

Locked(w) == batch[w].todo \cup batch[w].marks \cup batch[w].failed

Init ==
  /\ row = [o \in Orders |-> "none"]
  /\ attempts = [o \in Orders |-> 0]
  /\ batch = [w \in Relays |-> NoBatch]
  /\ bound = TopologyFirst
  /\ msgs = <<>>
  /\ status = [c \in Consumers |-> "off"]
  /\ work = {}
  /\ inbox = {}
  /\ picking = {}
  /\ applied = [o \in Orders |-> 0]
  /\ running = Relays
  /\ faults = 0

Fault(kind) ==
  /\ kind \in Faults
  /\ faults < MaxFaults
  /\ faults' = faults + 1

(* COMMIT of placeOrder: rows appear in any order, whatever their ids.     *)
Place(o) ==
  /\ row[o] = "none"
  /\ row' = [row EXCEPT ![o] = "pending"]
  /\ UNCHANGED <<attempts, batch, bound, msgs, status, work, dbVars, faults>>

----------------------------------------------------------------------------
(* Relay.                                                                  *)

Unlocked == Orders \ UNION {Locked(w) : w \in Relays}

(* The first n elements of S.                                              *)
Oldest(S, n) == {o \in S : Cardinality({p \in S : p < o}) < n}

(* Mutant: rows are taken by FOR UPDATE without the lock of the others.    *)
SelectBatchUnlocked(w) ==
  LET rows == Oldest({o \in Orders : row[o] = "pending"}, BatchSize) IN
  /\ batch[w] = NoBatch
  /\ rows # {}
  /\ batch' = [batch EXCEPT ![w].todo = rows]
  /\ UNCHANGED <<row, attempts, bound, msgs, status, work, dbVars, faults>>


(* SELECT ... published_at IS NULL ORDER BY created_at, id FOR UPDATE SKIP *)
(* LOCKED LIMIT n.  A pass that finds nothing changes nothing.             *)
SelectBatch(w) ==
  LET rows == Oldest({o \in Unlocked : row[o] = "pending"}, BatchSize) IN
  /\ batch[w] = NoBatch
  /\ rows # {}
  /\ batch' = [batch EXCEPT ![w].todo = rows]
  /\ UNCHANGED <<row, attempts, bound, msgs, status, work, dbVars, faults>>

(* What the exchange does with a message: without a binding it drops it,   *)
(* and confirms.                                                           *)
Send(o) ==
  msgs' = Append(msgs, [order |-> o, id |-> EventId(o, Len(msgs) + 1),
                        at |-> IF bound THEN "ready" ELSE "dropped",
                        holder |-> None, returns |-> 0])

(* The row the loop of relay w is at.                                      *)
Turn(w) == Min(batch[w].todo)

(* publish, its confirm, and UPDATE published_at, which is in the relay's  *)
(* transaction and not visible yet.  basic.return is only remembered.      *)
Publish(w) ==
  /\ batch[w].todo # {}
  /\ Send(Turn(w))
  /\ batch' = [batch EXCEPT ![w] = [todo |-> @.todo \ {Turn(w)}, failed |-> @.failed,
                                   marks |-> @.marks \cup {Turn(w)}]]
  /\ UNCHANGED <<row, attempts, bound, status, work, dbVars, faults>>

(* publish throws: attempts + 1, and the loop goes on with the next row.   *)
(* When only the confirm was lost the message is in the queue all the same. *)
PublishFails(w) ==
  /\ batch[w].todo # {}
  /\ \/ Fault("publishFails") /\ UNCHANGED msgs
     \/ Fault("confirmLost") /\ Send(Turn(w))
  /\ batch' = [batch EXCEPT ![w] = [todo |-> @.todo \ {Turn(w)}, marks |-> @.marks,
                                   failed |-> @.failed \cup {Turn(w)}]]
  /\ UNCHANGED <<row, attempts, bound, status, work, dbVars>>

(* Mutant: no "continue" after a failed publish.                           *)
CommitBatchMarksAll(w) ==
  /\ batch[w].todo = {} /\ Locked(w) # {}
  /\ row' = [o \in Orders |-> IF o \in Locked(w) THEN "published" ELSE row[o]]
  /\ UNCHANGED attempts
  /\ batch' = [batch EXCEPT ![w] = NoBatch]
  /\ UNCHANGED <<bound, msgs, status, work, dbVars, faults>>

(* COMMIT of the batch.                                                    *)
CommitBatch(w) ==
  /\ batch[w].todo = {} /\ Locked(w) # {}
  /\ row' = [o \in Orders |-> IF o \in batch[w].marks THEN "published" ELSE row[o]]
  /\ attempts' = [o \in Orders |->
                    attempts[o] + IF o \in batch[w].failed THEN 1 ELSE 0]
  /\ batch' = [batch EXCEPT ![w] = NoBatch]
  /\ UNCHANGED <<bound, msgs, status, work, dbVars, faults>>

(* A statement or betweenPublishAndMark throws, or the process dies: the   *)
(* whole batch is unmarked and uncounted again, published or not.          *)
RelayFails(w) ==
  /\ Fault("relayFails")
  /\ batch' = [batch EXCEPT ![w] = NoBatch]
  /\ UNCHANGED <<row, attempts, bound, msgs, status, work, dbVars>>

(* signal.aborted is looked at between two passes.                         *)
Aborted(w) ==
  /\ batch[w] = NoBatch
  /\ Fault("aborted")
  /\ UNCHANGED <<relayVars, bound, msgs, status, work, dbVars>>

(* runRelay: pass after pass.  The first pass that throws, or an abort,    *)
(* ends it.                                                                *)
RunPass(w) ==
  /\ w \in running
  /\ SelectBatch(w) \/ Publish(w) \/ CommitBatch(w)
  /\ UNCHANGED running

RunRelay(w) ==
  \/ RunPass(w)
  \/ w \in running /\ PublishFails(w) /\ UNCHANGED running
  \/ w \in running /\ RelayFails(w) /\ running' = running \ {w}
  \/ w \in running /\ Aborted(w) /\ running' = running \ {w}

(* Somebody calls runRelay again.                                          *)
StartRelay(w) ==
  /\ w \notin running
  /\ running' = running \cup {w}
  /\ UNCHANGED <<relayVars, bound, msgs, status, work, dbVars, faults>>

----------------------------------------------------------------------------
(* Broker and consumers.                                                   *)

(* publishRaw of something that is not an event.                           *)
PublishPoison ==
  /\ bound
  /\ Cardinality({m \in DOMAIN msgs : msgs[m].order = Poison}) < MaxPoison
  /\ Send(Poison)
  /\ UNCHANGED <<relayVars, bound, status, work, dbVars, faults>>

(* startConsumer: assertTopology, prefetch, consume.                       *)
StartConsumer(c) ==
  /\ status[c] = "off"
  /\ bound' = TRUE
  /\ status' = [status EXCEPT ![c] = "on"]
  /\ UNCHANGED <<relayVars, msgs, work, dbVars, faults>>

HeldBy(c) == {m \in DOMAIN msgs : msgs[m].at = "held" /\ msgs[m].holder = c}

(* The broker pushes any ready message while the channel has less than     *)
(* Prefetch unacknowledged ones.                                           *)
Deliver(c, m) ==
  /\ status[c] = "on"
  /\ msgs[m].at = "ready"
  /\ Cardinality(HeldBy(c)) < Prefetch
  /\ msgs' = [msgs EXCEPT ![m] = [@ EXCEPT !.at = "held", !.holder = c]]
  /\ work' = work \cup {[by |-> c, msg |-> m, nth |-> msgs[m].returns,
                         phase |-> "received"]}
  /\ UNCHANGED <<relayVars, bound, status, dbVars, faults>>

(* The delivery a callback works on is still its channel's.                *)
Live(k) == msgs[k.msg].at = "held" /\ msgs[k.msg].returns = k.nth

(* Messages S leave their channel without an ack: back to the queue, or to *)
(* the DLQ when they came back too often.                                  *)
Requeue(S) ==
  msgs' = [m \in DOMAIN msgs |->
             IF m \notin S THEN msgs[m]
             ELSE [msgs[m] EXCEPT !.returns = @ + 1, !.holder = None,
                     !.at = IF msgs[m].returns >= DeliveryLimit
                              THEN "dead" ELSE "ready"]]

(* ack or reject on a channel that is gone throws and settles nothing.     *)
Settle(k, at) ==
  msgs' = IF Live(k)
            THEN [msgs EXCEPT ![k.msg] = [@ EXCEPT !.at = at, !.holder = None]]
            ELSE msgs

EventOf(k) == msgs[k.msg].id
OrderOf(k) == msgs[k.msg].order

GoOn(k, phase) == work' = (work \ {k}) \cup {[k EXCEPT !.phase = phase]}

(* Parsing fails: reject(requeue = false), to the DLQ.                     *)
Reject(k) ==
  /\ k.phase = "received"
  /\ OrderOf(k) = Poison
  /\ Settle(k, "dead")
  /\ work' = work \ {k}
  /\ UNCHANGED <<relayVars, bound, status, dbVars, faults>>

(* Mutant: the mark is committed before the effect (a mark in Redis).      *)
ClaimInboxAtOnce(k) ==
  /\ UseInbox
  /\ k.phase = "received"
  /\ OrderOf(k) # Poison
  /\ inbox' = inbox \cup {EventOf(k)}
  /\ GoOn(k, IF EventOf(k) \in inbox THEN "done" ELSE "claimed")
  /\ UNCHANGED <<relayVars, bound, msgs, status, picking, applied, faults>>

(* INSERT INTO processed_messages ... ON CONFLICT DO NOTHING: waits for a  *)
(* callback that has the same event in flight; a row found is a duplicate. *)
ClaimInbox(k) ==
  /\ UseInbox
  /\ k.phase = "received"
  /\ OrderOf(k) # Poison
  /\ \A j \in work : j.phase = "claimed" => EventOf(j) # EventOf(k)
  /\ GoOn(k, IF EventOf(k) \in inbox THEN "done" ELSE "claimed")
  /\ UNCHANGED <<relayVars, bound, msgs, status, dbVars, faults>>

(* The effect and COMMIT: inbox row and picking task together.  The server *)
(* has it before its answer is back.                                       *)
ApplyEffect(k) ==
  /\ k.phase = "claimed"
  /\ inbox' = inbox \cup {EventOf(k)}
  /\ picking' = picking \cup {EventOf(k)}
  /\ GoOn(k, "committed")
  /\ UNCHANGED <<relayVars, bound, msgs, status, applied, faults>>

(* applyPickingTask: INSERT ... ON CONFLICT ("eventId") DO NOTHING, as a   *)
(* statement of its own.  A row found is a duplicate.                      *)
ApplyPickingTask(k) ==
  /\ ~UseInbox
  /\ k.phase = "received"
  /\ OrderOf(k) # Poison
  /\ picking' = picking \cup {EventOf(k)}
  /\ GoOn(k, IF EventOf(k) \in picking THEN "done" ELSE "committed")
  /\ UNCHANGED <<relayVars, bound, msgs, status, inbox, applied, faults>>

(* The answer arrives: stats.applied.                                      *)
Told(k) ==
  /\ k.phase = "committed"
  /\ applied' = [applied EXCEPT ![OrderOf(k)] = @ + 1]
  /\ GoOn(k, "done")
  /\ UNCHANGED <<relayVars, bound, msgs, status, inbox, picking, faults>>

(* Mutant: ack before the effect.                                          *)
AckEarly(k) ==
  /\ OrderOf(k) # Poison
  /\ Settle(k, "acked")
  /\ work' = IF k.phase = "done" THEN work \ {k} ELSE work
  /\ UNCHANGED <<relayVars, bound, status, dbVars, faults>>

(* ack, after the effect.                                                  *)
Ack(k) ==
  /\ k.phase = "done"
  /\ Settle(k, "acked")
  /\ work' = work \ {k}
  /\ UNCHANGED <<relayVars, bound, status, dbVars, faults>>

(* The database fails, and the open transaction is undone; or the answer   *)
(* of a COMMIT that was done is lost; or afterEffect throws:               *)
(* nack(requeue = true).                                                   *)
ApplyFails(k) ==
  /\ OrderOf(k) # Poison
  /\ Fault("applyFails")
  /\ Requeue(IF Live(k) THEN {k.msg} ELSE {})
  /\ work' = work \ {k}
  /\ UNCHANGED <<relayVars, bound, status, dbVars>>

(* The connection of a consumer closes (or stop() closes its channel); the *)
(* callbacks go on.                                                        *)
ConnectionLost(c) ==
  /\ status[c] # "off"
  /\ Fault("connectionLost")
  /\ Requeue(HeldBy(c))
  /\ status' = [status EXCEPT ![c] = "off"]
  /\ UNCHANGED <<relayVars, bound, work, dbVars>>

(* The process of a consumer dies: callbacks and their transactions too.   *)
ConsumerDies(c) ==
  /\ status[c] # "off" \/ \E k \in work : k.by = c
  /\ Fault("consumerDies")
  /\ Requeue(HeldBy(c))
  /\ status' = [status EXCEPT ![c] = "off"]
  /\ work' = {k \in work : k.by # c}
  /\ UNCHANGED <<relayVars, bound, dbVars>>

(* basic.cancel: consume() calls back with null, which only returns; the   *)
(* process stays and is never delivered to again.                          *)
Cancelled(c) ==
  /\ status[c] = "on"
  /\ Fault("cancelled")
  /\ status' = [status EXCEPT ![c] = "cancelled"]
  /\ UNCHANGED <<relayVars, bound, msgs, work, dbVars>>

----------------------------------------------------------------------------

CallbackStep(k) ==
  \/ Reject(k) \/ ClaimInbox(k) \/ ApplyEffect(k) \/ ApplyPickingTask(k)
  \/ Told(k) \/ Ack(k)

BrokerStep ==
  \/ PublishPoison
  \/ \E c \in Consumers :
       \/ StartConsumer(c) \/ ConnectionLost(c) \/ ConsumerDies(c) \/ Cancelled(c)
       \/ \E m \in DOMAIN msgs : Deliver(c, m)
  \/ \E k \in work : CallbackStep(k) \/ ApplyFails(k)

Next ==
  \/ \E o \in Orders : Place(o) /\ UNCHANGED running
  \/ \E w \in Relays : RunRelay(w) \/ StartRelay(w)
  \/ BrokerStep /\ UNCHANGED running

(* A loop that runs makes passes; the broker delivers to whoever is        *)
(* subscribed; a callback that was entered runs on.  Nobody has to start a *)
(* relay or a consumer: nothing in the repository does it by itself.       *)
Fairness ==
  /\ \A w \in Relays : WF_vars(RunPass(w))
  /\ \A c \in Consumers :
       /\ WF_vars((\E m \in DOMAIN msgs : Deliver(c, m)) /\ UNCHANGED running)
       /\ WF_vars((\E k \in work : k.by = c /\ CallbackStep(k)) /\ UNCHANGED running)

Spec == Init /\ [][Next]_vars
FairSpec == Spec /\ Fairness

----------------------------------------------------------------------------
(* Properties.                                                             *)

DataOK ==
  /\ row \in [Orders -> {"none", "pending", "published"}]
  /\ attempts \in [Orders -> Nat]
  /\ batch \in [Relays -> Batch]
  /\ bound \in BOOLEAN
  /\ msgs \in Seq(Message)
  /\ \A m \in DOMAIN msgs : msgs[m].at = "held" <=> msgs[m].holder # None
  /\ status \in [Consumers -> {"off", "on", "cancelled"}]
  /\ work \subseteq Callback
  /\ \A k \in work : k.msg \in DOMAIN msgs
  /\ inbox \subseteq EventIds
  /\ picking \subseteq EventIds
  /\ applied \in [Orders -> Nat]
  /\ faults \in Nat

TypeOK == DataOK /\ running \subseteq Relays

Picked(o) == \E e \in picking : e[1] = o

Copies(o) == {m \in DOMAIN msgs : msgs[m].order = o}

TasksOf(o) == {e \in picking : e[1] = o}

(* However often an order is published, delivered and redelivered, and     *)
(* however many callbacks work on it at once, the warehouse has at most    *)
(* one task for it, and at most one callback learns that it applied it.    *)
(* Nobody learns it only when a failure took the answer.                   *)
OnePickingTask ==
  \A o \in Orders :
    /\ Cardinality(TasksOf(o)) <= 1
    /\ applied[o] <= Cardinality(TasksOf(o))
    /\ Picked(o) /\ applied[o] = 0 =>
         \/ faults > 0
         \/ \E k \in work : k.phase = "committed" /\ OrderOf(k) = o

(* A row marked published is never the last trace of its order: the task   *)
(* exists, or a copy of the event is in the queue, with a consumer or in   *)
(* the DLQ (relay.ts: publish first, mark after; consumer.ts: ack last).   *)
NothingLost ==
  \A o \in Orders : row[o] = "published" =>
    \/ Picked(o)
    \/ \E m \in Copies(o) : msgs[m].at \in {"ready", "held", "dead"}

(* A message is acknowledged only when its effect is in the database, also *)
(* for the copies a relay sent twice.                                      *)
AckedIsApplied ==
  \A m \in DOMAIN msgs : msgs[m].at = "acked" => msgs[m].id \in picking

(* Mark and effect are one transaction: an event is in the inbox exactly   *)
(* when its picking task exists (inbox.ts).                                *)
InboxIsEffect == UseInbox => inbox = picking

(* The three of them.                                                      *)
EffectOnce == OnePickingTask /\ AckedIsApplied /\ InboxIsEffect

(* Relays working side by side never publish one row twice of themselves   *)
(* (SKIP LOCKED): every copy beyond the first was paid for with a failure. *)
DuplicatesNeedFailures ==
  \A o \in Orders : Cardinality(Copies(o)) <= 1 + faults

(* One relay's loop and one subscription that stay.                        *)
SomebodyServes ==
  /\ \E w \in Relays : <>[](w \in running)
  /\ \E c \in Consumers : <>[](status[c] = "on")


(* The pipeline implements "picked once, after it was placed".             *)
Warehouse == INSTANCE PickOnce
  WITH placed <- {o \in Orders : row[o] # "none"},
       tasks <- [o \in Orders |-> Cardinality(TasksOf(o))]
ImplementsPickOnce == Warehouse!Spec
=============================================================================

------------------------ MODULE OrderPipelineProofs ------------------------
(***************************************************************************)
(* The inductive invariant of OrderPipeline, and what follows from it for  *)
(* every number of orders, relays and consumers, every batch size,         *)
(* prefetch and delivery limit, and failures without bound.                *)
(***************************************************************************)
EXTENDS OrderPipeline, SequenceTheorems, FiniteSetTheorems, WellFoundedInduction,
        TLAPS

(* The event id of a message is that of its order.                         *)
IdInv == \A m \in DOMAIN msgs : msgs[m].id = <<msgs[m].order, 0>>

(* Tasks are tasks of orders, and at most one callback was told of each.   *)
(* One nobody was told of has a callback whose answer is still under way,  *)
(* or something failed.                                                    *)
TaskInv ==
  /\ picking \subseteq Orders \X {0}
  /\ \A o \in Orders :
       /\ applied[o] = 0 \/ (applied[o] = 1 /\ <<o, 0>> \in picking)
       /\ <<o, 0>> \in picking /\ applied[o] = 0 =>
            \/ faults > 0
            \/ \E k \in work : k.phase = "committed" /\ OrderOf(k) = o

(* A callback with an open inbox transaction is the only one of its event, *)
(* and the event has no mark yet.  One that waits for the answer to its    *)
(* COMMIT is the only one of its event too, and nobody was told before it. *)
CallbackInv ==
  \A k \in work :
    /\ k.phase = "claimed" =>
         /\ UseInbox
         /\ OrderOf(k) # Poison
         /\ EventOf(k) \notin inbox
         /\ \A j \in work : j.phase = "claimed" /\ EventOf(j) = EventOf(k) => j = k
    /\ k.phase = "committed" =>
         /\ OrderOf(k) \in Orders
         /\ EventOf(k) \in picking
         /\ applied[OrderOf(k)] = 0
         /\ \A j \in work : j.phase = "committed" /\ EventOf(j) = EventOf(k) => j = k
    /\ k.phase = "done" => EventOf(k) \in picking

EffectInv == TaskInv /\ CallbackInv /\ InboxIsEffect /\ AckedIsApplied

(* Open batches share no row, their rows are still pending, and a row is   *)
(* in one part of its batch.                                               *)
LockInv ==
  /\ \A w \in Relays :
       /\ \A o \in Locked(w) : row[o] = "pending"
       /\ batch[w].todo \cap batch[w].marks = {}
  /\ \A v, w \in Relays : v # w => Locked(v) \cap Locked(w) = {}

(* The row of o is marked, in the table or in a batch yet to commit.       *)
Marked(o) == row[o] = "published" \/ \E w \in Relays : o \in batch[w].marks

(* A marked row has a copy of its event at the broker.                     *)
TraceInv == \A o \in Orders : Marked(o) => Copies(o) # {}

(* Each copy was paid for, with a mark or with a failure.                  *)
CountInv ==
  \A o \in Orders :
    Cardinality(Copies(o)) <= faults + (IF Marked(o) THEN 1 ELSE 0)

(* Copies and tasks are those of placed orders.                            *)
PlacedInv ==
  /\ \A o \in Orders : Copies(o) # {} => row[o] # "none"
  /\ \A e \in picking : row[e[1]] # "none"

(* With the topology declared first nothing is dropped.                    *)
BoundInv ==
  TopologyFirst => bound /\ \A m \in DOMAIN msgs : msgs[m].at # "dropped"

RelayInv == LockInv /\ TraceInv /\ CountInv /\ PlacedInv /\ BoundInv

IInv == DataOK /\ IdInv /\ EffectInv /\ RelayInv

----------------------------------------------------------------------------
(* Lemmas about the operators.                                             *)

LEMMA MinOfNats ==
  ASSUME NEW S, S \subseteq Nat, S # {}
  PROVE  Min(S) \in S
<1>. DEFINE R == {p \in Nat \X Nat : p[1] < p[2]}
<1>1. IsWellFoundedOn(R, Nat)
  BY NatLessThanWellFounded, Zenon DEF OpToRel
<1>. HIDE DEF R
<1>2. PICK x \in S : \A y \in S : ~(<<y, x>> \in R)
  BY <1>1, WFMin
<1>3. ASSUME NEW y \in S PROVE x =< y
  <2>1. x \in Nat /\ y \in Nat
    OBVIOUS
  <2>2. CASE y < x
    <3>1. <<y, x>> \in R
      BY <2>1, <2>2 DEF R
    <3>. QED  BY <3>1, <1>2
  <2>. QED  BY <2>1, <2>2
<1>4. \E z \in S : \A y \in S : z =< y
  BY <1>3
<1>. QED  BY <1>4 DEF Min

(* The row a relay is at is one of its batch that is still to do.          *)
LEMMA TurnInTodo ==
  ASSUME DataOK, NEW w \in Relays, batch[w].todo # {}
  PROVE  Turn(w) \in batch[w].todo /\ Turn(w) \in Orders
<1>1. batch[w].todo \subseteq Orders
  BY DEF DataOK, Batch
<1>2. batch[w].todo \subseteq Nat
  BY <1>1, PipelineAssumption
<1>. QED  BY <1>1, <1>2, MinOfNats DEF Turn

(* The part of DataOK that is about messages.                              *)
MessagesOK ==
  /\ msgs \in Seq(Message)
  /\ \A m \in DOMAIN msgs : msgs[m].at = "held" <=> msgs[m].holder # None

LEMMA MapOfSeq ==
  ASSUME NEW S, NEW s \in Seq(S), NEW t, DOMAIN t = DOMAIN s,
         t = [i \in DOMAIN s |-> t[i]], \A i \in DOMAIN s : t[i] \in S
  PROVE  t \in Seq(S)
<1>1. DOMAIN s = 1..Len(s) /\ Len(s) \in Nat
  OBVIOUS
<1>2. t \in [1..Len(s) -> S]
  BY <1>1
<1>. QED  BY <1>1, <1>2, SeqDef

LEMMA SendMessages ==
  ASSUME DataOK, IdInv, NEW o \in Orders \cup {Poison}, Send(o)
  PROVE  /\ MessagesOK' /\ IdInv'
         /\ DOMAIN msgs' = DOMAIN msgs \cup {Len(msgs) + 1}
         /\ Len(msgs) + 1 \notin DOMAIN msgs
         /\ \A m \in DOMAIN msgs : msgs'[m] = msgs[m]
         /\ msgs'[Len(msgs) + 1].order = o
         /\ msgs'[Len(msgs) + 1].at = IF bound THEN "ready" ELSE "dropped"
<1>. DEFINE new == [order |-> o, id |-> EventId(o, Len(msgs) + 1),
                    at |-> IF bound THEN "ready" ELSE "dropped",
                    holder |-> None, returns |-> 0]
<1>1. msgs \in Seq(Message) /\ Len(msgs) \in Nat /\ DOMAIN msgs = 1..Len(msgs)
  BY DEF DataOK
<1>2. new \in Message
  BY DEF Message, EventIds, EventId
<1>3. msgs' = Append(msgs, new)
  BY DEF Send
<1>4. new.order = o /\ new.id = <<o, 0>> /\ new.holder = None
      /\ new.at = (IF bound THEN "ready" ELSE "dropped")
  BY DEF EventId
<1>. HIDE DEF new
<1>5. /\ msgs' \in Seq(Message)
      /\ Len(msgs') = Len(msgs) + 1
      /\ \A i \in 1..Len(msgs) : msgs'[i] = msgs[i]
      /\ msgs'[Len(msgs) + 1] = new
  BY <1>1, <1>2, <1>3, AppendProperties
<1>6. DOMAIN msgs' = 1..(Len(msgs) + 1)
  BY <1>5
<1>7. /\ DOMAIN msgs' = DOMAIN msgs \cup {Len(msgs) + 1}
      /\ Len(msgs) + 1 \notin DOMAIN msgs
  BY <1>1, <1>6
<1>8. MessagesOK'
  BY <1>1, <1>4, <1>5, <1>7 DEF MessagesOK, DataOK
<1>9. IdInv'
  BY <1>1, <1>4, <1>5, <1>7 DEF IdInv
<1>. QED  BY <1>1, <1>4, <1>5, <1>7, <1>8, <1>9

(* A step that moves messages and publishes none.                          *)
SameMessages ==
  /\ MessagesOK' /\ IdInv'
  /\ DOMAIN msgs' = DOMAIN msgs
  /\ \A m \in DOMAIN msgs :
       /\ msgs'[m].order = msgs[m].order /\ msgs'[m].id = msgs[m].id
       /\ msgs'[m].at = "dropped" => msgs[m].at = "dropped"

LEMMA UnchangedMessages ==
  ASSUME DataOK, IdInv, UNCHANGED msgs
  PROVE  SameMessages
  BY DEF DataOK, IdInv, SameMessages, MessagesOK

LEMMA RequeueMessages ==
  ASSUME DataOK, IdInv, NEW S, Requeue(S)
  PROVE  /\ SameMessages
         /\ \A m \in DOMAIN msgs : msgs'[m].at = "acked" => msgs[m].at = "acked"
<1>1. ASSUME NEW m \in DOMAIN msgs
      PROVE  /\ msgs'[m] \in Message
             /\ msgs'[m].at = "held" <=> msgs'[m].holder # None
             /\ msgs'[m].order = msgs[m].order /\ msgs'[m].id = msgs[m].id
             /\ msgs'[m].at = "dropped" => msgs[m].at = "dropped"
             /\ msgs'[m].at = "acked" => msgs[m].at = "acked"
  <2>1. msgs[m] \in Message
    BY DEF DataOK
  <2>2. CASE m \notin S
    <3>1. msgs'[m] = msgs[m]
      BY <2>2 DEF Requeue
    <3>. QED  BY <2>1, <3>1 DEF DataOK
  <2>3. CASE m \in S
    <3>1. msgs'[m] = [msgs[m] EXCEPT !.returns = @ + 1, !.holder = None,
                        !.at = IF msgs[m].returns >= DeliveryLimit
                                 THEN "dead" ELSE "ready"]
      BY <2>3 DEF Requeue
    <3>2. /\ msgs'[m].order = msgs[m].order /\ msgs'[m].id = msgs[m].id
          /\ msgs'[m].holder = None
          /\ msgs'[m].at \in {"dead", "ready"}
      BY <2>1, <3>1 DEF Message
    <3>3. msgs[m].returns + 1 \in Nat
      BY <2>1 DEF Message
    <3>4. msgs'[m] \in Message
      BY <2>1, <3>1, <3>3 DEF Message
    <3>. QED  BY <3>2, <3>4, PipelineAssumption
  <2>. QED  BY <2>2, <2>3
<1>2. DOMAIN msgs' = DOMAIN msgs /\ msgs' = [i \in DOMAIN msgs |-> msgs'[i]]
  BY DEF Requeue
<1>3. msgs' \in Seq(Message)
  BY <1>1, <1>2, MapOfSeq DEF DataOK
<1>. QED  BY <1>1, <1>2, <1>3 DEF SameMessages, MessagesOK, IdInv

(* One message goes to another place.                                      *)
LEMMA MoveMessage ==
  ASSUME DataOK, IdInv, NEW n \in DOMAIN msgs,
         NEW at \in {"ready", "held", "acked", "dead"},
         NEW h \in Consumers \cup {None}, at = "held" <=> h # None,
         msgs' = [msgs EXCEPT ![n] = [@ EXCEPT !.at = at, !.holder = h]]
  PROVE  /\ SameMessages
         /\ \A m \in DOMAIN msgs :
              msgs'[m].at = "acked" => msgs[m].at = "acked" \/ (m = n /\ at = "acked")
<1>1. ASSUME NEW m \in DOMAIN msgs
      PROVE  /\ msgs'[m] \in Message
             /\ msgs'[m].at = "held" <=> msgs'[m].holder # None
             /\ msgs'[m].order = msgs[m].order /\ msgs'[m].id = msgs[m].id
             /\ msgs'[m].at = "dropped" => msgs[m].at = "dropped"
             /\ msgs'[m].at = "acked" => msgs[m].at = "acked" \/ (m = n /\ at = "acked")
  <2>1. msgs[m] \in Message
    BY DEF DataOK
  <2>2. CASE m # n
    <3>1. msgs'[m] = msgs[m]
      BY <2>2
    <3>. QED  BY <2>1, <3>1 DEF DataOK
  <2>3. CASE m = n
    <3>1. msgs'[m] = [msgs[m] EXCEPT !.at = at, !.holder = h]
      BY <2>3
    <3>. QED  BY <2>1, <2>3, <3>1 DEF Message
  <2>. QED  BY <2>2, <2>3
<1>2. DOMAIN msgs' = DOMAIN msgs /\ msgs' = [i \in DOMAIN msgs |-> msgs'[i]]
  OBVIOUS
<1>3. msgs' \in Seq(Message)
  BY <1>1, <1>2, MapOfSeq DEF DataOK
<1>. QED  BY <1>1, <1>2, <1>3 DEF SameMessages, MessagesOK, IdInv

LEMMA SettleMessages ==
  ASSUME DataOK, IdInv, NEW k \in work, NEW at \in {"acked", "dead"}, Settle(k, at)
  PROVE  /\ SameMessages
         /\ \A m \in DOMAIN msgs :
              msgs'[m].at = "acked" =>
                msgs[m].at = "acked" \/ (m = k.msg /\ at = "acked")
<1>1. k.msg \in DOMAIN msgs
  BY DEF DataOK
<1>2. CASE Live(k)
  <2>1. msgs' = [msgs EXCEPT ![k.msg] = [@ EXCEPT !.at = at, !.holder = None]]
    BY <1>2 DEF Settle
  <2>. QED  BY <1>1, <2>1, MoveMessage
<1>3. CASE ~Live(k)
  <2>1. UNCHANGED msgs
    BY <1>3 DEF Settle
  <2>. QED  BY <2>1, UnchangedMessages
<1>. QED  BY <1>2, <1>3

----------------------------------------------------------------------------
(* Frames: what a step that leaves a part alone preserves.                 *)

LEMMA EffectFrame ==
  ASSUME DataOK, EffectInv, UNCHANGED dbVars,
         DOMAIN msgs \subseteq DOMAIN msgs',
         \A m \in DOMAIN msgs : msgs'[m].order = msgs[m].order /\ msgs'[m].id = msgs[m].id,
         \A m \in DOMAIN msgs' : msgs'[m].at = "acked" =>
           m \in DOMAIN msgs /\ (msgs[m].at = "acked" \/ msgs[m].id \in picking),
         \A k \in work' : k \in work \/ k.phase = "received",
         \/ faults' = faults + 1
         \/ faults' = faults /\ \A k \in work : k.phase = "committed" => k \in work'
  PROVE  EffectInv'
<1>0. \A k \in work : EventOf(k)' = EventOf(k) /\ OrderOf(k)' = OrderOf(k)
  BY DEF DataOK, EventOf, OrderOf
<1>1. TaskInv'
  <2>1. /\ picking' \subseteq Orders \X {0}
        /\ \A o \in Orders : applied'[o] = 0 \/ (applied'[o] = 1 /\ <<o, 0>> \in picking')
    BY DEF EffectInv, TaskInv, dbVars
  <2>2. ASSUME NEW o \in Orders, <<o, 0>> \in picking, applied[o] = 0
        PROVE  \/ faults' > 0
               \/ \E k \in work' : k.phase = "committed" /\ OrderOf(k)' = o
    <3>1. CASE faults' = faults + 1
      BY <3>1 DEF DataOK
    <3>2. CASE faults' = faults /\ faults > 0
      BY <3>2
    <3>3. ASSUME faults' = faults, \A k \in work : k.phase = "committed" => k \in work',
                 ~(faults > 0)
          PROVE  \E k \in work' : k.phase = "committed" /\ OrderOf(k)' = o
      <4>1. PICK k \in work : k.phase = "committed" /\ OrderOf(k) = o
        BY <2>2, <3>3 DEF EffectInv, TaskInv
      <4>. QED  BY <1>0, <3>3, <4>1
    <3>. QED  BY <3>1, <3>2, <3>3
  <2>. QED  BY <2>1, <2>2 DEF TaskInv, dbVars
<1>2. CallbackInv'
  <2>2. \A k \in work' : k.phase \in {"claimed", "committed", "done"} => k \in work
    OBVIOUS
  <2>. QED  BY <1>0, <2>2 DEF EffectInv, CallbackInv, dbVars
<1>3. InboxIsEffect'
  BY DEF EffectInv, InboxIsEffect, dbVars
<1>4. AckedIsApplied'
  BY DEF EffectInv, AckedIsApplied, dbVars
<1>. QED  BY <1>1, <1>2, <1>3, <1>4 DEF EffectInv

LEMMA CopiesFinite ==
  ASSUME DataOK, NEW o \in Orders
  PROVE  IsFiniteSet(Copies(o)) /\ Cardinality(Copies(o)) \in Nat
<1>1. msgs \in Seq(Message)
  BY DEF DataOK
<1>2. Copies(o) \in SUBSET (1..Len(msgs)) /\ Len(msgs) \in Nat
  BY <1>1 DEF Copies
<1>3. IsFiniteSet(1..Len(msgs))
  BY <1>2, FS_Interval
<1>. QED  BY <1>2, <1>3, FS_Subset, FS_CardinalityType

LEMMA SameCopies ==
  ASSUME SameMessages, NEW o \in Orders
  PROVE  Copies(o)' = Copies(o)
  BY DEF SameMessages, Copies

LEMMA RelayFrame ==
  ASSUME DataOK, IdInv, RelayInv, SameMessages, UNCHANGED relayVars,
         faults' = faults \/ faults' = faults + 1,
         bound => bound', bound' \in BOOLEAN,
         \A e \in picking' :
           e \in picking \/ \E m \in DOMAIN msgs :
                              msgs[m].order \in Orders /\ msgs[m].id = e
  PROVE  RelayInv'
<1>. USE DEF relayVars
<1>1. LockInv'
  BY DEF RelayInv, LockInv, Locked
<1>2. \A o \in Orders : Marked(o)' = Marked(o)
  BY DEF Marked
<1>3. TraceInv'
  BY <1>2, SameCopies DEF RelayInv, TraceInv
<1>4. CountInv'
  <2>. SUFFICES ASSUME NEW o \in Orders
                PROVE  Cardinality(Copies(o)') <= faults' + (IF Marked(o)' THEN 1 ELSE 0)
    BY DEF CountInv
  <2>1. Cardinality(Copies(o)) <= faults + (IF Marked(o) THEN 1 ELSE 0)
    BY DEF RelayInv, CountInv
  <2>2. Cardinality(Copies(o)) \in Nat /\ faults \in Nat
    BY CopiesFinite DEF DataOK
  <2>3. Copies(o)' = Copies(o) /\ (Marked(o)' <=> Marked(o))
    BY <1>2, SameCopies
  <2>4. CASE Marked(o)
    BY <2>1, <2>2, <2>3, <2>4
  <2>5. CASE ~Marked(o)
    BY <2>1, <2>2, <2>3, <2>5
  <2>. QED  BY <2>4, <2>5
<1>5. PlacedInv'
  <2>1. \A o \in Orders : Copies(o)' # {} => row'[o] # "none"
    BY SameCopies DEF RelayInv, PlacedInv
  <2>2. ASSUME NEW e \in picking' PROVE row'[e[1]] # "none"
    <3>1. CASE e \in picking
      BY <3>1 DEF RelayInv, PlacedInv
    <3>2. ASSUME NEW m \in DOMAIN msgs, msgs[m].order \in Orders, msgs[m].id = e
          PROVE  row'[e[1]] # "none"
      <4>1. e[1] = msgs[m].order /\ m \in Copies(msgs[m].order)
        BY <3>2 DEF IdInv, Copies
      <4>. QED  BY <3>2, <4>1 DEF RelayInv, PlacedInv
    <3>. QED  BY <3>1, <3>2
  <2>. QED  BY <2>1, <2>2 DEF PlacedInv
<1>6. BoundInv'
  BY DEF RelayInv, BoundInv, SameMessages
<1>. QED  BY <1>1, <1>3, <1>4, <1>5, <1>6 DEF RelayInv

(* A publication adds one copy, and touches nothing else.                  *)
LEMMA SendCopies ==
  ASSUME DataOK, IdInv, NEW p \in Orders \cup {Poison}, Send(p)
  PROVE  /\ \A o \in Orders \ {p} : Copies(o)' = Copies(o)
         /\ p \in Orders => /\ Copies(p)' # {}
                            /\ Cardinality(Copies(p)') = Cardinality(Copies(p)) + 1
<1>1. /\ DOMAIN msgs' = DOMAIN msgs \cup {Len(msgs) + 1}
      /\ Len(msgs) + 1 \notin DOMAIN msgs
      /\ \A m \in DOMAIN msgs : msgs'[m] = msgs[m]
      /\ msgs'[Len(msgs) + 1].order = p
  BY SendMessages
<1>2. \A o \in Orders \ {p} : Copies(o)' = Copies(o)
  BY <1>1 DEF Copies
<1>3. ASSUME p \in Orders
      PROVE  /\ Copies(p)' # {}
             /\ Cardinality(Copies(p)') = Cardinality(Copies(p)) + 1
  <2>1. Copies(p)' = Copies(p) \cup {Len(msgs) + 1}
    BY <1>1 DEF Copies
  <2>2. Len(msgs) + 1 \notin Copies(p)
    BY <1>1 DEF Copies
  <2>3. IsFiniteSet(Copies(p))
    BY <1>3, CopiesFinite
  <2>. QED  BY <2>1, <2>2, <2>3, FS_AddElement
<1>. QED  BY <1>2, <1>3

LEMMA SendEffect ==
  ASSUME DataOK, IdInv, EffectInv, NEW p \in Orders \cup {Poison}, Send(p),
         UNCHANGED <<work, dbVars>>, faults' = faults \/ faults' = faults + 1
  PROVE  EffectInv'
<1>1. /\ DOMAIN msgs' = DOMAIN msgs \cup {Len(msgs) + 1}
      /\ \A m \in DOMAIN msgs : msgs'[m] = msgs[m]
      /\ msgs'[Len(msgs) + 1].at # "acked"
  BY SendMessages
<1>. QED  BY <1>1, EffectFrame

LEMMA SendBound ==
  ASSUME DataOK, IdInv, BoundInv, NEW p \in Orders \cup {Poison}, Send(p), UNCHANGED bound
  PROVE  BoundInv'
  BY SendMessages DEF BoundInv

----------------------------------------------------------------------------
(* Relays.                                                                 *)

LEMMA PlaceStep ==
  ASSUME IInv, NEW o \in Orders, Place(o)
  PROVE  IInv'
<1>. USE DEF IInv, Place
<1>1. DataOK'
  BY DEF DataOK, dbVars
<1>2. IdInv'
  BY DEF IdInv
<1>3. EffectInv'
  BY EffectFrame DEF AckedIsApplied, EffectInv
<1>4. LockInv'
  BY DEF RelayInv, LockInv, Locked, DataOK
<1>5. \A p \in Orders : (Marked(p)' <=> Marked(p)) /\ Copies(p)' = Copies(p)
  BY DEF Marked, Copies, DataOK
<1>6. TraceInv' /\ CountInv'
  BY <1>5 DEF RelayInv, TraceInv, CountInv
<1>7. PlacedInv'
  BY <1>5 DEF RelayInv, PlacedInv, dbVars, EffectInv, TaskInv, DataOK
<1>8. BoundInv'
  BY DEF RelayInv, BoundInv
<1>. QED  BY <1>1, <1>2, <1>3, <1>4, <1>6, <1>7, <1>8 DEF RelayInv

LEMMA SelectStep ==
  ASSUME IInv, NEW w \in Relays, SelectBatch(w)
  PROVE  IInv'
<1>. USE DEF IInv
<1>. DEFINE rows == Oldest({o \in Unlocked : row[o] = "pending"}, BatchSize)
<1>1. /\ batch[w] = NoBatch
      /\ batch' = [batch EXCEPT ![w].todo = rows]
      /\ UNCHANGED <<row, attempts, bound, msgs, status, work, dbVars, faults>>
  BY DEF SelectBatch
<1>2. rows \subseteq {o \in Unlocked : row[o] = "pending"} /\ rows \subseteq Orders
  BY DEF Oldest, Unlocked
<1>. HIDE DEF rows
<1>3. /\ batch'[w] = [NoBatch EXCEPT !.todo = rows]
      /\ \A v \in Relays : v # w => batch'[v] = batch[v]
      /\ batch'[w] \in Batch
      /\ batch' \in [Relays -> Batch]
  BY <1>1, <1>2 DEF DataOK, Batch, NoBatch
<1>4. DataOK'
  BY <1>1, <1>3 DEF DataOK, dbVars
<1>5. IdInv'
  BY <1>1 DEF IdInv
<1>6. EffectInv'
  BY <1>1, EffectFrame DEF AckedIsApplied, EffectInv
<1>7. batch'[w].todo = rows /\ batch'[w].marks = {} /\ batch'[w].failed = {}
  BY <1>3 DEF NoBatch
<1>8. LockInv'
  <2>1. Locked(w)' = rows /\ \A v \in Relays : v # w => Locked(v)' = Locked(v)
    BY <1>3, <1>7 DEF Locked
  <2>2. \A v \in Relays : Locked(v) \cap rows = {}
    BY <1>2 DEF Unlocked
  <2>. QED  BY <1>1, <1>2, <1>3, <1>7, <2>1, <2>2 DEF RelayInv, LockInv
<1>9. \A p \in Orders : (Marked(p)' <=> Marked(p)) /\ Copies(p)' = Copies(p)
  BY <1>1, <1>3, <1>7 DEF Marked, Copies, NoBatch
<1>10. TraceInv' /\ CountInv'
  BY <1>1, <1>9 DEF RelayInv, TraceInv, CountInv
<1>11. PlacedInv' /\ BoundInv'
  BY <1>1, <1>9 DEF RelayInv, PlacedInv, BoundInv, dbVars
<1>. QED  BY <1>4, <1>5, <1>6, <1>8, <1>10, <1>11 DEF RelayInv

(* The row a relay is at is not marked by anybody.                         *)
LEMMA TurnUnmarked ==
  ASSUME IInv, NEW w \in Relays, batch[w].todo # {}
  PROVE  Turn(w) \in batch[w].todo /\ Turn(w) \in Orders /\ ~Marked(Turn(w))
         /\ row[Turn(w)] = "pending"
<1>1. Turn(w) \in batch[w].todo /\ Turn(w) \in Orders
  BY TurnInTodo DEF IInv
<1>2. row[Turn(w)] = "pending"
  BY <1>1 DEF IInv, RelayInv, LockInv, Locked
<1>3. \A v \in Relays : Turn(w) \notin batch[v].marks
  BY <1>1 DEF IInv, RelayInv, LockInv, Locked
<1>. QED  BY <1>1, <1>2, <1>3 DEF Marked

LEMMA PublishStep ==
  ASSUME IInv, NEW w \in Relays, Publish(w)
  PROVE  IInv'
<1>. USE DEF IInv
<1>1. PICK t \in Orders : /\ t = Turn(w) /\ t \in batch[w].todo
                          /\ ~Marked(t) /\ row[t] = "pending"
  BY TurnUnmarked DEF Publish
<1>2. /\ Send(t)
      /\ batch' = [batch EXCEPT ![w] = [todo |-> @.todo \ {t}, failed |-> @.failed,
                                      marks |-> @.marks \cup {t}]]
      /\ UNCHANGED <<row, attempts, bound, status, work, dbVars, faults>>
  BY <1>1 DEF Publish
<1>3. /\ batch'[w] \in Batch
      /\ batch'[w].todo = batch[w].todo \ {t}
      /\ batch'[w].marks = batch[w].marks \cup {t}
      /\ batch'[w].failed = batch[w].failed
      /\ \A v \in Relays : v # w => batch'[v] = batch[v]
      /\ batch' \in [Relays -> Batch]
  <2>1. batch \in [Relays -> Batch] /\ batch[w] \in Batch
    BY DEF DataOK
  <2>2. /\ batch'[w] = [todo |-> batch[w].todo \ {t}, failed |-> batch[w].failed,
                       marks |-> batch[w].marks \cup {t}]
        /\ \A v \in Relays : v # w => batch'[v] = batch[v]
        /\ batch' = [v \in Relays |-> batch'[v]]
    BY <1>2, <2>1
  <2>3. /\ batch'[w] \in Batch
        /\ batch'[w].todo = batch[w].todo \ {t}
        /\ batch'[w].marks = batch[w].marks \cup {t}
        /\ batch'[w].failed = batch[w].failed
    BY <2>1, <2>2 DEF Batch
  <2>. QED  BY <2>1, <2>2, <2>3
<1>4. MessagesOK' /\ IdInv' /\ DOMAIN msgs \subseteq DOMAIN msgs'
  BY <1>1, <1>2, SendMessages
<1>5. DataOK'
  BY <1>2, <1>3, <1>4 DEF DataOK, MessagesOK, dbVars
<1>6. EffectInv'
  BY <1>1, <1>2, SendEffect
<1>7. \A v \in Relays : Locked(v)' = Locked(v)
  BY <1>1, <1>3 DEF Locked
<1>8. LockInv'
  BY <1>2, <1>3, <1>7 DEF RelayInv, LockInv
<1>9. Marked(t)' /\ \A o \in Orders \ {t} : Marked(o)' <=> Marked(o)
  BY <1>2, <1>3 DEF Marked
<1>10. /\ Copies(t)' # {} /\ Cardinality(Copies(t)') = Cardinality(Copies(t)) + 1
       /\ \A o \in Orders \ {t} : Copies(o)' = Copies(o)
  BY <1>1, <1>2, SendCopies
<1>11. TraceInv'
  BY <1>9, <1>10 DEF RelayInv, TraceInv
<1>12. CountInv'
  <2>1. Cardinality(Copies(t)) <= faults /\ Cardinality(Copies(t)) \in Nat
    BY <1>1, CopiesFinite DEF RelayInv, CountInv, DataOK
  <2>2. Cardinality(Copies(t)') <= faults' + 1
    BY <1>2, <1>10, <2>1 DEF DataOK
  <2>. QED  BY <1>2, <1>9, <1>10, <2>2 DEF RelayInv, CountInv
<1>13. PlacedInv'
  BY <1>1, <1>2, <1>10 DEF RelayInv, PlacedInv, dbVars
<1>14. BoundInv'
  BY <1>1, <1>2, SendBound DEF RelayInv
<1>. QED  BY <1>4, <1>5, <1>6, <1>8, <1>11, <1>12, <1>13, <1>14 DEF RelayInv

LEMMA PublishFailsStep ==
  ASSUME IInv, NEW w \in Relays, PublishFails(w)
  PROVE  IInv'
<1>. USE DEF IInv
<1>1. PICK t \in Orders : /\ t = Turn(w) /\ t \in batch[w].todo
                          /\ ~Marked(t) /\ row[t] = "pending"
  BY TurnUnmarked DEF PublishFails
<1>2. /\ UNCHANGED msgs \/ Send(t)
      /\ faults' = faults + 1 /\ faults \in Nat
      /\ batch' = [batch EXCEPT ![w] = [todo |-> @.todo \ {t}, marks |-> @.marks,
                                      failed |-> @.failed \cup {t}]]
      /\ UNCHANGED <<row, attempts, bound, status, work, dbVars>>
  BY <1>1 DEF PublishFails, Fault, DataOK
<1>3. /\ batch'[w] \in Batch
      /\ batch'[w].todo = batch[w].todo \ {t}
      /\ batch'[w].marks = batch[w].marks
      /\ batch'[w].failed = batch[w].failed \cup {t}
      /\ \A v \in Relays : v # w => batch'[v] = batch[v]
      /\ batch' \in [Relays -> Batch]
  <2>1. batch \in [Relays -> Batch] /\ batch[w] \in Batch
    BY DEF DataOK
  <2>2. /\ batch'[w] = [todo |-> batch[w].todo \ {t}, marks |-> batch[w].marks,
                       failed |-> batch[w].failed \cup {t}]
        /\ \A v \in Relays : v # w => batch'[v] = batch[v]
        /\ batch' = [v \in Relays |-> batch'[v]]
    BY <1>2, <2>1
  <2>3. /\ batch'[w] \in Batch
        /\ batch'[w].todo = batch[w].todo \ {t}
        /\ batch'[w].failed = batch[w].failed \cup {t}
        /\ batch'[w].marks = batch[w].marks
    BY <2>1, <2>2 DEF Batch
  <2>. QED  BY <2>1, <2>2, <2>3
<1>4. MessagesOK' /\ IdInv' /\ DOMAIN msgs \subseteq DOMAIN msgs'
  BY <1>1, <1>2, SendMessages, UnchangedMessages DEF SameMessages
<1>5. DataOK'
  BY <1>2, <1>3, <1>4 DEF DataOK, MessagesOK, dbVars
<1>6. EffectInv'
  <2>1. CASE UNCHANGED msgs
    BY <1>2, <2>1, EffectFrame DEF EffectInv, AckedIsApplied
  <2>2. CASE Send(t)
    BY <1>1, <1>2, <2>2, SendEffect
  <2>. QED  BY <1>2, <2>1, <2>2
<1>7. \A v \in Relays : Locked(v)' = Locked(v)
  BY <1>1, <1>3 DEF Locked
<1>8. LockInv'
  BY <1>2, <1>3, <1>7 DEF RelayInv, LockInv
<1>9. \A o \in Orders : Marked(o)' <=> Marked(o)
  BY <1>2, <1>3 DEF Marked
<1>10. \A o \in Orders :
         /\ Copies(o) # {} => Copies(o)' # {}
         /\ o # t /\ Copies(o)' # {} => Copies(o) # {}
         /\ Cardinality(Copies(o)') <= Cardinality(Copies(o)) + 1
         /\ Cardinality(Copies(o)) \in Nat /\ Cardinality(Copies(o)') \in Nat
  <2>1. CASE UNCHANGED msgs
    <3>1. \A o \in Orders : Copies(o)' = Copies(o)
      BY <2>1 DEF Copies
    <3>. QED  BY <3>1, CopiesFinite
  <2>2. CASE Send(t)
    BY <1>1, <2>2, SendCopies, CopiesFinite
  <2>. QED  BY <1>2, <2>1, <2>2
<1>11. TraceInv'
  BY <1>9, <1>10 DEF RelayInv, TraceInv
<1>12. CountInv'
  <2>. SUFFICES ASSUME NEW o \in Orders
                PROVE  Cardinality(Copies(o)') <= faults' + (IF Marked(o)' THEN 1 ELSE 0)
    BY DEF CountInv
  <2>1. Cardinality(Copies(o)) <= faults + (IF Marked(o) THEN 1 ELSE 0)
    BY DEF RelayInv, CountInv
  <2>2. CASE Marked(o)
    BY <1>2, <1>9, <1>10, <2>1, <2>2
  <2>3. CASE ~Marked(o)
    BY <1>2, <1>9, <1>10, <2>1, <2>3
  <2>. QED  BY <2>2, <2>3
<1>13. PlacedInv'
  BY <1>1, <1>2, <1>10 DEF RelayInv, PlacedInv, dbVars
<1>14. BoundInv'
  <2>1. CASE UNCHANGED msgs
    BY <1>2, <2>1 DEF RelayInv, BoundInv
  <2>2. CASE Send(t)
    BY <1>1, <1>2, <2>2, SendBound DEF RelayInv
  <2>. QED  BY <1>2, <2>1, <2>2
<1>. QED  BY <1>4, <1>5, <1>6, <1>8, <1>11, <1>12, <1>13, <1>14 DEF RelayInv

LEMMA CommitStep ==
  ASSUME IInv, NEW w \in Relays, CommitBatch(w)
  PROVE  IInv'
<1>. USE DEF IInv
<1>1. /\ batch' = [batch EXCEPT ![w] = NoBatch]
      /\ row' = [o \in Orders |-> IF o \in batch[w].marks THEN "published" ELSE row[o]]
      /\ attempts' = [o \in Orders |->
                        attempts[o] + IF o \in batch[w].failed THEN 1 ELSE 0]
      /\ UNCHANGED <<bound, msgs, status, work, dbVars, faults>>
  BY DEF CommitBatch
<1>2. /\ NoBatch \in Batch /\ Locked(w)' = {}
      /\ batch'[w] = NoBatch /\ NoBatch.todo = {} /\ NoBatch.marks = {}
      /\ \A v \in Relays : v # w => batch'[v] = batch[v] /\ Locked(v)' = Locked(v)
      /\ batch' \in [Relays -> Batch]
  BY <1>1 DEF DataOK, Batch, NoBatch, Locked
<1>3. batch[w].marks \subseteq Locked(w) /\ Locked(w) \subseteq Orders
  BY DEF DataOK, Batch, Locked
<1>4. DataOK'
  <2>1. attempts' \in [Orders -> Nat]
    BY <1>1 DEF DataOK
  <2>2. row' \in [Orders -> {"none", "pending", "published"}]
    BY <1>1 DEF DataOK
  <2>. QED  BY <1>1, <1>2, <2>1, <2>2 DEF DataOK, dbVars
<1>5. IdInv'
  BY <1>1 DEF IdInv
<1>6. EffectInv'
  BY <1>1, EffectFrame DEF AckedIsApplied, EffectInv
<1>7. LockInv'
  <2>1. ASSUME NEW v \in Relays, NEW o \in Locked(v)', v # w
        PROVE  row'[o] = "pending"
    <3>1. o \in Locked(v) /\ o \notin Locked(w) /\ o \in Orders
      BY <1>2, <2>1 DEF RelayInv, LockInv, Locked, DataOK, Batch
    <3>. QED  BY <1>1, <1>3, <3>1 DEF RelayInv, LockInv
  <2>2. \A v \in Relays : batch'[v].todo \cap batch'[v].marks = {}
    BY <1>2 DEF RelayInv, LockInv
  <2>3. \A u, v \in Relays : u # v => Locked(u)' \cap Locked(v)' = {}
    BY <1>2 DEF RelayInv, LockInv
  <2>. QED  BY <1>2, <2>1, <2>2, <2>3 DEF LockInv
<1>8. \A o \in Orders : Marked(o)' <=> Marked(o)
  BY <1>1, <1>2, <1>3 DEF Marked, DataOK
<1>9. \A o \in Orders : Copies(o)' = Copies(o)
  BY <1>1 DEF Copies
<1>10. TraceInv' /\ CountInv'
  BY <1>1, <1>8, <1>9 DEF RelayInv, TraceInv, CountInv
<1>11. PlacedInv' /\ BoundInv'
  <2>1. \A o \in Orders : row[o] # "none" => row'[o] # "none"
    BY <1>1
  <2>2. \A e \in picking : e[1] \in Orders
    BY DEF EffectInv, TaskInv
  <2>. QED  BY <1>1, <1>9, <2>1, <2>2 DEF RelayInv, PlacedInv, BoundInv, dbVars
<1>. QED  BY <1>4, <1>5, <1>6, <1>7, <1>10, <1>11 DEF RelayInv

(* A batch that is undone takes its marks back, and that is a failure.     *)
LEMMA RelayFailsStep ==
  ASSUME IInv, NEW w \in Relays, RelayFails(w)
  PROVE  IInv'
<1>. USE DEF IInv
<1>1. /\ batch' = [batch EXCEPT ![w] = NoBatch]
      /\ faults' = faults + 1 /\ faults \in Nat
      /\ UNCHANGED <<row, attempts, bound, msgs, status, work, dbVars>>
  BY DEF RelayFails, Fault, DataOK
<1>2. /\ NoBatch \in Batch /\ Locked(w)' = {}
      /\ batch'[w] = NoBatch /\ NoBatch.todo = {} /\ NoBatch.marks = {}
      /\ \A v \in Relays : v # w => batch'[v] = batch[v] /\ Locked(v)' = Locked(v)
      /\ batch' \in [Relays -> Batch]
  BY <1>1 DEF DataOK, Batch, NoBatch, Locked
<1>3. DataOK'
  BY <1>1, <1>2 DEF DataOK, dbVars
<1>4. IdInv'
  BY <1>1 DEF IdInv
<1>5. EffectInv'
  BY <1>1, EffectFrame DEF AckedIsApplied, EffectInv
<1>6. LockInv'
  BY <1>1, <1>2 DEF RelayInv, LockInv
<1>7. \A o \in Orders : Copies(o)' = Copies(o) /\ (Marked(o)' => Marked(o))
  BY <1>1, <1>2 DEF Copies, Marked
<1>8. TraceInv'
  BY <1>7 DEF RelayInv, TraceInv
<1>9. CountInv'
  <2>. SUFFICES ASSUME NEW o \in Orders
                PROVE  Cardinality(Copies(o)') <= faults' + (IF Marked(o)' THEN 1 ELSE 0)
    BY DEF CountInv
  <2>1. Cardinality(Copies(o)) <= faults + 1 /\ Cardinality(Copies(o)) \in Nat
    BY <1>1, CopiesFinite DEF RelayInv, CountInv
  <2>. QED  BY <1>1, <1>7, <2>1
<1>10. PlacedInv' /\ BoundInv'
  BY <1>1, <1>7 DEF RelayInv, PlacedInv, BoundInv, dbVars
<1>. QED  BY <1>3, <1>4, <1>5, <1>6, <1>8, <1>9, <1>10 DEF RelayInv

LEMMA PublishPoisonStep ==
  ASSUME IInv, PublishPoison
  PROVE  IInv'
<1>. USE DEF IInv
<1>1. Send(Poison) /\ UNCHANGED <<relayVars, bound, status, work, dbVars, faults>>
  BY DEF PublishPoison
<1>2. MessagesOK' /\ IdInv' /\ DOMAIN msgs \subseteq DOMAIN msgs'
  BY <1>1, SendMessages
<1>3. DataOK'
  BY <1>1, <1>2 DEF DataOK, MessagesOK, dbVars, relayVars
<1>4. EffectInv'
  BY <1>1, SendEffect
<1>5. LockInv'
  BY <1>1 DEF relayVars, RelayInv, LockInv, Locked
<1>6. \A o \in Orders : Copies(o)' = Copies(o) /\ (Marked(o)' <=> Marked(o))
  <2>1. \A o \in Orders : Copies(o)' = Copies(o)
    BY <1>1, SendCopies, PipelineAssumption
  <2>. QED  BY <1>1, <2>1 DEF relayVars, Marked
<1>7. TraceInv' /\ CountInv' /\ PlacedInv'
  BY <1>1, <1>6 DEF relayVars, dbVars, RelayInv, TraceInv, CountInv, PlacedInv
<1>8. BoundInv'
  BY <1>1, SendBound DEF RelayInv
<1>. QED  BY <1>2, <1>3, <1>4, <1>5, <1>7, <1>8 DEF RelayInv

----------------------------------------------------------------------------
(* Consumers.                                                              *)

LEMMA StartStep ==
  ASSUME IInv, NEW c \in Consumers, StartConsumer(c) \/ Cancelled(c)
  PROVE  IInv'
<1>. USE DEF IInv
<1>1. /\ UNCHANGED <<relayVars, msgs, work, dbVars>>
      /\ status' \in [Consumers -> {"off", "on", "cancelled"}]
      /\ faults' = faults \/ faults' = faults + 1
      /\ bound => bound'
      /\ bound' \in BOOLEAN
  BY DEF StartConsumer, Cancelled, Fault, DataOK
<1>2. SameMessages
  BY <1>1, UnchangedMessages
<1>3. DataOK'
  BY <1>1 DEF DataOK, relayVars, dbVars
<1>4. EffectInv'
  BY <1>1, EffectFrame DEF EffectInv, AckedIsApplied
<1>5. RelayInv'
  BY <1>1, <1>2, RelayFrame DEF dbVars, DataOK
<1>. QED  BY <1>2, <1>3, <1>4, <1>5 DEF SameMessages

LEMMA DeliverStep ==
  ASSUME IInv, NEW c \in Consumers, NEW m \in DOMAIN msgs, Deliver(c, m)
  PROVE  IInv'
<1>. USE DEF IInv
<1>. DEFINE k == [by |-> c, msg |-> m, nth |-> msgs[m].returns, phase |-> "received"]
<1>1. /\ msgs' = [msgs EXCEPT ![m] = [@ EXCEPT !.at = "held", !.holder = c]]
      /\ work' = work \cup {k}
      /\ UNCHANGED <<relayVars, bound, status, dbVars, faults>>
  BY DEF Deliver
<1>2. k \in Callback /\ k.phase = "received" /\ k.msg = m
  <2>1. msgs \in Seq(Message)
    BY DEF DataOK
  <2>2. m \in Nat /\ msgs[m] \in Message
    BY <2>1
  <2>3. msgs[m].returns \in Nat
    BY <2>2 DEF Message
  <2>. QED  BY <2>2, <2>3 DEF Callback
<1>. HIDE DEF k
<1>3. /\ SameMessages
      /\ \A n \in DOMAIN msgs : msgs'[n].at = "acked" => msgs[n].at = "acked"
  BY <1>1, MoveMessage, PipelineAssumption
<1>4. DataOK'
  BY <1>1, <1>2, <1>3 DEF DataOK, SameMessages, MessagesOK, relayVars, dbVars
<1>5. EffectInv'
  BY <1>1, <1>2, <1>3, EffectFrame DEF SameMessages
<1>6. RelayInv'
  BY <1>1, <1>3, RelayFrame DEF dbVars, DataOK
<1>. QED  BY <1>3, <1>4, <1>5, <1>6 DEF SameMessages

(* Steps that return messages or drop callbacks, and write nothing.        *)
LEMMA ReturnFrame ==
  ASSUME IInv, SameMessages,
         \A m \in DOMAIN msgs : msgs'[m].at = "acked" => msgs[m].at = "acked",
         work' \subseteq work,
         \/ faults' = faults + 1
         \/ faults' = faults /\ \A k \in work : k.phase = "committed" => k \in work',
         UNCHANGED <<relayVars, bound, dbVars>>,
         status' \in [Consumers -> {"off", "on", "cancelled"}]
  PROVE  IInv'
<1>. USE DEF IInv
<1>1. DataOK'
  BY DEF DataOK, SameMessages, MessagesOK, relayVars, dbVars
<1>2. EffectInv'
  BY EffectFrame DEF SameMessages
<1>3. RelayInv'
  BY RelayFrame DEF dbVars, DataOK
<1>. QED  BY <1>1, <1>2, <1>3 DEF SameMessages

LEMMA ConsumerStopStep ==
  ASSUME IInv, NEW c \in Consumers, ConnectionLost(c) \/ ConsumerDies(c)
  PROVE  IInv'
<1>1. /\ Requeue(HeldBy(c))
      /\ status' = [status EXCEPT ![c] = "off"]
      /\ work' \subseteq work
      /\ faults' = faults + 1
      /\ UNCHANGED <<relayVars, bound, dbVars>>
  BY DEF ConnectionLost, ConsumerDies, Fault
<1>2. /\ SameMessages
      /\ \A m \in DOMAIN msgs : msgs'[m].at = "acked" => msgs[m].at = "acked"
  BY <1>1, RequeueMessages DEF IInv
<1>3. status' \in [Consumers -> {"off", "on", "cancelled"}]
  BY <1>1 DEF IInv, DataOK
<1>. QED  BY <1>1, <1>2, <1>3, ReturnFrame

LEMMA ApplyFailsStep ==
  ASSUME IInv, NEW k \in work, ApplyFails(k)
  PROVE  IInv'
<1>1. /\ SameMessages
      /\ \A m \in DOMAIN msgs : msgs'[m].at = "acked" => msgs[m].at = "acked"
  BY RequeueMessages DEF IInv, ApplyFails
<1>. QED  BY <1>1, ReturnFrame DEF ApplyFails, Fault, IInv, DataOK

LEMMA RejectStep ==
  ASSUME IInv, NEW k \in work, Reject(k)
  PROVE  IInv'
<1>1. /\ SameMessages
      /\ \A m \in DOMAIN msgs : msgs'[m].at = "acked" => msgs[m].at = "acked"
  BY SettleMessages DEF IInv, Reject
<1>. QED  BY <1>1, ReturnFrame DEF Reject, IInv, DataOK

(* An ack follows the effect.                                              *)
LEMMA AckStep ==
  ASSUME IInv, NEW k \in work, Ack(k)
  PROVE  IInv'
<1>. USE DEF IInv
<1>1. /\ Settle(k, "acked")
      /\ work' = work \ {k}
      /\ UNCHANGED <<relayVars, bound, status, dbVars, faults>>
  BY DEF Ack
<1>2. /\ SameMessages
      /\ \A m \in DOMAIN msgs : msgs'[m].at = "acked" =>
                                  msgs[m].at = "acked" \/ m = k.msg
  BY <1>1, SettleMessages
<1>3. DataOK'
  BY <1>1, <1>2 DEF DataOK, SameMessages, MessagesOK, relayVars, dbVars
<1>4. msgs[k.msg].id \in picking
  BY DEF Ack, EffectInv, CallbackInv, EventOf
<1>5. EffectInv'
  <2>1. \A j \in work : j.phase = "committed" => j \in work'
    BY <1>1 DEF Ack
  <2>. QED  BY <1>1, <1>2, <1>4, <2>1, EffectFrame DEF SameMessages
<1>6. RelayInv'
  BY <1>1, <1>2, RelayFrame DEF dbVars, DataOK
<1>. QED  BY <1>2, <1>3, <1>5, <1>6 DEF SameMessages

(* The INSERT found no mark and no transaction with this event, or a mark. *)
LEMMA ClaimStep ==
  ASSUME IInv, NEW k \in work, ClaimInbox(k)
  PROVE  IInv'
<1>. USE DEF IInv
<1>. DEFINE phase == IF EventOf(k) \in inbox THEN "done" ELSE "claimed"
<1>. DEFINE j == [k EXCEPT !.phase = phase]
<1>1. /\ work' = (work \ {k}) \cup {j}
      /\ UNCHANGED <<relayVars, bound, msgs, status, dbVars, faults>>
  BY DEF ClaimInbox, GoOn
<1>2. k \in Callback /\ k.msg \in DOMAIN msgs
  BY DEF DataOK
<1>3. j \in Callback /\ j.msg = k.msg /\ j.phase = phase
  BY <1>2 DEF Callback
<1>. HIDE DEF j
<1>4. SameMessages
  BY <1>1, UnchangedMessages
<1>5. DataOK'
  BY <1>1, <1>2, <1>3 DEF DataOK, relayVars, dbVars
<1>6. EffectInv'
  <2>1. InboxIsEffect' /\ AckedIsApplied'
    BY <1>1 DEF EffectInv, InboxIsEffect, AckedIsApplied, dbVars
  <2>2. \A i \in Callback : EventOf(i)' = EventOf(i) /\ OrderOf(i)' = OrderOf(i)
    BY <1>1 DEF EventOf, OrderOf
  <2>0. TaskInv'
    <3>1. \A i \in work : i.phase = "committed" => i \in work'
      BY <1>1 DEF ClaimInbox
    <3>2. work \subseteq Callback
      BY DEF DataOK
    <3>. QED  BY <1>1, <2>2, <3>1, <3>2 DEF EffectInv, TaskInv, dbVars
  <2>3. EventOf(j) = EventOf(k) /\ OrderOf(j) = OrderOf(k)
    BY <1>3 DEF EventOf, OrderOf
  <2>4. /\ UseInbox /\ OrderOf(k) # Poison /\ inbox = picking
        /\ \A i \in work : i.phase = "claimed" => EventOf(i) # EventOf(k)
    BY DEF ClaimInbox, EffectInv, InboxIsEffect
  <2>5. work \subseteq Callback /\ UNCHANGED <<inbox, picking, applied>>
    BY <1>1 DEF DataOK, dbVars
  <2>6. \A i \in work :
          /\ i.phase = "claimed" =>
               /\ UseInbox /\ OrderOf(i) # Poison /\ EventOf(i) \notin inbox
               /\ \A h \in work : h.phase = "claimed" /\ EventOf(h) = EventOf(i) => h = i
          /\ i.phase = "committed" =>
               /\ OrderOf(i) \in Orders /\ EventOf(i) \in picking /\ applied[OrderOf(i)] = 0
               /\ \A h \in work : h.phase = "committed" /\ EventOf(h) = EventOf(i) => h = i
          /\ i.phase = "done" => EventOf(i) \in picking
    BY DEF EffectInv, CallbackInv
  <2>7. ASSUME NEW i \in work'
        PROVE  /\ i.phase = "claimed" =>
                    /\ UseInbox /\ OrderOf(i) # Poison /\ EventOf(i) \notin inbox
                    /\ \A h \in work' :
                         h.phase = "claimed" /\ EventOf(h) = EventOf(i) => h = i
               /\ i.phase = "committed" =>
                    /\ OrderOf(i) \in Orders /\ EventOf(i) \in picking
                    /\ applied[OrderOf(i)] = 0
                    /\ \A h \in work' :
                         h.phase = "committed" /\ EventOf(h) = EventOf(i) => h = i
               /\ i.phase = "done" => EventOf(i) \in picking
    <3>1. CASE i = j
      BY <1>1, <1>3, <2>3, <2>4, <3>1
    <3>2. CASE i # j
      BY <1>1, <1>3, <2>3, <2>4, <2>6, <3>2
    <3>. QED  BY <3>1, <3>2
  <2>8. work' \subseteq Callback
    BY <1>5 DEF DataOK
  <2>9. CallbackInv'
    BY <2>2, <2>5, <2>7, <2>8 DEF CallbackInv
  <2>. QED  BY <2>0, <2>1, <2>9 DEF EffectInv
<1>7. RelayInv'
  BY <1>1, <1>4, RelayFrame DEF dbVars, DataOK
<1>. QED  BY <1>4, <1>5, <1>6, <1>7 DEF SameMessages

(* What both ways of applying an event have in common.                     *)
EffectOf(k) ==
  /\ OrderOf(k) # Poison
  /\ k.phase \notin {"committed", "done"}
  /\ picking' = picking \cup {EventOf(k)}
  /\ work' = (work \ {k}) \cup
               {[k EXCEPT !.phase = IF EventOf(k) \in picking THEN "done" ELSE "committed"]}
  /\ inbox' = IF UseInbox THEN inbox \cup {EventOf(k)} ELSE inbox
  /\ UseInbox => k.phase = "claimed"
  /\ UNCHANGED <<relayVars, bound, msgs, status, applied, faults>>

LEMMA EffectIsOne ==
  ASSUME IInv, NEW k \in work, ApplyEffect(k) \/ ApplyPickingTask(k)
  PROVE  EffectOf(k)
<1>1. CASE ApplyEffect(k)
  <2>1. UseInbox /\ OrderOf(k) # Poison /\ EventOf(k) \notin inbox /\ inbox = picking
    BY <1>1 DEF ApplyEffect, IInv, EffectInv, CallbackInv, InboxIsEffect
  <2>. QED  BY <1>1, <2>1 DEF ApplyEffect, EffectOf, GoOn
<1>2. CASE ApplyPickingTask(k)
  BY <1>2 DEF ApplyPickingTask, EffectOf, GoOn
<1>. QED  BY <1>1, <1>2

LEMMA EffectStep ==
  ASSUME IInv, NEW k \in work, EffectOf(k)
  PROVE  IInv'
<1>. USE DEF IInv
<1>. DEFINE phase == IF EventOf(k) \in picking THEN "done" ELSE "committed"
<1>. DEFINE j == [k EXCEPT !.phase = phase]
<1>1. /\ work' = (work \ {k}) \cup {j}
      /\ picking' = picking \cup {EventOf(k)}
      /\ inbox' = IF UseInbox THEN inbox \cup {EventOf(k)} ELSE inbox
      /\ UNCHANGED <<relayVars, bound, msgs, status, applied, faults>>
  BY DEF EffectOf
<1>2. k \in Callback /\ k.msg \in DOMAIN msgs /\ msgs[k.msg] \in Message
  BY DEF DataOK
<1>3. j \in Callback /\ j.msg = k.msg /\ j.phase = phase
  BY <1>2 DEF Callback
<1>. HIDE DEF j
<1>4. SameMessages
  BY <1>1, UnchangedMessages
<1>5. /\ OrderOf(k) \in Orders /\ EventOf(k) = <<OrderOf(k), 0>>
      /\ EventOf(k) \in EventIds
  <2>1. OrderOf(k) \in Orders \cup {Poison}
    BY <1>2 DEF OrderOf, Message
  <2>2. EventOf(k) = <<OrderOf(k), 0>>
    BY <1>2 DEF EventOf, OrderOf, IdInv
  <2>3. EventOf(k) \in EventIds
    BY <1>2 DEF EventOf, Message
  <2>. QED  BY <2>1, <2>2, <2>3 DEF EffectOf
<1>6. /\ EventOf(j) = EventOf(k) /\ OrderOf(j) = OrderOf(k)
      /\ \A i \in Callback : EventOf(i)' = EventOf(i) /\ OrderOf(i)' = OrderOf(i)
  BY <1>1, <1>3 DEF EventOf, OrderOf
<1>7. DataOK'
  BY <1>1, <1>2, <1>3, <1>5 DEF DataOK, relayVars
<1>8. EffectInv'
  <2>0. work' \subseteq Callback /\ work \subseteq Callback
    BY <1>7 DEF DataOK
  <2>1. TaskInv'
    <3>1. picking' \subseteq Orders \X {0} /\ picking \subseteq picking'
      BY <1>1, <1>5 DEF EffectInv, TaskInv
    <3>2. ASSUME NEW o \in Orders
          PROVE  applied[o] = 0 \/ (applied[o] = 1 /\ <<o, 0>> \in picking')
      BY <3>1 DEF EffectInv, TaskInv
    <3>3. ASSUME NEW o \in Orders, <<o, 0>> \in picking', applied[o] = 0
          PROVE  faults > 0 \/ \E i \in work' : i.phase = "committed" /\ OrderOf(i) = o
      <4>1. CASE <<o, 0>> \in picking
        <5>1. CASE faults > 0
          BY <5>1
        <5>2. CASE ~(faults > 0)
          <6>1. PICK i \in work : i.phase = "committed" /\ OrderOf(i) = o
            BY <3>3, <4>1, <5>2 DEF EffectInv, TaskInv
          <6>2. i # k
            BY <6>1 DEF EffectOf
          <6>. QED  BY <1>1, <6>1, <6>2
        <5>. QED  BY <5>1, <5>2
      <4>2. CASE <<o, 0>> \notin picking
        <5>1. EventOf(k) = <<o, 0>> /\ OrderOf(k) = o
          BY <1>1, <1>5, <3>3, <4>2
        <5>2. phase = "committed"
          BY <4>2, <5>1
        <5>. QED  BY <1>1, <1>3, <1>6, <5>1, <5>2
      <4>. QED  BY <4>1, <4>2
    <3>. QED  BY <1>1, <1>6, <2>0, <3>1, <3>2, <3>3 DEF TaskInv
  <2>2. InboxIsEffect'
    BY <1>1 DEF EffectInv, InboxIsEffect
  <2>3. AckedIsApplied'
    BY <1>1 DEF EffectInv, AckedIsApplied
  <2>4. \A i \in work :
          /\ i.phase = "claimed" =>
               /\ UseInbox /\ OrderOf(i) # Poison /\ EventOf(i) \notin inbox
               /\ \A h \in work : h.phase = "claimed" /\ EventOf(h) = EventOf(i) => h = i
          /\ i.phase = "committed" =>
               /\ OrderOf(i) \in Orders /\ EventOf(i) \in picking /\ applied[OrderOf(i)] = 0
               /\ \A h \in work : h.phase = "committed" /\ EventOf(h) = EventOf(i) => h = i
          /\ i.phase = "done" => EventOf(i) \in picking
    BY DEF EffectInv, CallbackInv
  <2>5. ASSUME phase = "committed"
        PROVE  /\ applied[OrderOf(k)] = 0
               /\ \A h \in work : h.phase = "committed" => EventOf(h) # EventOf(k)
    <3>1. EventOf(k) \notin picking
      BY <2>5
    <3>. QED  BY <1>5, <2>4, <3>1 DEF EffectInv, TaskInv
  <2>6. ASSUME NEW i \in work'
        PROVE  /\ i.phase = "claimed" =>
                    /\ UseInbox /\ OrderOf(i) # Poison /\ EventOf(i) \notin inbox'
                    /\ \A h \in work' :
                         h.phase = "claimed" /\ EventOf(h) = EventOf(i) => h = i
               /\ i.phase = "committed" =>
                    /\ OrderOf(i) \in Orders /\ EventOf(i) \in picking'
                    /\ applied[OrderOf(i)] = 0
                    /\ \A h \in work' :
                         h.phase = "committed" /\ EventOf(h) = EventOf(i) => h = i
               /\ i.phase = "done" => EventOf(i) \in picking'
    <3>0. j.phase # "claimed"
      BY <1>3
    <3>1. CASE i = j
      <4>1. CASE phase = "committed"
        BY <1>1, <1>3, <1>5, <1>6, <2>5, <3>1, <4>1
      <4>2. CASE phase = "done"
        BY <1>1, <1>3, <1>6, <3>1, <4>2
      <4>. QED  BY <4>1, <4>2
    <3>2. CASE i # j
      <4>1. i \in work /\ i # k
        BY <1>1, <3>2
      <4>2. CASE i.phase = "claimed"
        <5>1. UseInbox => k.phase = "claimed"
          BY DEF EffectOf
        <5>2. UseInbox /\ EventOf(i) # EventOf(k)
          BY <2>4, <4>1, <4>2, <5>1
        <5>. QED  BY <1>1, <2>4, <3>0, <4>1, <4>2, <5>2
      <4>3. CASE i.phase = "committed"
        <5>1. /\ OrderOf(i) \in Orders /\ EventOf(i) \in picking /\ applied[OrderOf(i)] = 0
              /\ \A h \in work : h.phase = "committed" /\ EventOf(h) = EventOf(i) => h = i
          BY <2>4, <4>1, <4>3
        <5>2. j.phase = "committed" => EventOf(j) # EventOf(i)
          BY <1>3, <1>6, <2>5, <4>1, <4>3
        <5>. QED  BY <1>1, <4>3, <5>1, <5>2
      <4>4. CASE i.phase \notin {"claimed", "committed"}
        BY <1>1, <2>4, <4>1, <4>4
      <4>. QED  BY <4>2, <4>3, <4>4
    <3>. QED  BY <3>1, <3>2
  <2>7. CallbackInv'
    BY <1>1, <1>6, <2>0, <2>6 DEF CallbackInv
  <2>. QED  BY <2>1, <2>2, <2>3, <2>7 DEF EffectInv
<1>9. RelayInv'
  <2>1. \A e \in picking' :
          e \in picking \/ \E m \in DOMAIN msgs :
                             msgs[m].order \in Orders /\ msgs[m].id = e
    BY <1>1, <1>2, <1>5 DEF EventOf, OrderOf
  <2>. QED  BY <1>1, <1>4, <2>1, RelayFrame DEF DataOK
<1>. QED  BY <1>4, <1>7, <1>8, <1>9 DEF SameMessages

(* The answer arrives: of all callbacks this one is told.                  *)
LEMMA ToldStep ==
  ASSUME IInv, NEW k \in work, Told(k)
  PROVE  IInv'
<1>. USE DEF IInv
<1>. DEFINE j == [k EXCEPT !.phase = "done"]
<1>1. /\ k.phase = "committed"
      /\ work' = (work \ {k}) \cup {j}
      /\ applied' = [applied EXCEPT ![OrderOf(k)] = @ + 1]
      /\ UNCHANGED <<relayVars, bound, msgs, status, inbox, picking, faults>>
  BY DEF Told, GoOn
<1>2. k \in Callback /\ k.msg \in DOMAIN msgs /\ msgs[k.msg] \in Message
  BY DEF DataOK
<1>3. j \in Callback /\ j.msg = k.msg /\ j.phase = "done"
  BY <1>2 DEF Callback
<1>. HIDE DEF j
<1>4. SameMessages
  BY <1>1, UnchangedMessages
<1>5. /\ OrderOf(k) \in Orders /\ EventOf(k) \in picking /\ applied[OrderOf(k)] = 0
      /\ \A h \in work : h.phase = "committed" /\ EventOf(h) = EventOf(k) => h = k
      /\ EventOf(k) = <<OrderOf(k), 0>>
  BY <1>1, <1>2 DEF EffectInv, CallbackInv, EventOf, OrderOf, IdInv
<1>6. /\ applied' \in [Orders -> Nat]
      /\ applied'[OrderOf(k)] = 1
      /\ \A o \in Orders \ {OrderOf(k)} : applied'[o] = applied[o]
  BY <1>1, <1>5 DEF DataOK
<1>7. /\ EventOf(j) = EventOf(k) /\ OrderOf(j) = OrderOf(k)
      /\ \A i \in Callback : EventOf(i)' = EventOf(i) /\ OrderOf(i)' = OrderOf(i)
  BY <1>1, <1>3 DEF EventOf, OrderOf
<1>8. DataOK'
  BY <1>1, <1>2, <1>3, <1>6 DEF DataOK, relayVars
<1>9. EffectInv'
  <2>0. work' \subseteq Callback /\ work \subseteq Callback
    BY <1>8 DEF DataOK
  <2>1. TaskInv'
    <3>1. ASSUME NEW o \in Orders
          PROVE  /\ applied'[o] = 0 \/ (applied'[o] = 1 /\ <<o, 0>> \in picking)
                 /\ <<o, 0>> \in picking /\ applied'[o] = 0 =>
                      faults > 0 \/ \E i \in work' : i.phase = "committed" /\ OrderOf(i) = o
      <4>1. CASE o = OrderOf(k)
        BY <1>5, <1>6, <4>1
      <4>2. CASE o # OrderOf(k)
        <5>1. /\ applied[o] = 0 \/ (applied[o] = 1 /\ <<o, 0>> \in picking)
              /\ <<o, 0>> \in picking /\ applied[o] = 0 =>
                   faults > 0 \/ \E i \in work : i.phase = "committed" /\ OrderOf(i) = o
          BY DEF EffectInv, TaskInv
        <5>2. \A i \in work : OrderOf(i) = o => i \in work'
          BY <1>1, <4>2
        <5>. QED  BY <1>6, <4>2, <5>1, <5>2
      <4>. QED  BY <4>1, <4>2
    <3>. QED  BY <1>1, <1>7, <2>0, <3>1 DEF EffectInv, TaskInv
  <2>2. InboxIsEffect' /\ AckedIsApplied'
    BY <1>1 DEF EffectInv, InboxIsEffect, AckedIsApplied
  <2>3. \A i \in work :
          /\ i.phase = "claimed" =>
               /\ UseInbox /\ OrderOf(i) # Poison /\ EventOf(i) \notin inbox
               /\ \A h \in work : h.phase = "claimed" /\ EventOf(h) = EventOf(i) => h = i
          /\ i.phase = "committed" =>
               /\ OrderOf(i) \in Orders /\ EventOf(i) \in picking /\ applied[OrderOf(i)] = 0
               /\ \A h \in work : h.phase = "committed" /\ EventOf(h) = EventOf(i) => h = i
          /\ i.phase = "done" => EventOf(i) \in picking
    BY DEF EffectInv, CallbackInv
  <2>4. ASSUME NEW i \in work, i # k, i.phase = "committed"
        PROVE  OrderOf(i) # OrderOf(k)
    <3>1. EventOf(i) = <<OrderOf(i), 0>>
      BY DEF DataOK, EventOf, OrderOf, IdInv
    <3>. QED  BY <1>5, <2>4, <3>1
  <2>5. ASSUME NEW i \in work'
        PROVE  /\ i.phase = "claimed" =>
                    /\ UseInbox /\ OrderOf(i) # Poison /\ EventOf(i) \notin inbox
                    /\ \A h \in work' :
                         h.phase = "claimed" /\ EventOf(h) = EventOf(i) => h = i
               /\ i.phase = "committed" =>
                    /\ OrderOf(i) \in Orders /\ EventOf(i) \in picking
                    /\ applied'[OrderOf(i)] = 0
                    /\ \A h \in work' :
                         h.phase = "committed" /\ EventOf(h) = EventOf(i) => h = i
               /\ i.phase = "done" => EventOf(i) \in picking
    <3>1. CASE i = j
      BY <1>3, <1>5, <1>7, <3>1
    <3>2. CASE i # j
      <4>1. i \in work /\ i # k
        BY <1>1, <3>2
      <4>2. CASE i.phase = "claimed"
        BY <1>1, <1>3, <2>3, <4>1, <4>2
      <4>3. CASE i.phase = "committed"
        BY <1>1, <1>3, <1>6, <2>3, <2>4, <4>1, <4>3
      <4>4. CASE i.phase \notin {"claimed", "committed"}
        BY <2>3, <4>1, <4>4
      <4>. QED  BY <4>2, <4>3, <4>4
    <3>. QED  BY <3>1, <3>2
  <2>6. CallbackInv'
    BY <1>1, <1>7, <2>0, <2>5 DEF CallbackInv
  <2>. QED  BY <2>1, <2>2, <2>6 DEF EffectInv
<1>10. RelayInv'
  BY <1>1, <1>4, RelayFrame DEF DataOK
<1>. QED  BY <1>4, <1>8, <1>9, <1>10 DEF SameMessages

----------------------------------------------------------------------------
(* The invariant.                                                          *)

(* The loop around the passes is no part of the invariant.                 *)
LEMMA LoopStep ==
  ASSUME IInv, NEW w \in Relays, Aborted(w) \/ StartRelay(w)
  PROVE  IInv'
<1>1. /\ UNCHANGED <<relayVars, bound, msgs, status, work, dbVars>>
      /\ faults' = faults \/ faults' = faults + 1
  BY DEF Aborted, StartRelay, Fault, relayVars
<1>2. SameMessages
  BY <1>1, UnchangedMessages DEF IInv
<1>. QED  BY <1>1, <1>2, ReturnFrame DEF IInv, DataOK

LEMMA InitInv == Init => IInv
<1>. SUFFICES ASSUME Init PROVE IInv
  OBVIOUS
<1>. USE PipelineAssumption DEF Init
<1>1. DataOK
  BY DEF DataOK, Batch, NoBatch
<1>2. IdInv
  BY DEF IdInv
<1>3. EffectInv
  BY DEF EffectInv, TaskInv, CallbackInv, InboxIsEffect, AckedIsApplied
<1>4. \A w \in Relays : Locked(w) = {} /\ batch[w].todo = {} /\ batch[w].marks = {}
  BY DEF Locked, NoBatch
<1>5. \A o \in Orders : ~Marked(o) /\ Copies(o) = {}
  BY <1>4 DEF Marked, Copies
<1>6. LockInv /\ TraceInv /\ PlacedInv /\ BoundInv
  BY <1>4, <1>5 DEF LockInv, TraceInv, PlacedInv, BoundInv
<1>7. CountInv
  <2>. SUFFICES ASSUME NEW o \in Orders
                PROVE  Cardinality(Copies(o)) <= faults + (IF Marked(o) THEN 1 ELSE 0)
    BY DEF CountInv
  <2>1. Cardinality(Copies(o)) = 0 /\ ~Marked(o) /\ faults = 0
    BY <1>5, FS_EmptySet
  <2>. QED  BY <2>1
<1>. QED  BY <1>1, <1>2, <1>3, <1>6, <1>7 DEF IInv, RelayInv

LEMMA NextInv == IInv /\ [Next]_vars => IInv'
<1>. SUFFICES ASSUME IInv, [Next]_vars PROVE IInv'
  OBVIOUS
<1>1. CASE UNCHANGED vars
  <2>1. SameMessages
    BY <1>1, UnchangedMessages DEF IInv, vars
  <2>. QED  BY <1>1, <2>1, ReturnFrame DEF vars, relayVars, dbVars, IInv, DataOK
<1>2. CASE \E o \in Orders : Place(o)
  BY <1>2, PlaceStep
<1>3. CASE \E w \in Relays : RunRelay(w) \/ StartRelay(w)
  BY <1>3, SelectStep, PublishStep, CommitStep, PublishFailsStep, RelayFailsStep, LoopStep
     DEF RunRelay, RunPass
<1>4. CASE PublishPoison
  BY <1>4, PublishPoisonStep
<1>5. CASE \E c \in Consumers :
             \/ StartConsumer(c) \/ ConnectionLost(c) \/ ConsumerDies(c) \/ Cancelled(c)
             \/ \E m \in DOMAIN msgs : Deliver(c, m)
  BY <1>5, StartStep, ConsumerStopStep, DeliverStep
<1>6. CASE \E k \in work : CallbackStep(k) \/ ApplyFails(k)
  BY <1>6, RejectStep, ClaimStep, ToldStep, AckStep, ApplyFailsStep, EffectIsOne, EffectStep
     DEF CallbackStep
<1>. QED  BY <1>1, <1>2, <1>3, <1>4, <1>5, <1>6 DEF Next, BrokerStep

LEMMA Invariance == Spec => []IInv
  BY InitInv, NextInv, PTL DEF Spec

(* The number of tasks of an order is told by the one its event can have.  *)
LEMMA TasksCounted ==
  ASSUME NEW S, S \subseteq Orders \X {0}, NEW o \in Orders
  PROVE  Cardinality({e \in S : e[1] = o}) = IF <<o, 0>> \in S THEN 1 ELSE 0
<1>. DEFINE T == {e \in S : e[1] = o}
<1>1. \A e \in T : e = <<o, 0>>
  OBVIOUS
<1>2. CASE <<o, 0>> \in S
  <2>1. T = {<<o, 0>>}
    <3>1. <<o, 0>> \in T
      BY <1>2
    <3>. QED  BY <1>1, <3>1
  <2>2. Cardinality({<<o, 0>>}) = 1
    BY FS_Singleton
  <2>. QED  BY <1>2, <2>1, <2>2
<1>3. CASE <<o, 0>> \notin S
  <2>1. T = {}
    BY <1>1, <1>3
  <2>. QED  BY <1>3, <2>1, FS_EmptySet
<1>. QED  BY <1>2, <1>3

LEMMA InvEffectOnce == IInv => EffectOnce
<1>. SUFFICES ASSUME IInv PROVE OnePickingTask
  BY DEF IInv, EffectInv, EffectOnce
<1>. SUFFICES ASSUME NEW o \in Orders
              PROVE  /\ Cardinality(TasksOf(o)) <= 1
                     /\ applied[o] <= Cardinality(TasksOf(o))
                     /\ Picked(o) /\ applied[o] = 0 =>
                          \/ faults > 0
                          \/ \E k \in work : k.phase = "committed" /\ OrderOf(k) = o
  BY DEF OnePickingTask
<1>1. \A e \in picking : e[1] = o => e = <<o, 0>>
  BY DEF IInv, EffectInv, TaskInv
<1>2. Picked(o) <=> <<o, 0>> \in picking
  BY <1>1 DEF Picked
<1>3. Cardinality(TasksOf(o)) = IF <<o, 0>> \in picking THEN 1 ELSE 0
  BY TasksCounted DEF IInv, EffectInv, TaskInv, TasksOf
<1>4. /\ applied[o] = 0 \/ (applied[o] = 1 /\ <<o, 0>> \in picking)
      /\ <<o, 0>> \in picking /\ applied[o] = 0 =>
           \/ faults > 0
           \/ \E k \in work : k.phase = "committed" /\ OrderOf(k) = o
  BY DEF IInv, EffectInv, TaskInv
<1>. QED  BY <1>2, <1>3, <1>4

LEMMA InvNothingLost == TopologyFirst /\ IInv => NothingLost
<1>. SUFFICES ASSUME TopologyFirst, IInv, NEW o \in Orders, row[o] = "published"
              PROVE  Picked(o) \/ \E m \in Copies(o) : msgs[m].at \in {"ready", "held", "dead"}
  BY DEF NothingLost
<1>1. PICK m \in DOMAIN msgs : m \in Copies(o) /\ msgs[m].order = o
  BY DEF IInv, RelayInv, TraceInv, Marked, Copies
<1>2. msgs[m].at \in {"ready", "held", "acked", "dead"}
  <2>1. msgs[m] \in Message
    BY DEF IInv, DataOK
  <2>2. msgs[m].at # "dropped"
    BY DEF IInv, RelayInv, BoundInv
  <2>. QED  BY <2>1, <2>2 DEF Message
<1>3. CASE msgs[m].at = "acked"
  <2>1. msgs[m].id \in picking /\ msgs[m].id[1] = o
    BY <1>1, <1>3 DEF IInv, IdInv, EffectInv, AckedIsApplied
  <2>. QED  BY <2>1 DEF Picked
<1>. QED  BY <1>1, <1>2, <1>3

LEMMA InvDuplicates == IInv => DuplicatesNeedFailures
<1>. SUFFICES ASSUME IInv, NEW o \in Orders
              PROVE  Cardinality(Copies(o)) <= 1 + faults
  BY DEF DuplicatesNeedFailures
<1>1. Cardinality(Copies(o)) <= faults + (IF Marked(o) THEN 1 ELSE 0)
  BY DEF IInv, RelayInv, CountInv
<1>2. Cardinality(Copies(o)) \in Nat /\ faults \in Nat
  BY CopiesFinite DEF IInv, DataOK
<1>3. CASE Marked(o)
  BY <1>1, <1>2, <1>3
<1>4. CASE ~Marked(o)
  BY <1>1, <1>2, <1>4
<1>. QED  BY <1>3, <1>4

----------------------------------------------------------------------------
(* Theorems.                                                               *)

(* The variables of the pipeline keep their types (relay.ts, consumer.ts). *)
THEOREM TypeCorrect == Spec => []TypeOK
<1>. DEFINE J == running \subseteq Relays
<1>1. Init => J
  BY DEF Init
<1>2. J /\ [Next]_vars => J'
  BY DEF Next, RunRelay, RunPass, StartRelay, vars
<1>3. IInv => DataOK
  BY DEF IInv
<1>4. DataOK /\ J => TypeOK
  BY DEF TypeOK
<1>. HIDE DEF J
<1>. QED  BY <1>1, <1>2, <1>3, <1>4, Invariance, PTL DEF Spec

(* Whatever is published twice, redelivered, or worked on by several       *)
(* callbacks at once, with the inbox or with ON CONFLICT alone, an order   *)
(* has one picking task; at most one callback learns that it applied it,   *)
(* and none does only when a failure took the answer; a message is         *)
(* acknowledged only after its effect (inbox.ts, effect.ts, consumer.ts).  *)
THEOREM OneEffect == Spec => []EffectOnce
  BY Invariance, InvEffectOnce, PTL

(* With the topology declared first, a row marked published has its task,  *)
(* or a copy at the broker (relay.ts: publish, then mark).                 *)
THEOREM NoEventLost ==
  ASSUME TopologyFirst
  PROVE  Spec => []NothingLost
<1>1. IInv => NothingLost
  BY InvNothingLost
<1>. QED  BY <1>1, Invariance, PTL

(* However many relays share the outbox, a second copy of an event has a   *)
(* failure behind it (relay.ts: FOR UPDATE SKIP LOCKED).                   *)
THEOREM CopiesCostFailures == Spec => []DuplicatesNeedFailures
  BY Invariance, InvDuplicates, PTL

----------------------------------------------------------------------------
(* Refinement.                                                             *)

PlacedOrders == {o \in Orders : row[o] # "none"}
TaskCount == [o \in Orders |-> Cardinality(TasksOf(o))]

LEMMA RefineFrame ==
  ASSUME UNCHANGED picking, \A o \in Orders : row'[o] = "none" <=> row[o] = "none"
  PROVE  PlacedOrders' = PlacedOrders /\ TaskCount' = TaskCount
  BY DEF PlacedOrders, TaskCount, TasksOf

LEMMA RefinePlace ==
  ASSUME DataOK, NEW o \in Orders, Place(o)
  PROVE  Warehouse!Place(o)
<1>1. o \notin PlacedOrders /\ PlacedOrders' = PlacedOrders \cup {o}
  BY DEF PlacedOrders, Place, DataOK
<1>2. TaskCount' = TaskCount
  BY DEF TaskCount, TasksOf, Place, dbVars
<1>. QED  BY <1>1, <1>2 DEF Warehouse!Place, PlacedOrders, TaskCount

(* The first effect of an event is a Pick, every other one a stutter.      *)
LEMMA RefineEffect ==
  ASSUME IInv, NEW k \in work, EffectOf(k)
  PROVE  \/ PlacedOrders' = PlacedOrders /\ TaskCount' = TaskCount
         \/ \E o \in Orders : Warehouse!Pick(o)
<1>1. k.msg \in DOMAIN msgs /\ msgs[k.msg] \in Message
  BY DEF IInv, DataOK
<1>2. PICK o \in Orders : o = OrderOf(k) /\ EventOf(k) = <<o, 0>>
  BY <1>1 DEF OrderOf, EventOf, Message, IInv, IdInv, EffectOf
<1>3. picking' = picking \cup {<<o, 0>>} /\ PlacedOrders' = PlacedOrders
  BY <1>2 DEF EffectOf, relayVars, PlacedOrders
<1>4. CASE <<o, 0>> \in picking
  <2>1. picking' = picking
    BY <1>3, <1>4
  <2>. QED  BY <1>3, <2>1 DEF TaskCount, TasksOf
<1>5. CASE <<o, 0>> \notin picking
  <2>1. o \in PlacedOrders
    BY <1>1, <1>2 DEF PlacedOrders, IInv, RelayInv, PlacedInv, Copies, OrderOf
  <2>2. TaskInv /\ TaskInv'
    <3>1. IInv'
      BY EffectStep
    <3>. QED  BY <3>1 DEF IInv, EffectInv
  <2>3. /\ \A p \in Orders : Cardinality(TasksOf(p)) = IF <<p, 0>> \in picking THEN 1 ELSE 0
        /\ \A p \in Orders : Cardinality(TasksOf(p))' = IF <<p, 0>> \in picking' THEN 1 ELSE 0
    BY <2>2, TasksCounted DEF TaskInv, TasksOf
  <2>4. TaskCount[o] = 0 /\ TaskCount' = [TaskCount EXCEPT ![o] = 1]
    <3>1. TaskCount[o] = 0
      BY <1>5, <2>3 DEF TaskCount
    <3>2. TaskCount'[o] = 1
      BY <1>3, <2>3 DEF TaskCount
    <3>3. ASSUME NEW p \in Orders, p # o
          PROVE  TaskCount'[p] = TaskCount[p]
      <4>1. <<p, 0>> \in picking' <=> <<p, 0>> \in picking
        BY <1>3, <3>3
      <4>. QED  BY <2>3, <4>1 DEF TaskCount
    <3>. QED  BY <3>1, <3>2, <3>3 DEF TaskCount
  <2>5. Warehouse!Pick(o)
    BY <1>3, <2>1, <2>4 DEF Warehouse!Pick, PlacedOrders, TaskCount
  <2>. QED  BY <2>5
<1>. QED  BY <1>4, <1>5

LEMMA RefineStep == IInv /\ [Next]_vars => [Warehouse!Next]_(Warehouse!pickVars)
<1>. SUFFICES ASSUME IInv, [Next]_vars
              PROVE  Warehouse!Next \/ (PlacedOrders' = PlacedOrders /\ TaskCount' = TaskCount)
  BY DEF Warehouse!pickVars, PlacedOrders, TaskCount
<1>1. CASE UNCHANGED <<row, picking>>
  BY <1>1 DEF PlacedOrders, TaskCount, TasksOf
<1>2. CASE \E o \in Orders : Place(o)
  <2>1. PICK o \in Orders : Warehouse!Place(o)
    BY <1>2, RefinePlace DEF IInv
  <2>2. Warehouse!Next
    BY <2>1 DEF Warehouse!Next
  <2>. QED  BY <2>2
<1>3. ASSUME NEW w \in Relays, CommitBatch(w)
      PROVE  PlacedOrders' = PlacedOrders /\ TaskCount' = TaskCount
  <2>1. \A o \in batch[w].marks : row[o] = "pending"
    BY DEF IInv, RelayInv, LockInv, Locked
  <2>2. /\ row' = [o \in Orders |-> IF o \in batch[w].marks THEN "published" ELSE row[o]]
        /\ UNCHANGED picking
    BY <1>3 DEF CommitBatch, dbVars
  <2>3. \A o \in Orders : row'[o] = "none" <=> row[o] = "none"
    BY <2>1, <2>2
  <2>. QED  BY <2>2, <2>3, RefineFrame
<1>4. ASSUME NEW k \in work, ApplyEffect(k) \/ ApplyPickingTask(k)
      PROVE  Warehouse!Next \/ (PlacedOrders' = PlacedOrders /\ TaskCount' = TaskCount)
  <2>1. \/ PlacedOrders' = PlacedOrders /\ TaskCount' = TaskCount
        \/ \E o \in Orders : Warehouse!Pick(o)
    BY <1>4, EffectIsOne, RefineEffect
  <2>2. CASE \E o \in Orders : Warehouse!Pick(o)
    <3>1. PICK o \in Orders : Warehouse!Pick(o)
      BY <2>2
    <3>2. Warehouse!Next
      BY <3>1 DEF Warehouse!Next
    <3>. QED  BY <3>2
  <2>. QED  BY <2>1, <2>2
<1>5. CASE Next
  <2>1. ASSUME NEW w \in Relays,
               \/ SelectBatch(w) \/ Publish(w) \/ PublishFails(w) \/ RelayFails(w)
               \/ Aborted(w) \/ StartRelay(w)
        PROVE  UNCHANGED <<row, picking>>
    BY <2>1 DEF SelectBatch, Publish, PublishFails, RelayFails, Aborted, StartRelay,
                relayVars, dbVars
  <2>2. ASSUME PublishPoison
        PROVE  UNCHANGED <<row, picking>>
    BY <2>2 DEF PublishPoison, relayVars, dbVars
  <2>3. ASSUME NEW c \in Consumers,
               \/ StartConsumer(c) \/ ConnectionLost(c) \/ ConsumerDies(c) \/ Cancelled(c)
               \/ \E m \in DOMAIN msgs : Deliver(c, m)
        PROVE  UNCHANGED <<row, picking>>
    BY <2>3 DEF StartConsumer, ConnectionLost, ConsumerDies, Cancelled, Deliver,
                relayVars, dbVars
  <2>4. ASSUME NEW k \in work,
               Reject(k) \/ ClaimInbox(k) \/ Told(k) \/ Ack(k) \/ ApplyFails(k)
        PROVE  UNCHANGED <<row, picking>>
    BY <2>4 DEF Reject, ClaimInbox, Told, Ack, ApplyFails, relayVars, dbVars
  <2>. QED  BY <1>1, <1>2, <1>3, <1>4, <1>5, <2>1, <2>2, <2>3, <2>4
            DEF Next, RunRelay, RunPass, BrokerStep, CallbackStep
<1>6. CASE UNCHANGED vars
  BY <1>1, <1>6 DEF vars
<1>. QED  BY <1>5, <1>6

(* The pipeline with all its failures implements "a placed order gets its  *)
(* task, and never a second one" of PickOnce.                              *)
THEOREM PicksOnce == Spec => ImplementsPickOnce
<1>1. Init => Warehouse!Init
  <2>. SUFFICES ASSUME Init PROVE Warehouse!Init
    OBVIOUS
  <2>1. \A o \in Orders : TasksOf(o) = {}
    BY DEF Init, TasksOf
  <2>2. TaskCount = [o \in Orders |-> 0] /\ PlacedOrders = {}
    BY <2>1, FS_EmptySet DEF TaskCount, PlacedOrders, Init
  <2>. QED  BY <2>2 DEF Warehouse!Init, TaskCount, PlacedOrders
<1>. QED  BY <1>1, RefineStep, Invariance, PTL DEF Spec, ImplementsPickOnce, Warehouse!Spec

----------------------------------------------------------------------------
=============================================================================

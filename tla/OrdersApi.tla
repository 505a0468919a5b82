----------------------------- MODULE OrdersApi -----------------------------
(***************************************************************************)
(* The in-memory orders and their event streams (src/orders): POST /orders *)
(* with an idempotency map, PATCH status, the event bus with its ring      *)
(* buffers, SSE readers that reconnect with Last-Event-ID, WebSocket       *)
(* clients that join a room.                                               *)
(*                                                                         *)
(* Two programs serve the contract of openapi.yaml: the Nest application   *)
(* ("nest"), which reads prices from Postgres, and app.cjs ("stub"), which *)
(* has its products in memory and neither PATCH nor streams.               *)
(*                                                                         *)
(* Node runs a handler without interruption between two awaits: that is    *)
(* one action.  Everything here is lost when the process restarts.         *)
(***************************************************************************)
EXTENDS Integers, Sequences, SequencesExt, FiniteSets

CONSTANTS Handlers, Keys, Bodies,
          Readers,         \* SSE clients
          Sockets,         \* WebSocket clients
          None,
          SeedOrders,      \* orders the service starts with
          BufferSize,      \* BUFFER_SIZE of the bus
          MaxOrders,       \* bound: orders in memory
          MaxEvents,       \* bound: status changes
          MaxDrops         \* bound: connections lost and restarts

ASSUME OrdersApiAssumption ==
  /\ SeedOrders \in Nat /\ MaxOrders \in Nat \ {0} /\ SeedOrders <= MaxOrders
  /\ BufferSize \in Nat \ {0}
  /\ None \notin Keys \cup Bodies \cup (1 .. MaxOrders)

VARIABLES
  server,         \* which of the two programs runs
  orders,         \* the array: the body of the order at each position
  idempotency,    \* key -> hash of the body and the order itself, or None
  request,        \* per handler: the POST that awaits prices, or None
  overlapped,     \* history: keys that two requests have awaited at once
  answers,        \* 201 responses since the last restart
  buffers, sequences,   \* of the event bus, by order
  reader, socket,
  epoch, drops    \* restarts; connections lost and restarts

vars == <<server, orders, idempotency, request, overlapped, answers, buffers,
          sequences, reader, socket, epoch, drops>>
postVars == <<server, idempotency, request, overlapped, answers>>
busVars == <<buffers, sequences>>
clientVars == <<reader, socket>>

Ids == 1 .. MaxOrders

(* What statuses an event carries makes no difference to its way.          *)
Event == [order : Ids, id : Nat]

Record == [hash : Bodies, order : Ids]

ASSUME NoneIsNoRecord == None \notin Record

Answer == [key : Keys, body : Bodies, order : Ids]

(* A reader keeps the id of the last event it saw ("cursor", with the      *)
(* epoch it is from) when its connection is gone.                          *)
Reader == [order : Ids \cup {None}, open : BOOLEAN, wire : Seq(Event), cursor : Nat, of : Nat]
NewReader == [order |-> None, open |-> FALSE, wire |-> <<>>, cursor |-> 0, of |-> 0]

(* "joining": in the room, the ack is not sent yet.                        *)
Socket == [order : Ids, phase : {"out", "joining", "in"}, ack : Nat,
           live : SUBSET Nat]
NewSocket == [order |-> 1, phase |-> "out", ack |-> 0, live |-> {}]

Seeds == [i \in 1 .. SeedOrders |-> None]

Init ==
  /\ server \in {"nest", "stub"}
  /\ orders = Seeds
  /\ idempotency = [k \in Keys |-> None]
  /\ request = [h \in Handlers |-> None]
  /\ overlapped = {}
  /\ answers = {}
  /\ buffers = [o \in Ids |-> <<>>]
  /\ sequences = [o \in Ids |-> 0]
  /\ reader = [c \in Readers |-> NewReader]
  /\ socket = [s \in Sockets |-> NewSocket]
  /\ epoch = 0
  /\ drops = 0

----------------------------------------------------------------------------
(* POST /orders.                                                           *)

Respond(k, b, id) ==
  answers' = answers \cup {[key |-> k, body |-> b, order |-> id]}

(* Mutant: the hash of the body is not compared.                           *)
ReplayAnyBody(k, b) ==
  /\ idempotency[k] # None
  /\ Respond(k, b, idempotency[k].order)

(* The same key with the same body gets the order of the key; with another *)
(* body it gets 422, which changes nothing.                                *)
Replay(k, b) ==
  /\ idempotency[k] # None
  /\ idempotency[k].hash = b
  /\ Respond(k, b, idempotency[k].order)

(* Mutant: the order is kept, its key is not.                              *)
PushWithoutKey(k, b) ==
  /\ Len(orders) < MaxOrders
  /\ orders' = Append(orders, b)
  /\ Respond(k, b, Len(orders) + 1)
  /\ UNCHANGED idempotency

(* push, remember the key, answer.  The snapshot in the map is the order   *)
(* object itself.                                                          *)
Push(k, b) ==
  /\ Len(orders) < MaxOrders
  /\ LET id == Len(orders) + 1
     IN /\ orders' = Append(orders, b)
        /\ idempotency' = [idempotency EXCEPT ![k] = [hash |-> b, order |-> id]]
        /\ Respond(k, b, id)

(* create up to its first await: replay, 422, or go and ask for prices.    *)
Post(h, k, b) ==
  /\ server = "nest"
  /\ request[h] = None
  /\ \/ Replay(k, b) /\ UNCHANGED <<request, overlapped>>
     \/ /\ idempotency[k] = None
        /\ request' = [request EXCEPT ![h] = [key |-> k, body |-> b]]
        /\ overlapped' = IF \E g \in Handlers : request[g] # None /\ request[g].key = k
                           THEN overlapped \cup {k} ELSE overlapped
        /\ UNCHANGED answers
  /\ UNCHANGED <<server, orders, idempotency, busVars, clientVars, epoch, drops>>

(* The prices came.                                                        *)
Create(h) ==
  /\ request[h] # None
  /\ Push(request[h].key, request[h].body)
  /\ request' = [request EXCEPT ![h] = None]
  /\ UNCHANGED <<server, overlapped, busVars, clientVars, epoch, drops>>

(* No such product, or the database fails: nothing is kept, not the key.   *)
CreateFails(h) ==
  /\ request[h] # None
  /\ request' = [request EXCEPT ![h] = None]
  /\ UNCHANGED <<server, orders, idempotency, overlapped, answers, busVars,
                 clientVars, epoch, drops>>

(* POST /orders of app.cjs: the same decisions in one synchronous handler. *)
PostAtStub(k, b) ==
  /\ server = "stub"
  /\ \/ Replay(k, b) /\ UNCHANGED <<orders, idempotency>>
     \/ idempotency[k] = None /\ Push(k, b)
  /\ UNCHANGED <<server, request, overlapped, busVars, clientVars, epoch, drops>>

----------------------------------------------------------------------------
(* PATCH status and the bus.                                               *)

(* The ring: the last n elements.                                          *)
LastOf(s, n) == IF Len(s) > n THEN SubSeq(s, Len(s) - n + 1, Len(s)) ELSE s

(* Mutant: a subscription that does not look at order_id.                  *)
WiresOfAll(e) ==
  [c \in Readers |-> IF reader[c].open THEN [reader[c] EXCEPT !.wire = Append(@, e)]
                                       ELSE reader[c]]

(* Every open response of the order gets the event.                        *)
Wires(e) ==
  [c \in Readers |->
     IF reader[c].open /\ reader[c].order = e.order
       THEN [reader[c] EXCEPT !.wire = Append(@, e)] ELSE reader[c]]

(* server.to(room).emit                                                    *)
Rooms(e) ==
  [s \in Sockets |->
     IF socket[s].phase # "out" /\ socket[s].order = e.order
       THEN [socket[s] EXCEPT !.live = @ \cup {e.id}] ELSE socket[s]]

Ring(s, e) == LastOf(Append(s, e), BufferSize)

(* updateStatus, publish, and both subscribers, in one synchronous call.   *)
UpdateStatus(o) ==
  /\ server = "nest"
  /\ o \in DOMAIN orders
  /\ MapThenSumSet(LAMBDA i : sequences[i], Ids) < MaxEvents
  /\ LET e == [order |-> o, id |-> sequences[o] + 1]
     IN /\ sequences' = [sequences EXCEPT ![o] = e.id]
        /\ buffers' = [buffers EXCEPT ![o] = Ring(@, e)]
        /\ reader' = Wires(e)
        /\ socket' = Rooms(e)
  /\ UNCHANGED <<orders, postVars, epoch, drops>>

----------------------------------------------------------------------------
(* SSE.                                                                    *)

(* buffer.filter((e) => e.id > lastEventId)                                *)
Since(buffer, last) ==
  LET kept[i \in 0 .. Len(buffer)] ==
        IF i = 0 THEN <<>>
        ELSE IF buffer[i].id > last THEN Append(kept[i - 1], buffer[i])
        ELSE kept[i - 1]
  IN kept[Len(buffer)]

ReplaySince(o, last) == Since(buffers[o], last)

(* Mutant: the stream is subscribed to, but the buffer is not replayed.    *)
OpenWithoutReplay(c, o) ==
  /\ server = "nest" /\ ~reader[c].open
  /\ o \in DOMAIN orders
  /\ reader[c].order \in {None, o}
  /\ reader' = [reader EXCEPT ![c] = [@ EXCEPT !.order = o, !.open = TRUE, !.wire = <<>>]]
  /\ UNCHANGED <<orders, postVars, busVars, socket, epoch, drops>>

(* GET /orders/o/events with Last-Event-ID: the buffer after it, then the  *)
(* subscription, with nothing in between.  A reader comes back to the URL  *)
(* it was given first.                                                     *)
OpenStream(c, o) ==
  /\ server = "nest" /\ ~reader[c].open
  /\ o \in DOMAIN orders
  /\ reader[c].order \in {None, o}
  /\ reader' = [reader EXCEPT ![c] =
       [@ EXCEPT !.order = o, !.open = TRUE, !.wire = ReplaySince(o, reader[c].cursor)]]
  /\ UNCHANGED <<orders, postVars, busVars, socket, epoch, drops>>

(* The client reads the next event and remembers its id.                   *)
Read(c) ==
  /\ reader[c].wire # <<>>
  /\ reader' = [reader EXCEPT ![c] =
       [order |-> reader[c].order, open |-> reader[c].open, wire |-> Tail(reader[c].wire),
        cursor |-> Head(reader[c].wire).id, of |-> epoch]]
  /\ UNCHANGED <<orders, postVars, busVars, socket, epoch, drops>>

(* Without a connection a reader has what it remembers.                    *)
Closed(r) ==
  [order |-> r.order, open |-> FALSE, wire |-> <<>>, cursor |-> r.cursor, of |-> r.of]

(* The connection breaks: unread events are lost, the subscription ends.   *)
StreamLost(c) ==
  /\ reader[c].open
  /\ drops < MaxDrops
  /\ drops' = drops + 1
  /\ reader' = [reader EXCEPT ![c] = Closed(reader[c])]
  /\ UNCHANGED <<orders, postVars, busVars, socket, epoch>>

----------------------------------------------------------------------------
(* WebSocket.                                                              *)

(* Mutant: the ack counts the events before the last one.                  *)
JoinAckOffByOne(s) ==
  /\ socket[s].phase = "joining"
  /\ socket' = [socket EXCEPT ![s] = [@ EXCEPT !.phase = "in",
                  !.ack = IF sequences[socket[s].order] = 0 THEN 0 ELSE sequences[socket[s].order] - 1]]
  /\ UNCHANGED <<orders, postVars, busVars, reader, epoch, drops>>

(* join by the owner of order o, up to "await client.join(room)".  A join  *)
(* that is refused changes nothing.                                        *)
Join(s, o) ==
  /\ server = "nest"
  /\ socket[s].phase = "out"
  /\ o \in DOMAIN orders
  /\ socket' = [socket EXCEPT
       ![s] = [order |-> o, phase |-> "joining", ack |-> 0, live |-> {}]]
  /\ UNCHANGED <<orders, postVars, busVars, reader, epoch, drops>>

(* The ack tells the last event id of the order.                           *)
JoinAck(s) ==
  /\ socket[s].phase = "joining"
  /\ socket' = [socket EXCEPT ![s] = [@ EXCEPT !.phase = "in",
                                               !.ack = sequences[socket[s].order]]]
  /\ UNCHANGED <<orders, postVars, busVars, reader, epoch, drops>>

SocketLost(s) ==
  /\ socket[s].phase # "out"
  /\ drops < MaxDrops
  /\ drops' = drops + 1
  /\ socket' = [socket EXCEPT ![s] = NewSocket]
  /\ UNCHANGED <<orders, postVars, busVars, reader, epoch>>

----------------------------------------------------------------------------

(* The process restarts with its seed; clients keep what they know.        *)
Restart ==
  /\ drops < MaxDrops
  /\ drops' = drops + 1
  /\ epoch' = epoch + 1
  /\ orders' = Seeds
  /\ idempotency' = [k \in Keys |-> None]
  /\ request' = [h \in Handlers |-> None]
  /\ overlapped' = {}
  /\ answers' = {}
  /\ buffers' = [o \in Ids |-> <<>>]
  /\ sequences' = [o \in Ids |-> 0]
  /\ reader' = [c \in Readers |-> Closed(reader[c])]
  /\ socket' = [s \in Sockets |-> NewSocket]
  /\ UNCHANGED server

Next ==
  \/ \E h \in Handlers :
       \/ \E k \in Keys, b \in Bodies : Post(h, k, b)
       \/ Create(h) \/ CreateFails(h)
  \/ \E k \in Keys, b \in Bodies : PostAtStub(k, b)
  \/ \E o \in Ids : UpdateStatus(o)
  \/ \E c \in Readers : Read(c) \/ StreamLost(c) \/ \E o \in Ids : OpenStream(c, o)
  \/ \E s \in Sockets : JoinAck(s) \/ SocketLost(s) \/ \E o \in Ids : Join(s, o)
  \/ Restart

(* EventSource reconnects by itself, and TCP delivers.                     *)
Fairness ==
  \A c \in Readers : WF_vars(Read(c)) /\ WF_vars(\E o \in Ids : OpenStream(c, o))

Spec == Init /\ [][Next]_vars
FairSpec == Spec /\ Fairness

----------------------------------------------------------------------------
(* Properties.                                                             *)

TypeOK ==
  /\ orders \in Seq(Bodies \cup {None}) /\ Len(orders) <= MaxOrders
  /\ server \in {"nest", "stub"}
  /\ idempotency \in [Keys -> Record \cup {None}]
  /\ overlapped \subseteq Keys
  /\ answers \subseteq Answer
  /\ \A o \in Ids : buffers[o] \in Seq(Event) /\ Len(buffers[o]) <= BufferSize
  /\ sequences \in [Ids -> Nat]
  /\ reader \in [Readers -> Reader]
  /\ socket \in [Sockets -> Socket]
  /\ epoch \in Nat /\ drops \in Nat

(* An open stream owes its reader exactly the events after the last one it *)
(* read, in order, none twice and none skipped, up to the newest; only     *)
(* events older than the ring may be missing.  A reader whose cursor is    *)
(* from before a restart may miss events that were published before it     *)
(* came back (their ids started again), but what it gets has no hole.      *)
StreamIsGapless ==
  \A c \in Readers :
    LET r == reader[c]
        last == sequences[r.order]
    IN r.open =>
         /\ \A i \in DOMAIN r.wire :
              r.wire[i].order = r.order /\ r.wire[i].id = last - Len(r.wire) + i
         /\ \/ r.cursor + Len(r.wire) = last
            \/ r.cursor + Len(r.wire) < last /\ Len(r.wire) >= BufferSize
            \/ r.cursor # 0 /\ r.of # epoch

(* The lastEventId of the ack is a safe place to start from: every event   *)
(* after it reached the socket, so history plus live events has no hole.   *)
AckHasNoHole ==
  \A s \in Sockets : socket[s].phase = "in" =>
    ((socket[s].ack + 1) .. sequences[socket[s].order]) \subseteq socket[s].live

(* A key that was used with another body is never answered with that       *)
(* body's order, also when both requests were in flight together.          *)
AnswerFitsBody ==
  \A a \in answers : orders[a.order] = a.body

(* openapi.yaml on Idempotency-Key: the same key returns the same order.   *)
(* app.cjs keeps that promise; the Nest service breaks it only when two    *)
(* requests of the key awaited prices at the same time.                    *)
DoublesNeedOverlap ==
  \A a, b \in answers :
    a.key = b.key /\ a.order # b.order => server = "nest" /\ a.key \in overlapped

(* Both of them.                                                           *)
KeyNamesOneOrder == AnswerFitsBody /\ DoublesNeedOverlap

(* A reader of an order catches up with every event that is published, or  *)
(* the process restarts.                                                   *)
ReaderCatchesUp ==
  \A c \in Readers, n \in 1 .. MaxEvents, e \in 0 .. MaxDrops :
    (epoch = e /\ reader[c].open /\ sequences[reader[c].order] >= n)
      ~> (epoch # e \/ reader[c].cursor >= n)
=============================================================================

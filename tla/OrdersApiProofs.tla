-------------------------- MODULE OrdersApiProofs --------------------------
(***************************************************************************)
(* KeyNamesOneOrder, AckHasNoHole and StreamIsGapless for every number of  *)
(* handlers, keys, bodies, readers, sockets, events, lost connections and  *)
(* restarts, and every size of the ring.                                   *)
(***************************************************************************)
EXTENDS OrdersApi, SequenceTheorems, NaturalsInduction, WellFoundedInduction, TLAPS

Request == [key : Keys, body : Bodies]

LEMMA IdsStart == 1 \in Ids
  BY OrdersApiAssumption DEF Ids

PostTypeOK ==
  /\ orders \in Seq(Bodies \cup {None}) /\ Len(orders) <= MaxOrders
  /\ server \in {"nest", "stub"}
  /\ idempotency \in [Keys -> Record \cup {None}]
  /\ request \in [Handlers -> Request \cup {None}]
  /\ overlapped \subseteq Keys
  /\ answers \subseteq Answer

(* Whoever is told an order, or will be by the map, is told an order with  *)
(* that body.                                                              *)
BodyInv ==
  /\ \A a \in answers : a.order \in DOMAIN orders /\ orders[a.order] = a.body
  /\ \A k \in Keys : idempotency[k] # None =>
       /\ idempotency[k].order \in DOMAIN orders
       /\ orders[idempotency[k].order] = idempotency[k].hash

(* Only Nest awaits anything.  A key that no two requests awaited together *)
(* has at most one request, which found the map empty and still does.      *)
RequestInv ==
  \A h \in Handlers : request[h] # None =>
    /\ server = "nest"
    /\ request[h].key \notin overlapped =>
         /\ idempotency[request[h].key] = None
         /\ \A g \in Handlers : request[g] # None /\ request[g].key = request[h].key => g = h

(* The answers for such a key all name the order in the map.               *)
KeyInv ==
  \A a \in answers : server = "stub" \/ a.key \notin overlapped =>
    /\ idempotency[a.key] # None
    /\ idempotency[a.key].order = a.order

PostInv == PostTypeOK /\ BodyInv /\ RequestInv /\ KeyInv

SocketTypeOK ==
  /\ sequences \in [Ids -> Nat]
  /\ socket \in [Sockets -> Socket]

SocketInv == SocketTypeOK /\ AckHasNoHole

----------------------------------------------------------------------------
(* POST /orders.                                                           *)

LEMMA InitPostInv == Init => PostInv
<1>. SUFFICES ASSUME Init PROVE PostInv
  OBVIOUS
<1>. USE DEF Init
<1>1. orders \in Seq(Bodies \cup {None}) /\ Len(orders) = SeedOrders
  BY OrdersApiAssumption DEF Seeds
<1>2. PostTypeOK
  BY <1>1, OrdersApiAssumption DEF PostTypeOK
<1>. QED  BY <1>2 DEF PostInv, BodyInv, RequestInv, KeyInv

(* push: the new order and the key that remembers it.                      *)
LEMMA PushInv ==
  ASSUME PostInv, NEW k \in Keys, NEW b \in Bodies, Push(k, b), idempotency[k] = None \/ k \in overlapped,
         UNCHANGED <<server, overlapped>>,
         \/ server = "nest" /\ \E h \in Handlers :
              request[h] # None /\ request[h].key = k /\ request' = [request EXCEPT ![h] = None]
         \/ server = "stub" /\ idempotency[k] = None /\ UNCHANGED request
  PROVE  PostInv'
<1>. USE DEF PostInv
<1>. DEFINE id == Len(orders) + 1
            r == [hash |-> b, order |-> id]
            a == [key |-> k, body |-> b, order |-> id]
<1>1. id \in Ids /\ r \in Record /\ r # None /\ a \in Answer
  BY OrdersApiAssumption, NoneIsNoRecord DEF Push, PostTypeOK, Ids, Record, Answer
<1>2. /\ orders' = Append(orders, b)
      /\ idempotency' = [idempotency EXCEPT ![k] = r]
      /\ answers' = answers \cup {a}
  BY DEF Push, Respond
<1>3. /\ orders' \in Seq(Bodies \cup {None}) /\ Len(orders') = id
      /\ orders'[id] = b
      /\ \A i \in DOMAIN orders : i \in DOMAIN orders' /\ orders'[i] = orders[i]
      /\ id \in DOMAIN orders'
  BY <1>2 DEF PostTypeOK
<1>4. PostTypeOK'
  BY <1>1, <1>2, <1>3 DEF PostTypeOK, Ids
<1>5. BodyInv'
  BY <1>1, <1>2, <1>3 DEF BodyInv, PostTypeOK
<1>6. RequestInv'
  BY <1>1, <1>2 DEF RequestInv, PostTypeOK
<1>7. KeyInv'
  <2>. SUFFICES ASSUME NEW c \in answers', server = "stub" \/ c.key \notin overlapped
                PROVE  idempotency'[c.key] # None /\ idempotency'[c.key].order = c.order
    BY DEF KeyInv
  <2>1. CASE c = a
    BY <1>1, <1>2, <2>1 DEF PostTypeOK
  <2>2. CASE c # a
    <3>1. c \in answers /\ c.key \in Keys
      BY <1>2, <2>2 DEF PostTypeOK, Answer
    <3>2. idempotency[c.key] # None /\ idempotency[c.key].order = c.order
      BY <3>1 DEF KeyInv
    <3>3. c.key # k
      BY <3>2
    <3>. QED  BY <1>2, <3>1, <3>2, <3>3 DEF PostTypeOK
  <2>. QED  BY <2>1, <2>2
<1>. QED  BY <1>4, <1>5, <1>6, <1>7

(* A replay only names what the map names.                                 *)
LEMMA ReplayInv ==
  ASSUME PostInv, NEW k \in Keys, NEW b \in Bodies, Replay(k, b),
         UNCHANGED <<server, orders, idempotency, request, overlapped>>
  PROVE  PostInv'
<1>. USE DEF PostInv
<1>. DEFINE a == [key |-> k, body |-> b, order |-> idempotency[k].order]
<1>1. a \in Answer /\ answers' = answers \cup {a} /\ idempotency[k] # None
  BY DEF PostTypeOK, Answer, Record, Replay, Respond
<1>2. PostTypeOK'
  BY <1>1 DEF PostTypeOK
<1>3. BodyInv'
  BY <1>1 DEF BodyInv, Replay
<1>4. RequestInv' /\ KeyInv'
  BY <1>1 DEF RequestInv, KeyInv
<1>. QED  BY <1>2, <1>3, <1>4

LEMMA NextPostInv == PostInv /\ [Next]_vars => PostInv'
<1>. SUFFICES ASSUME PostInv, [Next]_vars PROVE PostInv'
  OBVIOUS
<1>. USE DEF PostInv, postVars
<1>1. ASSUME NEW h \in Handlers, NEW k \in Keys, NEW b \in Bodies, Post(h, k, b)
      PROVE  PostInv'
  <2>1. CASE Replay(k, b) /\ UNCHANGED <<request, overlapped>>
    BY <1>1, <2>1, ReplayInv DEF Post
  <2>2. CASE idempotency[k] = None /\ request' = [request EXCEPT ![h] = [key |-> k, body |-> b]]
    <3>1. /\ UNCHANGED <<server, orders, idempotency, answers>>
          /\ overlapped' = IF \E g \in Handlers : request[g] # None /\ request[g].key = k
                             THEN overlapped \cup {k} ELSE overlapped
          /\ request[h] = None /\ server = "nest"
      BY <1>1, <2>2 DEF Post, Replay
    <3>2. PostTypeOK'
      BY <2>2, <3>1 DEF PostTypeOK, Request
    <3>3. BodyInv' /\ KeyInv'
      BY <3>1 DEF BodyInv, KeyInv
    <3>4. RequestInv'
      BY <2>2, <3>1 DEF RequestInv, PostTypeOK
    <3>. QED  BY <3>2, <3>3, <3>4
  <2>. QED  BY <1>1, <2>1, <2>2 DEF Post
<1>2. ASSUME NEW h \in Handlers, Create(h)
      PROVE  PostInv'
  <2>1. request[h].key \in Keys /\ request[h].body \in Bodies
    BY <1>2 DEF Create, PostTypeOK, Request
  <2>2. server = "nest"
        /\ (idempotency[request[h].key] = None \/ request[h].key \in overlapped)
    BY <1>2 DEF Create, RequestInv
  <2>. QED  BY <1>2, <2>1, <2>2, PushInv DEF Create
<1>3. ASSUME NEW h \in Handlers, CreateFails(h)
      PROVE  PostInv'
  BY <1>3 DEF CreateFails, PostTypeOK, BodyInv, RequestInv, KeyInv
<1>4. ASSUME NEW k \in Keys, NEW b \in Bodies, PostAtStub(k, b)
      PROVE  PostInv'
  BY <1>4, PushInv, ReplayInv DEF PostAtStub
<1>5. CASE Restart
  <2>1. orders' = Seeds
    BY <1>5 DEF Restart
  <2>2. Seeds \in Seq(Bodies \cup {None}) /\ Len(Seeds) = SeedOrders
    BY OrdersApiAssumption DEF Seeds
  <2>. QED  BY <1>5, <2>1, <2>2, OrdersApiAssumption
            DEF Restart, PostTypeOK, BodyInv, RequestInv, KeyInv
<1>6. CASE UNCHANGED <<orders, postVars>>
  BY <1>6 DEF PostTypeOK, BodyInv, RequestInv, KeyInv
<1>7. ASSUME NEW c \in Readers,
             Read(c) \/ StreamLost(c) \/ \E o \in Ids : OpenStream(c, o)
      PROVE  UNCHANGED <<orders, postVars>>
  BY <1>7 DEF Read, StreamLost, OpenStream
<1>8. ASSUME NEW s \in Sockets,
             JoinAck(s) \/ SocketLost(s) \/ \E o \in Ids : Join(s, o)
      PROVE  UNCHANGED <<orders, postVars>>
  BY <1>8 DEF JoinAck, SocketLost, Join
<1>9. ASSUME NEW o \in Ids, UpdateStatus(o)
      PROVE  UNCHANGED <<orders, postVars>>
  BY <1>9 DEF UpdateStatus
<1>10. UNCHANGED vars => UNCHANGED <<orders, postVars>>
  BY DEF vars
<1>. QED  BY <1>1, <1>2, <1>3, <1>4, <1>5, <1>6, <1>7, <1>8, <1>9, <1>10 DEF Next

(* A key with another body never gets that body's order, and a key that    *)
(* names two orders is one whose requests awaited prices together, in Nest *)
(* (orders.service.ts:104-139); app.cjs has no such window.                *)
THEOREM KeysNameOrders == Spec => []KeyNamesOneOrder
<1>1. PostInv => KeyNamesOneOrder
  <2>. SUFFICES ASSUME PostInv PROVE KeyNamesOneOrder
    OBVIOUS
  <2>1. AnswerFitsBody
    BY DEF PostInv, BodyInv, AnswerFitsBody
  <2>2. DoublesNeedOverlap
    BY DEF PostInv, PostTypeOK, KeyInv, DoublesNeedOverlap
  <2>. QED  BY <2>1, <2>2 DEF KeyNamesOneOrder
<1>. QED  BY <1>1, InitPostInv, NextPostInv, PTL DEF Spec

----------------------------------------------------------------------------
(* WebSocket.                                                              *)

LEMMA NextSocketInv == SocketInv /\ [Next]_vars => SocketInv'
<1>. SUFFICES ASSUME SocketInv, [Next]_vars PROVE SocketInv'
  OBVIOUS
<1>. USE DEF SocketInv, SocketTypeOK, busVars, clientVars
<1>1. ASSUME NEW o \in Ids, UpdateStatus(o)
      PROVE  SocketInv'
  <2>. DEFINE e == [order |-> o, id |-> sequences[o] + 1]
  <2>1. sequences' = [sequences EXCEPT ![o] = sequences[o] + 1] /\ socket' = Rooms(e)
    BY <1>1 DEF UpdateStatus
  <2>2. SocketTypeOK'
    BY <2>1 DEF Rooms, Socket
  <2>3. AckHasNoHole'
    <3>. SUFFICES ASSUME NEW s \in Sockets, socket'[s].phase = "in",
                         NEW n \in (socket'[s].ack + 1) .. sequences'[socket'[s].order]
                  PROVE  n \in socket'[s].live
      BY DEF AckHasNoHole
    <3>1. /\ socket[s].phase = "in" /\ socket'[s].order = socket[s].order
          /\ socket'[s].ack = socket[s].ack
          /\ socket'[s].live = IF socket[s].order = o THEN socket[s].live \cup {e.id}
                                                      ELSE socket[s].live
      BY <2>1 DEF Rooms, Socket
    <3>2. socket[s].order \in Ids /\ socket[s].ack \in Nat
      BY DEF Socket
    <3>. QED  BY <2>1, <3>1, <3>2 DEF AckHasNoHole
  <2>. QED  BY <2>2, <2>3
<1>2. ASSUME NEW s \in Sockets, JoinAck(s)
      PROVE  SocketInv'
  <2>1. SocketTypeOK'
    BY <1>2 DEF JoinAck, Socket
  <2>2. AckHasNoHole'
    BY <1>2 DEF JoinAck, Socket, AckHasNoHole
  <2>. QED  BY <2>1, <2>2
<1>3. ASSUME NEW s \in Sockets, SocketLost(s) \/ \E o \in Ids : Join(s, o)
      PROVE  SocketInv'
  <2>1. PICK o \in Ids : socket' = [socket EXCEPT ![s] = NewSocket]
          \/ socket' = [socket EXCEPT ![s] = [order |-> o, phase |-> "joining", ack |-> 0, live |-> {}]]
    BY <1>3, IdsStart DEF SocketLost, Join
  <2>2. UNCHANGED sequences
    BY <1>3 DEF SocketLost, Join
  <2>3. SocketTypeOK'
    BY <2>1, <2>2, IdsStart DEF NewSocket, Socket
  <2>4. AckHasNoHole'
    <3>. SUFFICES ASSUME NEW t \in Sockets, socket'[t].phase = "in"
                  PROVE  socket'[t] = socket[t]
      BY <2>2 DEF AckHasNoHole
    <3>. QED  BY <2>1 DEF NewSocket
  <2>. QED  BY <2>3, <2>4
<1>4. CASE Restart
  BY <1>4, IdsStart DEF Restart, NewSocket, Socket, AckHasNoHole
<1>5. CASE UNCHANGED <<sequences, socket>>
  BY <1>5 DEF AckHasNoHole
<1>6. ASSUME NEW c \in Readers,
             Read(c) \/ StreamLost(c) \/ \E o \in Ids : OpenStream(c, o)
      PROVE  UNCHANGED <<sequences, socket>>
  BY <1>6 DEF Read, StreamLost, OpenStream
<1>7. ASSUME \/ \E h \in Handlers :
                  \/ \E k \in Keys, b \in Bodies : Post(h, k, b)
                  \/ Create(h) \/ CreateFails(h)
             \/ \E k \in Keys, b \in Bodies : PostAtStub(k, b)
             \/ UNCHANGED vars
      PROVE  UNCHANGED <<sequences, socket>>
  BY <1>7 DEF Post, Create, CreateFails, PostAtStub, vars
<1>. QED  BY <1>1, <1>2, <1>3, <1>4, <1>5, <1>6, <1>7 DEF Next

(* The lastEventId of a join's ack (orders.gateway.ts) has no event after  *)
(* it that the socket did not get.                                         *)
THEOREM AcksHaveNoHole == Spec => []AckHasNoHole
<1>1. Init => SocketInv
  BY IdsStart DEF Init, SocketInv, SocketTypeOK, AckHasNoHole, NewSocket, Socket
<1>2. SocketInv => AckHasNoHole
  BY DEF SocketInv
<1>. QED  BY <1>1, <1>2, NextSocketInv, PTL DEF Spec

----------------------------------------------------------------------------
(* SSE.                                                                    *)

(* The recursion by which Since is defined.                                *)
Filters(f, b, last) ==
  f = [i \in 0 .. Len(b) |->
         IF i = 0 THEN <<>>
         ELSE IF b[i].id > last THEN Append(f[i - 1], b[i])
         ELSE f[i - 1]]

(* It has one solution: where two would differ first, they agree.          *)
LEMMA OneFilter ==
  ASSUME NEW b \in Seq(Event), NEW last,
         NEW f, NEW g, Filters(f, b, last), Filters(g, b, last)
  PROVE  f = g
<1>. DEFINE Bad == {i \in 0 .. Len(b) : f[i] # g[i]}
            R == {p \in Nat \X Nat : p[1] < p[2]}
<1>1. \A i \in 0 .. Len(b) :
        /\ f[i] = IF i = 0 THEN <<>> ELSE IF b[i].id > last THEN Append(f[i - 1], b[i]) ELSE f[i - 1]
        /\ g[i] = IF i = 0 THEN <<>> ELSE IF b[i].id > last THEN Append(g[i - 1], b[i]) ELSE g[i - 1]
  BY DEF Filters
<1>2. Bad = {}
  <2>. SUFFICES ASSUME Bad # {} PROVE FALSE
    OBVIOUS
  <2>1. IsWellFoundedOn(R, Nat)
    BY NatLessThanWellFounded, Zenon DEF OpToRel
  <2>2. Bad \subseteq Nat
    OBVIOUS
  <2>3. PICK i \in Bad : \A j \in Bad : ~(<<j, i>> \in R)
    <3>. HIDE DEF R, Bad
    <3>. QED  BY <2>1, <2>2, WFMin
  <2>4. i \in 0 .. Len(b) /\ i # 0
    BY <1>1
  <2>5. i - 1 \in 0 .. Len(b) /\ <<i - 1, i>> \in R
    BY <2>4
  <2>6. f[i - 1] = g[i - 1]
    BY <2>3, <2>5
  <2>7. f[i] = g[i]
    BY <1>1, <2>4, <2>6
  <2>. QED  BY <2>7
<1>. QED  BY <1>2 DEF Filters

(* Of a buffer with consecutive ids up to n, Since keeps a suffix.         *)
Dropped(b, last, n) ==
  IF last <= n - Len(b) THEN 0 ELSE IF last >= n THEN Len(b) ELSE last - (n - Len(b))

LEMMA SinceIsSuffix ==
  ASSUME NEW b \in Seq(Event), NEW last \in Nat, NEW n \in Nat, Len(b) <= n,
         \A i \in 1 .. Len(b) : b[i].id = n - Len(b) + i
  PROVE  /\ Since(b, last) \in Seq(Event)
         /\ Len(Since(b, last)) = Len(b) - Dropped(b, last, n)
         /\ \A i \in 1 .. Len(Since(b, last)) :
              Since(b, last)[i] = b[Dropped(b, last, n) + i]
<1>. DEFINE k == Dropped(b, last, n)
            sz(i) == IF i <= k THEN 0 ELSE i - k
            suffix == [i \in 0 .. Len(b) |-> [j \in 1 .. sz(i) |-> b[k + j]]]
<1>1. k \in 0 .. Len(b) /\ Len(b) \in Nat
  BY DEF Dropped
<1>2. \A i \in 1 .. Len(b) : b[i].id > last <=> i > k
  BY DEF Dropped
<1>. HIDE DEF k
<1>3. ASSUME NEW i \in 0 .. Len(b)
      PROVE  suffix[i] \in Seq(Event) /\ Len(suffix[i]) = sz(i)
  <2>1. sz(i) \in Nat /\ \A j \in 1 .. sz(i) : k + j \in 1 .. Len(b)
    BY <1>1
  <2>2. \A j \in 1 .. sz(i) : b[k + j] \in Event
    BY <2>1
  <2>. HIDE DEF sz
  <2>. QED  BY <2>1, <2>2
<1>4. ASSUME NEW i \in 0 .. Len(b)
      PROVE  suffix[i] = IF i = 0 THEN <<>>
                         ELSE IF b[i].id > last THEN Append(suffix[i - 1], b[i])
                         ELSE suffix[i - 1]
  <2>1. CASE i <= k
    <3>1. sz(i) = 0 /\ (i # 0 => sz(i - 1) = 0)
      BY <1>1, <2>1
    <3>2. suffix[i] = <<>> /\ (i # 0 => suffix[i - 1] = <<>>)
      BY <3>1
    <3>3. i # 0 => ~(b[i].id > last)
      BY <1>1, <1>2, <2>1
    <3>. QED  BY <3>2, <3>3
  <2>2. CASE i > k
    <3>1. i # 0 /\ b[i].id > last /\ i - 1 \in 0 .. Len(b)
      BY <1>1, <1>2, <2>2
    <3>2. sz(i) = sz(i - 1) + 1 /\ k + sz(i) = i /\ sz(i - 1) \in Nat
      BY <1>1, <2>2
    <3>3. suffix[i - 1] \in Seq(Event) /\ Len(suffix[i - 1]) = sz(i - 1)
      BY <1>3, <3>1
    <3>4. suffix[i] = [j \in 1 .. sz(i) |-> b[k + j]]
      OBVIOUS
    <3>5. suffix[i - 1] = [j \in 1 .. sz(i - 1) |-> b[k + j]]
      BY <3>1
    <3>. HIDE DEF suffix, sz
    <3>6. Append(suffix[i - 1], b[i]) = suffix[i]
      BY <3>2, <3>3, <3>4, <3>5
    <3>. QED  BY <3>1, <3>6
  <2>3. i <= k \/ i > k
    BY <1>1
  <2>. HIDE DEF suffix
  <2>. QED  BY <2>1, <2>2, <2>3
<1>5. Filters(suffix, b, last)
  <2>1. suffix = [i \in 0 .. Len(b) |-> suffix[i]]
    OBVIOUS
  <2>. HIDE DEF suffix
  <2>. QED  BY <1>4, <2>1 DEF Filters
<1>6. suffix[Len(b)] \in Seq(Event) /\ Len(suffix[Len(b)]) = Len(b) - k
  BY <1>1, <1>3
<1>7. \A i \in 1 .. Len(b) - k : suffix[Len(b)][i] = b[k + i]
  BY <1>1
<1>. DEFINE P(f) == f = [i \in 0 .. Len(b) |->
                          IF i = 0 THEN <<>>
                          ELSE IF b[i].id > last THEN Append(f[i - 1], b[i])
                          ELSE f[i - 1]]
<1>8. \A f : P(f) <=> Filters(f, b, last)
  BY DEF Filters
<1>. HIDE DEF P, suffix
<1>9. P(CHOOSE f : P(f))
  BY <1>5, <1>8
<1>10. (CHOOSE f : P(f)) = suffix
  BY <1>5, <1>8, <1>9, OneFilter
<1>11. Since(b, last) = (CHOOSE f : P(f))[Len(b)]
  BY DEF P, Since
<1>. QED  BY <1>6, <1>7, <1>10, <1>11 DEF k

(* The bus keeps the last events of an order: all there are, or as many as *)
(* the ring holds.                                                         *)
Holds(b, o, n) ==
  /\ Len(b) <= n /\ Len(b) <= BufferSize /\ Len(b) \in {n, BufferSize}
  /\ \A i \in 1 .. Len(b) : b[i].order = o /\ b[i].id = n - Len(b) + i

BufferInv == \A o \in Ids : Holds(buffers[o], o, sequences[o])

(* What a reader remembers: an id of this process, unless it is older.     *)
CursorInv ==
  \A c \in Readers :
    LET r == reader[c]
    IN /\ ~r.open => r.wire = <<>>
       /\ r.open => r.order \in Ids
       /\ r.of <= epoch
       /\ r.cursor # 0 /\ r.of = epoch => r.order \in Ids /\ r.cursor <= sequences[r.order]

StreamTypeOK ==
  /\ buffers \in [Ids -> Seq(Event)]
  /\ sequences \in [Ids -> Nat]
  /\ reader \in [Readers -> Reader]
  /\ epoch \in Nat

StreamInv == StreamTypeOK /\ BufferInv /\ CursorInv /\ StreamIsGapless

(* What StreamIsGapless says of one reader.                                *)
Owed(r, seqs, ep) ==
  /\ \A i \in DOMAIN r.wire :
       r.wire[i].order = r.order /\ r.wire[i].id = seqs[r.order] - Len(r.wire) + i
  /\ \/ r.cursor + Len(r.wire) = seqs[r.order]
     \/ r.cursor + Len(r.wire) < seqs[r.order] /\ Len(r.wire) >= BufferSize
     \/ r.cursor # 0 /\ r.of # ep

LEMMA InitStreamInv == Init => StreamInv
<1>. SUFFICES ASSUME Init PROVE StreamInv
  OBVIOUS
<1>. USE DEF Init
<1>1. StreamTypeOK
  BY DEF StreamTypeOK, Reader, NewReader
<1>2. BufferInv
  BY OrdersApiAssumption DEF BufferInv, Holds
<1>3. CursorInv /\ StreamIsGapless
  BY DEF CursorInv, StreamIsGapless, NewReader
<1>. QED  BY <1>1, <1>2, <1>3 DEF StreamInv

(* A connection starts with the events after the cursor, or with the whole *)
(* ring when some of them have left it.                                    *)
LEMMA OpenStreamInv ==
  ASSUME StreamInv, NEW c \in Readers, NEW o \in Ids, OpenStream(c, o)
  PROVE  StreamInv'
<1>. USE DEF StreamInv
<1>. DEFINE b == buffers[o]
            r == reader[c]
            n == sequences[o]
            w == Since(b, r.cursor)
            k == Dropped(b, r.cursor, n)
            q == reader'[c]
<1>1. /\ b \in Seq(Event) /\ r \in Reader /\ r.cursor \in Nat /\ r.of \in Nat
      /\ n \in Nat /\ Len(b) \in Nat
  BY DEF StreamTypeOK, Reader
<1>2. /\ Len(b) <= n /\ Len(b) <= BufferSize /\ Len(b) \in {n, BufferSize}
      /\ \A i \in 1 .. Len(b) : b[i].order = o /\ b[i].id = n - Len(b) + i
  BY DEF BufferInv, Holds
<1>3. /\ w \in Seq(Event) /\ Len(w) = Len(b) - k
      /\ \A i \in 1 .. Len(w) : w[i] = b[k + i]
  BY <1>1, <1>2, SinceIsSuffix
<1>4. /\ UNCHANGED <<buffers, sequences, epoch>> /\ ~r.open /\ r.order \in {None, o}
      /\ reader' = [reader EXCEPT ![c] =
           [r EXCEPT !.order = o, !.open = TRUE, !.wire = w]]
  BY DEF OpenStream, busVars, ReplaySince
<1>5. /\ q = [r EXCEPT !.order = o, !.open = TRUE, !.wire = w]
      /\ \A d \in Readers : d # c => reader'[d] = reader[d]
  BY <1>4 DEF StreamTypeOK
<1>6. /\ q \in Reader /\ q.order = o /\ q.open /\ q.wire = w
      /\ q.cursor = r.cursor /\ q.of = r.of
  BY <1>1, <1>3, <1>5 DEF Reader
<1>7. StreamTypeOK'
  BY <1>4, <1>6 DEF StreamTypeOK
<1>8. BufferInv'
  BY <1>4 DEF BufferInv
<1>9. r.cursor # 0 /\ r.of = epoch => r.order = o /\ r.cursor <= n
  BY <1>1, <1>4, OrdersApiAssumption DEF CursorInv, Ids
<1>10. CursorInv'
  BY <1>4, <1>5, <1>6, <1>9 DEF CursorInv
<1>11. \A i \in 1 .. Len(w) : w[i].order = o /\ w[i].id = n - Len(w) + i
  <2>. SUFFICES ASSUME NEW i \in 1 .. Len(w) PROVE w[i].order = o /\ w[i].id = n - Len(w) + i
    OBVIOUS
  <2>1. k \in Nat
    BY <1>1, <1>2 DEF Dropped
  <2>. HIDE DEF w, k, n, b
  <2>2. k + i \in 1 .. Len(b)
    BY <1>1, <1>3, <2>1
  <2>. QED  BY <1>1, <1>2, <1>3, <2>1, <2>2
<1>12. \/ r.cursor + Len(w) = n
       \/ r.cursor + Len(w) < n /\ Len(w) >= BufferSize
       \/ r.cursor # 0 /\ r.of # epoch
  <2>. DEFINE x == r.cursor
  <2>1. k = IF x <= n - Len(b) THEN 0 ELSE IF x >= n THEN Len(b) ELSE x - (n - Len(b))
    BY DEF Dropped
  <2>2. x \in Nat /\ n \in Nat /\ Len(b) \in Nat /\ Len(w) = Len(b) - k /\ BufferSize \in Nat
    BY <1>1, <1>3, OrdersApiAssumption
  <2>3. x # 0 /\ r.of = epoch => x <= n
    BY <1>9
  <2>. HIDE DEF x, w, k, n, b, r
  <2>4. x <= n \/ (x # 0 /\ r.of # epoch)
    BY <2>2, <2>3
  <2>5. CASE x <= n - Len(b)
    <3>1. Len(w) = Len(b)
      BY <2>1, <2>2, <2>5
    <3>. QED  BY <1>2, <2>2, <2>5, <3>1 DEF x
  <2>6. CASE ~(x <= n - Len(b)) /\ x < n
    <3>1. Len(w) = n - x
      BY <2>1, <2>2, <2>6
    <3>. QED  BY <2>2, <3>1 DEF x
  <2>7. CASE x = n
    <3>1. Len(w) = 0 \/ Len(b) = 0
      BY <2>1, <2>2, <2>7
    <3>2. Len(w) = 0
      BY <2>1, <2>2, <2>7, <3>1
    <3>. QED  BY <2>2, <2>7, <3>2 DEF x
  <2>8. CASE x # 0 /\ r.of # epoch
    BY <2>8 DEF x
  <2>9. x <= n - Len(b) \/ (~(x <= n - Len(b)) /\ x < n) \/ x = n \/ (x # 0 /\ r.of # epoch)
    BY <2>2, <2>4
  <2>. QED  BY <2>5, <2>6, <2>7, <2>8, <2>9
<1>13. StreamIsGapless'
  <2>. SUFFICES ASSUME NEW d \in Readers, reader'[d].open
                PROVE  Owed(reader'[d], sequences', epoch')
    BY DEF StreamIsGapless, Owed
  <2>1. CASE d = c
    BY <1>3, <1>4, <1>6, <1>11, <1>12, <2>1 DEF Owed
  <2>2. CASE d # c
    BY <1>4, <1>5, <2>2 DEF StreamIsGapless, Owed
  <2>. QED  BY <2>1, <2>2
<1>. QED  BY <1>7, <1>8, <1>10, <1>13

(* push and splice of the ring: the new event is last, and what goes is    *)
(* the oldest.                                                             *)
LEMMA RingKeepsLast ==
  ASSUME NEW s \in Seq(Event), Len(s) <= BufferSize, NEW e \in Event
  PROVE  /\ Ring(s, e) \in Seq(Event)
         /\ Len(Ring(s, e)) = IF Len(s) + 1 > BufferSize THEN BufferSize ELSE Len(s) + 1
         /\ \A i \in 1 .. Len(Ring(s, e)) :
              LET j == Len(s) + 1 - Len(Ring(s, e)) + i
              IN j \in 1 .. Len(s) + 1 /\ Ring(s, e)[i] = IF j = Len(s) + 1 THEN e ELSE s[j]
<1>. DEFINE t == Append(s, e)
<1>1. /\ t \in Seq(Event) /\ Len(t) = Len(s) + 1 /\ Len(s) \in Nat
      /\ \A j \in 1 .. Len(s) + 1 : t[j] = IF j = Len(s) + 1 THEN e ELSE s[j]
  OBVIOUS
<1>2. BufferSize \in Nat /\ BufferSize > 0
  BY OrdersApiAssumption
<1>3. Ring(s, e) = IF Len(t) > BufferSize THEN SubSeq(t, Len(t) - BufferSize + 1, Len(t)) ELSE t
  BY DEF Ring, LastOf
<1>. HIDE DEF t
<1>4. CASE Len(t) > BufferSize
  <2>. DEFINE u == SubSeq(t, Len(t) - BufferSize + 1, Len(t))
  <2>1. Len(s) = BufferSize /\ Len(t) - BufferSize + 1 = 2
    BY <1>1, <1>2, <1>4
  <2>2. /\ u \in Seq(Event) /\ Len(u) = BufferSize
        /\ \A i \in 1 .. BufferSize : u[i] = t[i + 1]
    BY <1>1, <1>2, <2>1
  <2>. HIDE DEF u
  <2>3. Ring(s, e) = u
    BY <1>3, <1>4 DEF u
  <2>4. ASSUME NEW i \in 1 .. BufferSize
        PROVE  LET j == Len(s) + 1 - BufferSize + i
               IN j \in 1 .. Len(s) + 1 /\ u[i] = IF j = Len(s) + 1 THEN e ELSE s[j]
    <3>1. Len(s) + 1 - BufferSize + i = i + 1 /\ i + 1 \in 1 .. Len(s) + 1
      BY <1>1, <1>2, <2>1
    <3>2. u[i] = t[i + 1]
      BY <2>2
    <3>. QED  BY <1>1, <3>1, <3>2
  <2>5. Len(Ring(s, e)) = IF Len(s) + 1 > BufferSize THEN BufferSize ELSE Len(s) + 1
    BY <1>1, <1>4, <2>2, <2>3
  <2>6. \A i \in 1 .. Len(Ring(s, e)) :
          LET j == Len(s) + 1 - Len(Ring(s, e)) + i
          IN j \in 1 .. Len(s) + 1 /\ Ring(s, e)[i] = IF j = Len(s) + 1 THEN e ELSE s[j]
    BY <2>2, <2>3, <2>4
  <2>. QED  BY <2>2, <2>3, <2>5, <2>6
<1>5. CASE ~(Len(t) > BufferSize)
  BY <1>1, <1>2, <1>3, <1>5
<1>. QED  BY <1>4, <1>5

(* A status change: the ring, every open response and the count move       *)
(* together.                                                               *)
LEMMA UpdateStreamInv ==
  ASSUME StreamInv, NEW o \in Ids, UpdateStatus(o)
  PROVE  StreamInv'
<1>. USE DEF StreamInv
<1>. DEFINE e == [order |-> o, id |-> sequences[o] + 1]
            n == sequences[o]
            b == buffers[o]
<1>1. /\ UNCHANGED epoch
      /\ sequences' = [sequences EXCEPT ![o] = n + 1]
      /\ buffers' = [buffers EXCEPT ![o] = Ring(b, e)]
      /\ reader' = Wires(e)
  BY DEF UpdateStatus
<1>2. /\ n \in Nat /\ b \in Seq(Event) /\ Len(b) \in Nat /\ e \in Event
      /\ e.order = o /\ e.id = n + 1
  <2>1. n \in Nat /\ b \in Seq(Event)
    BY DEF StreamTypeOK
  <2>2. e \in Event
    BY <2>1 DEF Event
  <2>. QED  BY <2>1, <2>2
<1>3. /\ Len(b) <= n /\ Len(b) <= BufferSize /\ Len(b) \in {n, BufferSize}
      /\ \A i \in 1 .. Len(b) : b[i].order = o /\ b[i].id = n - Len(b) + i
  BY DEF BufferInv, Holds
<1>4. /\ sequences'[o] = n + 1 /\ buffers'[o] = Ring(b, e)
      /\ \A p \in Ids : p # o => sequences'[p] = sequences[p] /\ buffers'[p] = buffers[p]
      /\ \A p \in Ids : sequences'[p] >= sequences[p]
  BY <1>1, <1>2 DEF StreamTypeOK
<1>5. \A c \in Readers :
        IF reader[c].open /\ reader[c].order = o
          THEN reader'[c] = [reader[c] EXCEPT !.wire = Append(reader[c].wire, e)]
          ELSE reader'[c] = reader[c]
  BY <1>1 DEF Wires
<1>6. \A c \in Readers :
        /\ reader[c] \in Reader /\ reader[c].wire \in Seq(Event)
        /\ reader'[c] \in Reader /\ reader'[c].order = reader[c].order
        /\ reader'[c].open = reader[c].open /\ reader'[c].of = reader[c].of
        /\ reader'[c].cursor = reader[c].cursor
        /\ reader'[c].wire = IF reader[c].open /\ reader[c].order = o
                               THEN Append(reader[c].wire, e) ELSE reader[c].wire
  <2>. TAKE c \in Readers
  <2>. HIDE DEF e
  <2>1. reader[c] \in Reader /\ reader[c].wire \in Seq(Event)
    BY DEF StreamTypeOK, Reader
  <2>2. Append(reader[c].wire, e) \in Seq(Event)
    BY <1>2, <2>1
  <2>3. CASE reader[c].open /\ reader[c].order = o
    <3>. DEFINE w == Append(reader[c].wire, e)
    <3>1. w \in Seq(Event) /\ reader'[c] = [reader[c] EXCEPT !.wire = w]
      BY <1>5, <2>2, <2>3
    <3>. HIDE DEF w
    <3>2. /\ reader'[c] \in Reader /\ reader'[c].order = reader[c].order
          /\ reader'[c].open = reader[c].open /\ reader'[c].of = reader[c].of
          /\ reader'[c].cursor = reader[c].cursor /\ reader'[c].wire = w
      BY <2>1, <3>1 DEF Reader
    <3>. QED  BY <2>1, <2>3, <3>2 DEF w
  <2>4. CASE ~(reader[c].open /\ reader[c].order = o)
    <3>1. reader'[c] = reader[c]
      BY <1>5, <2>4
    <3>. QED  BY <2>1, <2>4, <3>1
  <2>. QED  BY <2>3, <2>4
<1>7. reader' = [c \in Readers |-> reader'[c]]
  BY <1>1 DEF Wires
<1>. HIDE DEF e
<1>8. /\ Ring(b, e) \in Seq(Event)
      /\ Len(Ring(b, e)) = IF Len(b) + 1 > BufferSize THEN BufferSize ELSE Len(b) + 1
      /\ \A i \in 1 .. Len(Ring(b, e)) :
           LET j == Len(b) + 1 - Len(Ring(b, e)) + i
           IN j \in 1 .. Len(b) + 1 /\ Ring(b, e)[i] = IF j = Len(b) + 1 THEN e ELSE b[j]
  BY <1>2, <1>3, RingKeepsLast
<1>9. StreamTypeOK'
  BY <1>1, <1>2, <1>6, <1>7, <1>8 DEF StreamTypeOK
<1>10. BufferInv'
  <2>. SUFFICES ASSUME NEW p \in Ids
                PROVE  Holds(buffers'[p], p, sequences'[p])
    BY DEF BufferInv
  <2>1. CASE p # o
    BY <1>4, <2>1 DEF BufferInv
  <2>2. CASE p = o
    <3>. DEFINE u == Ring(b, e)
    <3>1. BufferSize \in Nat
      BY OrdersApiAssumption
    <3>2. buffers'[p] = u /\ sequences'[p] = n + 1
      BY <1>4, <2>2
    <3>. HIDE DEF u, n, b
    <3>3. Len(u) <= n + 1 /\ Len(u) <= BufferSize /\ Len(u) \in {n + 1, BufferSize} /\ Len(u) \in Nat
      BY <1>2, <1>3, <1>8, <3>1 DEF u
    <3>4. ASSUME NEW i \in 1 .. Len(u)
          PROVE  u[i].order = o /\ u[i].id = n + 1 - Len(u) + i
      <4>. DEFINE j == Len(b) + 1 - Len(u) + i
      <4>1. j \in 1 .. Len(b) + 1 /\ u[i] = IF j = Len(b) + 1 THEN e ELSE b[j]
        BY <1>8 DEF u
      <4>2. CASE j = Len(b) + 1
        BY <1>2, <3>3, <4>1, <4>2
      <4>3. CASE j # Len(b) + 1
        <5>1. j \in 1 .. Len(b)
          BY <1>2, <4>1, <4>3
        <5>2. u[i].order = o /\ u[i].id = n - Len(b) + j
          BY <1>3, <4>1, <4>3, <5>1
        <5>. QED  BY <1>2, <3>3, <5>2
      <4>. QED  BY <4>2, <4>3
    <3>5. Holds(u, o, n + 1)
      <4>. DEFINE m == n + 1
      <4>1. /\ Len(u) <= m /\ Len(u) <= BufferSize /\ Len(u) \in {m, BufferSize}
            /\ \A i \in 1 .. Len(u) : u[i].order = o /\ u[i].id = m - Len(u) + i
        BY <1>2, <3>3, <3>4
      <4>. HIDE DEF m
      <4>2. Holds(u, o, m)
        BY <4>1 DEF Holds
      <4>. QED  BY <4>2 DEF m
    <3>. QED  BY <2>2, <3>2, <3>5
  <2>. QED  BY <2>1, <2>2
<1>11. CursorInv'
  <2>. SUFFICES ASSUME NEW c \in Readers
                PROVE  LET r == reader'[c]
                       IN /\ ~r.open => r.wire = <<>>
                          /\ r.open => r.order \in Ids
                          /\ r.of <= epoch'
                          /\ r.cursor # 0 /\ r.of = epoch' =>
                               r.order \in Ids /\ r.cursor <= sequences'[r.order]
    BY DEF CursorInv
  <2>. DEFINE r == reader[c]
  <2>1. /\ ~r.open => r.wire = <<>>
        /\ r.open => r.order \in Ids
        /\ r.of <= epoch
        /\ r.cursor # 0 /\ r.of = epoch => r.order \in Ids /\ r.cursor <= sequences[r.order]
    BY DEF CursorInv
  <2>2. r.order \in Ids => sequences'[r.order] >= sequences[r.order] /\ sequences[r.order] \in Nat
                            /\ sequences'[r.order] \in Nat
    BY <1>4, <1>9 DEF StreamTypeOK
  <2>3. r.cursor \in Nat
    BY <1>6 DEF Reader
  <2>4. r.order \in Ids /\ r.cursor <= sequences[r.order] => r.cursor <= sequences'[r.order]
    <3>. HIDE DEF r
    <3>. QED  BY <2>2, <2>3
  <2>. QED  BY <1>1, <1>6, <2>1, <2>4
<1>12. StreamIsGapless'
  <2>. SUFFICES ASSUME NEW c \in Readers, reader'[c].open
                PROVE  Owed(reader'[c], sequences', epoch')
    BY DEF StreamIsGapless, Owed
  <2>. DEFINE r == reader[c]
              q == reader'[c]
  <2>1. Owed(r, sequences, epoch) /\ r.order \in Ids
    BY <1>6 DEF StreamIsGapless, Owed, CursorInv
  <2>2. CASE r.order # o
    BY <1>1, <1>4, <1>6, <2>1, <2>2 DEF Owed
  <2>3. CASE r.order = o
    <3>1. /\ q.wire = Append(r.wire, e) /\ q.order = o /\ q.cursor = r.cursor /\ q.of = r.of
          /\ r.cursor \in Nat /\ r.wire \in Seq(Event)
      BY <1>6, <2>3 DEF Reader
    <3>. DEFINE w == r.wire
                v == q.wire
                x == r.cursor
    <3>2. /\ \A i \in 1 .. Len(w) : w[i].order = o /\ w[i].id = n - Len(w) + i
          /\ \/ x + Len(w) = n
             \/ x + Len(w) < n /\ Len(w) >= BufferSize
             \/ x # 0 /\ r.of # epoch
      BY <2>1, <2>3, <3>1 DEF Owed
    <3>3. /\ v = Append(w, e) /\ w \in Seq(Event) /\ Len(w) \in Nat /\ x \in Nat
          /\ BufferSize \in Nat
      BY <3>1, OrdersApiAssumption
    <3>. HIDE DEF w, v, x, n
    <3>4. /\ Len(v) = Len(w) + 1 /\ DOMAIN v = 1 .. Len(w) + 1
          /\ \A i \in 1 .. Len(w) : v[i] = w[i]
          /\ v[Len(w) + 1] = e
      BY <1>2, <3>3
    <3>5. ASSUME NEW i \in DOMAIN v
          PROVE  v[i].order = o /\ v[i].id = n + 1 - Len(v) + i
      <4>1. CASE i \in 1 .. Len(w)
        <5>1. v[i] = w[i] /\ w[i].order = o /\ w[i].id = n - Len(w) + i
          BY <3>2, <3>4, <4>1
        <5>. QED  BY <1>2, <3>3, <3>4, <4>1, <5>1
      <4>2. CASE i = Len(w) + 1
        BY <1>2, <3>3, <3>4, <4>2
      <4>. QED  BY <3>3, <3>4, <4>1, <4>2
    <3>6. \/ x + Len(v) = n + 1
          \/ x + Len(v) < n + 1 /\ Len(v) >= BufferSize
          \/ x # 0 /\ r.of # epoch
      <4>1. x + Len(w) = n => x + Len(v) = n + 1
        BY <1>2, <3>3, <3>4
      <4>2. (x + Len(w) < n /\ Len(w) >= BufferSize)
              => (x + Len(v) < n + 1 /\ Len(v) >= BufferSize)
        BY <1>2, <3>3, <3>4
      <4>. QED  BY <3>2, <4>1, <4>2
    <3>7. sequences'[q.order] = n + 1
      BY <1>4, <3>1
    <3>8. \A i \in DOMAIN q.wire :
            q.wire[i].order = q.order /\ q.wire[i].id = sequences'[q.order] - Len(q.wire) + i
      <4>1. v = q.wire
        BY DEF v
      <4>2. q.order = o /\ sequences'[q.order] = n + 1
        BY <3>1, <3>7
      <4>. HIDE DEF q
      <4>. DEFINE m == n + 1
                  l == Len(v)
      <4>3. \A i \in DOMAIN v : v[i].order = o /\ v[i].id = m - l + i
        BY <1>2, <3>3, <3>4, <3>5
      <4>. HIDE DEF m, l
      <4>4. Len(q.wire) = l /\ sequences'[q.order] = m
        BY <4>1, <4>2 DEF m, l
      <4>. QED  BY <4>1, <4>2, <4>3, <4>4
    <3>9. \/ q.cursor + Len(q.wire) = sequences'[q.order]
          \/ q.cursor + Len(q.wire) < sequences'[q.order] /\ Len(q.wire) >= BufferSize
          \/ q.cursor # 0 /\ q.of # epoch'
      BY <1>1, <3>1, <3>6, <3>7 DEF v, x
    <3>. QED  BY <3>8, <3>9 DEF Owed
  <2>. QED  BY <2>2, <2>3
<1>. QED  BY <1>9, <1>10, <1>11, <1>12

(* What one reader does leaves the bus and the other readers alone.        *)
LEMMA OneReaderMoves ==
  ASSUME StreamInv, NEW c \in Readers, NEW q \in Reader,
         reader' = [reader EXCEPT ![c] = q],
         UNCHANGED <<buffers, sequences, epoch>>,
         ~q.open => q.wire = <<>>,
         q.open => q.order \in Ids /\ Owed(q, sequences, epoch),
         q.of <= epoch,
         q.cursor # 0 /\ q.of = epoch => q.order \in Ids /\ q.cursor <= sequences[q.order]
  PROVE  StreamInv'
<1>. USE DEF StreamInv
<1>1. reader'[c] = q /\ \A d \in Readers : d # c => reader'[d] = reader[d]
  BY DEF StreamTypeOK
<1>2. StreamTypeOK'
  BY DEF StreamTypeOK
<1>3. BufferInv'
  BY DEF BufferInv
<1>4. CursorInv'
  BY <1>1 DEF CursorInv
<1>5. StreamIsGapless'
  <2>. SUFFICES ASSUME NEW d \in Readers, reader'[d].open
                PROVE  Owed(reader'[d], sequences', epoch')
    BY DEF StreamIsGapless, Owed
  <2>. QED  BY <1>1 DEF StreamIsGapless, Owed
<1>. QED  BY <1>2, <1>3, <1>4, <1>5

(* The id that is read is the next one.                                    *)
LEMMA ReadStreamInv ==
  ASSUME StreamInv, NEW c \in Readers, Read(c)
  PROVE  StreamInv'
<1>. USE DEF StreamInv
<1>. DEFINE r == reader[c]
            w == r.wire
            n == sequences[r.order]
            q == [order |-> r.order, open |-> r.open, wire |-> Tail(w),
                  cursor |-> Head(w).id, of |-> epoch]
<1>1. /\ w # <<>> /\ reader' = [reader EXCEPT ![c] = q]
      /\ UNCHANGED <<buffers, sequences, epoch>>
  BY DEF Read, busVars
<1>2. r \in Reader /\ w \in Seq(Event) /\ r.open /\ r.order \in Ids /\ epoch \in Nat /\ n \in Nat
  BY <1>1 DEF StreamTypeOK, Reader, CursorInv
<1>3. Len(w) \in Nat \ {0} /\ DOMAIN w = 1 .. Len(w)
  <2>. HIDE DEF w
  <2>. QED  BY <1>1, <1>2
<1>4. \A i \in 1 .. Len(w) : w[i].order = r.order /\ w[i].id = n - Len(w) + i
  BY <1>2, <1>3 DEF StreamIsGapless
<1>. HIDE DEF w
<1>5. /\ Head(w) = w[1] /\ w[1] \in Event /\ w[1].id \in Nat
      /\ Tail(w) \in Seq(Event) /\ Len(Tail(w)) = Len(w) - 1
      /\ \A i \in 1 .. Len(w) - 1 : Tail(w)[i] = w[i + 1]
  <2>1. Head(w) = w[1] /\ w[1] \in Event
    BY <1>2, <1>3
  <2>2. w[1].id \in Nat
    BY <2>1 DEF Event
  <2>3. Tail(w) \in Seq(Event) /\ Len(Tail(w)) = Len(w) - 1
    BY <1>1, <1>2, <1>3
  <2>4. \A i \in 1 .. Len(w) - 1 : Tail(w)[i] = w[i + 1]
    BY <1>1, <1>2, <1>3
  <2>. QED  BY <2>1, <2>2, <2>3, <2>4
<1>6. w[1].id = n - Len(w) + 1
  BY <1>3, <1>4
<1>7. /\ q \in Reader /\ q.order = r.order /\ q.open /\ q.of = epoch
      /\ q.wire = Tail(w) /\ q.cursor = w[1].id
  BY <1>2, <1>5 DEF Reader
<1>8. w[1].id + Len(Tail(w)) = n /\ w[1].id <= n
  <2>. HIDE DEF n
  <2>. QED  BY <1>2, <1>3, <1>5, <1>6
<1>9. \A i \in 1 .. Len(w) - 1 :
        Tail(w)[i].order = r.order /\ Tail(w)[i].id = n - Len(Tail(w)) + i
  <2>. TAKE i \in 1 .. Len(w) - 1
  <2>. HIDE DEF n
  <2>1. i + 1 \in 1 .. Len(w) /\ Tail(w)[i] = w[i + 1]
    BY <1>3, <1>5
  <2>2. w[i + 1].order = r.order /\ w[i + 1].id = n - Len(w) + (i + 1)
    BY <1>4, <2>1
  <2>. QED  BY <1>2, <1>3, <1>5, <2>1, <2>2
<1>10. Owed(q, sequences, epoch)
  <2>. HIDE DEF q
  <2>1. DOMAIN Tail(w) = 1 .. Len(w) - 1
    BY <1>3, <1>5
  <2>2. \A i \in DOMAIN q.wire :
          q.wire[i].order = q.order /\ q.wire[i].id = sequences[q.order] - Len(q.wire) + i
    BY <1>7, <1>9, <2>1
  <2>3. q.cursor + Len(q.wire) = sequences[q.order]
    BY <1>7, <1>8
  <2>. QED  BY <2>2, <2>3 DEF Owed
<1>11. q.of <= epoch /\ q.order \in Ids /\ q.cursor <= sequences[q.order]
  <2>. HIDE DEF q
  <2>1. epoch <= epoch
    BY <1>2
  <2>. QED  BY <1>2, <1>7, <1>8, <2>1
<1>. HIDE DEF q
<1>. QED  BY <1>1, <1>7, <1>10, <1>11, OneReaderMoves

(* A lost connection owes nothing.                                         *)
LEMMA LostStreamInv ==
  ASSUME StreamInv, NEW c \in Readers, StreamLost(c)
  PROVE  StreamInv'
<1>. USE DEF StreamInv
<1>. DEFINE r == reader[c]
            q == Closed(r)
<1>1. /\ reader' = [reader EXCEPT ![c] = q]
      /\ UNCHANGED <<buffers, sequences, epoch>>
  BY DEF StreamLost, busVars
<1>2. r \in Reader
  BY DEF StreamTypeOK
<1>3. /\ q \in Reader /\ q.order = r.order /\ ~q.open /\ q.of = r.of
      /\ q.wire = <<>> /\ q.cursor = r.cursor
  BY <1>2 DEF Reader, Closed
<1>4. /\ r.of <= epoch
      /\ r.cursor # 0 /\ r.of = epoch => r.order \in Ids /\ r.cursor <= sequences[r.order]
  BY DEF CursorInv
<1>. HIDE DEF q
<1>. QED  BY <1>1, <1>3, <1>4, OneReaderMoves

(* After a restart every id a client remembers is an older process's.      *)
LEMMA RestartStreamInv ==
  ASSUME StreamInv, Restart
  PROVE  StreamInv'
<1>. USE DEF StreamInv
<1>1. /\ epoch' = epoch + 1
      /\ buffers' = [o \in Ids |-> <<>>] /\ sequences' = [o \in Ids |-> 0]
      /\ reader' = [c \in Readers |-> Closed(reader[c])]
  BY DEF Restart
<1>2. \A c \in Readers :
        /\ reader'[c] \in Reader /\ ~reader'[c].open /\ reader'[c].wire = <<>>
        /\ reader'[c].of = reader[c].of /\ reader[c].of \in Nat
  BY <1>1 DEF StreamTypeOK, Reader, Closed
<1>3. reader' = [c \in Readers |-> reader'[c]]
  BY <1>1
<1>4. StreamTypeOK'
  <2>1. reader' \in [Readers -> Reader]
    BY <1>2, <1>3
  <2>2. buffers' \in [Ids -> Seq(Event)]
    BY <1>1
  <2>. QED  BY <1>1, <2>1, <2>2 DEF StreamTypeOK
<1>5. BufferInv'
  <2>. SUFFICES ASSUME NEW o \in Ids PROVE Holds(buffers'[o], o, sequences'[o])
    BY DEF BufferInv
  <2>1. buffers'[o] = <<>> /\ sequences'[o] = 0
    BY <1>1
  <2>2. Holds(<<>>, o, 0)
    BY OrdersApiAssumption DEF Holds
  <2>. QED  BY <2>1, <2>2
<1>6. \A c \in Readers : reader'[c].of <= epoch' /\ reader'[c].of # epoch'
  <2>. TAKE c \in Readers
  <2>1. reader[c].of <= epoch /\ reader[c].of \in Nat /\ epoch \in Nat
    BY <1>2 DEF CursorInv, StreamTypeOK
  <2>2. reader[c].of <= epoch + 1 /\ reader[c].of # epoch + 1
    BY <2>1
  <2>. QED  BY <1>1, <1>2, <2>2
<1>7. CursorInv' /\ StreamIsGapless'
  BY <1>2, <1>6 DEF CursorInv, StreamIsGapless
<1>. QED  BY <1>4, <1>5, <1>7

LEMMA NextStreamInv == StreamInv /\ [Next]_vars => StreamInv'
<1>. SUFFICES ASSUME StreamInv, [Next]_vars PROVE StreamInv'
  OBVIOUS
<1>1. CASE UNCHANGED <<buffers, sequences, reader, epoch>>
  BY <1>1 DEF StreamInv, StreamTypeOK, BufferInv, CursorInv, StreamIsGapless
<1>2. ASSUME NEW s \in Sockets,
             JoinAck(s) \/ SocketLost(s) \/ \E o \in Ids : Join(s, o)
      PROVE  UNCHANGED <<buffers, sequences, reader, epoch>>
  BY <1>2 DEF JoinAck, SocketLost, Join, busVars
<1>3. ASSUME \/ \E h \in Handlers :
                  \/ \E k \in Keys, b \in Bodies : Post(h, k, b)
                  \/ Create(h) \/ CreateFails(h)
             \/ \E k \in Keys, b \in Bodies : PostAtStub(k, b)
             \/ UNCHANGED vars
      PROVE  UNCHANGED <<buffers, sequences, reader, epoch>>
  BY <1>3 DEF Post, Create, CreateFails, PostAtStub, vars, busVars, clientVars
<1>. QED
  BY <1>1, <1>2, <1>3, UpdateStreamInv, OpenStreamInv, ReadStreamInv, LostStreamInv,
     RestartStreamInv DEF Next

(* However often a reader is cut off and comes back with Last-Event-ID     *)
(* (orders.controller.ts, replaySince), its stream has no hole that the    *)
(* ring could have filled, and nothing comes twice.                        *)
THEOREM StreamsHaveNoHole == Spec => []StreamIsGapless
<1>1. StreamInv => StreamIsGapless
  BY DEF StreamInv
<1>. QED  BY <1>1, InitStreamInv, NextStreamInv, PTL DEF Spec

----------------------------------------------------------------------------

LEMMA NextDrops == drops \in Nat /\ [Next]_vars => (drops \in Nat)'
<1>. SUFFICES ASSUME drops \in Nat, [Next]_vars PROVE drops' \in Nat
  OBVIOUS
<1>1. UNCHANGED drops \/ drops' = drops + 1
  <2>1. ASSUME NEW h \in Handlers, NEW k \in Keys, NEW b \in Bodies, Post(h, k, b)
        PROVE  UNCHANGED drops
    BY <2>1 DEF Post
  <2>2. ASSUME NEW h \in Handlers, Create(h) \/ CreateFails(h)
        PROVE  UNCHANGED drops
    BY <2>2 DEF Create, CreateFails
  <2>3. ASSUME NEW o \in Ids, UpdateStatus(o)
        PROVE  UNCHANGED drops
    BY <2>3 DEF UpdateStatus
  <2>4. ASSUME NEW c \in Readers,
               Read(c) \/ StreamLost(c) \/ \E o \in Ids : OpenStream(c, o)
        PROVE  UNCHANGED drops \/ drops' = drops + 1
    BY <2>4 DEF Read, StreamLost, OpenStream
  <2>5. ASSUME NEW s \in Sockets,
               JoinAck(s) \/ SocketLost(s) \/ \E o \in Ids : Join(s, o)
        PROVE  UNCHANGED drops \/ drops' = drops + 1
    BY <2>5 DEF JoinAck, SocketLost, Join
  <2>6. ASSUME NEW k \in Keys, NEW b \in Bodies, PostAtStub(k, b)
        PROVE  UNCHANGED drops
    BY <2>6 DEF PostAtStub
  <2>. QED  BY <2>1, <2>2, <2>3, <2>4, <2>5, <2>6 DEF Next, Restart, vars
<1>. QED  BY <1>1

(* The types, with them: the ring never exceeds BUFFER_SIZE.               *)
THEOREM TypeCorrect == Spec => []TypeOK
<1>1. Init => SocketInv /\ drops \in Nat
  BY IdsStart DEF Init, SocketInv, SocketTypeOK, AckHasNoHole, NewSocket, Socket
<1>2. PostInv /\ SocketInv /\ StreamInv /\ drops \in Nat => TypeOK
  <2>. SUFFICES ASSUME PostInv, SocketInv, StreamInv, drops \in Nat PROVE TypeOK
    OBVIOUS
  <2>1. \A o \in Ids : buffers[o] \in Seq(Event) /\ Len(buffers[o]) <= BufferSize
    BY DEF StreamInv, StreamTypeOK, BufferInv, Holds
  <2>. QED  BY <2>1 DEF PostInv, PostTypeOK, SocketInv, SocketTypeOK, StreamInv, StreamTypeOK, TypeOK
<1>. QED  BY <1>1, <1>2, InitPostInv, NextPostInv, NextSocketInv, InitStreamInv,
             NextStreamInv, NextDrops, PTL DEF Spec
=============================================================================

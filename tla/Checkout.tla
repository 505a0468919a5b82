------------------------------ MODULE Checkout ------------------------------
(***************************************************************************)
(* POST /checkout (placeOrder) and checkout(): transactions of Postgres at *)
(* the granularity of their SQL statements, READ COMMITTED.                *)
(*                                                                         *)
(* Committed rows are variables; what an open transaction has written is   *)
(* in tx[h] and visible to nobody else.  A row written and not committed   *)
(* is locked by its writer: an UPDATE of it, or an INSERT of the same      *)
(* idempotency key, waits.  A process that dies loses its connection, and  *)
(* Postgres rolls its transaction back.                                    *)
(***************************************************************************)
EXTENDS Integers, FiniteSetsExt

CONSTANTS Handlers,          \* requests being served at the same time
          Keys, NoKey,
          Products, Users,   \* rows that exist
          ProductIds, BuyerIds, Quantities,   \* what requests name
          OrderIds,          \* bound on the orders.id values
          None,
          Price, InitStock, InitBalance

ASSUME CheckoutAssumption ==
  /\ NoKey \notin Keys
  /\ None \notin Handlers \cup OrderIds
  /\ Products \subseteq ProductIds
  /\ Users \subseteq BuyerIds
  /\ Quantities \subseteq Int
  /\ Price \in [Products -> Nat]
  /\ InitStock \in [Products -> Nat]
  /\ InitBalance \in [Users -> Nat]

(* Rows of three tables: no key is a product or a user.                    *)
ASSUME RowsAreDistinct ==
  /\ Keys \cap ProductIds = {}
  /\ Keys \cap BuyerIds = {}
  /\ ProductIds \cap BuyerIds = {}

VARIABLES
  stock, balance,      \* committed products.stock, users.balance_cents
  claimed, keyOrder,   \* committed idempotency_keys rows and their order_id
  orders,              \* committed orders and order_items
  tasks, outbox,       \* committed tasks and outbox rows, by order id
  direct,              \* orders published by checkout() itself
  lock,                \* row -> transaction holding its lock
  pc, req, tx,         \* per handler: next statement, request, private writes
  told                 \* 201 responses clients received

committed == <<stock, balance, claimed, keyOrder, orders, tasks, outbox>>
vars == <<stock, balance, claimed, keyOrder, orders, tasks, outbox, direct,
          lock, pc, req, tx, told>>

Rows == Keys \cup Products \cup Users

Request == [key : Keys \cup {NoKey}, buyer : BuyerIds, product : ProductIds,
            quantity : Quantities]

NoRequest == [key |-> NoKey, buyer |-> None, product |-> None, quantity |-> 0]

(* What checkoutInTransaction and replayOf have computed so far.           *)
TxState == [stockLeft : Nat, balanceLeft : Nat, order : OrderIds \cup {None},
            event : BOOLEAN, bound : BOOLEAN]
EmptyTx == [stockLeft |-> 0, balanceLeft |-> 0, order |-> None,
            event |-> FALSE, bound |-> FALSE]

Order == [id : OrderIds, key : Keys \cup {NoKey}, buyer : Users,
          product : Products, quantity : {q \in Quantities : q > 0}]

Ids(S) == {o.id : o \in S}

Total(r) == Price[r.product] * r.quantity

InTransaction == {"claim", "replay", "stock", "debit", "insert", "enqueue",
                  "bind", "commit"}
Phases == InTransaction \cup {"idle", "rollback", "publish", "reply"}

----------------------------------------------------------------------------

Init ==
  /\ stock = InitStock
  /\ balance = InitBalance
  /\ claimed = {}
  /\ keyOrder = [k \in Keys |-> None]
  /\ orders = {}
  /\ tasks = {}
  /\ outbox = {}
  /\ direct = {}
  /\ lock = [r \in Rows |-> None]
  /\ pc = [h \in Handlers |-> "idle"]
  /\ req = [h \in Handlers |-> NoRequest]
  /\ tx = [h \in Handlers |-> EmptyTx]
  /\ told = {}

Goto(h, phase) == pc' = [pc EXCEPT ![h] = phase]

(* Mutants: the statement on a row of the table neither waits for the      *)
(* row's lock nor respects it (a SELECT in the code instead).              *)
FreeNotKeys(row, h) == row \in Keys \/ lock[row] \in {None, h}
FreeNotProducts(row, h) == row \in Products \/ lock[row] \in {None, h}
FreeNotUsers(row, h) == row \in Users \/ lock[row] \in {None, h}

(* A row is free for h when no other open transaction has written it.      *)
Free(row, h) == lock[row] \in {None, h}

Take(row, h) == lock' = [lock EXCEPT ![row] = h]

ReleaseAll(h) == lock' = [r \in Rows |-> IF lock[r] = h THEN None ELSE lock[r]]

Forget(h) ==
  /\ req' = [req EXCEPT ![h] = NoRequest]
  /\ tx' = [tx EXCEPT ![h] = EmptyTx]

(* A request arrives: placeOrder with a key, checkout without one.         *)
Begin(h, r) ==
  /\ pc[h] = "idle"
  /\ req' = [req EXCEPT ![h] = r]
  /\ Goto(h, IF r.key = NoKey THEN "stock" ELSE "claim")
  /\ UNCHANGED <<committed, direct, lock, tx, told>>

(* INSERT INTO idempotency_keys ... ON CONFLICT DO NOTHING: waits for a    *)
(* transaction that has the key in flight, then sees its row or none.      *)
ClaimKey(h) ==
  LET k == req[h].key IN
  /\ pc[h] = "claim"
  /\ Free(k, h)
  /\ IF k \in claimed
       THEN Goto(h, "replay") /\ UNCHANGED lock
       ELSE Goto(h, "stock") /\ Take(k, h)
  /\ UNCHANGED <<committed, direct, req, tx, told>>

(* Mutant: the SELECT of replayOf forgets WHERE k.key = $1.                *)
ReplayOfAny(h) ==
  /\ pc[h] = "replay"
  /\ \E o \in orders : tx' = [tx EXCEPT ![h] = [@ EXCEPT !.order = o.id]]
  /\ Goto(h, "reply")
  /\ UNCHANGED <<committed, direct, lock, req, told>>

(* replayOf: the order of the key with the stock and balance of NOW; a key *)
(* without an order is an error.                                           *)
ReplayOf(h) ==
  LET k == req[h].key IN
  /\ pc[h] = "replay"
  /\ \/ /\ keyOrder[k] = None
        /\ Goto(h, "rollback")
        /\ UNCHANGED tx
     \/ \E o \in orders :
          /\ o.id = keyOrder[k]
          /\ tx' = [tx EXCEPT ![h] = [@ EXCEPT !.order = o.id,
                                              !.stockLeft = stock[o.product],
                                              !.balanceLeft = balance[o.buyer]]]
          /\ Goto(h, "reply")
  /\ UNCHANGED <<committed, direct, lock, req, told>>

(* The quantity guard, and UPDATE products matching no row.  The WHERE is  *)
(* evaluated on committed rows, so this outcome waits for nobody.          *)
RejectStock(h) ==
  LET r == req[h] IN
  /\ pc[h] = "stock"
  /\ \/ r.quantity <= 0
     \/ r.product \notin Products
     \/ r.product \in Products /\ stock[r.product] < r.quantity
  /\ Goto(h, "rollback")
  /\ UNCHANGED <<committed, direct, lock, req, tx, told>>

(* UPDATE products SET stock = stock - $2 WHERE stock >= $2.               *)
DecrementStock(h) ==
  LET r == req[h] IN
  /\ pc[h] = "stock"
  /\ r.quantity > 0
  /\ r.product \in Products
  /\ Free(r.product, h)
  /\ stock[r.product] >= r.quantity
  /\ Take(r.product, h)
  /\ tx' = [tx EXCEPT ![h].stockLeft = stock[r.product] - r.quantity]
  /\ Goto(h, "debit")
  /\ UNCHANGED <<committed, direct, req, told>>

(* UPDATE users matching no row: the decrement is rolled back too.         *)
RejectDebit(h) ==
  LET r == req[h] IN
  /\ pc[h] = "debit"
  /\ r.buyer \in Users => balance[r.buyer] < Total(r)
  /\ Goto(h, "rollback")
  /\ UNCHANGED <<committed, direct, lock, req, tx, told>>

(* UPDATE users SET balance_cents = ... WHERE balance_cents >= $2.         *)
DebitBalance(h) ==
  LET r == req[h] IN
  /\ pc[h] = "debit"
  /\ r.buyer \in Users
  /\ Free(r.buyer, h)
  /\ balance[r.buyer] >= Total(r)
  /\ Take(r.buyer, h)
  /\ tx' = [tx EXCEPT ![h].balanceLeft = balance[r.buyer] - Total(r)]
  /\ Goto(h, "insert")
  /\ UNCHANGED <<committed, direct, req, told>>

(* INSERT orders, order_items, tasks.  The identity column gives an id no  *)
(* order and no open transaction has.  The model may give the id of a      *)
(* rolled-back transaction again, which the real sequence never does: more *)
(* behaviours than the code has, and runs that stay finite.                *)
InsertOrder(h) ==
  /\ pc[h] = "insert"
  /\ \E id \in OrderIds \ (Ids(orders) \cup {tx[g].order : g \in Handlers}) :
       tx' = [tx EXCEPT ![h].order = id]
  /\ Goto(h, IF req[h].key = NoKey THEN "commit" ELSE "enqueue")
  /\ UNCHANGED <<committed, direct, lock, req, told>>

(* Mutant: enqueueEvent given the DataSource, not the transaction's        *)
(* manager: its INSERT commits at once on another connection.              *)
EnqueueEventElsewhere(h) ==
  /\ pc[h] = "enqueue"
  /\ outbox' = outbox \cup {tx[h].order}
  /\ tx' = [tx EXCEPT ![h].event = TRUE]
  /\ Goto(h, "bind")
  /\ UNCHANGED <<stock, balance, claimed, keyOrder, orders, tasks, direct,
                 lock, req, told>>

(* enqueueEvent: INSERT INTO outbox in the same transaction.               *)
EnqueueEvent(h) ==
  /\ pc[h] = "enqueue"
  /\ tx' = [tx EXCEPT ![h].event = TRUE]
  /\ Goto(h, "bind")
  /\ UNCHANGED <<committed, direct, lock, req, told>>

(* UPDATE idempotency_keys SET order_id.                                   *)
BindKey(h) ==
  /\ pc[h] = "bind"
  /\ tx' = [tx EXCEPT ![h].bound = TRUE]
  /\ Goto(h, "commit")
  /\ UNCHANGED <<committed, direct, lock, req, told>>

NewOrder(h) ==
  [id |-> tx[h].order, key |-> req[h].key, buyer |-> req[h].buyer,
   product |-> req[h].product, quantity |-> req[h].quantity]

(* COMMIT: all writes of the transaction appear and its locks go.          *)
(* checkout() goes on to publish when it was given a publisher.            *)
Commit(h) ==
  LET r == req[h] IN
  /\ pc[h] = "commit"
  /\ stock' = [stock EXCEPT ![r.product] = tx[h].stockLeft]
  /\ balance' = [balance EXCEPT ![r.buyer] = tx[h].balanceLeft]
  /\ orders' = orders \cup {NewOrder(h)}
  /\ tasks' = tasks \cup {tx[h].order}
  /\ outbox' = IF tx[h].event THEN outbox \cup {tx[h].order} ELSE outbox
  /\ claimed' = claimed \cup ({r.key} \cap Keys)
  /\ keyOrder' = IF tx[h].bound THEN [keyOrder EXCEPT ![r.key] = tx[h].order]
                                ELSE keyOrder
  /\ ReleaseAll(h)
  /\ \/ Goto(h, "reply")
     \/ r.key = NoKey /\ Goto(h, "publish")
  /\ UNCHANGED <<direct, req, tx, told>>

(* Mutant: publish inside the transaction, before COMMIT.                  *)
PublishBeforeCommit(h) ==
  /\ pc[h] \in {"commit", "publish"}
  /\ req[h].key = NoKey
  /\ direct' = direct \cup {tx[h].order}
  /\ IF pc[h] = "publish" THEN Goto(h, "reply") ELSE UNCHANGED pc
  /\ UNCHANGED <<committed, lock, req, tx, told>>

(* checkout() publishes after COMMIT.                                      *)
PublishAfterCommit(h) ==
  /\ pc[h] = "publish"
  /\ direct' = direct \cup {tx[h].order}
  /\ Goto(h, "reply")
  /\ UNCHANGED <<committed, lock, req, tx, told>>

(* 201 with the result reaches the client.                                 *)
Reply(h) ==
  /\ pc[h] = "reply"
  /\ told' = told \cup
       (IF req[h].key = NoKey THEN {}
        ELSE {[key |-> req[h].key, order |-> tx[h].order,
               stockLeft |-> tx[h].stockLeft,
               balanceLeft |-> tx[h].balanceLeft]})
  /\ Goto(h, "idle")
  /\ Forget(h)
  /\ UNCHANGED <<committed, direct, lock>>

(* A statement fails or afterEnqueue throws: dataSource.transaction rolls  *)
(* back.                                                                   *)
StatementFails(h) ==
  /\ pc[h] \in InTransaction
  /\ Goto(h, "rollback")
  /\ UNCHANGED <<committed, direct, lock, req, tx, told>>

(* Mutant: the connection goes back to the pool with its transaction open. *)
RollbackLeaksLocks(h) ==
  /\ pc[h] = "rollback"
  /\ Goto(h, "idle")
  /\ Forget(h)
  /\ UNCHANGED <<committed, direct, lock, told>>

(* ROLLBACK, and the error goes to the client.                             *)
Rollback(h) ==
  /\ pc[h] = "rollback"
  /\ ReleaseAll(h)
  /\ Goto(h, "idle")
  /\ Forget(h)
  /\ UNCHANGED <<committed, direct, told>>

(* Mutant: the server never notices that the client of the lock is gone.   *)
CrashKeepsLocks(h) ==
  /\ pc[h] # "idle"
  /\ Goto(h, "idle")
  /\ Forget(h)
  /\ UNCHANGED <<committed, direct, lock, told>>

(* The process dies (or, after COMMIT, the publish throws or the response  *)
(* is lost): an open transaction is gone, a committed one stays.           *)
Crash(h) ==
  /\ pc[h] # "idle"
  /\ ReleaseAll(h)
  /\ Goto(h, "idle")
  /\ Forget(h)
  /\ UNCHANGED <<committed, direct, told>>

Step(h) ==
  \/ ClaimKey(h) \/ ReplayOf(h)
  \/ RejectStock(h) \/ DecrementStock(h)
  \/ RejectDebit(h) \/ DebitBalance(h)
  \/ InsertOrder(h) \/ EnqueueEvent(h) \/ BindKey(h)
  \/ Commit(h) \/ PublishAfterCommit(h) \/ Reply(h) \/ Rollback(h)

Next ==
  \E h \in Handlers :
    \/ \E r \in Request : Begin(h, r)
    \/ Step(h)
    \/ StatementFails(h)
    \/ Crash(h)

(* A running process executes its next statement, and Postgres queues the  *)
(* waiters of a row: a lock that is free again and again is granted.       *)
Fairness ==
  \A h \in Handlers :
    /\ WF_vars(Step(h))
    /\ SF_vars(ClaimKey(h))
    /\ SF_vars(DecrementStock(h) \/ RejectStock(h))
    /\ SF_vars(DebitBalance(h) \/ RejectDebit(h))

Spec == Init /\ [][Next]_vars
FairSpec == Spec /\ Fairness

----------------------------------------------------------------------------
(* Properties.                                                             *)

Responses == [key : Keys, order : OrderIds, stockLeft : Nat, balanceLeft : Nat]

TypeOK ==
  /\ stock \in [Products -> Nat]
  /\ balance \in [Users -> Nat]
  /\ claimed \subseteq Keys
  /\ keyOrder \in [Keys -> OrderIds \cup {None}]
  /\ orders \subseteq Order
  /\ tasks \subseteq OrderIds
  /\ outbox \subseteq OrderIds
  /\ direct \subseteq OrderIds
  /\ lock \in [Rows -> Handlers \cup {None}]
  /\ pc \in [Handlers -> Phases]
  /\ req \in [Handlers -> Request \cup {NoRequest}]
  /\ tx \in [Handlers -> TxState]
  /\ told \subseteq Responses

(* What a set of orders takes from the shelf, and from the wallets.        *)
UnitsSold(S) == MapThenSumSet(LAMBDA o : o.quantity, S)
Spent(S) == MapThenSumSet(Total, S)

(* No lost update and no half-applied purchase: what has left the shelf    *)
(* and the wallets is what the committed orders say, whatever interleaving *)
(* of UPDATEs, rollbacks and crashes came before (checkout.ts, "one        *)
(* transaction, four changes that may not come apart").                    *)
Conservation ==
  /\ \A p \in Products :
       InitStock[p] - stock[p] = UnitsSold({o \in orders : o.product = p})
  /\ \A u \in Users :
       InitBalance[u] - balance[u] = Spent({o \in orders : o.buyer = u})

(* An idempotency key stands for one intent: two committed orders are      *)
(* never made for the same key, however the requests overlap, fail or are  *)
(* retried (place-order.ts, claim in the order's own transaction).         *)
OneOrderPerKey ==
  \A o1, o2 \in orders :
    (o1.id = o2.id \/ (o1.key = o2.key /\ o1.key \in Keys)) => o1 = o2

(* An order, its task, its outbox row and its key appear together or not   *)
(* at all; so a committed key always has its order and the "key used but   *)
(* no order" error of replayOf is never reached.                           *)
AllOrNothing ==
  /\ tasks = Ids(orders)
  /\ outbox = Ids({o \in orders : o.key \in Keys})
  /\ \A k \in Keys :
       IF k \in claimed THEN \E o \in orders : o.id = keyOrder[k] /\ o.key = k
                        ELSE keyOrder[k] = None

(* checkout() announces only orders that exist and only those that no      *)
(* outbox row announces too.                                               *)
NoPhantomEvent == direct \subseteq Ids(orders) \ outbox

(* Every 201 a client ever received for a key, first or replayed, names    *)
(* the one order of that key, and that order is committed.                 *)
AnswersAgree ==
  \A a \in told : a.key \in claimed /\ a.order = keyOrder[a.key]

(* The next statement of h needs a row that g has locked.                  *)
Waits(h, g) ==
  /\ g # h
  /\ \/ pc[h] = "claim" /\ lock[req[h].key] = g
     \/ pc[h] = "stock" /\ req[h].product \in Products /\ lock[req[h].product] = g
     \/ pc[h] = "debit" /\ req[h].buyer \in Users /\ lock[req[h].buyer] = g

(* "50 parallel checkouts do not deadlock" (checkout.ts): in no group of   *)
(* requests does each wait for a lock of another one of the group.         *)
NoDeadlock ==
  \A S \in SUBSET Handlers :
    S # {} => \E h \in S : \A g \in S : ~Waits(h, g)

(* The client's view: a request that arrived ends, by an answer, an error  *)
(* or the death of its process; no waiter waits forever.                   *)
EveryRequestEnds ==
  \A h \in Handlers : pc[h] # "idle" ~> pc[h] = "idle"

(* The transactions implement one-step purchases.                          *)
Ledger == INSTANCE OrderLedger WITH told <- {<<a.key, a.order>> : a \in told}
ImplementsLedger == Ledger!Spec
=============================================================================

---------------------------- MODULE OrderLedger ----------------------------
(***************************************************************************)
(* What placing an order promises, with no transaction, statement or lock  *)
(* in sight: a purchase happens in one step or not at all.  The detailed   *)
(* module Checkout implements this one.                                    *)
(***************************************************************************)
EXTENDS Integers

CONSTANTS Keys,         \* idempotency keys a client may send
          NoKey,        \* checkout() called without a key
          Products, Users,
          Quantities,   \* what requests ask for
          OrderIds,     \* values of the orders.id sequence (bounds the run)
          None,
          Price,        \* products.price_cents
          InitStock, InitBalance

VARIABLES stock,     \* products.stock
          balance,   \* users.balance_cents
          keyOrder,  \* idempotency_keys.order_id, None: no row
          orders,    \* orders with their item; "key" is the intent they serve
          tasks,     \* order ids with a post-processing task
          outbox,    \* order ids with an outbox row
          direct,    \* order ids published without an outbox
          told       \* <<key, order id>> pairs answered to clients

ledgerVars == <<stock, balance, keyOrder, orders, tasks, outbox, direct, told>>

Order == [id : OrderIds, key : Keys \cup {NoKey}, buyer : Users,
          product : Products, quantity : {q \in Quantities : q > 0}]

Total(o) == Price[o.product] * o.quantity

Ids(S) == {o.id : o \in S}

Init ==
  /\ stock = InitStock
  /\ balance = InitBalance
  /\ keyOrder = [k \in Keys |-> None]
  /\ orders = {}
  /\ tasks = {}
  /\ outbox = {}
  /\ direct = {}
  /\ told = {}

(* One purchase: stock, money, order, task, event and key together.        *)
Buy(o) ==
  /\ o.id \notin Ids(orders)
  /\ o.key \in Keys => keyOrder[o.key] = None
  /\ stock[o.product] >= o.quantity
  /\ balance[o.buyer] >= Total(o)
  /\ stock' = [stock EXCEPT ![o.product] = @ - o.quantity]
  /\ balance' = [balance EXCEPT ![o.buyer] = @ - Total(o)]
  /\ orders' = orders \cup {o}
  /\ tasks' = tasks \cup {o.id}
  /\ IF o.key \in Keys
       THEN /\ keyOrder' = [keyOrder EXCEPT ![o.key] = o.id]
            /\ outbox' = outbox \cup {o.id}
       ELSE UNCHANGED <<keyOrder, outbox>>
  /\ UNCHANGED <<direct, told>>

(* A client learns which order its key stands for.                         *)
Answer(k) ==
  /\ keyOrder[k] # None
  /\ told' = told \cup {<<k, keyOrder[k]>>}
  /\ UNCHANGED <<stock, balance, keyOrder, orders, tasks, outbox, direct>>

(* An order placed without a key is announced after it exists.             *)
Announce(o) ==
  /\ o \in orders
  /\ o.key = NoKey
  /\ direct' = direct \cup {o.id}
  /\ UNCHANGED <<stock, balance, keyOrder, orders, tasks, outbox, told>>

Next ==
  \/ \E o \in Order : Buy(o)
  \/ \E k \in Keys : Answer(k)
  \/ \E o \in orders : Announce(o)

Spec == Init /\ [][Next]_ledgerVars
=============================================================================

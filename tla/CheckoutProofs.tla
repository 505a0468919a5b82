--------------------------- MODULE CheckoutProofs ---------------------------
(***************************************************************************)
(* The inductive invariant of Checkout, and what follows from it for every *)
(* number of handlers, keys, products, users and orders.                   *)
(***************************************************************************)
EXTENDS Checkout, FiniteSetTheorems, FunctionTheorems, WellFoundedInduction, TLAPS

HoldsProduct == {"debit", "insert", "enqueue", "bind", "commit"}
HoldsBuyer == {"insert", "enqueue", "bind", "commit"}
HasOrder == {"enqueue", "bind", "commit"}

(* A request past its first statement is one a client sent; the statements *)
(* about keys run only for requests with a key.                            *)
RequestsInv ==
  \A h \in Handlers :
    /\ pc[h] # "idle" => req[h] \in Request
    /\ pc[h] \in {"claim", "replay", "enqueue", "bind"} => req[h].key \in Keys

(* A transaction past DecrementStock holds the product row, and what it    *)
(* will write there is still computed from the committed value.            *)
StockInv ==
  \A h \in Handlers : pc[h] \in HoldsProduct =>
    /\ req[h].product \in Products
    /\ req[h].quantity > 0
    /\ lock[req[h].product] = h
    /\ tx[h].stockLeft = stock[req[h].product] - req[h].quantity

(* The same of the buyer's row after DebitBalance.                         *)
BalanceInv ==
  \A h \in Handlers : pc[h] \in HoldsBuyer =>
    /\ req[h].buyer \in Users
    /\ lock[req[h].buyer] = h
    /\ tx[h].balanceLeft = balance[req[h].buyer] - Total(req[h])

(* A first request holds its key, which nobody has committed; a replay     *)
(* reads a committed one.                                                  *)
KeyInv ==
  \A h \in Handlers :
    /\ pc[h] \in HoldsProduct \cup {"stock"} /\ req[h].key \in Keys =>
         lock[req[h].key] = h /\ req[h].key \notin claimed
    /\ pc[h] = "replay" => req[h].key \in claimed

(* Order ids in flight are new and different.                              *)
FreshInv ==
  \A h \in Handlers : pc[h] \in HasOrder =>
    /\ tx[h].order \in OrderIds
    /\ \A o \in orders : o.id # tx[h].order
    /\ \A g \in Handlers : pc[g] \in HasOrder /\ g # h =>
         tx[g].order # tx[h].order

(* What COMMIT is about to write beside stock and money.                   *)
WritesInv ==
  \A h \in Handlers :
    /\ pc[h] \in {"stock", "debit", "insert", "enqueue"} => ~tx[h].event
    /\ pc[h] \in {"stock", "debit", "insert", "enqueue", "bind"} => ~tx[h].bound
    /\ pc[h] = "bind" => tx[h].event
    /\ pc[h] = "commit" => /\ tx[h].event <=> req[h].key \in Keys
                           /\ tx[h].bound <=> req[h].key \in Keys
    /\ pc[h] \in {"idle", "claim", "replay"} => ~tx[h].event /\ ~tx[h].bound

(* After COMMIT, or after replayOf, the result in hand is committed.       *)
AfterInv ==
  \A h \in Handlers :
    /\ pc[h] = "reply" /\ req[h].key \in Keys =>
         req[h].key \in claimed /\ tx[h].order = keyOrder[req[h].key]
    /\ pc[h] = "publish" =>
         /\ req[h].key = NoKey
         /\ \E o \in orders : o.id = tx[h].order /\ o.key = NoKey

(* Every order made for a key is the one its key row names.                *)
OrdersBound ==
  \A o \in orders : o.key \in Keys => o.key \in claimed /\ keyOrder[o.key] = o.id

(* Only orders made by checkout() without a key are published directly.    *)
AnnouncedInv ==
  \A d \in direct : \E o \in orders : o.id = d /\ o.key = NoKey

(* The discipline NoDeadlock rests on: a transaction waits for a row of a  *)
(* table only while it holds rows of earlier tables, in the order key,     *)
(* product, buyer; a handler outside a transaction holds nothing.          *)
LockOrder ==
  \A h \in Handlers :
    /\ \A k \in Keys : lock[k] = h =>
         pc[h] \in {"stock", "debit", "insert", "enqueue", "bind", "commit",
                   "rollback"}
    /\ \A p \in Products : lock[p] = h =>
         pc[h] \in {"debit", "insert", "enqueue", "bind", "commit", "rollback"}
    /\ \A u \in Users : lock[u] = h =>
         pc[h] \in {"insert", "enqueue", "bind", "commit", "rollback"}

(* The inductive invariant.                                                *)
IInv ==
  /\ TypeOK
  /\ RequestsInv /\ StockInv /\ BalanceInv /\ KeyInv /\ FreshInv /\ WritesInv
  /\ AfterInv /\ OrdersBound /\ AnnouncedInv
  /\ AllOrNothing /\ OneOrderPerKey /\ AnswersAgree /\ LockOrder
  /\ IsFiniteSet(orders) /\ Conservation

----------------------------------------------------------------------------
(* Sums over finite sets.                                                  *)

(* Sums of natural weights are counted in units: a weight of n is n pairs. *)
Units(w, S) == {u \in S \X Nat : u[2] \in 1 .. w[u[1]]}

(* One element of weight n contributes n units.                            *)
LEMMA ColumnCount ==
  ASSUME NEW x, NEW n \in Nat
  PROVE  IsFiniteSet({x} \X (1 .. n)) /\ Cardinality({x} \X (1 .. n)) = n
<1>. DEFINE C == {x} \X (1 .. n)
            f == [i \in 1 .. n |-> <<x, i>>]
<1>1. f \in Bijection(1 .. n, C)
  <2>1. f \in [1 .. n -> C]
    OBVIOUS
  <2>2. \A i, j \in 1 .. n : f[i] = f[j] => i = j
    OBVIOUS
  <2>3. \A c \in C : \E i \in 1 .. n : f[i] = c
    OBVIOUS
  <2>. QED  BY <2>1, <2>2, <2>3 DEF Bijection, Injection, Surjection, IsInjective
<1>2. IsFiniteSet(1 .. n) /\ Cardinality(1 .. n) = n
  <2>1. IsFiniteSet(1 .. n) /\ Cardinality(1 .. n) = IF 1 > n THEN 0 ELSE n - 1 + 1
    BY FS_Interval
  <2>. QED  BY <2>1
<1>3. ExistsBijection(1 .. n, C)
  BY <1>1 DEF ExistsBijection
<1>. HIDE DEF C
<1>4. IsFiniteSet(C) /\ Cardinality(C) = n
  BY <1>2, <1>3, FS_Bijection
<1>. QED  BY <1>4 DEF C

(* One more element adds its weight.                                       *)
LEMMA UnitsAdd ==
  ASSUME NEW w, NEW S, NEW x, x \notin S, w[x] \in Nat,
         IsFiniteSet(Units(w, S))
  PROVE  /\ IsFiniteSet(Units(w, S \cup {x}))
         /\ Cardinality(Units(w, S \cup {x})) = w[x] + Cardinality(Units(w, S))
         /\ Cardinality(Units(w, S)) \in Nat
<1>. DEFINE C == {x} \X (1 .. w[x])
            U == Units(w, S)
<1>1. Units(w, S \cup {x}) = U \cup C
  BY DEF Units
<1>2. U \cap C = {}
  BY DEF Units
<1>3. IsFiniteSet(C) /\ Cardinality(C) = w[x]
  BY ColumnCount
<1>. HIDE DEF C, U
<1>4. IsFiniteSet(U) /\ Cardinality(U) \in Nat
  BY FS_CardinalityType DEF U
<1>5. IsFiniteSet(U \cup C) /\ Cardinality(U \cup C) = Cardinality(U) + Cardinality(C) - Cardinality(U \cap C)
  BY <1>3, <1>4, FS_Union
<1>6. Cardinality(U \cap C) = 0
  BY <1>2, FS_EmptySet
<1>7. /\ IsFiniteSet(U \cup C) /\ Cardinality(U) \in Nat
      /\ Cardinality(U \cup C) = w[x] + Cardinality(U)
  BY <1>3, <1>4, <1>5, <1>6
<1>. QED  BY <1>1, <1>7 DEF U

(* What holds of the empty set, and of every set that holds it without one *)
(* of its elements, holds of every finite set: no minimal counterexample.  *)
LEMMA SmallestSubset ==
  ASSUME NEW S, IsFiniteSet(S), NEW Bad, Bad \subseteq SUBSET S, Bad # {}
  PROVE  \E s \in Bad : \A x \in s : s \ {x} \notin Bad
<1>. DEFINE R == StrictSubsetOrdering(S)
<1>1. IsWellFoundedOn(R, FiniteSubsetsOf(S))
  BY FS_StrictSubsetOrderingWellFounded
<1>2. Bad \subseteq FiniteSubsetsOf(S)
  BY FS_Subset DEF FiniteSubsetsOf
<1>3. PICK s \in Bad : \A t \in Bad : ~(<<t, s>> \in R)
  <2>. HIDE DEF R
  <2>. QED  BY <1>1, <1>2, WFMin
<1>4. ASSUME NEW x \in s, s \ {x} \in Bad
      PROVE  FALSE
  <2>1. <<s \ {x}, s>> \in R
    BY <1>4 DEF StrictSubsetOrdering
  <2>. QED  BY <2>1, <1>3, <1>4
<1>. QED  BY <1>4

(* Finitely many orders have finitely many units.                          *)
LEMMA UnitsFinite ==
  ASSUME NEW S, IsFiniteSet(S), NEW w, \A x \in S : w[x] \in Nat
  PROVE  \A s \in SUBSET S : IsFiniteSet(Units(w, s)) /\ Cardinality(Units(w, s)) \in Nat
<1>. DEFINE Bad == {s \in SUBSET S : ~IsFiniteSet(Units(w, s))}
<1>1. Bad = {}
  <2>. SUFFICES ASSUME Bad # {} PROVE FALSE
    OBVIOUS
  <2>1. PICK s \in Bad : \A x \in s : s \ {x} \notin Bad
    BY SmallestSubset
  <2>2. s # {}
    <3>1. Units(w, {}) = {}
      BY DEF Units
    <3>. QED  BY <3>1, FS_EmptySet
  <2>3. PICK x \in s : TRUE
    BY <2>2
  <2>4. IsFiniteSet(Units(w, s \ {x})) /\ w[x] \in Nat /\ x \notin s \ {x} /\ (s \ {x}) \cup {x} = s
    BY <2>1
  <2>. HIDE DEF Bad
  <2>5. IsFiniteSet(Units(w, (s \ {x}) \cup {x}))
    BY <2>4, UnitsAdd
  <2>. QED  BY <2>4, <2>5 DEF Bad
<1>. QED  BY <1>1, FS_CardinalityType

(* The recursion by which MapThenFoldSet is defined, with weights.         *)
Adds(iter, w, S) ==
  iter = [s \in SUBSET S |->
            IF s = {} THEN 0
            ELSE w[CHOOSE x \in s : TRUE] + iter[s \ {CHOOSE x \in s : TRUE}]]

(* Counting units satisfies the recursion of the fold ...                  *)
LEMMA UnitsAddUp ==
  ASSUME NEW S, IsFiniteSet(S), NEW w, \A x \in S : w[x] \in Nat
  PROVE  Adds([s \in SUBSET S |-> Cardinality(Units(w, s))], w, S)
<1>. DEFINE iter == [s \in SUBSET S |-> Cardinality(Units(w, s))]
<1>1. ASSUME NEW s \in SUBSET S
      PROVE  iter[s] = IF s = {} THEN 0
                       ELSE w[CHOOSE x \in s : TRUE] + iter[s \ {CHOOSE x \in s : TRUE}]
  <2>1. CASE s = {}
    <3>1. Units(w, {}) = {}
      BY DEF Units
    <3>. QED  BY <2>1, <3>1, FS_EmptySet
  <2>2. CASE s # {}
    <3>. DEFINE x == CHOOSE x \in s : TRUE
                r == s \ {x}
    <3>1. x \in s
      BY <2>2
    <3>. HIDE DEF x
    <3>2. w[x] \in Nat /\ x \notin r /\ r \cup {x} = s /\ r \in SUBSET S
      BY <3>1
    <3>3. IsFiniteSet(Units(w, r))
      BY <3>2, UnitsFinite
    <3>4. Cardinality(Units(w, r \cup {x})) = w[x] + Cardinality(Units(w, r))
      BY <3>2, <3>3, UnitsAdd
    <3>5. iter[s] = w[x] + iter[r]
      BY <3>2, <3>4
    <3>. QED  BY <2>2, <3>5 DEF x
  <2>. QED  BY <2>1, <2>2
<1>2. iter = [s \in SUBSET S |-> iter[s]]
  OBVIOUS
<1>. HIDE DEF iter
<1>3. iter = [s \in SUBSET S |->
            IF s = {} THEN 0
            ELSE w[CHOOSE x \in s : TRUE] + iter[s \ {CHOOSE x \in s : TRUE}]]
  BY <1>1, <1>2
<1>4. Adds(iter, w, S)
  BY <1>3 DEF Adds
<1>. QED  BY <1>4 DEF iter

(* ... and nothing else does: a set on which two solutions differ, and no  *)
(* smaller one, does not exist.                                            *)
LEMMA AddsCounts ==
  ASSUME NEW S, IsFiniteSet(S), NEW w, \A x \in S : w[x] \in Nat, NEW iter, Adds(iter, w, S)
  PROVE  iter[S] = Cardinality(Units(w, S))
<1>. DEFINE Bad == {s \in SUBSET S : iter[s] # Cardinality(Units(w, s))}
<1>0. \A s \in SUBSET S :
        iter[s] = IF s = {} THEN 0
                  ELSE w[CHOOSE x \in s : TRUE] + iter[s \ {CHOOSE x \in s : TRUE}]
  BY DEF Adds
<1>1. Bad = {}
  <2>. SUFFICES ASSUME Bad # {} PROVE FALSE
    OBVIOUS
  <2>1. PICK s \in Bad : \A x \in s : s \ {x} \notin Bad
    BY SmallestSubset
  <2>2. s # {}
    <3>1. Units(w, {}) = {}
      BY DEF Units
    <3>2. iter[{}] = 0
      BY <1>0
    <3>. QED  BY <3>1, <3>2, FS_EmptySet
  <2>. DEFINE x == CHOOSE x \in s : TRUE
              r == s \ {x}
  <2>3. x \in s /\ iter[s] = w[x] + iter[r]
    BY <2>2, <1>0
  <2>. HIDE DEF x
  <2>4. w[x] \in Nat /\ x \notin r /\ r \cup {x} = s /\ r \in SUBSET S
    BY <2>3
  <2>5. IsFiniteSet(Units(w, r))
    BY <2>4, UnitsFinite
  <2>6. Cardinality(Units(w, r \cup {x})) = w[x] + Cardinality(Units(w, r))
    BY <2>4, <2>5, UnitsAdd
  <2>7. iter[r] = Cardinality(Units(w, r))
    BY <2>1, <2>3, <2>4
  <2>8. iter[s] = Cardinality(Units(w, s))
    BY <2>3, <2>4, <2>6, <2>7
  <2>. QED  BY <2>8
<1>. QED  BY <1>1

(* The two sums of Conservation.                                           *)
LEMMA SumOfQuantities ==
  ASSUME NEW S, IsFiniteSet(S), NEW w, \A x \in S : w[x] \in Nat, \A o \in S : w[o] = o.quantity
  PROVE  MapThenSumSet(LAMBDA o : o.quantity, S) = Cardinality(Units(w, S))
<1>. DEFINE P(iter) == iter = [s \in SUBSET S |->
              IF s = {} THEN 0
              ELSE (CHOOSE x \in s : TRUE).quantity + iter[s \ {CHOOSE x \in s : TRUE}]]
<1>1. ASSUME NEW iter PROVE P(iter) <=> Adds(iter, w, S)
  <2>1. ASSUME NEW s \in SUBSET S, s # {}
        PROVE  w[CHOOSE x \in s : TRUE] = (CHOOSE x \in s : TRUE).quantity
    BY <2>1
  <2>2. [s \in SUBSET S |->
              IF s = {} THEN 0
              ELSE (CHOOSE x \in s : TRUE).quantity + iter[s \ {CHOOSE x \in s : TRUE}]]
        = [s \in SUBSET S |->
            IF s = {} THEN 0
            ELSE w[CHOOSE x \in s : TRUE] + iter[s \ {CHOOSE x \in s : TRUE}]]
    BY <2>1
  <2>. QED  BY <2>2 DEF Adds
<1>. HIDE DEF P
<1>2. \E iter : P(iter)
  BY <1>1, UnitsAddUp
<1>3. P(CHOOSE iter : P(iter))
  BY <1>2
<1>4. (CHOOSE iter : P(iter))[S] = Cardinality(Units(w, S))
  BY <1>1, <1>3, AddsCounts
<1>. QED  BY <1>4 DEF P, MapThenSumSet, MapThenFoldSet

(* The same of the totals.                                                 *)
LEMMA SumOfTotals ==
  ASSUME NEW S, IsFiniteSet(S), NEW w, \A x \in S : w[x] \in Nat, \A o \in S : w[o] = Total(o)
  PROVE  MapThenSumSet(Total, S) = Cardinality(Units(w, S))
<1>. DEFINE P(iter) == iter = [s \in SUBSET S |->
              IF s = {} THEN 0
              ELSE Total(CHOOSE x \in s : TRUE) + iter[s \ {CHOOSE x \in s : TRUE}]]
<1>1. ASSUME NEW iter PROVE P(iter) <=> Adds(iter, w, S)
  <2>1. ASSUME NEW s \in SUBSET S, s # {}
        PROVE  w[CHOOSE x \in s : TRUE] = Total(CHOOSE x \in s : TRUE)
    BY <2>1
  <2>2. [s \in SUBSET S |->
              IF s = {} THEN 0
              ELSE Total(CHOOSE x \in s : TRUE) + iter[s \ {CHOOSE x \in s : TRUE}]]
        = [s \in SUBSET S |->
            IF s = {} THEN 0
            ELSE w[CHOOSE x \in s : TRUE] + iter[s \ {CHOOSE x \in s : TRUE}]]
    BY <2>1
  <2>. QED  BY <2>2 DEF Adds
<1>. HIDE DEF P
<1>2. \E iter : P(iter)
  BY <1>1, UnitsAddUp
<1>3. P(CHOOSE iter : P(iter))
  BY <1>2
<1>4. (CHOOSE iter : P(iter))[S] = Cardinality(Units(w, S))
  BY <1>1, <1>3, AddsCounts
<1>. QED  BY <1>4 DEF P, MapThenSumSet, MapThenFoldSet

Quantity == [o \in Order |-> o.quantity]
Cost == [o \in Order |-> Total(o)]

(* What an order takes from a shelf and from a wallet is never negative.   *)
LEMMA WeightsAreNatural ==
  \A o \in Order : Quantity[o] \in Nat /\ Cost[o] \in Nat
<1>. SUFFICES ASSUME NEW o \in Order PROVE Quantity[o] \in Nat /\ Cost[o] \in Nat
  OBVIOUS
<1>1. o.quantity \in Nat
  <2>1. o.quantity \in Int /\ o.quantity > 0
    BY CheckoutAssumption DEF Order
  <2>. QED  BY <2>1
<1>4. Price[o.product] \in Nat
  BY CheckoutAssumption DEF Order
<1>2. \A a, b \in Nat : a * b \in Nat
  OBVIOUS
<1>3. Total(o) \in Nat
  BY <1>1, <1>2, <1>4 DEF Total
<1>. QED  BY <1>1, <1>3 DEF Quantity, Cost

(* One more order adds its quantity and its total.                         *)
LEMMA SumsAdd ==
  ASSUME NEW S, S \subseteq Order, IsFiniteSet(S), NEW o \in Order, o \notin S
  PROVE  /\ UnitsSold(S \cup {o}) = o.quantity + UnitsSold(S)
         /\ Spent(S \cup {o}) = Total(o) + Spent(S)
         /\ UnitsSold(S) \in Nat /\ Spent(S) \in Nat
<1>. DEFINE T == S \cup {o}
<1>1. IsFiniteSet(T) /\ T \subseteq Order
  BY FS_AddElement
<1>2. \A x \in T : Quantity[x] \in Nat /\ Cost[x] \in Nat /\ Quantity[x] = x.quantity /\ Cost[x] = Total(x)
  BY <1>1, WeightsAreNatural DEF Quantity, Cost
<1>3. S \subseteq T /\ o \in T
  OBVIOUS
<1>. HIDE DEF T
<1>4. /\ UnitsSold(T) = Cardinality(Units(Quantity, T))
      /\ UnitsSold(S) = Cardinality(Units(Quantity, S))
  BY <1>1, <1>2, <1>3, SumOfQuantities DEF UnitsSold
<1>5. /\ Spent(T) = Cardinality(Units(Cost, T))
      /\ Spent(S) = Cardinality(Units(Cost, S))
  BY <1>1, <1>2, <1>3, SumOfTotals DEF Spent
<1>6. IsFiniteSet(Units(Quantity, S)) /\ IsFiniteSet(Units(Cost, S))
  BY <1>2, <1>3, UnitsFinite
<1>7. /\ Cardinality(Units(Quantity, S \cup {o})) = Quantity[o] + Cardinality(Units(Quantity, S))
      /\ Cardinality(Units(Cost, S \cup {o})) = Cost[o] + Cardinality(Units(Cost, S))
      /\ Cardinality(Units(Quantity, S)) \in Nat /\ Cardinality(Units(Cost, S)) \in Nat
  BY <1>2, <1>3, <1>6, UnitsAdd
<1>. QED  BY <1>2, <1>3, <1>4, <1>5, <1>7 DEF T

(* No orders, nothing sold.                                                *)
LEMMA EmptySums ==
  UnitsSold({}) = 0 /\ Spent({}) = 0
<1>1. Units(Quantity, {}) = {} /\ Units(Cost, {}) = {}
  BY DEF Units
<1>2. Cardinality({}) = 0 /\ IsFiniteSet({})
  BY FS_EmptySet
<1>. QED  BY <1>1, <1>2, SumOfQuantities, SumOfTotals DEF UnitsSold, Spent

----------------------------------------------------------------------------

(* The total of an order line, price times quantity (checkout.ts), is a number. *)
LEMMA TotalType ==
  ASSUME NEW p \in Products, NEW q \in Quantities
  PROVE  Price[p] * q \in Int
<1>1. Price[p] \in Int /\ q \in Int
  BY CheckoutAssumption
<1>2. \A a, b \in Int : a * b \in Int
  OBVIOUS
<1> QED BY <1>1, <1>2

(* The empty database has the types.                                       *)
LEMMA TypeInit == Init => TypeOK
BY CheckoutAssumption
   DEF Init, TypeOK, Rows, Phases, InTransaction, NoRequest, EmptyTx, TxState

(* The empty database satisfies the invariant.                             *)
LEMMA InvInit == Init => IInv
<1> SUFFICES ASSUME Init PROVE IInv
  OBVIOUS
<1>1. TypeOK
  BY TypeInit
<1>2. RequestsInv /\ StockInv /\ BalanceInv /\ KeyInv /\ FreshInv /\ WritesInv
  BY DEF Init, RequestsInv, StockInv, BalanceInv, KeyInv, FreshInv, WritesInv,
         EmptyTx, HoldsProduct, HoldsBuyer, HasOrder
<1>3. AfterInv /\ OrdersBound /\ AnnouncedInv /\ OneOrderPerKey /\ AnswersAgree
  BY DEF Init, AfterInv, OrdersBound, AnnouncedInv, OneOrderPerKey, AnswersAgree
<1>4. AllOrNothing /\ LockOrder
  BY CheckoutAssumption DEF Init, AllOrNothing, LockOrder, Ids, Rows
<1>5. IsFiniteSet(orders)
  BY FS_EmptySet DEF Init
<1>6. Conservation
  <2>1. /\ \A p \in Products : {o \in orders : o.product = p} = {}
        /\ \A u \in Users : {o \in orders : o.buyer = u} = {}
    BY DEF Init
  <2>2. /\ \A p \in Products : InitStock[p] - stock[p] = 0
        /\ \A u \in Users : InitBalance[u] - balance[u] = 0
    BY CheckoutAssumption DEF Init
  <2> QED BY <2>1, <2>2, EmptySums DEF Conservation
<1> QED BY <1>1, <1>2, <1>3, <1>4, <1>5, <1>6 DEF IInv

(* Every statement of checkoutInTransaction and placeOrder keeps the types. *)
LEMMA TypeStep ==
  ASSUME IInv, [Next]_vars
  PROVE  TypeOK'
<1> USE DEF TypeOK, Goto, Take, Free, ReleaseAll, Forget, committed
<1>1. ASSUME NEW h \in Handlers, NEW r \in Request, Begin(h, r)
      PROVE  TypeOK'
  BY <1>1 DEF IInv, Begin, Phases, InTransaction
<1>2. ASSUME NEW h \in Handlers, ClaimKey(h) PROVE TypeOK'
  BY <1>2 DEF IInv, RequestsInv, ClaimKey, Phases, InTransaction, Rows
<1>3. ASSUME NEW h \in Handlers, ReplayOf(h) PROVE TypeOK'
  <2>1. tx' \in [Handlers -> TxState]
    <3>1. CASE UNCHANGED tx
      BY <3>1 DEF IInv
    <3>2. ASSUME NEW o \in orders,
                 tx' = [tx EXCEPT ![h] = [@ EXCEPT
                                  !.order = o.id,
                                  !.stockLeft = stock[o.product],
                                  !.balanceLeft = balance[o.buyer]]]
          PROVE  tx' \in [Handlers -> TxState]
      <4>1. o.id \in OrderIds /\ stock[o.product] \in Nat
            /\ balance[o.buyer] \in Nat
        BY DEF IInv, Order
      <4>2. [tx[h] EXCEPT !.order = o.id, !.stockLeft = stock[o.product],
                          !.balanceLeft = balance[o.buyer]] \in TxState
        BY <4>1 DEF IInv, TxState
      <4> QED BY <3>2, <4>2 DEF IInv
    <3> QED BY <1>3, <3>1, <3>2 DEF ReplayOf
  <2> QED
    BY <1>3, <2>1 DEF IInv, ReplayOf, Phases, InTransaction
<1>4. ASSUME NEW h \in Handlers, RejectStock(h) PROVE TypeOK'
  BY <1>4 DEF IInv, RejectStock, Phases
<1>5. ASSUME NEW h \in Handlers, DecrementStock(h) PROVE TypeOK'
  BY <1>5, CheckoutAssumption
     DEF IInv, RequestsInv, Request, TxState, DecrementStock, Phases, InTransaction,
         Rows
<1>6. ASSUME NEW h \in Handlers, RejectDebit(h) PROVE TypeOK'
  BY <1>6 DEF IInv, RejectDebit, Phases
<1>7. ASSUME NEW h \in Handlers, DebitBalance(h) PROVE TypeOK'
  <2>1. Total(req[h]) \in Int
    BY <1>7, TotalType
       DEF IInv, RequestsInv, StockInv, HoldsProduct, Request, DebitBalance, Total
  <2>2. tx' \in [Handlers -> TxState]
    BY <1>7, <2>1 DEF IInv, DebitBalance, TxState
  <2>3. lock' \in [Rows -> Handlers \cup {None}]
    BY <1>7 DEF IInv, DebitBalance
  <2> QED
    BY <1>7, <2>2, <2>3 DEF IInv, DebitBalance, Phases, InTransaction
<1>8. ASSUME NEW h \in Handlers, InsertOrder(h) PROVE TypeOK'
  <2>1. PICK id \in OrderIds : tx' = [tx EXCEPT ![h].order = id]
    BY <1>8 DEF InsertOrder
  <2> QED
    BY <1>8, <2>1 DEF IInv, TxState, InsertOrder, Phases, InTransaction
<1>9. ASSUME NEW h \in Handlers, EnqueueEvent(h) PROVE TypeOK'
  BY <1>9 DEF IInv, TxState, EnqueueEvent, Phases, InTransaction
<1>10. ASSUME NEW h \in Handlers, BindKey(h) PROVE TypeOK'
  BY <1>10 DEF IInv, TxState, BindKey, Phases, InTransaction
<1>11. ASSUME NEW h \in Handlers, Commit(h) PROVE TypeOK'
  <2>1. NewOrder(h) \in Order
    BY <1>11 DEF IInv, RequestsInv, StockInv, BalanceInv, FreshInv, HoldsProduct,
       HoldsBuyer, HasOrder, Commit, NewOrder, Order, Request
  <2>2. tx[h].order \in OrderIds
    BY <1>11 DEF IInv, FreshInv, HasOrder, Commit
  <2>3. stock' \in [Products -> Nat] /\ balance' \in [Users -> Nat]
    BY <1>11 DEF IInv, TxState, Commit
  <2>4. claimed' \subseteq Keys /\ keyOrder' \in [Keys -> OrderIds \cup {None}]
    BY <1>11, <2>2 DEF IInv, Commit
  <2>5. pc' \in [Handlers -> Phases]
    BY <1>11 DEF IInv, Commit, Phases
  <2> QED
    BY <1>11, <2>1, <2>2, <2>3, <2>4, <2>5 DEF IInv, Commit
<1>12. ASSUME NEW h \in Handlers, PublishAfterCommit(h) PROVE TypeOK'
  BY <1>12 DEF IInv, AfterInv, PublishAfterCommit, Phases, Order
<1>13. ASSUME NEW h \in Handlers, Reply(h) PROVE TypeOK'
  BY <1>13 DEF IInv, RequestsInv, AfterInv, AllOrNothing, Request, Reply, Phases,
     Responses, TxState, EmptyTx, Order
<1>14. ASSUME NEW h \in Handlers, StatementFails(h) PROVE TypeOK'
  BY <1>14 DEF IInv, StatementFails, Phases
<1>15. ASSUME NEW h \in Handlers, Rollback(h) \/ Crash(h) PROVE TypeOK'
  <2>1. pc' \in [Handlers -> Phases]
    BY <1>15 DEF IInv, Rollback, Crash, Phases
  <2>2. lock' \in [Rows -> Handlers \cup {None}]
    BY <1>15 DEF IInv, Rollback, Crash
  <2>3. req' \in [Handlers -> Request \cup {NoRequest}]
    BY <1>15 DEF IInv, Rollback, Crash
  <2>4. tx' \in [Handlers -> TxState]
    <3>1. EmptyTx \in TxState
      BY DEF EmptyTx, TxState
    <3> QED
      BY <1>15, <3>1 DEF IInv, Rollback, Crash
  <2> QED
    BY <1>15, <2>1, <2>2, <2>3, <2>4 DEF IInv, Rollback, Crash
<1>16. CASE UNCHANGED vars
  BY <1>16 DEF IInv, vars
<1> QED
  BY <1>1, <1>2, <1>3, <1>4, <1>5, <1>6, <1>7, <1>8, <1>9, <1>10, <1>11, <1>12,
     <1>13, <1>14, <1>15, <1>16 DEF Next, Step

(* Where a statement moves a handler's private state: replayOf reads, it   *)
(* writes nothing a COMMIT would store.                                    *)
LEMMA ReplayReads ==
  ASSUME IInv, TypeOK', NEW h \in Handlers, ReplayOf(h)
  PROVE  /\ \A g \in Handlers : g # h => tx'[g] = tx[g] /\ pc'[g] = pc[g]
         /\ pc'[h] \in {"rollback", "reply"}
         /\ pc'[h] = "reply" => tx'[h].order = keyOrder[req[h].key]
         /\ UNCHANGED <<stock, balance, claimed, keyOrder, orders, tasks, outbox,
                        direct, lock, req, told>>
<1>1. \A g \in Handlers : g # h => pc'[g] = pc[g]
  BY DEF IInv, TypeOK, ReplayOf, Goto
<1>2. ASSUME pc' = [pc EXCEPT ![h] = "rollback"], UNCHANGED tx
      PROVE  /\ \A g \in Handlers : g # h => tx'[g] = tx[g]
             /\ pc'[h] = "rollback"
  BY <1>2 DEF IInv, TypeOK
<1>3. ASSUME NEW o \in orders, o.id = keyOrder[req[h].key],
             tx' = [tx EXCEPT ![h] = [@ EXCEPT
                                 !.order = o.id,
                                 !.stockLeft = stock[o.product],
                                 !.balanceLeft = balance[o.buyer]]],
             pc' = [pc EXCEPT ![h] = "reply"]
      PROVE  /\ \A g \in Handlers : g # h => tx'[g] = tx[g]
             /\ pc'[h] = "reply"
             /\ tx'[h].order = keyOrder[req[h].key]
  <2>1. tx'[h] = [tx[h] EXCEPT !.order = o.id, !.stockLeft = stock[o.product],
                               !.balanceLeft = balance[o.buyer]]
    BY <1>3 DEF IInv, TypeOK
  <2>2. tx'[h].order = o.id
    BY <2>1 DEF IInv, TypeOK, TxState
  <2> QED
    BY <1>3, <2>2 DEF IInv, TypeOK
<1>4. UNCHANGED <<stock, balance, claimed, keyOrder, orders, tasks, outbox,
                  direct, lock, req, told>>
  BY DEF ReplayOf, committed
<1>5. CASE pc' = [pc EXCEPT ![h] = "rollback"] /\ UNCHANGED tx
  BY <1>1, <1>2, <1>4, <1>5
<1>6. CASE \E o \in orders :
             /\ o.id = keyOrder[req[h].key]
             /\ tx' = [tx EXCEPT ![h] = [@ EXCEPT
                                 !.order = o.id,
                                 !.stockLeft = stock[o.product],
                                 !.balanceLeft = balance[o.buyer]]]
             /\ pc' = [pc EXCEPT ![h] = "reply"]
  BY <1>1, <1>3, <1>4, <1>6
<1> QED
  BY <1>5, <1>6 DEF ReplayOf, Goto

(* What is committed, published or answered changes in three steps only.   *)
LEMMA WhoWrites ==
  ASSUME [Next]_vars
  PROVE  \/ UNCHANGED <<committed, direct, told>>
         \/ \E h \in Handlers : Commit(h) \/ PublishAfterCommit(h) \/ Reply(h)
<1>1. ASSUME NEW h \in Handlers,
             \/ \E r \in Request : Begin(h, r)
             \/ ClaimKey(h) \/ ReplayOf(h) \/ RejectStock(h) \/ DecrementStock(h)
      PROVE  UNCHANGED <<committed, direct, told>>
  BY <1>1 DEF Begin, ClaimKey, ReplayOf, RejectStock, DecrementStock
<1>2. ASSUME NEW h \in Handlers,
             RejectDebit(h) \/ DebitBalance(h) \/ InsertOrder(h) \/ EnqueueEvent(h)
      PROVE  UNCHANGED <<committed, direct, told>>
  BY <1>2 DEF RejectDebit, DebitBalance, InsertOrder, EnqueueEvent
<1>3. ASSUME NEW h \in Handlers,
             BindKey(h) \/ StatementFails(h) \/ Rollback(h) \/ Crash(h)
      PROVE  UNCHANGED <<committed, direct, told>>
  BY <1>3 DEF BindKey, StatementFails, Rollback, Crash
<1>4. UNCHANGED vars => UNCHANGED <<committed, direct, told>>
  BY DEF vars, committed
<1>5. ASSUME Next
      PROVE  \/ UNCHANGED <<committed, direct, told>>
             \/ \E h \in Handlers : Commit(h) \/ PublishAfterCommit(h) \/ Reply(h)
  BY <1>1, <1>2, <1>3, <1>5 DEF Next, Step
<1> QED  BY <1>4, <1>5

(* Committed rows change in COMMIT and nowhere else.                       *)
LEMMA OnlyCommitWrites ==
  ASSUME [Next]_vars
  PROVE  UNCHANGED committed \/ \E h \in Handlers : Commit(h)
  BY WhoWrites DEF PublishAfterCommit, Reply

(* Row locks: what a transaction waits to write stays what it computed,    *)
(* because the row it holds is changed by nobody else.                     *)
LEMMA LocksStep ==
  ASSUME IInv, TypeOK', [Next]_vars
  PROVE  (RequestsInv /\ StockInv /\ BalanceInv /\ KeyInv /\ LockOrder)'
<1> USE DEF Goto, Take, Free, ReleaseAll, Forget, committed, Rows
<1>1. ASSUME NEW h \in Handlers, NEW r \in Request, Begin(h, r)
      PROVE  (RequestsInv /\ StockInv /\ BalanceInv /\ KeyInv /\ LockOrder)'
  BY <1>1, CheckoutAssumption, RowsAreDistinct
     DEF IInv, TypeOK,
     RequestsInv, Request, StockInv, BalanceInv, KeyInv, LockOrder, Begin,
     HoldsProduct, HoldsBuyer
<1>2. ASSUME NEW h \in Handlers, ClaimKey(h)
      PROVE  (RequestsInv /\ StockInv /\ BalanceInv /\ KeyInv /\ LockOrder)'
  BY <1>2, CheckoutAssumption, RowsAreDistinct
     DEF IInv, TypeOK,
     RequestsInv, Request, StockInv, BalanceInv, KeyInv, LockOrder, ClaimKey,
     HoldsProduct, HoldsBuyer
<1>3. ASSUME NEW h \in Handlers, RejectStock(h) \/ RejectDebit(h) \/ StatementFails(h)
      PROVE  (RequestsInv /\ StockInv /\ BalanceInv /\ KeyInv /\ LockOrder)'
  BY <1>3, CheckoutAssumption, RowsAreDistinct
     DEF IInv, TypeOK,
     RequestsInv, Request, StockInv, BalanceInv, KeyInv, LockOrder,
     RejectStock, RejectDebit, StatementFails, InTransaction, HoldsProduct,
     HoldsBuyer
<1>4. ASSUME NEW h \in Handlers, DecrementStock(h)
      PROVE  (RequestsInv /\ StockInv /\ BalanceInv /\ KeyInv /\ LockOrder)'
  BY <1>4, CheckoutAssumption, RowsAreDistinct
     DEF IInv, TypeOK,
     RequestsInv, Request, StockInv, BalanceInv, KeyInv, LockOrder,
     DecrementStock, HoldsProduct, HoldsBuyer
<1>5. ASSUME NEW h \in Handlers, DebitBalance(h)
      PROVE  (RequestsInv /\ StockInv /\ BalanceInv /\ KeyInv /\ LockOrder)'
  BY <1>5, CheckoutAssumption, RowsAreDistinct
     DEF IInv, TypeOK,
     RequestsInv, Request, StockInv, BalanceInv, KeyInv, LockOrder,
     DebitBalance, HoldsProduct, HoldsBuyer
<1>6. ASSUME NEW h \in Handlers, InsertOrder(h)
      PROVE  (RequestsInv /\ StockInv /\ BalanceInv /\ KeyInv /\ LockOrder)'
  BY <1>6, CheckoutAssumption, RowsAreDistinct
     DEF IInv, TypeOK,
     RequestsInv, Request, StockInv, BalanceInv, KeyInv, LockOrder,
     InsertOrder, HoldsProduct, HoldsBuyer
<1>7. ASSUME NEW h \in Handlers, EnqueueEvent(h)
      PROVE  (RequestsInv /\ StockInv /\ BalanceInv /\ KeyInv /\ LockOrder)'
  BY <1>7, CheckoutAssumption, RowsAreDistinct
     DEF IInv, TypeOK,
     RequestsInv, Request, StockInv, BalanceInv, KeyInv, LockOrder,
     EnqueueEvent, HoldsProduct, HoldsBuyer
<1>8. ASSUME NEW h \in Handlers, BindKey(h)
      PROVE  (RequestsInv /\ StockInv /\ BalanceInv /\ KeyInv /\ LockOrder)'
  BY <1>8, CheckoutAssumption, RowsAreDistinct
     DEF IInv, TypeOK,
     RequestsInv, Request, StockInv, BalanceInv, KeyInv, LockOrder, BindKey,
     HoldsProduct, HoldsBuyer
<1>9. ASSUME NEW h \in Handlers, Commit(h)
      PROVE  (RequestsInv /\ StockInv /\ BalanceInv /\ KeyInv /\ LockOrder)'
  BY <1>9, CheckoutAssumption, RowsAreDistinct
     DEF IInv, TypeOK,
     RequestsInv, Request, StockInv, BalanceInv, KeyInv, LockOrder, Commit,
     HoldsProduct, HoldsBuyer
<1>10. ASSUME NEW h \in Handlers, PublishAfterCommit(h) \/ Reply(h)
      PROVE  (RequestsInv /\ StockInv /\ BalanceInv /\ KeyInv /\ LockOrder)'
  BY <1>10, CheckoutAssumption, RowsAreDistinct
     DEF IInv, TypeOK,
     RequestsInv, Request, StockInv, BalanceInv, KeyInv, LockOrder,
     PublishAfterCommit, Reply, HoldsProduct, HoldsBuyer
<1>11. ASSUME NEW h \in Handlers, Rollback(h) \/ Crash(h)
      PROVE  (RequestsInv /\ StockInv /\ BalanceInv /\ KeyInv /\ LockOrder)'
  BY <1>11, CheckoutAssumption, RowsAreDistinct
     DEF IInv, TypeOK,
     RequestsInv, Request, StockInv, BalanceInv, KeyInv, LockOrder, Rollback,
     Crash, HoldsProduct, HoldsBuyer
<1>12. ASSUME NEW h \in Handlers, ReplayOf(h)
      PROVE  (RequestsInv /\ StockInv /\ BalanceInv /\ KeyInv /\ LockOrder)'
  <2>1. pc[h] = "replay"
    BY <1>12 DEF ReplayOf
  <2> QED
    BY <1>12, <2>1, ReplayReads
       DEF IInv, TypeOK, RequestsInv,
     StockInv, BalanceInv, KeyInv, LockOrder, HoldsProduct, HoldsBuyer
<1>13. CASE UNCHANGED vars
  <2>1. RequestsInv' /\ StockInv'
    BY <1>13 DEF IInv, vars, RequestsInv, StockInv
  <2>2. BalanceInv' /\ KeyInv'
    BY <1>13 DEF IInv, vars, BalanceInv, KeyInv, Total
  <2>3. LockOrder'
    BY <1>13 DEF IInv, vars, LockOrder
  <2> QED
    BY <2>1, <2>2, <2>3
<1> QED
  BY <1>1, <1>2, <1>3, <1>4, <1>5, <1>6, <1>7, <1>8, <1>9,
     <1>10, <1>11, <1>12, <1>13
     DEF Next, Step

(* The private writes of a transaction follow its statements.              *)
LEMMA WritesStep ==
  ASSUME IInv, TypeOK', [Next]_vars
  PROVE  WritesInv'
<1> USE DEF Goto, Take, Free, ReleaseAll, Forget, committed, Rows
<1>1. ASSUME NEW h \in Handlers, NEW r \in Request, Begin(h, r)
      PROVE  WritesInv'
  BY <1>1, CheckoutAssumption, RowsAreDistinct
     DEF IInv, TypeOK,
     RequestsInv, Request, WritesInv, Begin, EmptyTx
<1>2. ASSUME NEW h \in Handlers, ClaimKey(h)
      PROVE  WritesInv'
  BY <1>2, CheckoutAssumption, RowsAreDistinct
     DEF IInv, TypeOK,
     RequestsInv, Request, WritesInv, ClaimKey, EmptyTx
<1>3. ASSUME NEW h \in Handlers, RejectStock(h) \/ RejectDebit(h) \/ StatementFails(h)
      PROVE  WritesInv'
  BY <1>3, CheckoutAssumption, RowsAreDistinct
     DEF IInv, TypeOK,
     RequestsInv, Request, WritesInv, RejectStock, RejectDebit,
     StatementFails, InTransaction, EmptyTx
<1>4. ASSUME NEW h \in Handlers, DecrementStock(h)
      PROVE  WritesInv'
  BY <1>4, CheckoutAssumption, RowsAreDistinct
     DEF IInv, TypeOK,
     RequestsInv, Request, WritesInv, DecrementStock, EmptyTx
<1>5. ASSUME NEW h \in Handlers, DebitBalance(h)
      PROVE  WritesInv'
  BY <1>5, CheckoutAssumption, RowsAreDistinct
     DEF IInv, TypeOK,
     RequestsInv, Request, WritesInv, DebitBalance, EmptyTx
<1>6. ASSUME NEW h \in Handlers, InsertOrder(h)
      PROVE  WritesInv'
  BY <1>6, CheckoutAssumption, RowsAreDistinct
     DEF IInv, TypeOK,
     RequestsInv, Request, WritesInv, InsertOrder, EmptyTx
<1>7. ASSUME NEW h \in Handlers, EnqueueEvent(h)
      PROVE  WritesInv'
  BY <1>7, CheckoutAssumption, RowsAreDistinct
     DEF IInv, TypeOK,
     RequestsInv, Request, WritesInv, EnqueueEvent, EmptyTx
<1>8. ASSUME NEW h \in Handlers, BindKey(h)
      PROVE  WritesInv'
  BY <1>8, CheckoutAssumption, RowsAreDistinct
     DEF IInv, TypeOK,
     RequestsInv, Request, WritesInv, BindKey, EmptyTx
<1>9. ASSUME NEW h \in Handlers, Commit(h)
      PROVE  WritesInv'
  BY <1>9, CheckoutAssumption, RowsAreDistinct
     DEF IInv, TypeOK,
     RequestsInv, Request, WritesInv, Commit, EmptyTx
<1>10. ASSUME NEW h \in Handlers, PublishAfterCommit(h) \/ Reply(h)
      PROVE  WritesInv'
  BY <1>10, CheckoutAssumption, RowsAreDistinct
     DEF IInv, TypeOK,
     RequestsInv, Request, WritesInv, PublishAfterCommit, Reply, EmptyTx
<1>11. ASSUME NEW h \in Handlers, Rollback(h) \/ Crash(h)
      PROVE  WritesInv'
  BY <1>11, CheckoutAssumption, RowsAreDistinct
     DEF IInv, TypeOK,
     RequestsInv, Request, WritesInv, Rollback, Crash, EmptyTx
<1>12. ASSUME NEW h \in Handlers, ReplayOf(h)
      PROVE  WritesInv'
  <2>1. pc[h] = "replay"
    BY <1>12 DEF ReplayOf
  <2> QED
    BY <1>12, <2>1, ReplayReads
       DEF IInv, TypeOK, RequestsInv,
     WritesInv, EmptyTx
<1>13. CASE UNCHANGED vars
  BY <1>13
     DEF IInv, vars, WritesInv, EmptyTx
<1> QED
  BY <1>1, <1>2, <1>3, <1>4, <1>5, <1>6, <1>7, <1>8, <1>9,
     <1>10, <1>11, <1>12, <1>13
     DEF Next, Step

(* Two transactions never write the same order id.                         *)
LEMMA FreshStep ==
  ASSUME IInv, TypeOK', [Next]_vars
  PROVE  FreshInv'
<1> USE DEF Goto, Take, Free, ReleaseAll, Forget, committed, Rows
<1>1. ASSUME NEW h \in Handlers, NEW r \in Request, Begin(h, r)
      PROVE  FreshInv'
  BY <1>1, CheckoutAssumption, RowsAreDistinct
     DEF IInv, TypeOK,
     RequestsInv, Request, FreshInv, Begin, HasOrder
<1>2. ASSUME NEW h \in Handlers, ClaimKey(h)
      PROVE  FreshInv'
  BY <1>2, CheckoutAssumption, RowsAreDistinct
     DEF IInv, TypeOK,
     RequestsInv, Request, FreshInv, ClaimKey, HasOrder
<1>3. ASSUME NEW h \in Handlers, RejectStock(h) \/ RejectDebit(h) \/ StatementFails(h)
      PROVE  FreshInv'
  BY <1>3, CheckoutAssumption, RowsAreDistinct
     DEF IInv, TypeOK,
     RequestsInv, Request, FreshInv, RejectStock, RejectDebit,
     StatementFails, InTransaction, HasOrder
<1>4. ASSUME NEW h \in Handlers, DecrementStock(h)
      PROVE  FreshInv'
  BY <1>4, CheckoutAssumption, RowsAreDistinct
     DEF IInv, TypeOK,
     RequestsInv, Request, FreshInv, DecrementStock, HasOrder
<1>5. ASSUME NEW h \in Handlers, DebitBalance(h)
      PROVE  FreshInv'
  BY <1>5, CheckoutAssumption, RowsAreDistinct
     DEF IInv, TypeOK,
     RequestsInv, Request, FreshInv, DebitBalance, HasOrder
<1>6. ASSUME NEW h \in Handlers, InsertOrder(h)
      PROVE  FreshInv'
  <2>1. PICK id \in OrderIds :
          /\ \A o \in orders : o.id # id
          /\ \A g \in Handlers : tx[g].order # id
          /\ tx' = [tx EXCEPT ![h].order = id]
    BY <1>6 DEF InsertOrder, Ids
  <2>2. tx'[h].order = id /\ \A g \in Handlers : g # h => tx'[g] = tx[g]
    BY <2>1 DEF IInv, TypeOK, TxState
  <2>3. \A g \in Handlers : g # h => pc'[g] = pc[g]
    BY <1>6 DEF IInv, TypeOK, InsertOrder
  <2>4. orders' = orders
    BY <1>6 DEF InsertOrder
  <2> QED
    BY <2>1, <2>2, <2>3, <2>4 DEF IInv, FreshInv, HasOrder
<1>7. ASSUME NEW h \in Handlers, EnqueueEvent(h)
      PROVE  FreshInv'
  BY <1>7, CheckoutAssumption, RowsAreDistinct
     DEF IInv, TypeOK,
     RequestsInv, Request, FreshInv, EnqueueEvent, HasOrder
<1>8. ASSUME NEW h \in Handlers, BindKey(h)
      PROVE  FreshInv'
  BY <1>8, CheckoutAssumption, RowsAreDistinct
     DEF IInv, TypeOK,
     RequestsInv, Request, FreshInv, BindKey, HasOrder
<1>9. ASSUME NEW h \in Handlers, Commit(h)
      PROVE  FreshInv'
  <2>1. \A g \in Handlers : pc'[g] \in HasOrder => g # h /\ pc[g] \in HasOrder
    BY <1>9 DEF IInv, TypeOK, Commit, HasOrder
  <2>2. pc[h] \in HasOrder /\ UNCHANGED tx
    BY <1>9 DEF Commit, HasOrder
  <2>3. \A o \in orders' : o \in orders \/ o.id = tx[h].order
    BY <1>9 DEF Commit, NewOrder
  <2> QED
    BY <2>1, <2>2, <2>3 DEF IInv, FreshInv
<1>10. ASSUME NEW h \in Handlers, PublishAfterCommit(h) \/ Reply(h)
      PROVE  FreshInv'
  BY <1>10, CheckoutAssumption, RowsAreDistinct
     DEF IInv, TypeOK,
     RequestsInv, Request, FreshInv, PublishAfterCommit, Reply, HasOrder
<1>11. ASSUME NEW h \in Handlers, Rollback(h) \/ Crash(h)
      PROVE  FreshInv'
  BY <1>11, CheckoutAssumption, RowsAreDistinct
     DEF IInv, TypeOK,
     RequestsInv, Request, FreshInv, Rollback, Crash, HasOrder
<1>12. ASSUME NEW h \in Handlers, ReplayOf(h)
      PROVE  FreshInv'
  <2>1. pc[h] = "replay"
    BY <1>12 DEF ReplayOf
  <2> QED
    BY <1>12, <2>1, ReplayReads
       DEF IInv, TypeOK, RequestsInv,
     FreshInv, HasOrder
<1>13. CASE UNCHANGED vars
  BY <1>13
     DEF IInv, vars, FreshInv, HasOrder
<1> QED
  BY <1>1, <1>2, <1>3, <1>4, <1>5, <1>6, <1>7, <1>8, <1>9,
     <1>10, <1>11, <1>12, <1>13
     DEF Next, Step

(* What a handler is about to answer or publish is committed.              *)
LEMMA AfterStep ==
  ASSUME IInv, TypeOK', [Next]_vars
  PROVE  AfterInv'
<1> USE DEF Goto, Take, Free, ReleaseAll, Forget, committed, Rows
<1>1. ASSUME NEW h \in Handlers, NEW r \in Request, Begin(h, r)
      PROVE  AfterInv'
  BY <1>1, CheckoutAssumption, RowsAreDistinct
     DEF IInv, TypeOK,
     RequestsInv, Request, AfterInv, Begin
<1>2. ASSUME NEW h \in Handlers, ClaimKey(h)
      PROVE  AfterInv'
  BY <1>2, CheckoutAssumption, RowsAreDistinct
     DEF IInv, TypeOK,
     RequestsInv, Request, AfterInv, ClaimKey
<1>3. ASSUME NEW h \in Handlers, RejectStock(h) \/ RejectDebit(h) \/ StatementFails(h)
      PROVE  AfterInv'
  BY <1>3, CheckoutAssumption, RowsAreDistinct
     DEF IInv, TypeOK,
     RequestsInv, Request, AfterInv, RejectStock, RejectDebit,
     StatementFails, InTransaction
<1>4. ASSUME NEW h \in Handlers, DecrementStock(h)
      PROVE  AfterInv'
  BY <1>4, CheckoutAssumption, RowsAreDistinct
     DEF IInv, TypeOK,
     RequestsInv, Request, AfterInv, DecrementStock
<1>5. ASSUME NEW h \in Handlers, DebitBalance(h)
      PROVE  AfterInv'
  BY <1>5, CheckoutAssumption, RowsAreDistinct
     DEF IInv, TypeOK,
     RequestsInv, Request, AfterInv, DebitBalance
<1>6. ASSUME NEW h \in Handlers, InsertOrder(h)
      PROVE  AfterInv'
  BY <1>6, CheckoutAssumption, RowsAreDistinct
     DEF IInv, TypeOK,
     RequestsInv, Request, AfterInv, InsertOrder
<1>7. ASSUME NEW h \in Handlers, EnqueueEvent(h)
      PROVE  AfterInv'
  BY <1>7, CheckoutAssumption, RowsAreDistinct
     DEF IInv, TypeOK,
     RequestsInv, Request, AfterInv, EnqueueEvent
<1>8. ASSUME NEW h \in Handlers, BindKey(h)
      PROVE  AfterInv'
  BY <1>8, CheckoutAssumption, RowsAreDistinct
     DEF IInv, TypeOK,
     RequestsInv, Request, AfterInv, BindKey
<1>9. ASSUME NEW h \in Handlers, Commit(h)
      PROVE  AfterInv'
  <2>1. \A g \in Handlers : g # h => pc'[g] = pc[g]
    BY <1>9 DEF IInv, TypeOK, Commit
  <2>2. NewOrder(h) \in orders' /\ orders \subseteq orders'
    BY <1>9 DEF Commit
  <2>3. req[h].key \in Keys =>
          req[h].key \in claimed' /\ keyOrder'[req[h].key] = tx[h].order
    BY <1>9 DEF IInv, TypeOK, WritesInv, Commit
  <2>4. \A k \in Keys : k \in claimed =>
          k \in claimed' /\ (k # req[h].key => keyOrder'[k] = keyOrder[k])
    BY <1>9 DEF IInv, TypeOK, Commit
  <2>5. req[h].key \in Keys => req[h].key \notin claimed
    BY <1>9 DEF IInv, KeyInv, HoldsProduct, Commit
  <2>6. pc'[h] = "publish" => req[h].key = NoKey
    BY <1>9 DEF IInv, TypeOK, Commit
  <2>7. pc'[h] \in {"reply", "publish"} /\ UNCHANGED <<req, tx>>
    BY <1>9 DEF IInv, TypeOK, Commit
  <2> QED
    BY <2>1, <2>2, <2>3, <2>4, <2>5, <2>6, <2>7
       DEF IInv, AfterInv, RequestsInv, Request, NewOrder
<1>10. ASSUME NEW h \in Handlers, PublishAfterCommit(h) \/ Reply(h)
      PROVE  AfterInv'
  BY <1>10, CheckoutAssumption, RowsAreDistinct
     DEF IInv, TypeOK,
     RequestsInv, Request, AfterInv, PublishAfterCommit, Reply
<1>11. ASSUME NEW h \in Handlers, Rollback(h) \/ Crash(h)
      PROVE  AfterInv'
  BY <1>11, CheckoutAssumption, RowsAreDistinct
     DEF IInv, TypeOK,
     RequestsInv, Request, AfterInv, Rollback, Crash
<1>12. ASSUME NEW h \in Handlers, ReplayOf(h)
      PROVE  AfterInv'
  <2>1. pc[h] = "replay" /\ req[h].key \in claimed
    BY <1>12 DEF IInv, KeyInv, ReplayOf
  <2> QED
    BY <1>12, <2>1, ReplayReads DEF IInv, AfterInv
<1>13. CASE UNCHANGED vars
  BY <1>13
     DEF IInv, vars, AfterInv
<1> QED
  BY <1>1, <1>2, <1>3, <1>4, <1>5, <1>6, <1>7, <1>8, <1>9,
     <1>10, <1>11, <1>12, <1>13
     DEF Next, Step

(* The effect of COMMIT in terms of the order it makes.                    *)
LEMMA CommitEffect ==
  ASSUME IInv, NEW h \in Handlers, Commit(h)
  PROVE  LET o == NewOrder(h) IN
         /\ o \in Order
         /\ o.id = tx[h].order /\ o.key = req[h].key
         /\ \A x \in orders : x.id # o.id
         /\ o.key \in Keys => o.key \notin claimed
         /\ orders' = orders \cup {o}
         /\ tasks' = tasks \cup {o.id}
         /\ claimed' = claimed \cup ({o.key} \cap Keys)
         /\ IF o.key \in Keys
              THEN /\ keyOrder' = [keyOrder EXCEPT ![o.key] = o.id]
                   /\ outbox' = outbox \cup {o.id}
              ELSE UNCHANGED <<keyOrder, outbox>>
         /\ UNCHANGED <<direct, told>>
<1> DEFINE o == NewOrder(h)
<1>1. o \in Order
  BY DEF IInv, RequestsInv, StockInv, BalanceInv, FreshInv, HoldsProduct,
     HoldsBuyer, HasOrder, Commit, NewOrder, Order, Request
<1>2. o.id = tx[h].order /\ o.key = req[h].key
  BY DEF NewOrder
<1>3. \A x \in orders : x.id # o.id
  BY <1>2 DEF IInv, FreshInv, HasOrder, Commit
<1>4. o.key \in Keys => o.key \notin claimed
  BY <1>2 DEF IInv, KeyInv, HoldsProduct, Commit
<1>5. (tx[h].event <=> o.key \in Keys) /\ (tx[h].bound <=> o.key \in Keys)
  BY <1>2 DEF IInv, WritesInv, Commit
<1> QED
  BY <1>1, <1>2, <1>3, <1>4, <1>5 DEF Commit

(* Orders, tasks, outbox rows and keys move together.                      *)
LEMMA OrdersStep ==
  ASSUME IInv, [Next]_vars
  PROVE  (OrdersBound /\ AllOrNothing /\ OneOrderPerKey)'
<1>1. CASE UNCHANGED committed
  <2>1. OrdersBound' /\ OneOrderPerKey'
    BY <1>1 DEF IInv, committed, OrdersBound, OneOrderPerKey
  <2>2. AllOrNothing'
    BY <1>1 DEF IInv, committed, AllOrNothing, Ids
  <2> QED BY <2>1, <2>2
<1>2. ASSUME NEW h \in Handlers, Commit(h)
      PROVE  (OrdersBound /\ AllOrNothing /\ OneOrderPerKey)'
  <2> DEFINE o == NewOrder(h)
  <2> HIDE DEF o
  <2>1. /\ o \in Order
        /\ \A x \in orders : x.id # o.id
        /\ o.key \in Keys => o.key \notin claimed
        /\ orders' = orders \cup {o}
        /\ tasks' = tasks \cup {o.id}
        /\ claimed' = claimed \cup ({o.key} \cap Keys)
        /\ IF o.key \in Keys
             THEN /\ keyOrder' = [keyOrder EXCEPT ![o.key] = o.id]
                  /\ outbox' = outbox \cup {o.id}
             ELSE UNCHANGED <<keyOrder, outbox>>
    BY <1>2, CommitEffect DEF o
  <2>2. OneOrderPerKey'
    BY <2>1 DEF IInv, OrdersBound, OneOrderPerKey
  <2>3. OrdersBound'
    BY <2>1 DEF IInv, TypeOK, OrdersBound, Order
  <2>4. tasks' = Ids(orders)'
    BY <2>1 DEF IInv, AllOrNothing, Ids
  <2>5. outbox' = Ids({x \in orders : x.key \in Keys})'
    BY <2>1 DEF IInv, AllOrNothing, Ids
  <2>6. \A k \in Keys :
          IF k \in claimed' THEN \E x \in orders' : x.id = keyOrder'[k] /\ x.key = k
                            ELSE keyOrder'[k] = None
    BY <2>1 DEF IInv, TypeOK, AllOrNothing
  <2> QED
    BY <2>2, <2>3, <2>4, <2>5, <2>6 DEF AllOrNothing
<1> QED
  BY <1>1, <1>2, OnlyCommitWrites

(* What COMMIT takes from the shelf and from the wallet is what the order  *)
(* it adds says.                                                           *)
LEMMA ConservationStep ==
  ASSUME IInv, [Next]_vars
  PROVE  IsFiniteSet(orders') /\ Conservation'
<1>1. CASE UNCHANGED committed
  <2>1. orders' = orders /\ stock' = stock /\ balance' = balance
    BY <1>1 DEF committed
  <2>2. ASSUME NEW p \in Products
        PROVE  InitStock[p] - stock'[p] = UnitsSold({x \in orders' : x.product = p})
    BY <2>1 DEF IInv, Conservation
  <2>3. ASSUME NEW u \in Users
        PROVE  InitBalance[u] - balance'[u] = Spent({x \in orders' : x.buyer = u})
    BY <2>1 DEF IInv, Conservation
  <2> QED  BY <2>1, <2>2, <2>3 DEF IInv, Conservation
<1>2. ASSUME NEW h \in Handlers, Commit(h)
      PROVE  IsFiniteSet(orders') /\ Conservation'
  <2> DEFINE o == NewOrder(h)
             Sold(p, S) == {x \in S : x.product = p}
             Bought(u, S) == {x \in S : x.buyer = u}
  <2>1. /\ o.product = req[h].product /\ o.buyer = req[h].buyer
        /\ o.quantity = req[h].quantity
    BY DEF NewOrder
  <2>2. /\ o \in Order /\ o \notin orders
        /\ orders' = orders \cup {o}
    BY <1>2, CommitEffect
  <2>3. /\ o.product \in Products /\ o.buyer \in Users
        /\ o.quantity \in Nat /\ Total(o) \in Nat
    BY <2>2, WeightsAreNatural DEF Quantity, Cost, Order
  <2>4. stock' = [stock EXCEPT ![o.product] = stock[o.product] - o.quantity]
    BY <1>2, <2>1 DEF IInv, StockInv, HoldsProduct, Commit
  <2>5. balance' = [balance EXCEPT ![o.buyer] = balance[o.buyer] - Total(o)]
    <3>1. Total(o) = Total(req[h])
      BY <2>1 DEF Total
    <3> QED  BY <1>2, <2>1, <3>1 DEF IInv, BalanceInv, HoldsBuyer, Commit
  <2>6. /\ stock \in [Products -> Nat] /\ balance \in [Users -> Nat]
        /\ InitStock \in [Products -> Nat] /\ InitBalance \in [Users -> Nat]
    BY CheckoutAssumption DEF IInv, TypeOK
  <2>7. IsFiniteSet(orders')
    BY <2>2, FS_AddElement DEF IInv
  <2> HIDE DEF o
  <2>8. ASSUME NEW p \in Products
        PROVE  InitStock[p] - stock'[p] = UnitsSold(Sold(p, orders'))
    <3> DEFINE S == Sold(p, orders)
    <3>1. InitStock[p] - stock[p] = UnitsSold(S)
      BY DEF IInv, Conservation
    <3>2. S \subseteq Order /\ IsFiniteSet(S) /\ o \notin S
      BY <2>2, FS_Subset DEF IInv, TypeOK
    <3>3. CASE o.product = p
      <4>1. Sold(p, orders') = S \cup {o}
        BY <2>2, <3>3
      <4>2. stock'[p] = stock[p] - o.quantity
        BY <2>4, <2>6, <3>3
      <4> HIDE DEF S
      <4>3. UnitsSold(S \cup {o}) = o.quantity + UnitsSold(S)
        BY <2>2, <3>2, SumsAdd
      <4> DEFINE m == UnitsSold(S)
      <4>4. InitStock[p] - stock[p] = m
        BY <3>1
      <4>5. UnitsSold(Sold(p, orders')) = o.quantity + m
        BY <4>1, <4>3
      <4> HIDE DEF m
      <4>6. InitStock[p] - stock'[p] = o.quantity + m
        BY <2>3, <2>6, <4>2, <4>4
      <4> QED  BY <4>5, <4>6
    <3>4. CASE o.product # p
      <4>1. Sold(p, orders') = S
        BY <2>2, <3>4
      <4>2. stock'[p] = stock[p]
        BY <2>4, <2>6, <3>4
      <4> QED  BY <3>1, <4>1, <4>2
    <3> QED  BY <3>3, <3>4
  <2>9. ASSUME NEW u \in Users
        PROVE  InitBalance[u] - balance'[u] = Spent(Bought(u, orders'))
    <3> DEFINE S == Bought(u, orders)
    <3>1. InitBalance[u] - balance[u] = Spent(S)
      BY DEF IInv, Conservation
    <3>2. S \subseteq Order /\ IsFiniteSet(S) /\ o \notin S
      BY <2>2, FS_Subset DEF IInv, TypeOK
    <3>3. CASE o.buyer = u
      <4>1. Bought(u, orders') = S \cup {o}
        BY <2>2, <3>3
      <4>2. balance'[u] = balance[u] - Total(o)
        BY <2>5, <2>6, <3>3
      <4> HIDE DEF S
      <4>3. Spent(S \cup {o}) = Total(o) + Spent(S)
        BY <2>2, <3>2, SumsAdd
      <4> DEFINE m == Spent(S)
                 t == Total(o)
      <4>4. InitBalance[u] - balance[u] = m
        BY <3>1
      <4>5. Spent(Bought(u, orders')) = t + m
        BY <4>1, <4>3
      <4>6. t \in Nat /\ balance'[u] = balance[u] - t
        BY <2>3, <4>2
      <4> HIDE DEF m, t
      <4>7. InitBalance[u] - balance'[u] = t + m
        BY <2>6, <4>4, <4>6
      <4> QED  BY <4>5, <4>7
    <3>4. CASE o.buyer # u
      <4>1. Bought(u, orders') = S
        BY <2>2, <3>4
      <4>2. balance'[u] = balance[u]
        BY <2>5, <2>6, <3>4
      <4> QED  BY <3>1, <4>1, <4>2
    <3> QED  BY <3>3, <3>4
  <2> QED  BY <2>7, <2>8, <2>9 DEF Conservation
<1> QED
  BY <1>1, <1>2, OnlyCommitWrites

(* What was said to the world stays true.                                  *)
LEMMA SaidStep ==
  ASSUME IInv, TypeOK', [Next]_vars
  PROVE  (AnnouncedInv /\ AnswersAgree)'
<1>1. orders \subseteq orders'
  BY OnlyCommitWrites DEF committed, Commit
<1>2. \A k \in claimed : k \in claimed' /\ keyOrder'[k] = keyOrder[k]
  <2>1. CASE UNCHANGED committed
    BY <2>1 DEF committed
  <2>2. ASSUME NEW h \in Handlers, Commit(h), NEW k \in claimed
        PROVE  k \in claimed' /\ keyOrder'[k] = keyOrder[k]
    BY <2>2, CommitEffect DEF IInv, TypeOK
  <2> QED BY <2>1, <2>2, OnlyCommitWrites
<1>3. UNCHANGED direct \/ \E h \in Handlers : PublishAfterCommit(h)
  BY DEF Next, Step, vars, committed, Begin, ClaimKey, ReplayOf, RejectStock,
     DecrementStock, RejectDebit, DebitBalance, InsertOrder, EnqueueEvent,
     BindKey, Commit, Reply, StatementFails, Rollback, Crash
<1>4. UNCHANGED told \/ \E h \in Handlers : Reply(h)
  BY DEF Next, Step, vars, committed, Begin, ClaimKey, ReplayOf, RejectStock,
     DecrementStock, RejectDebit, DebitBalance, InsertOrder, EnqueueEvent,
     BindKey, Commit, PublishAfterCommit, StatementFails, Rollback, Crash
<1>5. AnnouncedInv'
  <2>1. CASE UNCHANGED direct
    BY <1>1, <2>1 DEF IInv, AnnouncedInv
  <2>2. ASSUME NEW h \in Handlers, PublishAfterCommit(h) PROVE AnnouncedInv'
    <3>1. direct' = direct \cup {tx[h].order}
      BY <2>2 DEF PublishAfterCommit
    <3>2. \E o \in orders : o.id = tx[h].order /\ o.key = NoKey
      BY <2>2 DEF IInv, AfterInv, PublishAfterCommit
    <3> QED BY <1>1, <3>1, <3>2 DEF IInv, AnnouncedInv
  <2> QED BY <1>3, <2>1, <2>2
<1>6. AnswersAgree'
  <2>1. CASE UNCHANGED told
    BY <1>2, <2>1 DEF IInv, AnswersAgree
  <2>2. ASSUME NEW h \in Handlers, Reply(h) PROVE AnswersAgree'
    <3>1. \A a \in told' : a \in told \/
            /\ req[h].key \in Keys
            /\ a.key = req[h].key /\ a.order = tx[h].order
      BY <2>2 DEF IInv, RequestsInv, Request, Reply
    <3>2. req[h].key \in Keys =>
            req[h].key \in claimed /\ tx[h].order = keyOrder[req[h].key]
      BY <2>2 DEF IInv, AfterInv, Reply
    <3> QED BY <1>2, <3>1, <3>2 DEF IInv, AnswersAgree
  <2> QED BY <1>4, <2>1, <2>2
<1> QED BY <1>5, <1>6

(* Every statement, failure and crash preserves the invariant.             *)
LEMMA InvStep == IInv /\ [Next]_vars => IInv'
<1> SUFFICES ASSUME IInv, [Next]_vars PROVE IInv'
  OBVIOUS
<1>1. TypeOK'
  BY TypeStep
<1> QED
  BY <1>1, LocksStep, WritesStep, FreshStep, AfterStep, OrdersStep, SaidStep,
     ConservationStep DEF IInv

(* The invariant holds in every state the transactions reach.              *)
LEMMA Invariance == Spec => []IInv
BY InvInit, InvStep, PTL DEF Spec

----------------------------------------------------------------------------

(* Types, among them: stock and balances never go below zero, whatever the *)
(* number of parallel checkouts (UPDATE ... WHERE stock >= $2).            *)
THEOREM TypeCorrect == Spec => []TypeOK
<1>1. IInv => TypeOK
  BY DEF IInv
<1> QED BY <1>1, Invariance, PTL

(* For any number of handlers, keys, retries, failures and crashes, a key  *)
(* makes at most one order (place-order.ts).                               *)
THEOREM KeyMakesOneOrder == Spec => []OneOrderPerKey
<1>1. IInv => OneOrderPerKey
  BY DEF IInv
<1> QED BY <1>1, Invariance, PTL

(* Order, task, outbox row and key are committed together.                 *)
THEOREM PurchaseIsAtomic == Spec => []AllOrNothing
<1>1. IInv => AllOrNothing
  BY DEF IInv
<1> QED BY <1>1, Invariance, PTL

(* All answers for a key name its one committed order.                     *)
THEOREM AnswersNameTheOrder == Spec => []AnswersAgree
<1>1. IInv => AnswersAgree
  BY DEF IInv
<1> QED BY <1>1, Invariance, PTL

(* No lost update: what has left the shelf and the wallets is what the     *)
(* committed orders add up to (checkout.ts, the two UPDATEs computed by    *)
(* the database).                                                          *)
THEOREM ShelvesAndWalletsAddUp == Spec => []Conservation
<1>1. IInv => Conservation
  BY DEF IInv
<1> QED BY <1>1, Invariance, PTL

(* checkout() never publishes an order that does not exist.                *)
THEOREM EventsAreTrue == Spec => []NoPhantomEvent
<1>1. IInv => NoPhantomEvent
  <2> SUFFICES ASSUME IInv, NEW d \in direct
               PROVE  d \in Ids(orders) /\ d \notin outbox
    BY DEF NoPhantomEvent
  <2>1. PICK o \in orders : o.id = d /\ o.key = NoKey
    BY DEF IInv, AnnouncedInv
  <2>2. \A x \in orders : x.id = d => x.key \notin Keys
    BY <2>1, CheckoutAssumption DEF IInv, OneOrderPerKey
  <2> QED
    BY <2>1, <2>2 DEF IInv, AllOrNothing, Ids
<1> QED BY <1>1, Invariance, PTL

(* No group of parallel checkouts waits in a circle: the one of the group  *)
(* that is furthest in the order key, product, buyer waits for nobody in   *)
(* it.                                                                     *)
THEOREM NeverDeadlocked == Spec => []NoDeadlock
<1>1. IInv => NoDeadlock
  <2> SUFFICES ASSUME IInv, NEW S \in SUBSET Handlers, S # {}
               PROVE  \E h \in S : \A g \in S : ~Waits(h, g)
    BY DEF NoDeadlock
  <2>1. LockOrder /\ RequestsInv
    BY DEF IInv
  <2>2. CASE \E h \in S : pc[h] \notin {"claim", "stock", "debit"}
    BY <2>2 DEF Waits
  <2>3. CASE \A h \in S : pc[h] \in {"claim", "stock", "debit"}
    <3>1. CASE \E h \in S : pc[h] = "debit"
      BY <2>1, <2>3, <3>1 DEF Waits, LockOrder
    <3>2. CASE (\A h \in S : pc[h] # "debit") /\ \E h \in S : pc[h] = "stock"
      BY <2>1, <2>3, <3>2 DEF Waits, LockOrder
    <3>3. CASE \A h \in S : pc[h] = "claim"
      BY <2>1, <3>3 DEF Waits, LockOrder, RequestsInv
    <3> QED BY <2>3, <3>1, <3>2, <3>3
  <2> QED BY <2>2, <2>3
<1> QED BY <1>1, Invariance, PTL

----------------------------------------------------------------------------
(* Refinement.                                                             *)

(* The empty database is the empty ledger.                                 *)
LEMMA LedgerInit == Init => Ledger!Init
BY DEF Init, Ledger!Init

(* COMMIT is a purchase of the ledger: nothing in between was visible.     *)
LEMMA CommitBuys ==
  ASSUME IInv, NEW h \in Handlers, Commit(h)
  PROVE  Ledger!Next
<1> DEFINE o == NewOrder(h)
<1>1. /\ o \in Order
      /\ \A x \in orders : x.id # o.id
      /\ o.key \in Keys => o.key \notin claimed
      /\ orders' = orders \cup {o}
      /\ tasks' = tasks \cup {o.id}
      /\ IF o.key \in Keys
           THEN /\ keyOrder' = [keyOrder EXCEPT ![o.key] = o.id]
                /\ outbox' = outbox \cup {o.id}
           ELSE UNCHANGED <<keyOrder, outbox>>
      /\ UNCHANGED <<direct, told>>
  BY CommitEffect
<1>2. /\ o.product = req[h].product /\ o.buyer = req[h].buyer
      /\ o.quantity = req[h].quantity
  BY DEF NewOrder
<1>3. o \in Ledger!Order
  BY <1>1 DEF Order, Ledger!Order
<1>4. o.key \in Keys => keyOrder[o.key] = None
  BY <1>1 DEF IInv, AllOrNothing
<1>5. /\ stock[o.product] >= o.quantity
      /\ stock' = [stock EXCEPT ![o.product] = @ - o.quantity]
  <2>1. /\ o.product \in Products
        /\ tx[h].stockLeft = stock[o.product] - o.quantity
    BY <1>2 DEF IInv, StockInv, HoldsProduct, Commit
  <2>2. stock[o.product] \in Nat /\ tx[h].stockLeft \in Nat /\ o.quantity \in Int
    BY <1>1, <2>1, CheckoutAssumption DEF IInv, TypeOK, TxState, Order
  <2>3. stock[o.product] >= o.quantity
    BY <2>1, <2>2
  <2> QED
    BY <1>2, <2>1, <2>3 DEF Commit
<1>6. /\ balance[o.buyer] >= Ledger!Total(o)
      /\ balance' = [balance EXCEPT ![o.buyer] = @ - Ledger!Total(o)]
  <2>1. /\ o.buyer \in Users
        /\ tx[h].balanceLeft = balance[o.buyer] - Ledger!Total(o)
    BY <1>2 DEF IInv, BalanceInv, HoldsBuyer, Commit, Total, Ledger!Total
  <2>2. Ledger!Total(o) \in Int
    BY <1>1, TotalType DEF Order, Ledger!Total
  <2>3. balance[o.buyer] \in Nat /\ tx[h].balanceLeft \in Nat
    BY <2>1 DEF IInv, TypeOK, TxState
  <2>4. balance[o.buyer] >= Ledger!Total(o)
    BY <2>1, <2>2, <2>3
  <2> QED
    BY <1>2, <2>1, <2>4 DEF Commit
<1>7. Ledger!Buy(o)
  BY <1>1, <1>4, <1>5, <1>6 DEF Ledger!Buy, Ledger!Ids
<1> QED
  BY <1>3, <1>7 DEF Ledger!Next

(* COMMIT buys, a publish announces, a 201 answers; the rest is invisible. *)
LEMMA LedgerStep ==
  ASSUME IInv, [Next]_vars
  PROVE  [Ledger!Next]_(Ledger!ledgerVars)
<1>1. ASSUME NEW h \in Handlers, Commit(h) PROVE Ledger!Next
  BY <1>1, CommitBuys
<1>2. ASSUME NEW h \in Handlers, PublishAfterCommit(h) PROVE Ledger!Next
  <2>1. PICK o \in orders : o.id = tx[h].order /\ o.key = NoKey
    BY <1>2 DEF IInv, AfterInv, PublishAfterCommit
  <2>2. Ledger!Announce(o)
    BY <1>2, <2>1 DEF PublishAfterCommit, committed, Ledger!Announce
  <2> QED BY <2>2 DEF Ledger!Next
<1>3. ASSUME NEW h \in Handlers, Reply(h)
      PROVE  Ledger!Next \/ UNCHANGED Ledger!ledgerVars
  <2>1. CASE req[h].key = NoKey
    BY <1>3, <2>1 DEF Reply, committed, Ledger!ledgerVars
  <2>2. CASE req[h].key # NoKey
    <3>1. PICK k \in Keys : k = req[h].key
      BY <1>3, <2>2 DEF IInv, RequestsInv, Request, Reply
    <3>2. k \in claimed /\ keyOrder[k] = tx[h].order
      BY <1>3, <3>1 DEF IInv, AfterInv, Reply
    <3>3. keyOrder[k] # None
      BY <3>1, <3>2, CheckoutAssumption DEF IInv, TypeOK, AllOrNothing, Order
    <3>4. {<<a.key, a.order>> : a \in told'} =
            {<<a.key, a.order>> : a \in told} \cup {<<k, keyOrder[k]>>}
      <4> DEFINE r == [key |-> k, order |-> tx[h].order,
                       stockLeft |-> tx[h].stockLeft,
                       balanceLeft |-> tx[h].balanceLeft]
      <4>1. told' = told \cup {r}
        BY <1>3, <2>2, <3>1 DEF Reply
      <4>2. r.key = k /\ r.order = keyOrder[k]
        BY <3>2
      <4> HIDE DEF r
      <4>3. ASSUME NEW x PROVE x \in {<<a.key, a.order>> : a \in told'} <=>
              x \in {<<a.key, a.order>> : a \in told} \cup {<<k, keyOrder[k]>>}
        BY <4>1, <4>2
      <4> QED BY <4>3
    <3>5. UNCHANGED <<stock, balance, keyOrder, orders, tasks, outbox, direct>>
      BY <1>3 DEF Reply, committed
    <3>6. Ledger!Answer(k)
      BY <3>3, <3>4, <3>5 DEF Ledger!Answer
    <3> QED BY <3>1, <3>6 DEF Ledger!Next
  <2> QED BY <2>1, <2>2
<1>4. CASE UNCHANGED <<committed, direct, told>>
  BY <1>4 DEF committed, Ledger!ledgerVars
<1>5. \/ UNCHANGED <<committed, direct, told>>
      \/ \E h \in Handlers : Commit(h) \/ PublishAfterCommit(h) \/ Reply(h)
  BY WhoWrites
<1> QED
  BY <1>1, <1>2, <1>3, <1>4, <1>5

(* The interleaved statements, waits, rollbacks and crashes are together   *)
(* no more than one-step purchases: placing orders is serializable.        *)
THEOREM CheckoutImplementsLedger == Spec => ImplementsLedger
<1>1. Init => Ledger!Init
  BY LedgerInit
<1>2. IInv /\ [Next]_vars => [Ledger!Next]_(Ledger!ledgerVars)
  BY LedgerStep
<1> QED
  BY <1>1, <1>2, Invariance, PTL DEF Spec, ImplementsLedger, Ledger!Spec
=============================================================================

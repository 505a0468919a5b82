----------------------------- MODULE Catalogue -----------------------------
(***************************************************************************)
(* The lists of the API and the rows behind them: pages with an opaque     *)
(* offset cursor (common/pagination.ts, products.service.ts, app.cjs),     *)
(* inserts (repositories/*.repository.ts), the idempotent seed.ts, and the *)
(* total of one order against its items.                                   *)
(*                                                                         *)
(* GET /products reads Postgres, where an insert takes its id from a       *)
(* sequence and is seen when it commits; GET /orders, and all of app.cjs,  *)
(* slice an array that grows at its end.  Nothing deletes rows.            *)
(***************************************************************************)
EXTENDS Integers, FiniteSetsExt

CONSTANTS Inserts,       \* inserts that may be in flight together
          Walkers,       \* clients that follow next_cursor
          Editors,       \* clients that add an item and recalculate
          SeedIds,       \* the explicit ids of seed.ts, 1 .. SeedIds
          Limits,        \* values of ?limit
          Lines,         \* <<quantity, unit price>> of an added item
          Budgets        \* bound: how often each thing happens

ASSUME CatalogueAssumption ==
  /\ SeedIds \in Nat \ {0} /\ Limits \subseteq Nat \ {0}
  /\ Lines \subseteq Nat \X Nat

VARIABLES listing,       \* "products": Postgres, "orders": the array
          left,          \* what is left of the budget
          rows, seq,     \* committed ids; the IDENTITY sequence
          insert,        \* INSERTs in flight
          seed,          \* the transaction of seed.ts
          walk,          \* what each walk has seen
          items, total,  \* of the order that the seed fills with one item
          edit,          \* addItem, then recalculateTotal
          raced,         \* history: ids that an insert had drawn when a seed put
                         \*   them in, or set the sequence back under them
          overlapped     \* history: the total was written last by a recalculation
                         \*   whose sum misses an item, or put back by the seed

walkVars == <<walk>>
insertVars == <<seq, insert>>
totalVars == <<items, total, edit, overlapped>>
vars == <<listing, left, rows, seq, insert, seed, walk, items, total, edit, raced, overlapped>>

SeedRows == 1 .. SeedIds
SeedItem == [id |-> 0, quantity |-> 1, price |-> 1]
Sum(lines) == MapThenSumSet(LAMBDA i : i.quantity * i.price, lines)

NoInsert == [at |-> "off", id |-> 0]
NoSeed == [at |-> "off", missing |-> {}, writes |-> FALSE]
NoWalk == [at |-> "off", offset |-> 0, start |-> {}, seen |-> {}, twice |-> FALSE, shifted |-> FALSE]
NoEdit == [at |-> "off", sum |-> 0, missed |-> FALSE]

(* A fresh database, or one that was seeded before; the array has the same *)
(* number of rows.                                                         *)
Init ==
  /\ listing \in {"products", "orders"} /\ left \in Budgets
  /\ \/ rows = {} /\ seq = 0 /\ items = {}
     \/ rows = SeedRows /\ seq = SeedIds /\ items = {SeedItem}
  /\ total = Sum(items)
  /\ insert = [i \in Inserts |-> NoInsert] /\ seed = NoSeed
  /\ walk = [w \in Walkers |-> NoWalk] /\ edit = [e \in Editors |-> NoEdit]
  /\ raced = {} /\ overlapped = FALSE

Spend(k) == left[k] > 0 /\ left' = [left EXCEPT ![k] = @ - 1]

(* history: a row comes in before one that the walk has been given.        *)
Shifted(new) ==
  [w \in Walkers |-> [walk[w] EXCEPT !.shifted = @ \/ \E x \in new, y \in walk[w].seen : x < y]]

----------------------------------------------------------------------------
(* Inserts.                                                                *)

(* POST /orders: the id is taken and the row pushed without an await.      *)
Push ==
  /\ listing = "orders" /\ Spend("inserts")
  /\ seq' = seq + 1
  /\ rows' = rows \cup {seq + 1}
  /\ walk' = Shifted({seq + 1})
  /\ UNCHANGED <<listing, insert, seed, totalVars, raced>>

(* INSERT ... RETURNING id: nextval() of the IDENTITY column.              *)
NextVal(i) ==
  /\ listing = "products" /\ insert[i].at = "off" /\ Spend("inserts")
  /\ seq' = seq + 1
  /\ insert' = [insert EXCEPT ![i] = [at |-> "checks", id |-> seq + 1]]
  /\ raced' = raced \cup ({seq + 1} \cap seed.missing)
  /\ UNCHANGED <<listing, rows, seed, walkVars, totalVars>>

(* The unique index makes it wait for whoever has put the same id in and   *)
(* has not committed.                                                      *)
Enter(i) ==
  /\ insert[i].at = "checks" /\ insert[i].id \notin rows
  /\ \A j \in Inserts : insert[j].at = "entered" => insert[j].id # insert[i].id
  /\ seed.at \in {"saved", "set"} => insert[i].id \notin seed.missing
  /\ insert' = [insert EXCEPT ![i].at = "entered"]
  /\ UNCHANGED <<listing, left, rows, seq, seed, walkVars, totalVars, raced>>

(* 23505                                                                   *)
Duplicate(i) ==
  /\ insert[i].at = "checks" /\ insert[i].id \in rows
  /\ insert' = [insert EXCEPT ![i] = NoInsert]
  /\ UNCHANGED <<listing, left, rows, seq, seed, walkVars, totalVars, raced>>

CommitInsert(i) ==
  /\ insert[i].at = "entered"
  /\ rows' = rows \cup {insert[i].id}
  /\ walk' = Shifted({insert[i].id})
  /\ insert' = [insert EXCEPT ![i] = NoInsert]
  /\ UNCHANGED <<listing, left, seq, seed, totalVars, raced>>

(* The connection is lost; the sequence is not set back.                   *)
AbortInsert(i) ==
  /\ insert[i].at # "off" /\ Spend("aborts")
  /\ insert' = [insert EXCEPT ![i] = NoInsert]
  /\ UNCHANGED <<listing, rows, seq, seed, walkVars, totalVars, raced>>

----------------------------------------------------------------------------
(* seed.ts, one transaction.                                               *)

Drawn == {insert[i].id : i \in {j \in Inserts : insert[j].at # "off"}}

(* save() looks which of the ids exist, and what differs in them...        *)
SeedLooks ==
  /\ listing = "products" /\ seed.at = "off" /\ Spend("seeds")
  /\ seed' = [at |-> "looked", missing |-> SeedRows \ rows, writes |-> total # Sum({SeedItem})]
  /\ raced' = raced \cup (Drawn \cap (SeedRows \ rows))
  /\ UNCHANGED <<listing, rows, insertVars, walkVars, totalVars>>

(* ... inserts those that do not, where an insert in flight with such an   *)
(* id is waited for, and updates what differs: the total of the order that *)
(* has got more items.                                                     *)
SeedSaves ==
  /\ seed.at = "looked" /\ seed.missing \cap rows = {}
  /\ \A i \in Inserts : insert[i].at = "entered" => insert[i].id \notin seed.missing
  /\ seed' = [seed EXCEPT !.at = "saved"]
  /\ UNCHANGED <<listing, left, rows, insertVars, walkVars, totalVars, raced>>

(* Mutant: the sequence is left to itself.                                 *)
SeedLeavesSequence ==
  /\ seed.at = "saved"
  /\ seed' = [seed EXCEPT !.at = "set"]
  /\ UNCHANGED <<listing, left, rows, seq, insert, walkVars, totalVars, raced>>

(* setval() of max(id), as the transaction sees it, at once.               *)
SeedSetsSequence ==
  /\ seed.at = "saved"
  /\ seq' = Max(rows \cup seed.missing)
  /\ raced' = raced \cup {n \in Drawn : n > seq'}
  /\ seed' = [seed EXCEPT !.at = "set"]
  /\ UNCHANGED <<listing, left, rows, insert, walkVars, totalVars>>

SeedCommits ==
  /\ seed.at = "set"
  /\ rows' = rows \cup seed.missing
  /\ walk' = Shifted(seed.missing)
  /\ items' = items \cup {SeedItem}
  /\ total' = IF seed.writes \/ items = {} THEN Sum({SeedItem}) ELSE total
  /\ overlapped' = (overlapped \/ (seed.writes /\ items # {}))
  /\ seed' = NoSeed
  /\ UNCHANGED <<listing, left, insertVars, edit, raced>>

(* 23505, or the process is killed.                                        *)
SeedFails ==
  /\ seed.at # "off"
  /\ \/ seed.at = "looked" /\ seed.missing \cap rows # {} /\ UNCHANGED left
     \/ Spend("aborts")
  /\ seed' = NoSeed
  /\ UNCHANGED <<listing, rows, insertVars, walkVars, totalVars, raced>>

----------------------------------------------------------------------------
(* Pages.                                                                  *)

(* What is at positions from .. to - 1 in the order of ids.                *)
Positions(from, to) ==
  {x \in rows : Cardinality({y \in rows : y < x}) \in from .. to - 1}

(* ProductsService.list: one row more than asked for tells whether there   *)
(* is a next page.                                                         *)
ListPage(offset, limit) ==
  [ items |-> Positions(offset, offset + limit),
    hasMore |-> Cardinality(Positions(offset, offset + limit + 1)) > limit ]

(* paginate(): the array and its length.                                   *)
Paginate(offset, limit) ==
  [ items |-> Positions(offset, offset + limit),
    hasMore |-> offset + limit < Cardinality(rows) ]

(* Mutant: the extra row is skipped.                                       *)
CursorPastExtraRow(offset, limit) == offset + limit + 1

(* encodeCursor(), decodeCursor()                                          *)
NextCursor(offset, limit) == offset + limit

GetPage(w, limit) ==
  LET first == walk[w].at = "off"
      page == IF listing = "products" THEN ListPage(walk[w].offset, limit)
              ELSE Paginate(walk[w].offset, limit)
  IN /\ \/ first /\ Spend("walks")
        \/ walk[w].at = "walking" /\ UNCHANGED left
     /\ walk' = [walk EXCEPT ![w] =
          [ at |-> IF page.hasMore THEN "walking" ELSE "done",
            offset |-> NextCursor(@.offset, limit),
            start |-> IF first THEN rows ELSE @.start,
            seen |-> @.seen \cup page.items,
            twice |-> @.twice \/ page.items \cap @.seen # {},
            shifted |-> @.shifted ]]
     /\ UNCHANGED <<listing, rows, insertVars, seed, totalVars, raced>>

----------------------------------------------------------------------------
(* OrdersRepository.                                                       *)

(* The order is there once it was seeded.                                  *)
AddItem(e) ==
  /\ listing = "products" /\ items # {} /\ edit[e].at = "off" /\ Spend("items")
  /\ \E line \in Lines :
       items' = items \cup {[id |-> left.items, quantity |-> line[1], price |-> line[2]]}
  /\ edit' = [f \in Editors |-> IF f = e THEN [NoEdit EXCEPT !.at = "added"]
                                ELSE [edit[f] EXCEPT !.missed = (edit[f].at = "summed")]]
  /\ UNCHANGED <<listing, rows, insertVars, seed, walkVars, total, raced, overlapped>>

(* Mutant: the quantity is forgotten.                                      *)
SumOfPrices(lines) == MapThenSumSet(LAMBDA i : i.price, lines)

SumOfItems(lines) == Sum(lines)

(* recalculateTotal: the sum is of the statement's snapshot...             *)
SumItems(e) ==
  /\ edit[e].at = "added"
  /\ edit' = [edit EXCEPT ![e] = [at |-> "summed", sum |-> SumOfItems(items), missed |-> FALSE]]
  /\ UNCHANGED <<listing, left, rows, insertVars, seed, walkVars, items, total, overlapped, raced>>

(* ... the order's row may have to be waited for.                          *)
WriteTotal(e) ==
  /\ edit[e].at = "summed"
  /\ ~(seed.at \in {"saved", "set"} /\ seed.writes)
  /\ total' = edit[e].sum
  /\ overlapped' = edit[e].missed
  /\ edit' = [edit EXCEPT ![e] = NoEdit]
  /\ UNCHANGED <<listing, left, rows, insertVars, seed, walkVars, items, raced>>

----------------------------------------------------------------------------
Next ==
  \/ Push
  \/ \E i \in Inserts : NextVal(i) \/ Enter(i) \/ Duplicate(i) \/ CommitInsert(i) \/ AbortInsert(i)
  \/ SeedLooks \/ SeedSaves \/ SeedSetsSequence \/ SeedCommits \/ SeedFails
  \/ \E w \in Walkers, limit \in Limits : GetPage(w, limit)
  \/ \E e \in Editors : AddItem(e) \/ SumItems(e) \/ WriteTotal(e)

Spec == Init /\ [][Next]_vars

----------------------------------------------------------------------------
(* Properties.                                                             *)

(* A walk along next_cursor gives every row that was there when it began,  *)
(* whatever is inserted meanwhile and however limit changes; and it gives  *)
(* a row twice only if a row with a smaller id was committed behind it,    *)
(* which cannot happen to the array.                                       *)
WalkIsComplete ==
  \A w \in Walkers :
    /\ walk[w].at = "done" => walk[w].start \subseteq walk[w].seen
    /\ walk[w].twice => walk[w].shifted /\ listing = "products"

(* An insert meets its own id in the table only if some insert had drawn   *)
(* that very id when a seed put it in, or set the sequence back under it.  *)
(* Every other insert goes in, also after such a race, after failed        *)
(* inserts and failed seeds, and behind the explicit ids of the seed.      *)
DuplicatesNeedSeed ==
  [][\A i \in Inserts : insert[i].at = "checks" /\ insert[i].id \in rows
                         => insert[i].id \in raced]_vars

(* When every client has recalculated after the items it added, the total  *)
(* is right, also after a wrong one, unless the very last write was that   *)
(* of a recalculation during which an item came in, or the seed's of the   *)
(* total of its own item.                                                  *)
TotalIsSum ==
  (\A e \in Editors : edit[e].at = "off") /\ ~overlapped => total = Sum(items)
=============================================================================

--------------------------- MODULE PostgresProofs ---------------------------
(***************************************************************************)
(* What Postgres and the code on it promise, for every number of clients,  *)
(* rows, transactions and attempts: withRetry (RetryOnConflict), then the  *)
(* lists, ids and totals (Catalogue).                                      *)
(***************************************************************************)
EXTENDS RetryOnConflict, Catalogue, FiniteSetTheorems, FunctionTheorems, TLAPS

----------------------------------------------------------------------------
(* withRetry around a read-modify-write.                                   *)
----------------------------------------------------------------------------

(* The version of the row counts the commits.                              *)
VersionInv == version = Cardinality(committed)

(* The transaction that holds the row is about to commit what it computed  *)
(* from the row's present value.                                           *)
LockInv ==
  \A t \in Txs : pc[t] = "commit" =>
    lock = t /\ seen[t] = version /\ current[t] = balance

(* A snapshot of the present version is the present value.                 *)
SnapshotInv ==
  \A t \in Txs : pc[t] = "update" =>
    seen[t] <= version /\ (seen[t] = version => current[t] = balance)

(* Each attempt that failed has seen a version pass.                       *)
AttemptInv ==
  \A t \in Txs :
    /\ pc[t] = "read" => attempt[t] <= version + 1
    /\ pc[t] \in {"update", "commit"} => attempt[t] <= seen[t] + 1
    /\ pc[t] = "exhausted" => MaxAttempts <= version

RetryInv == /\ TypeOK /\ VersionInv /\ LockInv /\ SnapshotInv /\ AttemptInv
        /\ NoLostUpdate /\ OutcomeIsTrue

(* Committed transactions can be counted, and one that has not committed   *)
(* is not among them.                                                      *)
LEMMA CountCommitted ==
  ASSUME TypeOK
  PROVE  /\ Cardinality(committed) \in Nat
         /\ Cardinality(Txs) \in Nat
         /\ \A t \in Txs : t \notin committed =>
              /\ Cardinality(committed \cup {t}) = Cardinality(committed) + 1
              /\ Cardinality(committed) + 1 <= Cardinality(Txs)
<1>1. IsFiniteSet(Txs) /\ committed \subseteq Txs
  BY RetryAssumption DEF TypeOK
<1>2. IsFiniteSet(committed) /\ Cardinality(committed) \in Nat /\ Cardinality(Txs) \in Nat
  BY <1>1, FS_Subset, FS_CardinalityType
<1>3. ASSUME NEW t \in Txs, t \notin committed
      PROVE  /\ Cardinality(committed \cup {t}) = Cardinality(committed) + 1
             /\ Cardinality(committed) + 1 <= Cardinality(Txs)
  <2>1. Cardinality(committed \cup {t}) = Cardinality(committed) + 1
    BY <1>2, <1>3, FS_AddElement
  <2>2. committed \cup {t} \subseteq Txs
    BY <1>1, <1>3
  <2>3. Cardinality(committed \cup {t}) <= Cardinality(Txs)
    BY <2>2, <1>1, FS_Subset
  <2> QED  BY <2>1, <2>3
<1> QED  BY <1>2, <1>3

LEMMA RetryInitInv == RetryInit => RetryInv
<1> SUFFICES ASSUME RetryInit PROVE RetryInv
  OBVIOUS
<1>1. Cardinality(committed) = 0
  BY FS_EmptySet DEF RetryInit
<1> QED
  BY <1>1, RetryAssumption DEF RetryInit, RetryInv, TypeOK, VersionInv, LockInv, SnapshotInv,
     AttemptInv, NoLostUpdate, OutcomeIsTrue

(* A commit: the version and the balance move together.                    *)
LEMMA CommitKeeps ==
  ASSUME RetryInv, NEW t \in Txs, NEW l \in {"done", "failed"},
         pc[t] = "commit",
         balance' = current[t] - 1, version' = version + 1,
         committed' = committed \cup {t}, lock' = None, Goto(t, l),
         UNCHANGED <<current, seen, attempt>>
  PROVE  RetryInv'
<1> USE DEF RetryInv, Goto
<1>1. t \notin committed /\ current[t] = balance
  BY DEF OutcomeIsTrue, LockInv
<1>2. TypeOK'
  BY RetryAssumption DEF TypeOK
<1>3. VersionInv' /\ NoLostUpdate'
  BY <1>1, CountCommitted, RetryAssumption DEF VersionInv, NoLostUpdate, TypeOK
<1>4. LockInv'
  BY RetryAssumption DEF LockInv, TypeOK
<1>5. SnapshotInv' /\ AttemptInv'
  BY RetryAssumption DEF SnapshotInv, AttemptInv, TypeOK
<1>6. OutcomeIsTrue'
  BY DEF OutcomeIsTrue, TypeOK
<1> QED  BY <1>2, <1>3, <1>4, <1>5, <1>6

(* Any step that commits nothing.                                          *)
LEMMA OtherKeeps ==
  ASSUME RetryInv, NEW t \in Txs,
         Read(t) \/ Update(t) \/ Conflict(t) \/ Fails(t),
         UNCHANGED <<balance, version, committed>>
  PROVE  RetryInv'
<1> USE DEF RetryInv, Goto
<1>1. TypeOK'
  BY RetryAssumption DEF TypeOK, Read, Update, Conflict, Fails
<1>2. VersionInv' /\ NoLostUpdate'
  BY DEF VersionInv, NoLostUpdate
<1>3. LockInv'
  BY RetryAssumption DEF LockInv, SnapshotInv, TypeOK, Read, Update, Conflict, Fails
<1>4. SnapshotInv'
  BY RetryAssumption DEF SnapshotInv, TypeOK, Read, Update, Conflict, Fails
<1>5. AttemptInv'
  BY RetryAssumption DEF AttemptInv, SnapshotInv, TypeOK, Read, Update, Conflict, Fails
<1>6. OutcomeIsTrue'
  BY DEF OutcomeIsTrue, TypeOK, Read, Update, Conflict, Fails
<1> QED  BY <1>1, <1>2, <1>3, <1>4, <1>5, <1>6

LEMMA RetryNextInv == RetryInv /\ [RetryNext]_retryVars => RetryInv'
<1> SUFFICES ASSUME RetryInv, [RetryNext]_retryVars PROVE RetryInv'
  OBVIOUS
<1>1. ASSUME NEW t \in Txs, Step(t) \/ Fails(t)
      PROVE  RetryInv'
  <2>1. CASE Read(t) \/ Update(t) \/ Conflict(t)
    BY <2>1, OtherKeeps DEF Read, Update, Conflict
  <2>2. CASE Commit(t)
    BY <2>2, CommitKeeps DEF Commit
  <2>3. CASE Fails(t)
    <3>1. CASE UNCHANGED <<balance, version, committed>>
      BY <2>3, <3>1, OtherKeeps
    <3>2. CASE ~UNCHANGED <<balance, version, committed>>
      <4>1. pc[t] = "commit" /\ lock = t
        BY <2>3, <3>2 DEF Fails, RetryInv, LockInv
      <4> QED  BY <2>3, <3>2, <4>1, CommitKeeps DEF Fails
    <3> QED  BY <3>1, <3>2
  <2> QED  BY <1>1, <2>1, <2>2, <2>3 DEF Step
<1>2. CASE UNCHANGED retryVars
  BY <1>2 DEF retryVars, RetryInv, TypeOK, VersionInv, LockInv, SnapshotInv, AttemptInv,
              NoLostUpdate, OutcomeIsTrue
<1> QED  BY <1>1, <1>2 DEF RetryNext

LEMMA RetryInvariance == RetrySpec => []RetryInv
BY RetryInitInv, RetryNextInv, PTL DEF RetrySpec

(* Types: among them, no transaction is tried more often than allowed.     *)
THEOREM TypeCorrect == RetrySpec => []TypeOK
<1>1. RetryInv => TypeOK
  BY DEF RetryInv
<1> QED  BY <1>1, RetryInvariance, PTL

(* No update is lost and none is done twice, for every number of           *)
(* transactions, whatever fails.                                           *)
THEOREM UpdatesAreKept == RetrySpec => []NoLostUpdate
<1>1. RetryInv => NoLostUpdate
  BY DEF RetryInv
<1> QED  BY <1>1, RetryInvariance, PTL

(* What the caller of withRetry is told is what the database has done.     *)
THEOREM OutcomesAreTrue == RetrySpec => []OutcomeIsTrue
<1>1. RetryInv => OutcomeIsTrue
  BY DEF RetryInv
<1> QED  BY <1>1, RetryInvariance, PTL

(* Attempts are used up only by that many commits of others.              *)
THEOREM OthersExhaust == RetrySpec => []ExhaustedByOthers
<1>1. RetryInv => ExhaustedByOthers
  <2> SUFFICES ASSUME RetryInv, NEW t \in Txs, pc[t] = "exhausted"
               PROVE  MaxAttempts <= Cardinality(committed \ {t})
    BY DEF ExhaustedByOthers
  <2>1. MaxAttempts <= Cardinality(committed)
    BY DEF RetryInv, AttemptInv, VersionInv
  <2>2. committed \ {t} = committed
    BY DEF RetryInv, OutcomeIsTrue
  <2> QED  BY <2>1, <2>2
<1> QED  BY <1>1, RetryInvariance, PTL

(* As many attempts as there are transactions are enough.                  *)
THEOREM AttemptsSuffice ==
  Cardinality(Txs) <= MaxAttempts =>
    (RetrySpec => [](\A t \in Txs : pc[t] # "exhausted"))
<1> SUFFICES ASSUME Cardinality(Txs) <= MaxAttempts
             PROVE  RetrySpec => [](\A t \in Txs : pc[t] # "exhausted")
  OBVIOUS
<1>1. RetryInv => \A t \in Txs : pc[t] # "exhausted"
  <2> SUFFICES ASSUME RetryInv, NEW t \in Txs, pc[t] = "exhausted"
               PROVE  FALSE
    OBVIOUS
  <2>1. TypeOK /\ MaxAttempts <= version /\ version = Cardinality(committed)
    BY DEF RetryInv, AttemptInv, VersionInv
  <2>2. t \notin committed
    BY DEF RetryInv, OutcomeIsTrue
  <2>3. Cardinality(committed) + 1 <= Cardinality(Txs)
    BY <2>1, <2>2, CountCommitted
  <2> QED  BY <2>1, <2>3, CountCommitted, RetryAssumption DEF TypeOK
<1> QED  BY <1>1, RetryInvariance, PTL

----------------------------------------------------------------------------
(* Pages, identity columns, the seed and the total of an order.            *)
----------------------------------------------------------------------------

Insert == [at : {"off", "checks", "entered"}, id : Nat]
Seed == [at : {"off", "looked", "saved", "set"}, missing : SUBSET SeedRows, writes : BOOLEAN]
Walk == [at : {"off", "walking", "done"}, offset : Nat, start : SUBSET Nat, seen : SUBSET Nat,
         twice : BOOLEAN, shifted : BOOLEAN]

RowsOK == rows \in SUBSET Nat /\ IsFiniteSet(rows) /\ seq \in Nat

EditOK ==
  /\ edit = [e \in Editors |-> edit[e]]
  /\ \A e \in Editors :
       edit[e] = [at |-> edit[e].at, sum |-> edit[e].sum, missed |-> edit[e].missed]

TypeInv ==
  /\ listing \in {"products", "orders"}
  /\ RowsOK
  /\ insert \in [Inserts -> Insert]
  /\ seed \in Seed
  /\ walk \in [Walkers -> Walk]
  /\ EditOK

(* The order has the seed's item once it has any.  Nobody edits an empty   *)
(* order; a sum that waits to be written is the sum, unless it misses an   *)
(* item that came in meanwhile.                                            *)
TotalInv ==
  /\ items # {} => SeedItem \in items
  /\ items = {} => \A e \in Editors : edit[e].at = "off"
  /\ \A e \in Editors : edit[e].at = "summed" /\ ~edit[e].missed => edit[e].sum = Sum(items)
  /\ TotalIsSum

(* An id in flight that no seed has raced is new: nobody else has drawn    *)
(* it, it is in no row, and the seed does not put it in.                   *)
IdIsNew(i) ==
  insert[i].at # "off" /\ insert[i].id \notin raced =>
    /\ insert[i].id <= seq
    /\ insert[i].id \notin rows
    /\ insert[i].id \notin seed.missing
    /\ \A j \in Inserts : j # i /\ insert[j].at # "off" => insert[j].id # insert[i].id

(* The sequence is ahead of every row, except of ids that were raced.      *)
IdInv ==
  /\ seed.at # "off" => SeedRows \subseteq rows \cup seed.missing
  /\ \A x \in rows : x <= seq \/ x \in raced
  /\ seed.at = "set" => \A x \in seed.missing : x <= seq
  /\ \A i \in Inserts : IdIsNew(i)
  /\ listing = "orders" =>
       raced = {} /\ seed.at = "off" /\ \A i \in Inserts : insert[i].at = "off"

(* How many of S are smaller than x; for a row, its position in the list.  *)
Below(S, x) == Cardinality({y \in S : y < x})
Rank(x) == Below(rows, x)

(* A row of the start that a walk has not been given is still ahead of its *)
(* cursor; what it was given is behind the cursor unless rows moved.       *)
WalkInv ==
  \A w \in Walkers :
    /\ walk[w].start \subseteq rows /\ walk[w].seen \subseteq rows
    /\ walk[w].at = "off" => walk[w].offset = 0
    /\ walk[w].at = "done" => walk[w].start \subseteq walk[w].seen
    /\ \A x \in walk[w].start \ walk[w].seen : Rank(x) >= walk[w].offset
    /\ ~walk[w].shifted => \A x \in walk[w].seen : Rank(x) < walk[w].offset
    /\ walk[w].twice => walk[w].shifted
    /\ walk[w].shifted => listing = "products"

IInv == TypeInv /\ TotalInv /\ IdInv /\ WalkInv
----------------------------------------------------------------------------
(* Ranks.                                                                  *)

LEMMA BelowFinite ==
  ASSUME NEW S, IsFiniteSet(S), NEW x
  PROVE  IsFiniteSet({y \in S : y < x})
<1>. {y \in S : y < x} \in SUBSET S
  OBVIOUS
<1>. QED  BY FS_Subset

LEMMA BelowFacts ==
  ASSUME NEW S, S \subseteq Nat, IsFiniteSet(S)
  PROVE  /\ Cardinality(S) \in Nat
         /\ \A x \in Nat : /\ Below(S, x) \in Nat
                           /\ x \in S => Below(S, x) < Cardinality(S)
         /\ \A x, z \in S : x < z => Below(S, x) < Below(S, z)
<1>1. Cardinality(S) \in Nat
  BY FS_CardinalityType
<1>2. ASSUME NEW x \in Nat
      PROVE  /\ Below(S, x) \in Nat
             /\ x \in S => Below(S, x) < Cardinality(S)
  <2>. DEFINE B == {y \in S : y < x}
  <2>1. B \in SUBSET S
    OBVIOUS
  <2>2. /\ IsFiniteSet(B) /\ Cardinality(B) <= Cardinality(S)
        /\ Cardinality(S) = Cardinality(B) => S = B
    BY <2>1, FS_Subset
  <2>3. Cardinality(B) \in Nat
    BY <2>2, FS_CardinalityType
  <2>4. x \notin B
    OBVIOUS
  <2>. HIDE DEF B
  <2>5. x \in S => Cardinality(B) < Cardinality(S)
    BY <1>1, <2>2, <2>3, <2>4
  <2>. QED  BY <2>2, <2>3, <2>5 DEF B, Below
<1>3. ASSUME NEW x \in S, NEW z \in S, x < z
      PROVE  Below(S, x) < Below(S, z)
  <2>. DEFINE B == {y \in S : y < x}
              C == {y \in S : y < z}
  <2>1. x \in Nat /\ z \in Nat
    OBVIOUS
  <2>2. B \in SUBSET C
    <3>1. \A y \in S : y < x => y < z
      <4>1. \A y \in S : y \in Nat
        OBVIOUS
      <4>. QED  BY <1>3, <2>1, <4>1
    <3>. QED  BY <3>1
  <2>. x \in C /\ x \notin B
    BY <1>3, <2>1
  <2>3. IsFiniteSet(C) /\ IsFiniteSet(B) /\ Cardinality(B) \in Nat /\ Cardinality(C) \in Nat
    BY BelowFinite, FS_CardinalityType
  <2>. HIDE DEF B, C
  <2>4. Cardinality(B) <= Cardinality(C) /\ (Cardinality(C) = Cardinality(B) => C = B)
    BY <2>2, <2>3, FS_Subset
  <2>5. Cardinality(B) < Cardinality(C)
    BY <2>2, <2>3, <2>4
  <2>. QED  BY <2>5 DEF B, C, Below
<1>. QED  BY <1>1, <1>2, <1>3

(* Rows that come in move a row back only if they are smaller.             *)
LEMMA BelowGrows ==
  ASSUME NEW S, S \subseteq Nat, IsFiniteSet(S), NEW new, new \subseteq Nat, IsFiniteSet(new),
         NEW x \in Nat
  PROVE  /\ Below(S \cup new, x) >= Below(S, x)
         /\ (\A y \in new : ~(y < x)) => Below(S \cup new, x) = Below(S, x)
<1>. DEFINE B == {y \in S : y < x}
            C == {y \in S \cup new : y < x}
<1>1. IsFiniteSet(S \cup new) /\ S \cup new \subseteq Nat
  BY FS_Union
<1>2. IsFiniteSet(C) /\ Cardinality(C) \in Nat /\ Cardinality(B) \in Nat
  BY <1>1, BelowFinite, FS_CardinalityType
<1>3. B \in SUBSET C
  OBVIOUS
<1>4. (\A y \in new : ~(y < x)) => B = C
  OBVIOUS
<1>. HIDE DEF B, C
<1>5. Cardinality(B) <= Cardinality(C)
  BY <1>2, <1>3, FS_Subset
<1>. QED  BY <1>2, <1>4, <1>5 DEF B, C, Below

(* The ranks of the rows are 0, 1, 2, ... without a gap.                   *)
LEMMA RanksAreDense ==
  ASSUME NEW S, S \subseteq Nat, IsFiniteSet(S), NEW k \in Nat, k < Cardinality(S)
  PROVE  \E x \in S : Below(S, x) = k
<1>. DEFINE n == Cardinality(S)
            f == [x \in S |-> Below(S, x)]
<1>1. n \in Nat
  BY BelowFacts
<1>2. \A x \in S : Below(S, x) \in 0 .. n - 1
  <2>1. ASSUME NEW x \in S PROVE Below(S, x) \in 0 .. n - 1
    <3>1. x \in Nat
      OBVIOUS
    <3>2. Below(S, x) \in Nat /\ Below(S, x) < n
      BY <3>1, BelowFacts
    <3>. QED  BY <1>1, <3>2
  <2>. QED  BY <2>1
<1>3. f \in [S -> 0 .. n - 1]
  BY <1>2
<1>4. \A x, z \in S : f[x] = f[z] => x = z
  <2>1. SUFFICES ASSUME NEW x \in S, NEW z \in S, f[x] = f[z] PROVE x = z
    OBVIOUS
  <2>2. Below(S, x) = Below(S, z)
    BY <2>1
  <2>3. Below(S, x) \in Nat /\ Below(S, z) \in Nat /\ x \in Nat /\ z \in Nat
    BY BelowFacts
  <2>4. ~(x < z)
    <3>1. x < z => Below(S, x) < Below(S, z)
      BY BelowFacts
    <3>. QED  BY <2>2, <2>3, <3>1
  <2>5. ~(z < x)
    <3>1. z < x => Below(S, z) < Below(S, x)
      BY BelowFacts
    <3>. QED  BY <2>2, <2>3, <3>1
  <2>. QED  BY <2>3, <2>4, <2>5
<1>5. IsFiniteSet(0 .. n - 1) /\ Cardinality(0 .. n - 1) = n
  <2>. HIDE DEF n
  <2>1. 0 \in Int /\ n - 1 \in Int /\ (IF 0 > n - 1 THEN 0 ELSE n - 1 - 0 + 1) = n
    BY <1>1
  <2>. QED  BY <2>1, FS_Interval
<1>. HIDE DEF f
<1>6. f \in Injection(S, 0 .. n - 1)
  BY <1>3, <1>4, Fun_IsInj
<1>7. f \in Surjection(S, 0 .. n - 1)
  BY <1>5, <1>6, FS_Injection
<1>8. k \in 0 .. n - 1
  BY <1>1
<1>9. \A t \in 0 .. n - 1 : \E x \in S : f[x] = t
  BY <1>7 DEF Surjection
<1>. QED  BY <1>8, <1>9 DEF f

(* A page is full when there are rows enough.                              *)
LEMMA PageIsFull ==
  ASSUME RowsOK, NEW n \in Nat, NEW m \in Nat, n <= m, m <= Cardinality(rows)
  PROVE  Cardinality(Positions(n, m)) >= m - n
<1>. DEFINE P == Positions(n, m)
            g == [x \in P |-> Rank(x)]
<1>1. P = {x \in rows : Rank(x) \in n .. m - 1}
  BY DEF Positions, Rank, Below
<1>2. rows \subseteq Nat /\ IsFiniteSet(rows) /\ Cardinality(rows) \in Nat
  BY BelowFacts DEF RowsOK
<1>3. IsFiniteSet(P)
  BY <1>1, <1>2, FS_Subset
<1>4. g \in [P -> n .. m - 1]
  BY <1>1
<1>5. \A k \in n .. m - 1 : \E x \in P : g[x] = k
  <2>1. SUFFICES ASSUME NEW k \in n .. m - 1 PROVE \E x \in P : g[x] = k
    OBVIOUS
  <2>2. k \in Nat /\ k < Cardinality(rows)
    BY <1>2
  <2>3. PICK x \in rows : Below(rows, x) = k
    BY <1>2, <2>2, RanksAreDense
  <2>4. x \in P
    BY <1>1, <2>3 DEF Rank
  <2>. QED  BY <2>3, <2>4 DEF Rank
<1>6. Cardinality(n .. m - 1) = m - n
  <2>1. n \in Int /\ m - 1 \in Int /\ (IF n > m - 1 THEN 0 ELSE m - 1 - n + 1) = m - n
    OBVIOUS
  <2>. QED  BY <2>1, FS_Interval
<1>. HIDE DEF P, g
<1>7. g \in Surjection(P, n .. m - 1)
  BY <1>4, <1>5, Fun_IsSurj
<1>8. Cardinality(n .. m - 1) <= Cardinality(P)
  BY <1>3, <1>7, FS_Surjection
<1>. QED  BY <1>6, <1>8 DEF P

LEMMA MaxOfNats ==
  ASSUME NEW S, S \subseteq Nat, IsFiniteSet(S), S # {}
  PROVE  Max(S) \in S /\ \A x \in S : x <= Max(S)
<1>. DEFINE n == Cardinality(S)
<1>1. n \in Nat /\ n # 0
  BY FS_CardinalityType, FS_EmptySet
<1>2. PICK m \in S : Below(S, m) = n - 1
  <2>1. n - 1 \in Nat /\ n - 1 < n
    BY <1>1
  <2>. QED  BY <2>1, RanksAreDense
<1>3. ASSUME NEW x \in S PROVE m >= x
  <2>1. CASE m < x
    <3>1. Below(S, m) < Below(S, x) /\ Below(S, x) < n /\ Below(S, x) \in Nat
      BY <2>1, BelowFacts
    <3>. QED  BY <1>1, <1>2, <3>1
  <2>. QED  BY <2>1
<1>4. \E z \in S : \A x \in S : z >= x
  BY <1>3
<1>5. Max(S) \in S /\ \A x \in S : Max(S) >= x
  BY <1>4 DEF Max
<1>. QED  BY <1>5
----------------------------------------------------------------------------
(* The total of an order.                                                  *)

LEMMA TotalStep ==
  ASSUME TypeInv, TotalInv, [Next]_vars
  PROVE  TotalInv'
<1>. USE DEF TypeInv, TotalInv, TotalIsSum
<1>1. CASE UNCHANGED totalVars
  BY <1>1 DEF totalVars
<1>2. CASE SeedCommits
  <2>1. items' = items \cup {SeedItem} /\ edit' = edit
        /\ overlapped' = (overlapped \/ (seed.writes /\ items # {}))
        /\ total' = IF seed.writes \/ items = {} THEN Sum({SeedItem}) ELSE total
    BY <1>2 DEF SeedCommits
  <2>2. CASE items = {}
    <3>1. items' = {SeedItem}
      BY <2>1, <2>2
    <3>. QED  BY <2>1, <2>2, <3>1
  <2>3. CASE items # {}
    <3>1. items' = items
      BY <2>1, <2>3
    <3>. QED  BY <2>1, <2>3, <3>1
  <2>. QED  BY <2>2, <2>3
<1>3. ASSUME NEW e \in Editors, AddItem(e)
      PROVE  TotalInv'
  <2>1. /\ items # {} /\ items \subseteq items'
        /\ edit' = [f \in Editors |-> IF f = e THEN [NoEdit EXCEPT !.at = "added"]
                                      ELSE [edit[f] EXCEPT !.missed = (edit[f].at = "summed")]]
    BY <1>3 DEF AddItem
  <2>2. edit'[e].at = "added"
    BY <2>1 DEF NoEdit
  <2>3. ASSUME NEW f \in Editors \ {e}
        PROVE  ~(edit'[f].at = "summed" /\ ~edit'[f].missed)
    <3>1. edit'[f] = [edit[f] EXCEPT !.missed = (edit[f].at = "summed")]
      BY <2>1
    <3>2. edit[f] = [at |-> edit[f].at, sum |-> edit[f].sum, missed |-> edit[f].missed]
      BY DEF EditOK
    <3>3. edit'[f].at = edit[f].at
      BY <3>1, <3>2
    <3>4. edit[f].at = "summed" => edit'[f].missed
      BY <3>1, <3>2
    <3>. QED  BY <3>3, <3>4
  <2>4. SeedItem \in items' /\ items' # {}
    BY <2>1
  <2>. QED  BY <2>2, <2>3, <2>4
<1>4. ASSUME NEW e \in Editors, SumItems(e)
      PROVE  TotalInv'
  <2>1. /\ edit[e].at = "added" /\ UNCHANGED <<items, total, overlapped>>
        /\ edit' = [edit EXCEPT ![e] = [at |-> "summed", sum |-> Sum(items), missed |-> FALSE]]
    BY <1>4 DEF SumItems, SumOfItems
  <2>2. \A f \in Editors \ {e} : edit'[f] = edit[f]
    BY <2>1 DEF EditOK
  <2>3. edit'[e].at = "summed" /\ edit'[e].sum = Sum(items)
    BY <2>1 DEF EditOK
  <2>4. items # {}
    BY <2>1
  <2>. QED  BY <2>1, <2>2, <2>3, <2>4
<1>5. ASSUME NEW e \in Editors, WriteTotal(e)
      PROVE  TotalInv'
  <2>1. /\ edit[e].at = "summed" /\ items' = items /\ total' = edit[e].sum
        /\ overlapped' = edit[e].missed /\ edit' = [edit EXCEPT ![e] = NoEdit]
    BY <1>5 DEF WriteTotal
  <2>2. edit'[e].at = "off" /\ \A f \in Editors \ {e} : edit'[f] = edit[f]
    BY <2>1 DEF NoEdit, EditOK
  <2>3. items # {}
    BY <2>1
  <2>4. ~overlapped' => total' = Sum(items)
    BY <2>1
  <2>. QED  BY <2>1, <2>2, <2>3, <2>4
<1>6. CASE UNCHANGED vars
  BY <1>6, <1>1 DEF vars, totalVars
<1>. HIDE DEF TypeInv, TotalInv, TotalIsSum
<1>7. CASE Push
  BY <1>1, <1>7 DEF Push
<1>8. ASSUME NEW i \in Inserts,
             NextVal(i) \/ Enter(i) \/ Duplicate(i) \/ CommitInsert(i) \/ AbortInsert(i)
      PROVE  TotalInv'
  BY <1>1, <1>8 DEF NextVal, Enter, Duplicate, CommitInsert, AbortInsert
<1>9. CASE SeedLooks \/ SeedSaves \/ SeedSetsSequence \/ SeedFails
  BY <1>1, <1>9 DEF SeedLooks, SeedSaves, SeedSetsSequence, SeedFails
<1>10. ASSUME NEW w \in Walkers, NEW limit \in Limits, GetPage(w, limit)
       PROVE  TotalInv'
  BY <1>1, <1>10 DEF GetPage
<1>. QED  BY <1>2, <1>3, <1>4, <1>5, <1>6, <1>7, <1>8, <1>9, <1>10 DEF Next

----------------------------------------------------------------------------
(* Ids.                                                                    *)

LEMMA SeedRowsFacts ==
  /\ SeedRows \subseteq Nat /\ IsFiniteSet(SeedRows) /\ 1 \in SeedRows
  /\ \A S \in SUBSET SeedRows : S \subseteq Nat /\ IsFiniteSet(S)
<1>1. SeedIds \in Nat /\ SeedIds >= 1
  BY CatalogueAssumption
<1>2. SeedRows \subseteq Nat /\ 1 \in SeedRows
  BY <1>1 DEF SeedRows
<1>3. IsFiniteSet(SeedRows)
  BY <1>1, FS_Interval DEF SeedRows
<1>4. ASSUME NEW S \in SUBSET SeedRows PROVE S \subseteq Nat /\ IsFiniteSet(S)
  BY <1>2, <1>3, FS_Subset
<1>. QED  BY <1>2, <1>3, <1>4

(* setval() is ahead of every row that the transaction sees.               *)
LEMMA SequenceSet ==
  ASSUME TypeInv, IdInv, SeedSetsSequence
  PROVE  seq' \in Nat /\ \A x \in rows \cup seed.missing : x <= seq'
<1>. DEFINE S == rows \cup seed.missing
<1>1. seed.missing \in SUBSET SeedRows /\ rows \subseteq Nat /\ IsFiniteSet(rows)
  BY DEF TypeInv, Seed, RowsOK
<1>2. S \subseteq Nat /\ IsFiniteSet(S)
  BY <1>1, SeedRowsFacts, FS_Union
<1>3. S # {}
  BY SeedRowsFacts DEF SeedSetsSequence, IdInv
<1>4. seq' = Max(S)
  BY DEF SeedSetsSequence
<1>. HIDE DEF S
<1>5. Max(S) \in S /\ \A x \in S : x <= Max(S)
  BY <1>2, <1>3, MaxOfNats
<1>6. seq' \in Nat /\ \A x \in S : x <= seq'
  BY <1>2, <1>4, <1>5
<1>. QED  BY <1>6 DEF S

LEMMA IdStep ==
  ASSUME TypeInv, IdInv, [Next]_vars
  PROVE  IdInv'
<1>1. RowsOK /\ seed \in Seed /\ insert \in [Inserts -> Insert]
  BY DEF TypeInv
<1>2. rows \subseteq Nat /\ seq \in Nat /\ \A i \in Inserts : insert[i].id \in Nat
  BY <1>1 DEF RowsOK, Insert
<1>3. seed.missing \subseteq Nat
  BY <1>1, SeedRowsFacts DEF Seed
<1>4. CASE UNCHANGED <<listing, rows, seq, insert, seed, raced>>
  BY <1>4 DEF IdInv, IdIsNew
<1>5. CASE Push
  <2>1. /\ listing = "orders" /\ seq' = seq + 1 /\ rows' = rows \cup {seq + 1}
        /\ UNCHANGED <<listing, insert, seed, raced>>
    BY <1>5 DEF Push
  <2>2. raced = {} /\ seed.at = "off" /\ \A i \in Inserts : insert[i].at = "off"
    BY <2>1 DEF IdInv
  <2>3. ASSUME NEW x \in rows PROVE x <= seq + 1
    <3>1. x \in Nat /\ x <= seq /\ seq \in Nat
      BY <1>2, <2>2 DEF IdInv
    <3>. QED  BY <3>1
  <2>. QED  BY <1>2, <2>1, <2>2, <2>3 DEF IdInv, IdIsNew
<1>6. ASSUME NEW i \in Inserts, NextVal(i)
      PROVE  IdInv'
  <2>1. /\ listing = "products" /\ insert[i].at = "off" /\ seq' = seq + 1
        /\ insert' = [insert EXCEPT ![i] = [at |-> "checks", id |-> seq + 1]]
        /\ raced' = raced \cup ({seq + 1} \cap seed.missing) /\ UNCHANGED <<listing, rows, seed>>
    BY <1>6 DEF NextVal
  <2>2. /\ insert'[i].at = "checks" /\ insert'[i].id = seq + 1
        /\ \A j \in Inserts \ {i} : insert'[j] = insert[j]
    BY <1>1, <2>1
  <2>3. ASSUME NEW x \in Nat, x <= seq
        PROVE  x <= seq + 1 /\ x # seq + 1
    BY <1>2, <2>3
  <2>4. ASSUME NEW j \in Inserts \ {i}
        PROVE  IdIsNew(j)'
    <3>1. SUFFICES ASSUME insert[j].at # "off", insert[j].id \notin raced'
          PROVE  /\ insert[j].id <= seq + 1 /\ insert[j].id \notin rows
                 /\ insert[j].id \notin seed.missing
                 /\ \A k \in Inserts : k # j /\ insert'[k].at # "off"
                                         => insert'[k].id # insert[j].id
      BY <2>1, <2>2 DEF IdIsNew
    <3>2. IdIsNew(j) /\ insert[j].id \notin raced
      BY <2>1, <3>1 DEF IdInv
    <3>3. insert[j].id \in Nat /\ insert[j].id <= seq
      BY <1>2, <3>1, <3>2 DEF IdIsNew
    <3>4. insert[j].id <= seq + 1 /\ insert[j].id # seq + 1
      BY <2>3, <3>3
    <3>. QED  BY <2>2, <3>1, <3>2, <3>4 DEF IdIsNew
  <2>5. IdIsNew(i)'
    <3>1. SUFFICES ASSUME seq + 1 \notin raced'
          PROVE  /\ seq + 1 \notin rows /\ seq + 1 \notin seed.missing
                 /\ \A k \in Inserts \ {i} : insert[k].at # "off" => insert[k].id # seq + 1
      BY <1>2, <2>1, <2>2 DEF IdIsNew
    <3>2. seq + 1 \notin raced /\ seq + 1 \notin seed.missing
      BY <2>1, <3>1
    <3>3. seq + 1 \notin rows
      BY <1>2, <2>3, <3>2 DEF IdInv
    <3>4. ASSUME NEW k \in Inserts \ {i}, insert[k].at # "off", insert[k].id = seq + 1
          PROVE  FALSE
      <4>1. insert[k].id <= seq
        BY <3>2, <3>4 DEF IdInv, IdIsNew
      <4>. QED  BY <1>2, <2>3, <3>4, <4>1
    <3>. QED  BY <3>2, <3>3, <3>4
  <2>6. \A x \in rows : x <= seq' \/ x \in raced'
    BY <1>2, <2>1, <2>3 DEF IdInv
  <2>7. seed'.at = "set" => \A x \in seed'.missing : x <= seq'
    BY <1>3, <2>1, <2>3 DEF IdInv
  <2>. QED  BY <2>1, <2>4, <2>5, <2>6, <2>7 DEF IdInv
<1>7. ASSUME NEW i \in Inserts, Enter(i)
      PROVE  IdInv'
  <2>1. /\ insert[i].at = "checks" /\ UNCHANGED <<listing, rows, seq, seed, raced>>
        /\ insert' = [insert EXCEPT ![i].at = "entered"]
    BY <1>7 DEF Enter
  <2>2. /\ insert'[i].at = "entered" /\ insert'[i].id = insert[i].id
        /\ \A j \in Inserts \ {i} : insert'[j] = insert[j]
    BY <1>1, <2>1 DEF Insert
  <2>3. \A j \in Inserts : insert'[j].id = insert[j].id
                           /\ (insert'[j].at # "off" <=> insert[j].at # "off")
    BY <2>1, <2>2
  <2>. QED  BY <2>1, <2>3 DEF IdInv, IdIsNew
<1>8. ASSUME NEW i \in Inserts, Duplicate(i) \/ CommitInsert(i) \/ AbortInsert(i)
      PROVE  IdInv'
  <2>1. /\ insert' = [insert EXCEPT ![i] = NoInsert] /\ insert[i].at # "off"
        /\ rows' = rows \/ rows' = rows \cup {insert[i].id}
        /\ UNCHANGED <<listing, seq, seed, raced>>
    BY <1>8 DEF Duplicate, CommitInsert, AbortInsert
  <2>2. insert'[i].at = "off" /\ \A j \in Inserts \ {i} : insert'[j] = insert[j]
    BY <1>1, <2>1 DEF NoInsert
  <2>3. insert[i].id <= seq \/ insert[i].id \in raced
    BY <2>1 DEF IdInv, IdIsNew
  <2>4. ASSUME NEW j \in Inserts \ {i}
        PROVE  IdIsNew(j)'
    <3>1. IdIsNew(j)
      BY DEF IdInv
    <3>2. insert[j].at # "off" /\ insert[j].id \notin raced => insert[j].id # insert[i].id
      BY <2>1, <3>1 DEF IdIsNew
    <3>. QED  BY <2>1, <2>2, <3>1, <3>2 DEF IdIsNew
  <2>5. IdIsNew(i)'
    BY <2>2 DEF IdIsNew
  <2>. QED  BY <2>1, <2>2, <2>3, <2>4, <2>5 DEF IdInv
<1>9. CASE SeedLooks
  <2>1. /\ listing = "products" /\ UNCHANGED <<listing, rows, seq, insert>>
        /\ seed' = [at |-> "looked", missing |-> SeedRows \ rows, writes |-> seed'.writes]
        /\ raced' = raced \cup (Drawn \cap (SeedRows \ rows))
    BY <1>9 DEF SeedLooks, insertVars
  <2>2. seed'.at = "looked" /\ seed'.missing = SeedRows \ rows
    BY <2>1
  <2>3. ASSUME NEW i \in Inserts
        PROVE  IdIsNew(i)'
    <3>1. insert[i].at # "off" => insert[i].id \in Drawn
      BY DEF Drawn
    <3>2. IdIsNew(i)
      BY DEF IdInv
    <3>. QED  BY <2>1, <2>2, <3>1, <3>2 DEF IdIsNew
  <2>. QED  BY <2>1, <2>2, <2>3 DEF IdInv
<1>10. CASE SeedSaves
  <2>1. /\ seed.at = "looked" /\ seed' = [seed EXCEPT !.at = "saved"]
        /\ UNCHANGED <<listing, rows, seq, insert, raced>>
    BY <1>10 DEF SeedSaves, insertVars
  <2>2. seed'.at = "saved" /\ seed'.missing = seed.missing
    BY <1>1, <2>1 DEF Seed
  <2>. QED  BY <2>1, <2>2 DEF IdInv, IdIsNew
<1>11. CASE SeedSetsSequence
  <2>1. /\ seed.at = "saved" /\ seed' = [seed EXCEPT !.at = "set"]
        /\ UNCHANGED <<listing, rows, insert>>
        /\ raced' = raced \cup {n \in Drawn : n > seq'}
    BY <1>11 DEF SeedSetsSequence
  <2>2. seed'.at = "set" /\ seed'.missing = seed.missing
    BY <1>1, <2>1 DEF Seed
  <2>3. seq' \in Nat /\ \A x \in rows \cup seed.missing : x <= seq'
    BY <1>11, SequenceSet
  <2>4. ASSUME NEW i \in Inserts
        PROVE  IdIsNew(i)'
    <3>1. SUFFICES ASSUME insert[i].at # "off", insert[i].id \notin raced'
          PROVE  insert[i].id <= seq'
      BY <2>1, <2>2 DEF IdInv, IdIsNew
    <3>2. ~(insert[i].id > seq')
      BY <2>1, <3>1 DEF Drawn
    <3>. QED  BY <1>2, <2>3, <3>2
  <2>. QED  BY <2>1, <2>2, <2>3, <2>4 DEF IdInv
<1>12. CASE SeedCommits
  <2>1. /\ seed.at = "set" /\ seed' = NoSeed /\ rows' = rows \cup seed.missing
        /\ UNCHANGED <<listing, seq, insert, raced>>
    BY <1>12 DEF SeedCommits, insertVars
  <2>. QED  BY <2>1 DEF NoSeed, IdInv, IdIsNew
<1>13. CASE SeedFails
  BY <1>13 DEF SeedFails, insertVars, NoSeed, IdInv, IdIsNew
<1>14. ASSUME NEW w \in Walkers, NEW limit \in Limits, GetPage(w, limit)
       PROVE  IdInv'
  BY <1>4, <1>14 DEF GetPage, insertVars
<1>15. ASSUME NEW e \in Editors, AddItem(e) \/ SumItems(e) \/ WriteTotal(e)
       PROVE  IdInv'
  BY <1>4, <1>15 DEF AddItem, SumItems, WriteTotal, insertVars
<1>16. CASE UNCHANGED vars
  BY <1>4, <1>16 DEF vars
<1>. QED  BY <1>5, <1>6, <1>7, <1>8, <1>9, <1>10, <1>11, <1>12, <1>13, <1>14, <1>15, <1>16 DEF Next
----------------------------------------------------------------------------
(* Walks.                                                                  *)

LEMMA ShiftedWalk ==
  ASSUME NEW k \in Walk, NEW b \in BOOLEAN
  PROVE  \A n : n = [k EXCEPT !.shifted = @ \/ b] =>
           /\ n \in Walk /\ n.at = k.at /\ n.offset = k.offset /\ n.start = k.start
           /\ n.seen = k.seen /\ n.twice = k.twice /\ n.shifted = (k.shifted \/ b)
<1>1. (k.shifted \/ b) \in BOOLEAN
  OBVIOUS
<1>. QED  BY <1>1 DEF Walk

LEMMA ShiftedWalks ==
  ASSUME TypeInv, NEW new, walk' = Shifted(new), NEW w \in Walkers
  PROVE  /\ walk' \in [Walkers -> Walk]
         /\ walk'[w].at = walk[w].at /\ walk'[w].offset = walk[w].offset
         /\ walk'[w].start = walk[w].start /\ walk'[w].seen = walk[w].seen
         /\ walk'[w].twice = walk[w].twice
         /\ walk'[w].shifted = (walk[w].shifted \/ \E x \in new, y \in walk[w].seen : x < y)
<1>. DEFINE back(v) == \E x \in new, y \in walk[v].seen : x < y
<1>1. walk' = [v \in Walkers |-> [walk[v] EXCEPT !.shifted = @ \/ back(v)]]
  BY DEF Shifted
<1>2. \A v \in Walkers : walk[v] \in Walk /\ back(v) \in BOOLEAN
  BY DEF TypeInv
<1>. HIDE DEF back
<1>3. \A v \in Walkers : walk'[v] = [walk[v] EXCEPT !.shifted = @ \/ back(v)]
  BY <1>1
<1>4. ASSUME NEW v \in Walkers
      PROVE  /\ walk'[v] \in Walk
             /\ walk'[v].at = walk[v].at /\ walk'[v].offset = walk[v].offset
             /\ walk'[v].start = walk[v].start /\ walk'[v].seen = walk[v].seen
             /\ walk'[v].twice = walk[v].twice /\ walk'[v].shifted = (walk[v].shifted \/ back(v))
  <2>1. PICK b \in BOOLEAN : b = back(v)
    BY <1>2
  <2>2. walk[v] \in Walk /\ walk'[v] = [walk[v] EXCEPT !.shifted = @ \/ b]
    BY <1>2, <1>3, <2>1
  <2>3. /\ walk'[v] \in Walk
        /\ walk'[v].at = walk[v].at /\ walk'[v].offset = walk[v].offset
        /\ walk'[v].start = walk[v].start /\ walk'[v].seen = walk[v].seen
        /\ walk'[v].twice = walk[v].twice /\ walk'[v].shifted = (walk[v].shifted \/ b)
    BY <2>2, ShiftedWalk
  <2>. QED  BY <2>1, <2>3
<1>5. walk' \in [Walkers -> Walk]
  BY <1>1, <1>4
<1>. QED  BY <1>4, <1>5 DEF back

(* Rows come in.                                                           *)
LEMMA WalkGrows ==
  ASSUME TypeInv, WalkInv, NEW new, new \subseteq Nat, IsFiniteSet(new),
         rows' = rows \cup new, walk' = Shifted(new), listing' = listing,
         listing = "orders" => \A x \in new, y \in rows : ~(x < y)
  PROVE  WalkInv' /\ walk' \in [Walkers -> Walk]
<1>1. rows \subseteq Nat /\ IsFiniteSet(rows) /\ listing \in {"products", "orders"}
      /\ walk \in [Walkers -> Walk]
  BY DEF TypeInv, RowsOK
<1>. SUFFICES ASSUME NEW w \in Walkers
     PROVE  /\ walk' \in [Walkers -> Walk]
            /\ walk'[w].start \subseteq rows' /\ walk'[w].seen \subseteq rows'
            /\ walk'[w].at = "off" => walk'[w].offset = 0
            /\ walk'[w].at = "done" => walk'[w].start \subseteq walk'[w].seen
            /\ \A x \in walk'[w].start \ walk'[w].seen : Below(rows', x) >= walk'[w].offset
            /\ ~walk'[w].shifted => \A x \in walk'[w].seen : Below(rows', x) < walk'[w].offset
            /\ walk'[w].twice => walk'[w].shifted
            /\ walk'[w].shifted => listing' = "products"
  <2>1. walk' \in [Walkers -> Walk]
    <3>1. CASE Walkers = {}
      <4>1. DOMAIN walk' = Walkers /\ walk' = [w \in Walkers |-> walk'[w]]
        BY DEF Shifted
      <4>. QED  BY <3>1, <4>1
    <3>. QED  BY <3>1, ShiftedWalks
  <2>. QED  BY <2>1 DEF WalkInv, Rank
<1>2. /\ walk' \in [Walkers -> Walk]
      /\ walk'[w].at = walk[w].at /\ walk'[w].offset = walk[w].offset
      /\ walk'[w].start = walk[w].start /\ walk'[w].seen = walk[w].seen
      /\ walk'[w].twice = walk[w].twice
      /\ walk'[w].shifted = (walk[w].shifted \/ \E x \in new, y \in walk[w].seen : x < y)
  BY ShiftedWalks
<1>3. /\ walk[w].start \subseteq rows /\ walk[w].seen \subseteq rows
      /\ walk[w].at = "off" => walk[w].offset = 0
      /\ walk[w].at = "done" => walk[w].start \subseteq walk[w].seen
      /\ \A x \in walk[w].start \ walk[w].seen : Below(rows, x) >= walk[w].offset
      /\ ~walk[w].shifted => \A x \in walk[w].seen : Below(rows, x) < walk[w].offset
      /\ walk[w].twice => walk[w].shifted
      /\ walk[w].shifted => listing = "products"
  BY DEF WalkInv, Rank
<1>4. walk[w].offset \in Nat /\ \A x \in rows : x \in Nat /\ Below(rows, x) \in Nat
  BY <1>1, BelowFacts DEF Walk
<1>5. ASSUME NEW x \in rows
      PROVE  /\ Below(rows', x) \in Nat /\ Below(rows', x) >= Below(rows, x)
             /\ (\A y \in new : ~(y < x)) => Below(rows', x) = Below(rows, x)
  <2>1. rows' \subseteq Nat /\ IsFiniteSet(rows')
    BY <1>1, FS_Union
  <2>2. Below(rows', x) \in Nat
    BY <1>4, <2>1, BelowFacts
  <2>. QED  BY <1>1, <1>4, <2>2, BelowGrows
<1>6. \A x \in walk[w].start \ walk[w].seen : Below(rows', x) >= walk[w].offset
  BY <1>3, <1>4, <1>5
<1>7. ASSUME ~walk'[w].shifted, NEW x \in walk[w].seen PROVE Below(rows', x) < walk[w].offset
  <2>1. ~walk[w].shifted /\ \A y \in new : ~(y < x)
    BY <1>2, <1>7
  <2>2. Below(rows', x) = Below(rows, x)
    BY <1>3, <1>5, <2>1
  <2>. QED  BY <1>3, <2>1, <2>2
<1>8. walk'[w].shifted => listing' = "products"
  BY <1>1, <1>2, <1>3
<1>. QED  BY <1>2, <1>3, <1>6, <1>7, <1>8

(* What a page gives.                                                      *)
LEMMA PageFacts ==
  ASSUME RowsOK, listing \in {"products", "orders"}, NEW offset \in Nat, NEW limit \in Nat \ {0}
  PROVE  /\ Positions(offset, offset + limit) = {x \in rows : Rank(x) \in offset .. offset + limit - 1}
         /\ ListPage(offset, limit).items = Positions(offset, offset + limit)
         /\ Paginate(offset, limit).items = Positions(offset, offset + limit)
         /\ ListPage(offset, limit).hasMore \/ \A x \in rows : Rank(x) < offset + limit
         /\ Paginate(offset, limit).hasMore \/ \A x \in rows : Rank(x) < offset + limit
<1>1. rows \subseteq Nat /\ IsFiniteSet(rows) /\ Cardinality(rows) \in Nat
  BY BelowFacts DEF RowsOK
<1>2. \A x \in rows : Rank(x) \in Nat /\ Rank(x) < Cardinality(rows)
  BY <1>1, BelowFacts DEF Rank
<1>3. Positions(offset, offset + limit) = {x \in rows : Rank(x) \in offset .. offset + limit - 1}
  BY DEF Positions, Rank, Below
<1>4. ASSUME ~(Cardinality(Positions(offset, offset + limit + 1)) > limit), NEW x \in rows
      PROVE  Rank(x) < offset + limit
  <2>1. CASE offset + limit + 1 <= Cardinality(rows)
    <3>1. /\ offset + limit + 1 \in Nat /\ offset <= offset + limit + 1
          /\ offset + limit + 1 - offset = limit + 1
      OBVIOUS
    <3>2. Cardinality(Positions(offset, offset + limit + 1)) >= limit + 1
      BY <2>1, <3>1, PageIsFull
    <3>3. Cardinality(Positions(offset, offset + limit + 1)) \in Nat
      <4>1. Positions(offset, offset + limit + 1) \in SUBSET rows
        BY DEF Positions
      <4>. QED  BY <1>1, <4>1, FS_Subset, FS_CardinalityType
    <3>. QED  BY <1>4, <3>2, <3>3
  <2>2. CASE ~(offset + limit + 1 <= Cardinality(rows))
    BY <1>1, <1>2, <2>2
  <2>. QED  BY <2>1, <2>2
<1>5. ~(offset + limit < Cardinality(rows)) => \A x \in rows : Rank(x) < offset + limit
  BY <1>1, <1>2
<1>6. /\ ListPage(offset, limit).items = Positions(offset, offset + limit)
      /\ Paginate(offset, limit).items = Positions(offset, offset + limit)
      /\ ListPage(offset, limit).hasMore
           <=> Cardinality(Positions(offset, offset + limit + 1)) > limit
      /\ Paginate(offset, limit).hasMore <=> offset + limit < Cardinality(rows)
  BY DEF ListPage, Paginate
<1>. QED  BY <1>3, <1>4, <1>5, <1>6

LEMMA WalkPages ==
  ASSUME TypeInv, WalkInv, NEW w \in Walkers, NEW limit \in Limits, GetPage(w, limit)
  PROVE  WalkInv' /\ walk' \in [Walkers -> Walk]
<1>. DEFINE page == IF listing = "products" THEN ListPage(walk[w].offset, limit)
                    ELSE Paginate(walk[w].offset, limit)
            first == walk[w].at = "off"
            next == [ at |-> IF page.hasMore THEN "walking" ELSE "done",
                      offset |-> NextCursor(walk[w].offset, limit),
                      start |-> IF first THEN rows ELSE walk[w].start,
                      seen |-> walk[w].seen \cup page.items,
                      twice |-> walk[w].twice \/ page.items \cap walk[w].seen # {},
                      shifted |-> walk[w].shifted ]
<1>1. rows \subseteq Nat /\ IsFiniteSet(rows) /\ listing \in {"products", "orders"} /\ RowsOK
  BY DEF TypeInv, RowsOK
<1>2. walk \in [Walkers -> Walk] /\ walk[w] \in Walk /\ walk[w].offset \in Nat
      /\ walk[w].seen \subseteq Nat /\ walk[w].start \subseteq Nat
      /\ walk[w].twice \in BOOLEAN /\ walk[w].shifted \in BOOLEAN
  BY DEF TypeInv, Walk
<1>3. limit \in Nat \ {0}
  BY CatalogueAssumption
<1>4. /\ page.items = {x \in rows : Rank(x) \in walk[w].offset .. walk[w].offset + limit - 1}
      /\ page.hasMore \/ \A x \in rows : Rank(x) < walk[w].offset + limit
  BY <1>1, <1>2, <1>3, PageFacts
<1>5. /\ walk' = [walk EXCEPT ![w] = next]
      /\ first \/ walk[w].at = "walking"
      /\ rows' = rows /\ listing' = listing
  BY DEF GetPage
<1>. HIDE DEF page
<1>6. /\ next.at \in {"walking", "done"} /\ (next.at = "done" => ~page.hasMore)
      /\ next.offset = walk[w].offset + limit /\ next.offset \in Nat
      /\ next.start = (IF first THEN rows ELSE walk[w].start)
      /\ next.seen = walk[w].seen \cup page.items
      /\ next.twice <=> (walk[w].twice \/ page.items \cap walk[w].seen # {})
      /\ next.shifted = walk[w].shifted
  <2>1. next.at \in {"walking", "done"} /\ (next.at = "done" => ~page.hasMore)
    OBVIOUS
  <2>2. next.offset = walk[w].offset + limit /\ next.offset \in Nat
    BY <1>2, <1>3 DEF NextCursor
  <2>3. /\ next.start = (IF first THEN rows ELSE walk[w].start)
        /\ next.seen = walk[w].seen \cup page.items /\ next.shifted = walk[w].shifted
    OBVIOUS
  <2>4. next.twice <=> (walk[w].twice \/ page.items \cap walk[w].seen # {})
    OBVIOUS
  <2>. QED  BY <2>1, <2>2, <2>3, <2>4
<1>7. next \in Walk
  <2>1. page.items \subseteq Nat
    BY <1>1, <1>4
  <2>2. (walk[w].twice \/ page.items \cap walk[w].seen # {}) \in BOOLEAN
    OBVIOUS
  <2>. QED  BY <1>1, <1>2, <1>6, <2>1, <2>2 DEF Walk
<1>. HIDE DEF next
<1>8. walk'[w] = next /\ (\A v \in Walkers \ {w} : walk'[v] = walk[v])
      /\ walk' \in [Walkers -> Walk]
  BY <1>2, <1>5, <1>7
<1>9. /\ walk[w].start \subseteq rows /\ walk[w].seen \subseteq rows
      /\ walk[w].at = "off" => walk[w].offset = 0
      /\ \A x \in walk[w].start \ walk[w].seen : Rank(x) >= walk[w].offset
      /\ ~walk[w].shifted => \A x \in walk[w].seen : Rank(x) < walk[w].offset
      /\ walk[w].twice => walk[w].shifted
      /\ walk[w].shifted => listing = "products"
  BY DEF WalkInv
<1>10. \A x \in rows : Rank(x) \in Nat
  BY <1>1, BelowFacts DEF Rank
<1>11. next.start \subseteq rows /\ next.seen \subseteq rows
  BY <1>4, <1>6, <1>9
<1>12. \A x \in next.start \ next.seen : Rank(x) >= next.offset
  <2>1. SUFFICES ASSUME NEW x \in next.start \ next.seen PROVE Rank(x) >= next.offset
    OBVIOUS
  <2>2. x \in rows /\ x \notin walk[w].seen /\ x \notin page.items
    BY <1>6, <1>11, <2>1
  <2>3. Rank(x) >= walk[w].offset
    BY <1>2, <1>6, <1>9, <1>10, <2>1, <2>2
  <2>4. Rank(x) \notin walk[w].offset .. walk[w].offset + limit - 1
    BY <1>4, <2>2
  <2>. QED  BY <1>2, <1>3, <1>6, <1>10, <2>2, <2>3, <2>4
<1>13. next.at = "done" => next.start \subseteq next.seen
  BY <1>2, <1>3, <1>4, <1>6, <1>10, <1>11, <1>12
<1>14. ~next.shifted => \A x \in next.seen : Rank(x) < next.offset
  <2>1. SUFFICES ASSUME ~next.shifted, NEW x \in next.seen PROVE Rank(x) < next.offset
    OBVIOUS
  <2>2. CASE x \in walk[w].seen
    BY <1>2, <1>3, <1>6, <1>9, <1>10, <2>1, <2>2
  <2>3. CASE x \in page.items
    BY <1>2, <1>3, <1>4, <1>6, <1>10, <2>3
  <2>. QED  BY <1>6, <2>2, <2>3
<1>15. next.twice => next.shifted
  <2>1. SUFFICES ASSUME next.twice, ~next.shifted PROVE FALSE
    OBVIOUS
  <2>2. PICK x \in page.items : x \in walk[w].seen
    BY <1>6, <1>9, <2>1
  <2>3. Rank(x) < walk[w].offset /\ Rank(x) >= walk[w].offset
    BY <1>2, <1>3, <1>4, <1>6, <1>9, <1>10, <2>1, <2>2
  <2>. QED  BY <1>2, <1>4, <1>10, <2>2, <2>3
<1>16. \A x \in rows : Rank(x)' = Rank(x)
  BY <1>5 DEF Rank
<1>17. ASSUME NEW v \in Walkers
       PROVE  /\ walk'[v].start \subseteq rows /\ walk'[v].seen \subseteq rows
              /\ walk'[v].at = "off" => walk'[v].offset = 0
              /\ walk'[v].at = "done" => walk'[v].start \subseteq walk'[v].seen
              /\ \A x \in walk'[v].start \ walk'[v].seen : Rank(x) >= walk'[v].offset
              /\ ~walk'[v].shifted => \A x \in walk'[v].seen : Rank(x) < walk'[v].offset
              /\ walk'[v].twice => walk'[v].shifted
              /\ walk'[v].shifted => listing = "products"
  <2>1. CASE v = w
    BY <1>6, <1>8, <1>9, <1>11, <1>12, <1>13, <1>14, <1>15, <2>1
  <2>2. CASE v # w
    BY <1>8, <2>2 DEF WalkInv
  <2>. QED  BY <2>1, <2>2
<1>. QED  BY <1>5, <1>8, <1>17 DEF WalkInv, Rank

LEMMA WalkStep ==
  ASSUME TypeInv, IdInv, WalkInv, [Next]_vars
  PROVE  WalkInv' /\ walk' \in [Walkers -> Walk]
<1>1. RowsOK /\ seed \in Seed /\ insert \in [Inserts -> Insert] /\ walk \in [Walkers -> Walk]
  BY DEF TypeInv
<1>2. CASE UNCHANGED <<listing, rows, walk>>
  BY <1>1, <1>2 DEF WalkInv, Rank
<1>3. CASE Push
  <2>1. PICK new : new = {seq + 1}
    OBVIOUS
  <2>2. /\ rows' = rows \cup new /\ walk' = Shifted(new) /\ listing' = listing /\ listing = "orders"
    BY <1>3, <2>1 DEF Push
  <2>3. \A x \in rows : x \in Nat /\ x <= seq
    BY <1>1, <2>2 DEF IdInv, RowsOK
  <2>4. new \subseteq Nat /\ \A x \in new, y \in rows : ~(x < y)
    BY <1>1, <2>1, <2>3 DEF RowsOK
  <2>. IsFiniteSet(new)
    BY <2>1, FS_Singleton
  <2>. QED  BY <2>2, <2>4, WalkGrows
<1>4. ASSUME NEW i \in Inserts, CommitInsert(i)
      PROVE  WalkInv' /\ walk' \in [Walkers -> Walk]
  <2>1. PICK new : new = {insert[i].id}
    OBVIOUS
  <2>2. /\ rows' = rows \cup new /\ walk' = Shifted(new) /\ listing' = listing
        /\ insert[i].at = "entered"
    BY <1>4, <2>1 DEF CommitInsert
  <2>3. listing # "orders"
    BY <2>2 DEF IdInv
  <2>4. new \subseteq Nat
    BY <1>1, <2>1 DEF Insert
  <2>. IsFiniteSet(new)
    BY <2>1, FS_Singleton
  <2>. QED  BY <2>2, <2>3, <2>4, WalkGrows
<1>5. CASE SeedCommits
  <2>1. PICK new : new = seed.missing
    OBVIOUS
  <2>2. /\ rows' = rows \cup new /\ walk' = Shifted(new) /\ listing' = listing /\ seed.at = "set"
    BY <1>5, <2>1 DEF SeedCommits
  <2>3. listing # "orders"
    BY <2>2 DEF IdInv
  <2>4. new \subseteq Nat /\ IsFiniteSet(new)
    BY <1>1, <2>1, SeedRowsFacts DEF Seed
  <2>. QED  BY <2>2, <2>3, <2>4, WalkGrows
<1>6. ASSUME NEW i \in Inserts, NextVal(i) \/ Enter(i) \/ Duplicate(i) \/ AbortInsert(i)
      PROVE  WalkInv' /\ walk' \in [Walkers -> Walk]
  BY <1>2, <1>6 DEF NextVal, Enter, Duplicate, AbortInsert, walkVars
<1>7. CASE SeedLooks \/ SeedSaves \/ SeedSetsSequence \/ SeedFails
  BY <1>2, <1>7 DEF SeedLooks, SeedSaves, SeedSetsSequence, SeedFails, walkVars
<1>8. ASSUME NEW w \in Walkers, NEW limit \in Limits, GetPage(w, limit)
      PROVE  WalkInv' /\ walk' \in [Walkers -> Walk]
  BY <1>8, WalkPages
<1>9. ASSUME NEW e \in Editors, AddItem(e) \/ SumItems(e) \/ WriteTotal(e)
      PROVE  WalkInv' /\ walk' \in [Walkers -> Walk]
  BY <1>2, <1>9 DEF AddItem, SumItems, WriteTotal, walkVars
<1>10. CASE UNCHANGED vars
  BY <1>2, <1>10 DEF vars
<1>. QED  BY <1>3, <1>4, <1>5, <1>6, <1>7, <1>8, <1>9, <1>10 DEF Next

----------------------------------------------------------------------------
(* Types, and the theorems.                                                *)

LEMMA TypeStep ==
  ASSUME IInv, [Next]_vars
  PROVE  TypeInv'
<1>. TypeInv /\ IdInv /\ WalkInv
  BY DEF IInv
<1>1. /\ listing \in {"products", "orders"} /\ RowsOK /\ insert \in [Inserts -> Insert]
      /\ seed \in Seed /\ EditOK
  BY DEF TypeInv
<1>2. rows \subseteq Nat /\ IsFiniteSet(rows) /\ seq \in Nat
      /\ seed.missing \subseteq Nat /\ IsFiniteSet(seed.missing)
      /\ \A i \in Inserts : insert[i].id \in Nat
  BY <1>1, SeedRowsFacts DEF RowsOK, Seed, Insert
<1>3. walk' \in [Walkers -> Walk]
  BY WalkStep
<1>4. listing' = listing
  BY DEF Next, Push, NextVal, Enter, Duplicate, CommitInsert, AbortInsert, SeedLooks, SeedSaves,
         SeedSetsSequence, SeedCommits, SeedFails, GetPage, AddItem, SumItems, WriteTotal, vars
<1>5. ASSUME NEW x \in Nat PROVE rows \cup {x} \subseteq Nat /\ IsFiniteSet(rows \cup {x})
  BY <1>2, FS_AddElement
<1>6. RowsOK'
  <2>1. CASE UNCHANGED <<rows, seq>>
    BY <1>1, <2>1 DEF RowsOK
  <2>2. CASE Push
    <3>1. seq' = seq + 1 /\ rows' = rows \cup {seq + 1} /\ seq + 1 \in Nat
      BY <1>2, <2>2 DEF Push
    <3>. QED  BY <1>5, <3>1 DEF RowsOK
  <2>3. ASSUME NEW i \in Inserts, NextVal(i) \/ Enter(i) \/ Duplicate(i) \/ AbortInsert(i)
        PROVE  RowsOK'
    BY <1>2, <2>3 DEF NextVal, Enter, Duplicate, AbortInsert, RowsOK
  <2>4. ASSUME NEW i \in Inserts, CommitInsert(i)
        PROVE  RowsOK'
    BY <1>2, <1>5, <2>4 DEF CommitInsert, RowsOK
  <2>5. CASE SeedSetsSequence
    BY <1>2, <2>5, SequenceSet DEF SeedSetsSequence, RowsOK
  <2>6. CASE SeedCommits
    BY <1>2, <2>6, FS_Union DEF SeedCommits, insertVars, RowsOK
  <2>7. CASE SeedLooks \/ SeedSaves \/ SeedFails
    BY <2>1, <2>7 DEF SeedLooks, SeedSaves, SeedFails, insertVars
  <2>8. ASSUME NEW w \in Walkers, NEW limit \in Limits, GetPage(w, limit)
        PROVE  RowsOK'
    BY <2>1, <2>8 DEF GetPage, insertVars
  <2>9. ASSUME NEW e \in Editors, AddItem(e) \/ SumItems(e) \/ WriteTotal(e)
        PROVE  RowsOK'
    BY <2>1, <2>9 DEF AddItem, SumItems, WriteTotal, insertVars
  <2>. QED  BY <2>1, <2>2, <2>3, <2>4, <2>5, <2>6, <2>7, <2>8, <2>9 DEF Next, vars
<1>7. insert' \in [Inserts -> Insert]
  <2>1. ASSUME NEW i \in Inserts, insert' = [insert EXCEPT ![i] = NoInsert]
        PROVE  insert' \in [Inserts -> Insert]
    BY <1>1, <2>1 DEF NoInsert, Insert
  <2>2. ASSUME NEW i \in Inserts, NextVal(i)
        PROVE  insert' \in [Inserts -> Insert]
    <3>1. [at |-> "checks", id |-> seq + 1] \in Insert
      BY <1>2 DEF Insert
    <3>. QED  BY <1>1, <2>2, <3>1 DEF NextVal
  <2>3. ASSUME NEW i \in Inserts, Enter(i)
        PROVE  insert' \in [Inserts -> Insert]
    BY <1>1, <2>3 DEF Enter, Insert
  <2>. QED  BY <1>1, <2>1, <2>2, <2>3
            DEF Next, Push, NextVal, Enter, Duplicate, CommitInsert, AbortInsert, SeedLooks,
                SeedSaves, SeedSetsSequence, SeedCommits, SeedFails, GetPage, AddItem, SumItems,
                WriteTotal, vars, insertVars
<1>8. seed' \in Seed
  <2>1. CASE SeedLooks
    <3>1. (total # Sum({SeedItem})) \in BOOLEAN /\ (SeedRows \ rows) \in SUBSET SeedRows
      OBVIOUS
    <3>. QED  BY <2>1, <3>1 DEF SeedLooks, Seed
  <2>2. CASE SeedSaves \/ SeedSetsSequence
    BY <1>1, <2>2 DEF SeedSaves, SeedSetsSequence, Seed
  <2>3. CASE SeedCommits \/ SeedFails
    <3>1. NoSeed \in Seed
      BY DEF NoSeed, Seed
    <3>. QED  BY <2>3, <3>1 DEF SeedCommits, SeedFails
  <2>. QED  BY <1>1, <2>1, <2>2, <2>3
            DEF Next, Push, NextVal, Enter, Duplicate, CommitInsert, AbortInsert, GetPage,
                AddItem, SumItems, WriteTotal, vars
<1>9. EditOK'
  <2>1. ASSUME NEW e \in Editors, NEW x, edit' = [edit EXCEPT ![e] = x],
               x = [at |-> x.at, sum |-> x.sum, missed |-> x.missed]
        PROVE  EditOK'
    BY <1>1, <2>1 DEF EditOK
  <2>2. ASSUME NEW e \in Editors, AddItem(e)
        PROVE  EditOK'
    <3>1. edit' = [f \in Editors |-> IF f = e THEN [NoEdit EXCEPT !.at = "added"]
                                    ELSE [edit[f] EXCEPT !.missed = (edit[f].at = "summed")]]
      BY <2>2 DEF AddItem
    <3>2. edit' = [f \in Editors |-> edit'[f]]
      BY <3>1
    <3>3. ASSUME NEW f \in Editors
          PROVE  edit'[f] = [at |-> edit'[f].at, sum |-> edit'[f].sum, missed |-> edit'[f].missed]
      <4>1. CASE f = e
        <5>1. edit'[f] = [at |-> "added", sum |-> 0, missed |-> FALSE]
          BY <3>1, <4>1 DEF NoEdit
        <5>. QED  BY <5>1
      <4>2. CASE f # e
        <5>1. edit'[f] = [edit[f] EXCEPT !.missed = (edit[f].at = "summed")]
          BY <3>1, <4>2
        <5>2. edit'[f] = [at |-> edit[f].at, sum |-> edit[f].sum, missed |-> (edit[f].at = "summed")]
          BY <1>1, <5>1 DEF EditOK
        <5>. QED  BY <5>2
      <4>. QED  BY <4>1, <4>2
    <3>. QED  BY <3>2, <3>3 DEF EditOK
  <2>3. ASSUME NEW e \in Editors, SumItems(e)
        PROVE  EditOK'
    <3>1. PICK x : x = [at |-> "summed", sum |-> SumOfItems(items), missed |-> FALSE]
      OBVIOUS
    <3>2. edit' = [edit EXCEPT ![e] = x]
      BY <2>3, <3>1 DEF SumItems
    <3>3. x = [at |-> x.at, sum |-> x.sum, missed |-> x.missed]
      BY <3>1
    <3>. QED  BY <2>1, <3>2, <3>3
  <2>4. ASSUME NEW e \in Editors, WriteTotal(e)
        PROVE  EditOK'
    <3>1. edit' = [edit EXCEPT ![e] = NoEdit]
      BY <2>4 DEF WriteTotal
    <3>2. NoEdit = [at |-> NoEdit.at, sum |-> NoEdit.sum, missed |-> NoEdit.missed]
      BY DEF NoEdit
    <3>. QED  BY <2>1, <3>1, <3>2
  <2>5. CASE edit' = edit
    BY <1>1, <2>5 DEF EditOK
  <2>. QED  BY <2>2, <2>3, <2>4, <2>5
            DEF Next, Push, NextVal, Enter, Duplicate, CommitInsert, AbortInsert, SeedLooks,
                SeedSaves, SeedSetsSequence, SeedCommits, SeedFails, GetPage, vars, totalVars
<1>. QED  BY <1>1, <1>3, <1>4, <1>6, <1>7, <1>8, <1>9 DEF TypeInv

LEMMA InitIInv ==
  ASSUME Init
  PROVE  IInv
<1>1. RowsOK
  <2>1. CASE rows = {} /\ seq = 0
    BY <2>1, FS_EmptySet DEF RowsOK
  <2>2. CASE rows = SeedRows /\ seq = SeedIds
    BY <2>2, SeedRowsFacts, CatalogueAssumption DEF RowsOK
  <2>. QED  BY <2>1, <2>2 DEF Init
<1>2. insert \in [Inserts -> Insert]
  BY DEF Init, NoInsert, Insert
<1>3. seed \in Seed /\ listing \in {"products", "orders"}
  BY DEF Init, NoSeed, Seed
<1>4. walk \in [Walkers -> Walk]
  BY DEF Init, NoWalk, Walk
<1>5. EditOK /\ \A e \in Editors : edit[e].at = "off"
  BY DEF Init, NoEdit, EditOK
<1>6. TotalInv
  BY <1>5 DEF Init, TotalInv, TotalIsSum
<1>7. IdInv
  <2>1. \A i \in Inserts : insert[i].at = "off"
    BY DEF Init, NoInsert
  <2>2. \A x \in rows : x <= seq
    <3>1. \A x \in SeedRows : x <= SeedIds
      BY CatalogueAssumption DEF SeedRows
    <3>. QED  BY <3>1 DEF Init
  <2>. QED  BY <2>1, <2>2 DEF Init, NoSeed, IdInv, IdIsNew
<1>8. WalkInv
  <2>1. \A w \in Walkers : walk[w].at = "off" /\ walk[w].offset = 0 /\ walk[w].start = {}
                           /\ walk[w].seen = {} /\ walk[w].twice = FALSE /\ walk[w].shifted = FALSE
    BY DEF Init, NoWalk
  <2>. QED  BY <2>1 DEF WalkInv
<1>. QED  BY <1>1, <1>2, <1>3, <1>4, <1>5, <1>6, <1>7, <1>8 DEF TypeInv, IInv

LEMMA NextIInv ==
  ASSUME IInv, [Next]_vars
  PROVE  IInv'
<1>1. TypeInv /\ TotalInv /\ IdInv /\ WalkInv
  BY DEF IInv
<1>. QED  BY <1>1, TypeStep, TotalStep, IdStep, WalkStep DEF IInv

LEMMA Invariance == Spec => []IInv
<1>. QED  BY InitIInv, NextIInv, PTL DEF Spec

(* Whatever limits a client asks for, and however many clients insert and  *)
(* seed meanwhile, following next_cursor to its end gives every row that   *)
(* was there when it began, and gives a row of GET /products twice only    *)
(* after a row with a smaller id has been committed behind it.             *)
THEOREM PagesAreComplete == Spec => []WalkIsComplete
<1>1. IInv => WalkIsComplete
  BY DEF IInv, WalkInv, WalkIsComplete
<1>. QED  BY <1>1, Invariance, PTL

(* However many items are added, by however many clients, the total is the *)
(* sum of the items once the recalculations are done, unless the last      *)
(* write was of a recalculation during which an item came in, or of the    *)
(* seed; the next one that nobody overtakes puts it right.                 *)
THEOREM TotalMatchesItems == Spec => []TotalIsSum
<1>1. IInv => TotalIsSum
  BY DEF IInv, TotalInv
<1>. QED  BY <1>1, Invariance, PTL

(* No insert meets its own id in the table unless an insert had drawn that *)
(* id when a seed put it in, or set the sequence back under it.            *)
THEOREM IdsAreFresh == Spec => DuplicatesNeedSeed
<1>1. IInv => \A i \in Inserts : insert[i].at = "checks" /\ insert[i].id \in rows
                                   => insert[i].id \in raced
  BY DEF IInv, IdInv, IdIsNew
<1>2. IInv /\ [Next]_vars =>
        [\A i \in Inserts : insert[i].at = "checks" /\ insert[i].id \in rows
                              => insert[i].id \in raced]_vars
  BY <1>1
<1>. QED  BY <1>2, Invariance, PTL DEF Spec, DuplicatesNeedSeed
=============================================================================

------------------------- MODULE OperationsProofs -------------------------
(***************************************************************************)
(* What the operator's scripts promise for every number of rotations,      *)
(* clients of the pool, backups kept and drills.                           *)
(***************************************************************************)
EXTENDS Operations, SequenceTheorems, TLAPS

Client == [ at : {"none", "login", "proof", "wrong", "busy", "idle"}, pass : Nat,
            alive : BOOLEAN, late : BOOLEAN ]
Script == [at : {"off", "alter", "write", "move", "kill"}, new : Nat]
Backup == [at : {"off", "sum", "dump", "copy", "note", "clean"}, pass : Nat, sum : Nat, raced : BOOLEAN]
Drill == [ at : {"off", "picked", "expects"}, pass : Nat, file : Nat, expected : Nat \cup {None},
           excuse : BOOLEAN, result : {"none", "MATCH", "MISMATCH", "failed"} ]
File == [name : Nat, whole : BOOLEAN, rows : Nat, sidecar : Nat \cup {None}, raced : BOOLEAN]

RotationTypes ==
  /\ left \in Budget
  /\ route \in {"direct", "pooler"}
  /\ role \in Nat /\ secret \in Nat /\ tmp \in Nat \cup {None} /\ userlist \in Nat
  /\ script \in [Scripts -> Script]
  /\ broken \in BOOLEAN /\ done \in Nat

PoolTypes == client \in [Clients -> Client]

FileTypes ==
  /\ orders \in Nat
  /\ files \in Seq(File)
  /\ backup \in Backup
  /\ drill \in Drill
  /\ given \in Nat \cup {None}

(* The secret file has the role's password whenever no rotation is between *)
(* ALTER ROLE and mv, or broke off or was overlapped there.                *)
SecretInv ==
  ~broken =>
    /\ \A s, t \in Scripts : InWindow(s) /\ InWindow(t) => s = t
    /\ \A s \in Scripts : InWindow(s) => script[s].new = role
    /\ \A s \in Scripts : script[s].at = "move" => tmp = role
    /\ (\A s \in Scripts : ~InWindow(s)) => secret = role

(* No password is newer than the role's.                                   *)
AgeInv ==
  /\ done <= role /\ userlist <= role
  /\ \A s \in Scripts : script[s].new <= role

(* Sessions, and logins that will become one.                              *)
SessionInv ==
  \A c \in Clients :
    route = "direct" =>
      /\ client[c].at \in {"login", "proof"} /\ client[c].pass < done => client[c].late
      /\ client[c].at \in {"idle", "busy"} /\ client[c].alive /\ client[c].pass < done
           => client[c].late

Everybody == Clients \cup {"backup", "drill"}

(* Who has not seen an unsettled moment since it read the secret file has  *)
(* the role's password.                                                    *)
StrainInv ==
  /\ Unsettled => strained = Everybody
  /\ given = None /\ backup.at # "off" /\ "backup" \notin strained => backup.pass = role
  /\ given = None /\ drill.at = "picked" /\ "drill" \notin strained => drill.pass = role
  /\ \A c \in Clients :
       /\ client[c].at \in {"login", "proof"} /\ c \notin strained => client[c].pass = role
       /\ client[c].at = "wrong" => c \in strained

(* Every file has a name of its own, smaller than those before it; its     *)
(* sidecar is its own.                                                     *)
NameInv ==
  /\ \A i, j \in DOMAIN files : files[i].name = files[j].name => i = j
  /\ \A i \in DOMAIN files :
       /\ files[i].name >= left.backups
       /\ backup.at \in {"sum", "dump"} => files[i].name > left.backups
       /\ files[i].sidecar # None => files[i].raced \/ files[i].sidecar = files[i].rows

(* The newest file is the one that backup.sh is at.                        *)
BackupInv ==
  /\ backup.at = "dump" => backup.raced \/ backup.sum = orders
  /\ backup.at \in {"copy", "note", "clean"} => files # <<>>
  /\ backup.at \in {"copy", "note"} => Last(files).raced \/ Last(files).rows = backup.sum
  /\ backup.at \in {"note", "clean"} => Last(files).whole /\ Last(files).name = good

DrillInv ==
  /\ drill.at # "off" =>
       /\ drill.file >= left.backups
       /\ backup.at \in {"sum", "dump"} => drill.file > left.backups
       /\ drill.result = "none"
  /\ drill.at = "expects" =>
       drill.excuse \/ \A i \in Picked : drill.expected = files[i].rows
  /\ MismatchNeedsWriters

TypeInv == RotationTypes /\ PoolTypes /\ FileTypes
RotationInv == SecretInv /\ AgeInv /\ SessionInv
FileInv == NameInv /\ BackupInv /\ DrillInv /\ NewestGoodStays
IInv == TypeInv /\ RotationInv /\ StrainInv /\ FileInv
----------------------------------------------------------------------------
(* Steps, by what they touch.                                              *)

LEMMA SpendFacts ==
  ASSUME left \in Budget,
         NEW k \in {"rotations", "deaths", "restarts", "commits", "backups", "drills"}, Spend(k)
  PROVE  /\ left' \in Budget /\ left' # left
         /\ left'.backups \in Nat /\ left'.backups <= left.backups
         /\ k = "backups" => left'.backups < left.backups
<1>1. left[k] \in Nat /\ left[k] > 0 /\ left' = [left EXCEPT ![k] = left[k] - 1]
  BY DEF Spend, Budget
<1>2. left'[k] = left[k] - 1
  BY <1>1 DEF Budget
<1>. QED  BY <1>1, <1>2 DEF Budget

LEMMA WhoSpends ==
  ASSUME left \in Budget, [Next]_vars
  PROVE  /\ left' \in Budget
         /\ left' = left \/ \E k \in {"rotations", "deaths", "restarts", "commits", "backups", "drills"} : Spend(k)
<1>1. left' = left \/ \E k \in {"rotations", "deaths", "restarts", "commits", "backups", "drills"} : Spend(k)
  <2>1. CASE OperatorStep
    BY <2>1 DEF OperatorStep, CommitOrder, StartBackup, TakeChecksum, BeginDump, FinishDump,
                WriteSidecar, CleanUp, BackupRefused, BackupDies, PickDump, ReadSidecar,
                ReadLiveChecksum, Restore, DrillFails, DrillDies
  <2>2. ASSUME NEW s \in Scripts, TerminateAll(s) \/ ScriptStep(s) PROVE left' = left \/ Spend("rotations") \/ Spend("deaths")
    BY <2>2 DEF TerminateAll, Terminate, ScriptStep, Start, AlterRole, WriteTmp, MoveSecret,
                ScriptRefused, ScriptDies
  <2>3. CASE UpdateUserlist
    BY <2>3 DEF UpdateUserlist
  <2>4. CASE PoolStep
    BY <2>4 DEF PoolStep, Query, TimesOut, TakeIdle, Connect, ReadSecret, Login, LoginRefused,
                Answer, QueryLost, IdleError, Checkout, Restart
  <2>. QED  BY <2>1, <2>2, <2>3, <2>4 DEF Next, Step, vars
<1>. QED  BY <1>1, SpendFacts

RotationStep ==
  (\E s \in Scripts : ScriptStep(s) \/ Terminate(s)) \/ UpdateUserlist

LEMMA WhoRotates ==
  ASSUME [Next]_vars
  PROVE  UNCHANGED rotationVars \/ RotationStep
<1>1. CASE OperatorStep
  BY <1>1 DEF OperatorStep, CommitOrder, StartBackup, TakeChecksum, BeginDump, FinishDump,
              WriteSidecar, CleanUp, BackupRefused, BackupDies, PickDump, ReadSidecar,
              ReadLiveChecksum, Restore, DrillFails, DrillDies
<1>2. CASE PoolStep
  BY <1>2 DEF PoolStep, Query, TimesOut, TakeIdle, Connect, ReadSecret, Login, LoginRefused,
              Answer, QueryLost, IdleError, Checkout, Restart
<1>3. ASSUME NEW s \in Scripts, TerminateAll(s) PROVE RotationStep
  BY <1>3 DEF TerminateAll, RotationStep
<1>4. ASSUME NEW s \in Scripts, ScriptStep(s) PROVE RotationStep
  BY <1>4 DEF RotationStep
<1>. QED  BY <1>1, <1>2, <1>3, <1>4 DEF Next, Step, vars, RotationStep

----------------------------------------------------------------------------
(* The rotation.                                                           *)

(* One script moves on.                                                    *)
LEMMA ScriptSet ==
  ASSUME script \in [Scripts -> Script], NEW s \in Scripts, NEW a \in {"off", "alter", "write", "move", "kill"},
         script' = [script EXCEPT ![s].at = a]
  PROVE  /\ script' \in [Scripts -> Script]
         /\ script'[s].at = a /\ script'[s].new = script[s].new
         /\ \A t \in Scripts \ {s} : script'[t] = script[t]
  BY DEF Script

LEMMA ScriptDone ==
  ASSUME script \in [Scripts -> Script], NEW s \in Scripts, script' = [script EXCEPT ![s] = Done]
  PROVE  /\ script' \in [Scripts -> Script]
         /\ script'[s].at = "off" /\ script'[s].new = 0
         /\ \A t \in Scripts \ {s} : script'[t] = script[t]
  BY DEF Script, Done

LEMMA RotationPreserved ==
  ASSUME RotationTypes, SecretInv, AgeInv, [Next]_vars
  PROVE  RotationTypes' /\ SecretInv' /\ AgeInv'
<1>. DEFINE Goal == RotationTypes' /\ SecretInv' /\ AgeInv'
<1>0. left' \in Budget
  BY WhoSpends DEF RotationTypes
<1>1. /\ route \in {"direct", "pooler"}
      /\ role \in Nat /\ secret \in Nat /\ tmp \in Nat \cup {None} /\ userlist \in Nat
      /\ script \in [Scripts -> Script] /\ broken \in BOOLEAN /\ done \in Nat
      /\ \A s \in Scripts : script[s].new \in Nat
  BY DEF RotationTypes, Script
<1>2. CASE UNCHANGED rotationVars
  BY <1>0, <1>2 DEF rotationVars, RotationTypes, SecretInv, AgeInv, InWindow
<1>3. ASSUME NEW s \in Scripts, Start(s) PROVE Goal
  <2>1. /\ script[s].at = "off" /\ script' = [script EXCEPT ![s].at = "alter"]
        /\ UNCHANGED <<route, role, secret, tmp, userlist, broken, done>>
    BY <1>3 DEF Start
  <2>2. /\ script' \in [Scripts -> Script] /\ script'[s].at = "alter" /\ script'[s].new = script[s].new
        /\ \A t \in Scripts \ {s} : script'[t] = script[t]
    BY <1>1, <2>1, ScriptSet
  <2>. QED  BY <1>0, <1>1, <2>1, <2>2 DEF RotationTypes, SecretInv, AgeInv, InWindow
<1>4. ASSUME NEW s \in Scripts, AlterRole(s) PROVE Goal
  <2>1. /\ script[s].at = "alter" /\ role' = role + 1
        /\ script' = [script EXCEPT ![s] = [at |-> "write", new |-> role + 1]]
        /\ broken' = \E t \in Scripts \ {s} : InWindow(t)
        /\ UNCHANGED <<route, secret, tmp, userlist, done>>
    BY <1>4 DEF AlterRole
  <2>2. /\ script' \in [Scripts -> Script] /\ script'[s].at = "write" /\ script'[s].new = role + 1
        /\ \A t \in Scripts \ {s} : script'[t] = script[t]
    <3>1. [at |-> "write", new |-> role + 1] \in Script
      BY <1>1 DEF Script
    <3>. QED  BY <1>1, <2>1, <3>1
  <2>3. RotationTypes'
    BY <1>0, <1>1, <2>1, <2>2 DEF RotationTypes
  <2>4. AgeInv'
    BY <1>1, <2>1, <2>2 DEF AgeInv
  <2>5. SecretInv'
    <3>1. CASE broken'
      BY <3>1 DEF SecretInv
    <3>2. CASE ~broken'
      <4>1. \A t \in Scripts \ {s} : ~InWindow(t)
        BY <2>1, <3>2
      <4>2. \A t \in Scripts : InWindow(t)' => t = s
        BY <2>2, <4>1 DEF InWindow
      <4>3. InWindow(s)'
        BY <2>2 DEF InWindow
      <4>4. \A t \in Scripts : script'[t].at = "move" => InWindow(t)' /\ t # s
        BY <2>2 DEF InWindow
      <4>. QED  BY <2>1, <2>2, <4>2, <4>3, <4>4 DEF SecretInv
    <3>. QED  BY <3>1, <3>2
  <2>. QED  BY <2>3, <2>4, <2>5
<1>5. ASSUME NEW s \in Scripts, WriteTmp(s) PROVE Goal
  <2>1. /\ script[s].at = "write" /\ tmp' = script[s].new /\ script' = [script EXCEPT ![s].at = "move"]
        /\ UNCHANGED <<route, role, secret, userlist, broken, done>>
    BY <1>5 DEF WriteTmp
  <2>2. /\ script' \in [Scripts -> Script] /\ script'[s].at = "move" /\ script'[s].new = script[s].new
        /\ \A t \in Scripts \ {s} : script'[t] = script[t]
    BY <1>1, <2>1, ScriptSet
  <2>3. RotationTypes' /\ AgeInv'
    BY <1>0, <1>1, <2>1, <2>2 DEF RotationTypes, AgeInv
  <2>4. \A t \in Scripts : InWindow(t)' <=> InWindow(t)
    BY <2>1, <2>2 DEF InWindow
  <2>5. InWindow(s)
    BY <2>1 DEF InWindow
  <2>6. SecretInv'
    BY <2>1, <2>2, <2>4, <2>5 DEF SecretInv
  <2>. QED  BY <2>3, <2>6
<1>6. ASSUME NEW s \in Scripts, MoveSecret(s) PROVE Goal
  <2>1. CASE tmp = None
    <3>1. script' = [script EXCEPT ![s] = Done] /\ broken' = TRUE
          /\ UNCHANGED <<route, role, secret, tmp, userlist, done>>
      BY <1>6, <2>1 DEF MoveSecret
    <3>2. /\ script' \in [Scripts -> Script] /\ script'[s].new = 0
          /\ \A t \in Scripts \ {s} : script'[t] = script[t]
      BY <1>1, <3>1, ScriptDone
    <3>. QED  BY <1>0, <1>1, <3>1, <3>2 DEF RotationTypes, SecretInv, AgeInv
  <2>2. CASE tmp # None
    <3>1. /\ script[s].at = "move" /\ script' = [script EXCEPT ![s].at = "kill"]
          /\ secret' = tmp /\ tmp' = None /\ UNCHANGED <<route, role, userlist, broken, done>>
      BY <1>6, <2>2 DEF MoveSecret
    <3>2. /\ script' \in [Scripts -> Script] /\ script'[s].at = "kill" /\ script'[s].new = script[s].new
          /\ \A t \in Scripts \ {s} : script'[t] = script[t]
      BY <1>1, <3>1, ScriptSet
    <3>3. RotationTypes' /\ AgeInv'
      BY <1>0, <1>1, <2>2, <3>1, <3>2 DEF RotationTypes, AgeInv
    <3>4. InWindow(s) /\ ~InWindow(s)' /\ \A t \in Scripts \ {s} : InWindow(t)' <=> InWindow(t)
      BY <3>1, <3>2 DEF InWindow
    <3>5. SecretInv'
      <4>1. CASE broken
        BY <3>1, <4>1 DEF SecretInv
      <4>2. CASE ~broken
        <5>1. \A t \in Scripts : ~InWindow(t)'
          BY <3>4, <4>2 DEF SecretInv
        <5>2. \A t \in Scripts : script'[t].at # "move"
          BY <5>1 DEF InWindow
        <5>3. secret' = role'
          BY <3>1, <4>2 DEF SecretInv
        <5>. QED  BY <5>1, <5>2, <5>3 DEF SecretInv
      <4>. QED  BY <4>1, <4>2
    <3>. QED  BY <3>3, <3>5
  <2>. QED  BY <2>1, <2>2
<1>7. ASSUME NEW s \in Scripts, ScriptRefused(s) \/ ScriptDies(s) \/ Terminate(s) PROVE Goal
  <2>1. /\ script' = [script EXCEPT ![s] = Done]
        /\ broken' = broken \/ broken' = (broken \/ InWindow(s))
        /\ ~broken' => ~broken /\ ~InWindow(s)
        /\ done' = done \/ done' = script[s].new
        /\ UNCHANGED <<route, role, secret, tmp, userlist>>
    BY <1>1, <1>7 DEF ScriptRefused, ScriptDies, Terminate, InWindow
  <2>2. /\ script' \in [Scripts -> Script] /\ script'[s].at = "off" /\ script'[s].new = 0
        /\ \A t \in Scripts \ {s} : script'[t] = script[t]
    BY <1>1, <2>1, ScriptDone
  <2>3. broken' \in BOOLEAN /\ done' \in Nat
    BY <1>1, <2>1 DEF InWindow
  <2>4. RotationTypes' /\ AgeInv'
    BY <1>0, <1>1, <2>1, <2>2, <2>3 DEF RotationTypes, AgeInv
  <2>5. SecretInv'
    <3>1. CASE broken'
      BY <3>1 DEF SecretInv
    <3>2. CASE ~broken'
      <4>1. ~broken /\ ~InWindow(s)
        BY <2>1, <3>2
      <4>2. ~InWindow(s)' /\ \A t \in Scripts \ {s} : InWindow(t)' <=> InWindow(t)
        BY <2>2 DEF InWindow
      <4>. QED  BY <2>1, <2>2, <4>1, <4>2 DEF SecretInv
    <3>. QED  BY <3>1, <3>2
  <2>. QED  BY <2>4, <2>5
<1>8. CASE UpdateUserlist
  BY <1>0, <1>1, <1>8 DEF UpdateUserlist, RotationTypes, SecretInv, AgeInv, InWindow
<1>. QED  BY <1>2, <1>3, <1>4, <1>5, <1>6, <1>7, <1>8, WhoRotates DEF RotationStep, ScriptStep
----------------------------------------------------------------------------
(* The pool.                                                               *)

(* What a step of the service does to a client of its pool.                *)
ClientMoves(c) ==
  \/ client'[c] = client[c]
  \/ client'[c].at = "none"
  \/ /\ client[c].at = "none" /\ client'[c].at = "login"
     /\ client'[c].pass = Verifier
  \/ /\ client[c].at = "login" /\ client'[c].at \in {"proof", "wrong"}
     /\ client'[c].at = "wrong" => secret # client[c].pass
     /\ client'[c].pass = client[c].pass /\ client'[c].late = client[c].late
  \/ /\ client[c].at = "proof" /\ client'[c].at = "busy"
     /\ client'[c].pass = client[c].pass /\ client'[c].late = client[c].late
  \/ /\ client[c].at \in {"idle", "busy"} /\ client'[c].at \in {"idle", "busy"}
     /\ client'[c].pass = client[c].pass /\ client'[c].late = client[c].late
     /\ client'[c].alive = client[c].alive

LEMMA ClientSet ==
  ASSUME PoolTypes, NEW d \in Clients,
         NEW a \in {"none", "login", "proof", "wrong", "busy", "idle"},
         client' = [client EXCEPT ![d].at = a]
  PROVE  /\ client' \in [Clients -> Client]
         /\ client'[d].at = a /\ client'[d].pass = client[d].pass
         /\ client'[d].alive = client[d].alive /\ client'[d].late = client[d].late
         /\ \A c \in Clients \ {d} : client'[c] = client[c]
  BY DEF PoolTypes, Client

LEMMA ClientReplaced ==
  ASSUME PoolTypes, NEW d \in Clients, NEW k \in Client, client' = [client EXCEPT ![d] = k]
  PROVE  /\ client' \in [Clients -> Client] /\ client'[d] = k
         /\ \A c \in Clients \ {d} : client'[c] = client[c]
  BY DEF PoolTypes

LEMMA ClosedIsClient == Closed \in Client /\ Closed.at = "none"
  BY DEF Closed, Client

LEMMA PoolMoves ==
  ASSUME PoolTypes, RotationTypes, PoolStep
  PROVE  client' \in [Clients -> Client] /\ \A c \in Clients : ClientMoves(c)
<1>. DEFINE Goal == client' \in [Clients -> Client] /\ \A c \in Clients : ClientMoves(c)
<1>1. CASE UNCHANGED client
  BY <1>1 DEF PoolTypes, ClientMoves
<1>2. ASSUME NEW d \in Clients, client' = [client EXCEPT ![d] = Closed] PROVE Goal
  BY <1>2, ClientReplaced, ClosedIsClient DEF ClientMoves
<1>3. ASSUME NEW r \in Requests, NEW d \in Clients, TakeIdle(r, d) \/ Answer(r, d) PROVE Goal
  <2>1. PICK a \in {"busy", "idle"} : client' = [client EXCEPT ![d].at = a]
    BY <1>3 DEF TakeIdle, Answer
  <2>2. client[d].at \in {"idle", "busy"}
    BY <1>3 DEF TakeIdle, Answer
  <2>3. /\ client' \in [Clients -> Client]
        /\ client'[d].at = a /\ client'[d].pass = client[d].pass
        /\ client'[d].alive = client[d].alive /\ client'[d].late = client[d].late
        /\ \A c \in Clients \ {d} : client'[c] = client[c]
    BY <2>1, ClientSet
  <2>. QED  BY <2>2, <2>3 DEF ClientMoves
<1>4. ASSUME NEW r \in Requests, NEW d \in Clients, Connect(r, d) PROVE Goal
  <2>1. PICK k : k = [at |-> "login", pass |-> Verifier, alive |-> FALSE, late |-> FALSE]
    OBVIOUS
  <2>2. client[d].at = "none" /\ client' = [client EXCEPT ![d] = k]
    BY <1>4, <2>1 DEF Connect
  <2>3. k \in Client /\ k.at = "login" /\ k.pass = Verifier
    BY <2>1 DEF RotationTypes, Verifier, Client
  <2>. QED  BY <2>2, <2>3, ClientReplaced DEF ClientMoves
<1>5. ASSUME NEW r \in Requests, NEW d \in Clients, ReadSecret(r, d) PROVE Goal
  <2>1. PICK a \in {"proof", "wrong"} : /\ client' = [client EXCEPT ![d].at = a]
                                        /\ a = "wrong" => secret # client[d].pass
    BY <1>5 DEF ReadSecret, ReadPassword
  <2>2. client[d].at = "login"
    BY <1>5 DEF ReadSecret
  <2>3. /\ client' \in [Clients -> Client]
        /\ client'[d].at = a /\ client'[d].pass = client[d].pass /\ client'[d].late = client[d].late
        /\ \A c \in Clients \ {d} : client'[c] = client[c]
    BY <2>1, ClientSet
  <2>. QED  BY <2>1, <2>2, <2>3 DEF ClientMoves
<1>6. ASSUME NEW r \in Requests, NEW d \in Clients, Login(r, d) PROVE Goal
  <2>1. PICK k : k = [at |-> "busy", pass |-> client[d].pass, alive |-> TRUE, late |-> client[d].late]
    OBVIOUS
  <2>2. client[d].at = "proof" /\ client' = [client EXCEPT ![d] = k]
    BY <1>6, <2>1 DEF Login
  <2>3. k \in Client /\ k.at = "busy" /\ k.pass = client[d].pass /\ k.late = client[d].late
    BY <2>1 DEF PoolTypes, Client
  <2>. QED  BY <2>2, <2>3, ClientReplaced DEF ClientMoves
<1>7. CASE Restart
  <2>1. client' = [c \in Clients |-> Closed]
    BY <1>7 DEF Restart
  <2>. QED  BY <2>1, ClosedIsClient DEF ClientMoves
<1>8. CASE \E r \in Requests : Query(r) \/ TimesOut(r)
  BY <1>1, <1>8 DEF Query, TimesOut
<1>9. ASSUME NEW r \in Requests, NEW d \in Clients, LoginRefused(r, d) \/ QueryLost(r, d) PROVE Goal
  BY <1>2, <1>9 DEF LoginRefused, QueryLost
<1>10. ASSUME NEW d \in Clients, IdleError(d) PROVE Goal
  BY <1>2, <1>10 DEF IdleError
<1>11. CASE Checkout
  BY <1>1, <1>11 DEF Checkout
<1>. QED  BY <1>3, <1>4, <1>5, <1>6, <1>7, <1>8, <1>9, <1>10, <1>11 DEF PoolStep

LEMMA TerminateMoves ==
  ASSUME PoolTypes, RotationTypes, NEW s \in Scripts, Terminate(s)
  PROVE  /\ client' \in [Clients -> Client]
         /\ \A c \in Clients :
              /\ client'[c].at = client[c].at /\ client'[c].pass = client[c].pass
              /\ client[c].at \in {"login", "proof", "wrong"} => client'[c].late
              /\ client[c].at \in {"idle", "busy"} /\ route = "direct" => ~client'[c].alive
<1>1. client' = [c \in Clients |-> Terminated(c)]
  BY DEF Terminate, SessionsTerminated
<1>2. ASSUME NEW c \in Clients
      PROVE  /\ Terminated(c) \in Client
             /\ Terminated(c).at = client[c].at /\ Terminated(c).pass = client[c].pass
             /\ client[c].at \in {"login", "proof", "wrong"} => Terminated(c).late
             /\ client[c].at \in {"idle", "busy"} /\ route = "direct" => ~Terminated(c).alive
  <2>. DEFINE alive == client[c].alive /\ ~(client[c].at = "busy" \/ (client[c].at = "idle" /\ route = "direct"))
              late == client[c].at \in {"login", "proof", "wrong"}
  <2>1. Terminated(c) = [at |-> client[c].at, pass |-> client[c].pass, alive |-> alive, late |-> late]
    BY DEF Terminated
  <2>2. /\ client[c].at \in {"none", "login", "proof", "wrong", "busy", "idle"}
        /\ client[c].pass \in Nat /\ alive \in BOOLEAN /\ late \in BOOLEAN
    BY DEF PoolTypes, Client
  <2>3. client[c].at \in {"idle", "busy"} /\ route = "direct" => ~alive
    OBVIOUS
  <2>4. client[c].at \in {"login", "proof", "wrong"} => late
    OBVIOUS
  <2>. HIDE DEF alive, late
  <2>5. Terminated(c) \in Client
    BY <2>1, <2>2 DEF Client
  <2>6. /\ Terminated(c).at = client[c].at /\ Terminated(c).pass = client[c].pass
        /\ Terminated(c).alive = alive /\ Terminated(c).late = late
    BY <2>1
  <2>. QED  BY <2>3, <2>4, <2>5, <2>6
<1>. QED  BY <1>1, <1>2

LEMMA WhoPools ==
  ASSUME [Next]_vars
  PROVE  UNCHANGED client \/ PoolStep \/ \E s \in Scripts : Terminate(s)
<1>1. CASE OperatorStep
  BY <1>1 DEF OperatorStep, CommitOrder, StartBackup, TakeChecksum, BeginDump, FinishDump,
              WriteSidecar, CleanUp, BackupRefused, BackupDies, PickDump, ReadSidecar,
              ReadLiveChecksum, Restore, DrillFails, DrillDies, poolVars
<1>2. ASSUME NEW s \in Scripts, ScriptStep(s) PROVE UNCHANGED client
  BY <1>2 DEF ScriptStep, Start, AlterRole, WriteTmp, MoveSecret, ScriptRefused, ScriptDies, poolVars
<1>3. CASE UpdateUserlist
  BY <1>3 DEF UpdateUserlist, poolVars
<1>. QED  BY <1>1, <1>2, <1>3 DEF Next, Step, vars, poolVars, TerminateAll

LEMMA PoolRotates ==
  ASSUME PoolStep
  PROVE  UNCHANGED rotationVars
  BY DEF PoolStep, Query, TimesOut, TakeIdle, Connect, ReadSecret, Login, LoginRefused,
         Answer, QueryLost, IdleError, Checkout, Restart

LEMMA SessionStep ==
  ASSUME PoolTypes, RotationTypes, AgeInv, SessionInv, [Next]_vars
  PROVE  PoolTypes' /\ SessionInv'
<1>1. role \in Nat /\ userlist \in Nat /\ done \in Nat /\ done <= role
      /\ \A c \in Clients : client[c].pass \in Nat /\ client[c].late \in BOOLEAN
  BY DEF RotationTypes, PoolTypes, AgeInv, Client
<1>2. CASE \E s \in Scripts : Terminate(s)
  <2>1. PICK s \in Scripts : Terminate(s)
    BY <1>2
  <2>2. route' = route
    BY <2>1 DEF Terminate
  <2>. QED  BY <2>1, <2>2, TerminateMoves DEF PoolTypes, SessionInv
<1>3. CASE PoolStep
  <2>1. route' = route /\ done' = done
    BY <1>3, PoolRotates DEF rotationVars
  <2>2. client' \in [Clients -> Client] /\ \A c \in Clients : ClientMoves(c)
    BY <1>3, PoolMoves
  <2>3. ASSUME NEW c \in Clients, route = "direct"
        PROVE  /\ client'[c].at \in {"login", "proof"} /\ client'[c].pass < done => client'[c].late
               /\ client'[c].at \in {"idle", "busy"} /\ client'[c].alive /\ client'[c].pass < done
                    => client'[c].late
    <3>1. /\ client[c].at \in {"login", "proof"} /\ client[c].pass < done => client[c].late
          /\ client[c].at \in {"idle", "busy"} /\ client[c].alive /\ client[c].pass < done
               => client[c].late
      BY <2>3 DEF SessionInv
    <3>2. ~(Verifier < done)
      BY <1>1, <2>3 DEF Verifier
    <3>. QED  BY <2>2, <3>1, <3>2 DEF ClientMoves
  <2>. QED  BY <2>1, <2>2, <2>3 DEF PoolTypes, SessionInv
<1>4. CASE UNCHANGED client /\ ~\E s \in Scripts : Terminate(s)
  <2>1. route' = route /\ done' = done
    BY <1>4, WhoRotates
       DEF RotationStep, ScriptStep, Start, AlterRole, WriteTmp, MoveSecret, ScriptRefused,
           ScriptDies, UpdateUserlist, rotationVars
  <2>. QED  BY <1>4, <2>1 DEF PoolTypes, SessionInv
<1>. QED  BY <1>2, <1>3, <1>4, WhoPools
----------------------------------------------------------------------------
(* Who reads a password, and who is refused.                               *)

LEMMA WhoOperates ==
  ASSUME [Next]_vars
  PROVE  (OperatorStep \/ \E s \in Scripts : TerminateAll(s)) \/ UNCHANGED operationsVars
  BY DEF Next, Step, vars

LEMMA GivenStays ==
  ASSUME [Next]_vars
  PROVE  given' = given
<1>1. CASE OperatorStep
  BY <1>1 DEF OperatorStep, CommitOrder, StartBackup, TakeChecksum, BeginDump, FinishDump,
              WriteSidecar, CleanUp, BackupRefused, BackupDies, PickDump, ReadSidecar,
              ReadLiveChecksum, Restore, DrillFails, DrillDies
<1>2. ASSUME NEW s \in Scripts, TerminateAll(s) PROVE given' = given
  BY <1>2 DEF TerminateAll
<1>. QED  BY <1>1, <1>2, WhoOperates DEF operationsVars

LEMMA BackupSet ==
  ASSUME NEW b \in Backup, NEW a \in {"off", "sum", "dump", "copy", "note", "clean"}
  PROVE  \A n : n = [b EXCEPT !.at = a] =>
           n \in Backup /\ n.at = a /\ n.pass = b.pass /\ n.sum = b.sum /\ n.raced = b.raced
  BY DEF Backup

LEMMA BackupRaced ==
  ASSUME NEW b \in Backup, NEW e \in BOOLEAN
  PROVE  \A n : n = [b EXCEPT !.raced = @ \/ e] =>
           n \in Backup /\ n.at = b.at /\ n.pass = b.pass /\ n.sum = b.sum /\ n.raced = (b.raced \/ e)
<1>1. (b.raced \/ e) \in BOOLEAN
  OBVIOUS
<1>. QED  BY <1>1 DEF Backup

LEMMA NoBackupFacts == NoBackup \in Backup /\ NoBackup.at = "off"
  BY DEF NoBackup, Backup

LEMMA PasswordIsNat ==
  ASSUME RotationTypes, FileTypes
  PROVE  DbPassword \in Nat /\ (given = None => DbPassword = secret)
  BY DEF RotationTypes, FileTypes, DbPassword

LEMMA BackupMoves ==
  ASSUME RotationTypes, FileTypes, [Next]_vars
  PROVE  /\ backup' \in Backup
         /\ \/ backup' = backup
            \/ backup'.at = "off"
            \/ backup.at = "off" /\ backup'.at = "sum" /\ backup'.pass = DbPassword /\ UNCHANGED rotationVars
            \/ backup.at # "off" /\ backup'.pass = backup.pass
         /\ backup.at \in {"sum", "dump"} /\ backup'.at = "off" /\ left' = left => backup.pass # role
<1>. DEFINE Goal ==
         /\ backup' \in Backup
         /\ \/ backup' = backup
            \/ backup'.at = "off"
            \/ backup.at = "off" /\ backup'.at = "sum" /\ backup'.pass = DbPassword /\ UNCHANGED rotationVars
            \/ backup.at # "off" /\ backup'.pass = backup.pass
         /\ backup.at \in {"sum", "dump"} /\ backup'.at = "off" /\ left' = left => backup.pass # role
<1>1. left \in Budget /\ backup \in Backup /\ DbPassword \in Nat /\ orders \in Nat
  BY PasswordIsNat DEF RotationTypes, FileTypes
<1>2. CASE UNCHANGED backup
  BY <1>1, <1>2
<1>3. CASE CommitOrder
  <2>1. PICK e \in BOOLEAN : backup' = [backup EXCEPT !.raced = @ \/ e]
    <3>1. (backup.at = "dump") \in BOOLEAN
      OBVIOUS
    <3>. QED  BY <1>3, <3>1 DEF CommitOrder
  <2>. QED  BY <1>1, <2>1, BackupRaced
<1>4. CASE StartBackup
  <2>1. backup.at = "off" /\ UNCHANGED rotationVars
        /\ backup' = [at |-> "sum", pass |-> DbPassword, sum |-> 0, raced |-> FALSE]
    BY <1>4 DEF StartBackup
  <2>. QED  BY <1>1, <2>1 DEF Backup
<1>5. CASE TakeChecksum
  <2>1. backup.at = "sum"
        /\ backup' = [at |-> "dump", pass |-> backup.pass, sum |-> orders, raced |-> FALSE]
    BY <1>5 DEF TakeChecksum, ChecksumOfLiveDb
  <2>. QED  BY <1>1, <2>1 DEF Backup
<1>6. CASE BeginDump \/ FinishDump \/ WriteSidecar
  <2>1. backup.at \in {"dump", "copy", "note"}
        /\ \E a \in {"copy", "note", "clean"} : backup' = [backup EXCEPT !.at = a]
    BY <1>6 DEF BeginDump, FinishDump, WriteSidecar
  <2>. QED  BY <1>1, <2>1, BackupSet
<1>7. CASE CleanUp \/ BackupRefused
  <2>1. /\ backup' = NoBackup
        /\ backup.at = "clean" \/ (backup.at \in {"sum", "dump"} /\ backup.pass # role)
    BY <1>7 DEF CleanUp, BackupRefused, PgToolLogsIn
  <2>. QED  BY <2>1, NoBackupFacts
<1>8. CASE BackupDies
  BY <1>1, <1>8, SpendFacts, NoBackupFacts DEF BackupDies
<1>9. CASE PickDump \/ ReadSidecar \/ ReadLiveChecksum \/ Restore \/ DrillFails \/ DrillDies
  BY <1>2, <1>9 DEF PickDump, ReadSidecar, ReadLiveChecksum, Restore, DrillFails, DrillDies
<1>10. ASSUME NEW s \in Scripts, TerminateAll(s) PROVE Goal
  <2>1. backup' = backup \/ (backup.at = "copy" /\ backup' = NoBackup)
    BY <1>10 DEF TerminateAll
  <2>. QED  BY <1>1, <2>1, NoBackupFacts
<1>11. CASE UNCHANGED operationsVars
  BY <1>2, <1>11 DEF operationsVars
<1>. QED  BY <1>3, <1>4, <1>5, <1>6, <1>7, <1>8, <1>9, <1>10, <1>11, WhoOperates DEF OperatorStep

LEMMA NoDrillFacts ==
  /\ NoDrill \in Drill /\ NoDrill.at = "off" /\ NoDrill.result = "none"
  /\ \A n : n = [NoDrill EXCEPT !.result = "failed"] =>
       n \in Drill /\ n.at = "off" /\ n.result = "failed"
<1>1. NoDrill \in Drill /\ NoDrill.at = "off" /\ NoDrill.result = "none"
  BY DEF NoDrill, Drill
<1>2. ASSUME NEW n, n = [NoDrill EXCEPT !.result = "failed"]
      PROVE  n \in Drill /\ n.at = "off" /\ n.result = "failed"
  BY <1>2 DEF NoDrill, Drill
<1>. QED  BY <1>1, <1>2

LEMMA FilesFacts ==
  ASSUME FileTypes
  PROVE  /\ Len(files) \in Nat /\ DOMAIN files = 1 .. Len(files)
         /\ \A i \in DOMAIN files : files[i] \in File
         /\ files # <<>> => Len(files) \in DOMAIN files /\ Last(files) \in File
                            /\ Last(files) = files[Len(files)]
<1>1. files \in Seq(File)
  BY DEF FileTypes
<1>2. Len(files) \in Nat /\ DOMAIN files = 1 .. Len(files) /\ \A i \in DOMAIN files : files[i] \in File
  BY <1>1, LenProperties, ElementOfSeq
<1>3. files # <<>> => Len(files) \in DOMAIN files
  BY <1>1, <1>2, EmptySeq
<1>. QED  BY <1>2, <1>3 DEF Last

DrillMoves ==
  \/ drill' = drill
  \/ /\ drill.at = "off" /\ drill'.at = "picked" /\ drill'.result = "none" /\ files # <<>>
     /\ drill'.pass = DbPassword /\ drill'.file = Last(files).name
     /\ UNCHANGED rotationVars /\ files' = files /\ backup' = backup
  \/ /\ drill.at = "picked" /\ drill'.at = "expects" /\ drill'.result = "none"
     /\ drill'.pass = drill.pass /\ drill'.file = drill.file
     /\ files' = files /\ backup' = backup /\ left' = left
     /\ \/ drill'.excuse
        \/ \E i \in Picked : /\ files[i].sidecar # None /\ drill'.expected = files[i].sidecar
                             /\ drill'.excuse = files[i].raced
  \/ /\ drill.at = "expects" /\ drill'.at = "off" /\ drill'.excuse = drill.excuse
     /\ drill'.result = "MISMATCH" => \E i \in Picked : drill.expected # files[i].rows
  \/ drill'.at = "off" /\ drill'.result # "MISMATCH"

LEMMA DrillSteps ==
  ASSUME RotationTypes, FileTypes, [Next]_vars
  PROVE  /\ drill' \in Drill /\ DrillMoves
         /\ drill.at = "picked" /\ drill'.at = "off" /\ left' = left => drill.pass # role
<1>. DEFINE Goal ==
         /\ drill' \in Drill /\ DrillMoves
         /\ drill.at = "picked" /\ drill'.at = "off" /\ left' = left => drill.pass # role
<1>1. left \in Budget /\ drill \in Drill /\ DbPassword \in Nat /\ orders \in Nat
  BY PasswordIsNat DEF RotationTypes, FileTypes
<1>2. CASE UNCHANGED drill
  BY <1>1, <1>2 DEF DrillMoves
<1>3. CASE PickDump
  <2>1. /\ drill.at = "off" /\ files # <<>> /\ UNCHANGED rotationVars
        /\ files' = files /\ backup' = backup
        /\ drill' = [at |-> "picked", pass |-> DbPassword, file |-> Last(files).name,
                     expected |-> 0, excuse |-> FALSE, result |-> "none"]
    BY <1>3 DEF PickDump
  <2>2. Last(files).name \in Nat
    BY <2>1, FilesFacts DEF File
  <2>3. drill' \in Drill
    BY <1>1, <2>1, <2>2 DEF Drill
  <2>. QED  BY <2>1, <2>3 DEF DrillMoves
<1>4. CASE ReadSidecar
  <2>1. PICK i \in Picked :
          /\ files[i].sidecar # None
          /\ drill' = [at |-> "expects", pass |-> drill.pass, file |-> drill.file,
                       expected |-> files[i].sidecar, excuse |-> files[i].raced, result |-> "none"]
    BY <1>4 DEF ReadSidecar
  <2>2. drill.at = "picked" /\ files' = files /\ backup' = backup /\ left' = left
    BY <1>4 DEF ReadSidecar
  <2>3. files[i] \in File
    BY FilesFacts DEF Picked
  <2>4. files[i].sidecar \in Nat \cup {None} /\ files[i].raced \in BOOLEAN
    BY <2>3 DEF File
  <2>5. drill' \in Drill
    BY <1>1, <2>1, <2>4 DEF Drill
  <2>6. /\ drill'.at = "expects" /\ drill'.pass = drill.pass /\ drill'.file = drill.file
        /\ drill'.expected = files[i].sidecar /\ drill'.excuse = files[i].raced
        /\ drill'.result = "none"
    BY <2>1
  <2>. QED  BY <2>1, <2>2, <2>5, <2>6 DEF DrillMoves
<1>5. CASE ReadLiveChecksum
  <2>1. /\ drill' = [at |-> "expects", pass |-> drill.pass, file |-> drill.file,
                     expected |-> orders, excuse |-> TRUE, result |-> "none"]
        /\ drill.at = "picked" /\ files' = files /\ backup' = backup /\ left' = left
    BY <1>5 DEF ReadLiveChecksum, ChecksumOfLiveDb
  <2>2. drill' \in Drill
    BY <1>1, <2>1 DEF Drill
  <2>. QED  BY <2>1, <2>2 DEF DrillMoves
<1>6. CASE Restore
  <2>1. PICK i \in Picked :
          drill' = [at |-> "off", pass |-> 0, file |-> 0, expected |-> 0, excuse |-> drill.excuse,
                    result |-> IF drill.expected = files[i].rows THEN "MATCH" ELSE "MISMATCH"]
    BY <1>6 DEF Restore
  <2>2. PICK v \in {"MATCH", "MISMATCH"} :
          v = IF drill.expected = files[i].rows THEN "MATCH" ELSE "MISMATCH"
    OBVIOUS
  <2>3. drill.excuse \in BOOLEAN
    BY <1>1 DEF Drill
  <2>4. drill' = [at |-> "off", pass |-> 0, file |-> 0, expected |-> 0, excuse |-> drill.excuse,
                  result |-> v]
    BY <2>1, <2>2
  <2>5. drill' \in Drill /\ drill'.at = "off" /\ drill'.excuse = drill.excuse /\ drill'.result = v
    BY <2>3, <2>4 DEF Drill
  <2>6. drill.at = "expects"
    BY <1>6 DEF Restore
  <2>. QED  BY <2>2, <2>5, <2>6 DEF DrillMoves
<1>7. CASE DrillFails
  <2>1. /\ drill' = [NoDrill EXCEPT !.result = "failed"]
        /\ drill.at = "picked" => drill.pass # role
    BY <1>7 DEF DrillFails, PgToolLogsIn
  <2>. QED  BY <2>1, NoDrillFacts DEF DrillMoves
<1>8. CASE DrillDies
  BY <1>1, <1>8, SpendFacts, NoDrillFacts DEF DrillDies, DrillMoves
<1>9. CASE CommitOrder \/ StartBackup \/ TakeChecksum \/ BeginDump \/ FinishDump \/ WriteSidecar
           \/ CleanUp \/ BackupRefused \/ BackupDies
  BY <1>2, <1>9 DEF CommitOrder, StartBackup, TakeChecksum, BeginDump, FinishDump,
                    WriteSidecar, CleanUp, BackupRefused, BackupDies
<1>10. ASSUME NEW s \in Scripts, TerminateAll(s) PROVE Goal
  BY <1>2, <1>10 DEF TerminateAll
<1>11. CASE UNCHANGED operationsVars
  BY <1>2, <1>11 DEF operationsVars
<1>. QED  BY <1>3, <1>4, <1>5, <1>6, <1>7, <1>8, <1>9, <1>10, <1>11, WhoOperates DEF OperatorStep

(* Moments at which the rotation is settled.                               *)
LEMMA Settled ==
  ASSUME RotationTypes, SecretInv, ~Unsettled
  PROVE  secret = role /\ Verifier = role /\ Backed
  BY DEF Unsettled, SecretInv, Verifier, Backed, RotationTypes

LEMMA SettledKeepsRole ==
  ASSUME RotationTypes, [Next]_vars, ~Unsettled'
  PROVE  role' = role
<1>1. ASSUME NEW s \in Scripts, AlterRole(s) PROVE FALSE
  <2>1. script' = [script EXCEPT ![s] = [at |-> "write", new |-> role + 1]]
    BY <1>1 DEF AlterRole
  <2>2. script'[s].at = "write"
    BY <2>1 DEF RotationTypes
  <2>. QED  BY <2>2 DEF Unsettled, InWindow
<1>2. ASSUME NEW s \in Scripts, Start(s) \/ WriteTmp(s) \/ MoveSecret(s) \/ ScriptRefused(s)
                                \/ ScriptDies(s) \/ Terminate(s)
      PROVE  role' = role
  BY <1>2 DEF Start, WriteTmp, MoveSecret, ScriptRefused, ScriptDies, Terminate
<1>3. CASE UpdateUserlist
  BY <1>3 DEF UpdateUserlist
<1>. QED  BY <1>1, <1>2, <1>3, WhoRotates DEF RotationStep, ScriptStep, rotationVars

LEMMA StrainStep ==
  ASSUME RotationTypes, PoolTypes, FileTypes, SecretInv, SecretInv', StrainInv, [Next]_vars
  PROVE  StrainInv'
<1>1. CASE UNCHANGED vars
  <2>1. UNCHANGED <<route, role, userlist, script, broken, client, given, backup, drill, strained>>
    BY <1>1 DEF vars, rotationVars, poolVars, operationsVars
  <2>. QED  BY <2>1 DEF StrainInv, Unsettled, InWindow
<1>2. CASE Next
  <2>1. strained' = {p \in Everybody : Unsettled' \/ (p \in strained /\ Uses(p))}
    BY <1>2 DEF Next, Everybody
  <2>2. Unsettled' => strained' = Everybody
    BY <2>1
  <2>3. \A p \in Everybody : p \notin strained' => ~Unsettled' /\ (p \notin strained \/ ~Uses(p))
    BY <2>1
  <2>4. ~Unsettled' => role' = role
    BY SettledKeepsRole
  <2>5. ~Unsettled' /\ UNCHANGED rotationVars => ~Unsettled /\ secret = role /\ Verifier = role
    <3>1. UNCHANGED rotationVars => Unsettled' = Unsettled
      BY DEF rotationVars, Unsettled, InWindow
    <3>. QED  BY <3>1, Settled
  <2>6. /\ {"backup", "drill"} \subseteq Everybody
        /\ given' = given /\ (given = None => DbPassword = secret)
    BY GivenStays, PasswordIsNat DEF Everybody
  <2>7. given' = None /\ backup'.at # "off" /\ "backup" \notin strained' => backup'.pass = role'
    <3>1. Uses("backup") <=> backup.at # "off"
      BY DEF Uses
    <3>2. given = None /\ backup.at # "off" /\ "backup" \notin strained => backup.pass = role
      BY DEF StrainInv
    <3>. QED  BY <2>3, <2>4, <2>5, <2>6, <3>1, <3>2, BackupMoves
  <2>8. given' = None /\ drill'.at = "picked" /\ "drill" \notin strained' => drill'.pass = role'
    <3>1. Uses("drill") <=> drill.at # "off"
      BY DEF Uses
    <3>2. given = None /\ drill.at = "picked" /\ "drill" \notin strained => drill.pass = role
      BY DEF StrainInv
    <3>. QED  BY <2>3, <2>4, <2>5, <2>6, <3>1, <3>2, DrillSteps DEF DrillMoves
  <2>9. ASSUME NEW c \in Clients
        PROVE  /\ client'[c].at \in {"login", "proof"} /\ c \notin strained' => client'[c].pass = role'
               /\ client'[c].at = "wrong" => c \in strained'
    <3>1. Uses(c) <=> client[c].at \in {"login", "proof", "wrong"}
      BY OperationsAssumption DEF Uses
    <3>2. /\ client[c].at \in {"login", "proof"} /\ c \notin strained => client[c].pass = role
          /\ client[c].at = "wrong" => c \in strained
      BY DEF StrainInv
    <3>3. c \in Everybody
      BY DEF Everybody
    <3>4. c \in strained' <=> Unsettled' \/ (c \in strained /\ Uses(c))
      BY <2>1, <3>3
    <3>5. CASE UNCHANGED client
      BY <2>4, <3>1, <3>2, <3>4, <3>5
    <3>6. CASE \E s \in Scripts : Terminate(s)
      <4>1. client'[c].at = client[c].at /\ client'[c].pass = client[c].pass
        BY <3>3, <3>6, TerminateMoves
      <4>. QED  BY <2>4, <3>1, <3>2, <3>4, <4>1
    <3>7. CASE PoolStep
      <4>1. ClientMoves(c) /\ UNCHANGED rotationVars
        BY <3>3, <3>7, PoolMoves, PoolRotates
      <4>. QED  BY <2>4, <2>5, <3>1, <3>2, <3>4, <4>1 DEF ClientMoves
    <3>. QED  BY <3>5, <3>6, <3>7, WhoPools
  <2>. QED  BY <2>2, <2>7, <2>8, <2>9 DEF StrainInv
<1>. QED  BY <1>1, <1>2

LEMMA NobodyRefused ==
  ASSUME RotationTypes, PoolTypes, FileTypes, SecretInv, StrainInv, [Next]_vars,
         NEW p \in Readers, RefusedNow(p)
  PROVE  p \in strained
<1>1. CASE p = "backup"
  <2>1. backup.at \in {"sum", "dump"} /\ backup'.at = "off" /\ left' = left
    BY <1>1 DEF RefusedNow
  <2>2. given = None
    BY <1>1, OperationsAssumption DEF Readers
  <2>. QED  BY <1>1, <2>1, <2>2, BackupMoves DEF StrainInv
<1>2. CASE p = "drill"
  <2>1. drill.at = "picked" /\ drill'.at = "off" /\ left' = left
    BY <1>2 DEF RefusedNow
  <2>2. given = None
    BY <1>2, OperationsAssumption DEF Readers
  <2>. QED  BY <1>2, <2>1, <2>2, DrillSteps DEF StrainInv
<1>3. CASE p \in Clients
  <2>1. client[p].at = "wrong"
    BY <1>3, OperationsAssumption DEF RefusedNow
  <2>. QED  BY <1>3, <2>1 DEF StrainInv
<1>. QED  BY <1>1, <1>2, <1>3 DEF Readers
----------------------------------------------------------------------------
(* The directory of backups.                                               *)

LEMMA AppendFile ==
  ASSUME RotationTypes, FileTypes, files' = Append(files, NewFile)
  PROVE  /\ files' \in Seq(File) /\ files' # <<>>
         /\ Len(files') = Len(files) + 1 /\ DOMAIN files' = 1 .. Len(files) + 1
         /\ \A i \in DOMAIN files : files'[i] = files[i]
         /\ files'[Len(files) + 1] = NewFile /\ Last(files') = NewFile
         /\ NewFile.name = left.backups /\ ~NewFile.whole /\ NewFile.sidecar = None
         /\ NewFile.rows = orders /\ NewFile.raced = backup.raced
<1>1. /\ files \in Seq(File) /\ orders \in Nat /\ backup.raced \in BOOLEAN /\ left.backups \in Nat
  BY DEF RotationTypes, FileTypes, Backup, Budget
<1>2. /\ NewFile \in File
      /\ NewFile.name = left.backups /\ ~NewFile.whole /\ NewFile.sidecar = None
      /\ NewFile.rows = orders /\ NewFile.raced = backup.raced
  BY <1>1 DEF NewFile, File
<1>3. /\ files' \in Seq(File) /\ files' # <<>> /\ Len(files') = Len(files) + 1
      /\ \A i \in 1 .. Len(files) : files'[i] = files[i]
      /\ files'[Len(files) + 1] = NewFile
  BY <1>1, <1>2, AppendProperties
<1>4. DOMAIN files' = 1 .. Len(files) + 1
  BY <1>3, LenProperties
<1>5. Last(files') = NewFile
  BY <1>3 DEF Last
<1>. QED  BY <1>2, <1>3, <1>4, <1>5, FilesFacts

LEMMA SetLast ==
  ASSUME FileTypes, files # <<>>, NEW f \in File, files' = [files EXCEPT ![Len(files)] = f]
  PROVE  /\ files' \in Seq(File) /\ files' # <<>>
         /\ DOMAIN files' = DOMAIN files /\ Len(files) \in DOMAIN files
         /\ \A i \in DOMAIN files : files'[i] = IF i = Len(files) THEN f ELSE files[i]
         /\ Last(files') = f
<1>1. files \in Seq(File)
  BY DEF FileTypes
<1>2. Len(files) \in 1 .. Len(files) /\ DOMAIN files = 1 .. Len(files)
  BY FilesFacts
<1>3. /\ files' \in Seq(File) /\ Len(files') = Len(files)
      /\ \A i \in 1 .. Len(files) : files'[i] = IF i = Len(files) THEN f ELSE files[i]
  BY <1>1, <1>2, ExceptSeq
<1>4. DOMAIN files' = 1 .. Len(files) /\ files' # <<>>
  BY <1>2, <1>3, LenProperties, EmptySeq
<1>5. Last(files') = f
  BY <1>2, <1>3 DEF Last
<1>. QED  BY <1>2, <1>3, <1>4, <1>5

(* What ls, tail and rm leave: the newest, with the last one.              *)
LEMMA NewestFacts ==
  ASSUME FileTypes, files # <<>>, files' = Newest(BackupKeep)
  PROVE  /\ files' \in Seq(File) /\ files' # <<>> /\ Last(files') = Last(files)
         /\ \E d \in Nat :
              /\ \A i \in DOMAIN files' : i + d \in DOMAIN files /\ files'[i] = files[i + d]
              /\ Len(files') = Len(files) - d
<1>. DEFINE n == Len(files)
            m == IF n > BackupKeep THEN n - BackupKeep + 1 ELSE 1
<1>1. files \in Seq(File) /\ n \in Nat /\ n >= 1 /\ DOMAIN files = 1 .. n
      /\ \A i \in 1 .. n : files[i] \in File
  BY FilesFacts DEF FileTypes
<1>2. BackupKeep \in Nat /\ BackupKeep >= 1
  BY OperationsAssumption
<1>3. m \in 1 .. n
  BY <1>1, <1>2
<1>4. files' = SubSeq(files, m, n)
  BY DEF Newest
<1>. HIDE DEF n, m
<1>5. \A i \in m .. n : files[i] \in File
  BY <1>1, <1>3
<1>6. m \in Int /\ n \in Int /\ m <= n
  BY <1>1, <1>3
<1>7. /\ files' \in Seq(File) /\ Len(files') = n - m + 1
      /\ \A i \in 1 .. n - m + 1 : files'[i] = files[m + i - 1]
  BY <1>4, <1>5, <1>6, SubSeqProperties
<1>8. DOMAIN files' = 1 .. n - m + 1 /\ n - m + 1 >= 1
  BY <1>6, <1>7, LenProperties
<1>9. files' # <<>>
  BY <1>7, <1>8, EmptySeq
<1>10. Last(files') = Last(files)
  <2>1. n - m + 1 \in 1 .. n - m + 1 /\ m + (n - m + 1) - 1 = n
    BY <1>6, <1>8
  <2>2. files'[n - m + 1] = files[n]
    BY <1>7, <2>1
  <2>. QED  BY <1>7, <2>2 DEF Last, n
<1>11. \A i \in DOMAIN files' : i + (m - 1) \in DOMAIN files /\ files'[i] = files[i + (m - 1)]
  BY <1>1, <1>3, <1>6, <1>7, <1>8
<1>12. m - 1 \in Nat /\ Len(files') = Len(files) - (m - 1)
  BY <1>3, <1>6, <1>7 DEF n
<1>. QED  BY <1>7, <1>9, <1>10, <1>11, <1>12

(* What every step does to the number of backups that are left.            *)
Counted ==
  /\ left.backups \in Nat /\ left'.backups \in Nat /\ left'.backups <= left.backups
  /\ backup'.at \in {"sum", "dump"} =>
       backup.at \in {"sum", "dump"} \/ left'.backups < left.backups

(* A file that the drill has picked stays what it was.                     *)
DrillsFileKept ==
  \A i \in DOMAIN files' : files'[i].name = drill.file /\ drill.at = "expects" =>
     \E j \in DOMAIN files : files[j].name = drill.file /\ files[j].rows = files'[i].rows

LEMMA DrillKept ==
  ASSUME FileTypes, DrillInv, Counted, DrillsFileKept, drill' = drill
  PROVE  DrillInv'
<1>1. drill.file \in Nat
  BY DEF FileTypes, Drill
<1>2. drill.at # "off" =>
        /\ drill.file >= left'.backups
        /\ backup'.at \in {"sum", "dump"} => drill.file > left'.backups
        /\ drill.result = "none"
  BY <1>1 DEF DrillInv, Counted
<1>3. drill.at = "expects" => drill.excuse \/ \A i \in Picked' : drill.expected = files'[i].rows
  <2>1. SUFFICES ASSUME drill.at = "expects", ~drill.excuse, NEW i \in Picked'
                 PROVE  drill.expected = files'[i].rows
    OBVIOUS
  <2>2. i \in DOMAIN files' /\ files'[i].name = drill.file
    BY DEF Picked
  <2>3. PICK j \in DOMAIN files : files[j].name = drill.file /\ files[j].rows = files'[i].rows
    BY <2>1, <2>2 DEF DrillsFileKept
  <2>4. j \in Picked
    BY <2>3 DEF Picked
  <2>. QED  BY <2>1, <2>3, <2>4 DEF DrillInv
<1>4. MismatchNeedsWriters'
  BY DEF DrillInv, MismatchNeedsWriters
<1>. QED  BY <1>2, <1>3, <1>4 DEF DrillInv

LEMMA DrillGoesOn ==
  ASSUME RotationTypes, FileTypes, NameInv, DrillInv, Counted, [Next]_vars, drill' # drill,
         files' = files, backup' = backup
  PROVE  DrillInv'
<1>1. DrillMoves
  BY DrillSteps
<1>2. CASE /\ drill.at = "off" /\ drill'.at = "picked" /\ drill'.result = "none" /\ files # <<>>
           /\ drill'.file = Last(files).name
  <2>1. Len(files) \in DOMAIN files /\ Last(files) = files[Len(files)]
    BY <1>2, FilesFacts
  <2>2. /\ Last(files).name \in Nat /\ Last(files).name >= left.backups
        /\ backup.at \in {"sum", "dump"} => Last(files).name > left.backups
    BY <1>2, <2>1, FilesFacts DEF NameInv, File
  <2>3. /\ drill'.file >= left'.backups
        /\ backup'.at \in {"sum", "dump"} => drill'.file > left'.backups
    BY <1>2, <2>2 DEF Counted
  <2>. QED  BY <1>2, <2>3 DEF DrillInv, MismatchNeedsWriters
<1>3. CASE /\ drill.at = "picked" /\ drill'.at = "expects" /\ drill'.result = "none"
           /\ drill'.file = drill.file /\ left' = left
           /\ \/ drill'.excuse
              \/ \E i \in Picked : /\ files[i].sidecar # None /\ drill'.expected = files[i].sidecar
                                   /\ drill'.excuse = files[i].raced
  <2>1. Picked' = Picked
    BY <1>3 DEF Picked
  <2>2. drill'.excuse \/ \A i \in Picked : drill'.expected = files[i].rows
    <3>1. CASE drill'.excuse
      BY <3>1
    <3>2. CASE ~drill'.excuse
      <4>1. PICK i \in Picked : /\ files[i].sidecar # None /\ drill'.expected = files[i].sidecar
                                /\ drill'.excuse = files[i].raced
        BY <1>3, <3>2
      <4>2. files[i].sidecar = files[i].rows
        BY <3>2, <4>1 DEF NameInv, Picked
      <4>3. \A j \in Picked : j = i
        BY DEF NameInv, Picked
      <4>. QED  BY <4>1, <4>2, <4>3
    <3>. QED  BY <3>1, <3>2
  <2>. QED  BY <1>3, <2>1, <2>2 DEF DrillInv, MismatchNeedsWriters
<1>4. CASE /\ drill.at = "expects" /\ drill'.at = "off" /\ drill'.excuse = drill.excuse
           /\ drill'.result = "MISMATCH" => \E i \in Picked : drill.expected # files[i].rows
  BY <1>4 DEF DrillInv, MismatchNeedsWriters
<1>5. CASE drill'.at = "off" /\ drill'.result # "MISMATCH"
  BY <1>5 DEF DrillInv, MismatchNeedsWriters
<1>. QED  BY <1>1, <1>2, <1>3, <1>4, <1>5 DEF DrillMoves

LEMMA Counting ==
  ASSUME RotationTypes, FileTypes, [Next]_vars
  PROVE  Counted
<1>1. left \in Budget /\ left.backups \in Nat /\ backup \in Backup
  BY DEF RotationTypes, FileTypes, Budget
<1>2. left'.backups \in Nat /\ left'.backups <= left.backups
  BY <1>1, WhoSpends, SpendFacts
<1>3. CASE UNCHANGED backup
  BY <1>1, <1>2, <1>3 DEF Counted
<1>4. CASE CommitOrder
  <2>1. PICK e \in BOOLEAN : backup' = [backup EXCEPT !.raced = @ \/ e]
    <3>1. (backup.at = "dump") \in BOOLEAN
      OBVIOUS
    <3>. QED  BY <1>4, <3>1 DEF CommitOrder
  <2>2. backup'.at = backup.at
    BY <1>1, <2>1, BackupRaced
  <2>. QED  BY <1>1, <1>2, <2>2 DEF Counted
<1>5. CASE StartBackup
  <2>1. left'.backups < left.backups
    BY <1>1, <1>5, SpendFacts DEF StartBackup
  <2>. QED  BY <1>1, <1>2, <2>1 DEF Counted
<1>6. CASE TakeChecksum
  BY <1>1, <1>2, <1>6 DEF TakeChecksum, Counted
<1>7. CASE BeginDump \/ FinishDump \/ WriteSidecar
  <2>1. \E a \in {"copy", "note", "clean"} : backup' = [backup EXCEPT !.at = a]
    BY <1>7 DEF BeginDump, FinishDump, WriteSidecar
  <2>2. backup'.at \notin {"sum", "dump"}
    BY <1>1, <2>1, BackupSet
  <2>. QED  BY <1>1, <1>2, <2>2 DEF Counted
<1>8. CASE CleanUp \/ BackupRefused \/ BackupDies
  BY <1>1, <1>2, <1>8, NoBackupFacts DEF CleanUp, BackupRefused, BackupDies, Counted
<1>9. CASE PickDump \/ ReadSidecar \/ ReadLiveChecksum \/ Restore \/ DrillFails \/ DrillDies
  BY <1>3, <1>9 DEF PickDump, ReadSidecar, ReadLiveChecksum, Restore, DrillFails, DrillDies
<1>10. ASSUME NEW s \in Scripts, TerminateAll(s) PROVE Counted
  BY <1>1, <1>2, <1>10, NoBackupFacts DEF TerminateAll, Counted
<1>11. CASE UNCHANGED operationsVars
  BY <1>3, <1>11 DEF operationsVars
<1>. QED  BY <1>4, <1>5, <1>6, <1>7, <1>8, <1>9, <1>10, <1>11, WhoOperates DEF OperatorStep

(* The files stay, and backup.sh goes on with none of them.                *)
LEMMA FilesKept ==
  ASSUME FileTypes, FileInv, Counted, files' = files, good' = good, drill' = drill
  PROVE  NameInv' /\ NewestGoodStays' /\ DrillInv'
<1>1. \A i \in DOMAIN files : files[i].name \in Nat
  BY FilesFacts DEF File
<1>2. NameInv'
  BY <1>1 DEF FileInv, NameInv, Counted
<1>3. NewestGoodStays'
  BY DEF FileInv, NewestGoodStays
<1>4. DrillsFileKept
  BY DEF DrillsFileKept
<1>. QED  BY <1>2, <1>3, <1>4, DrillKept DEF FileInv

(* A new file.                                                             *)
LEMMA FileAdded ==
  ASSUME RotationTypes, FileTypes, FileInv, Counted, files' = Append(files, NewFile),
         good' = good, drill' = drill, left' = left,
         backup.at = "dump", backup'.at \notin {"sum", "dump"}
  PROVE  files' \in Seq(File) /\ NameInv' /\ NewestGoodStays' /\ DrillInv'
<1>. DEFINE n == Len(files)
<1>1. /\ files' \in Seq(File) /\ DOMAIN files' = 1 .. n + 1
      /\ \A i \in DOMAIN files : files'[i] = files[i]
      /\ files'[n + 1] = NewFile /\ NewFile.name = left.backups /\ NewFile.sidecar = None
  BY AppendFile
<1>2. n \in Nat /\ DOMAIN files = 1 .. n /\ \A i \in DOMAIN files : files[i].name \in Nat
  BY FilesFacts DEF File
<1>. HIDE DEF n
<1>3. \A i \in DOMAIN files' : i \in DOMAIN files \/ i = n + 1
  BY <1>1, <1>2
<1>4. DOMAIN files \subseteq DOMAIN files'
  BY <1>1, <1>2
<1>5. /\ \A i, j \in DOMAIN files : files[i].name = files[j].name => i = j
      /\ \A i \in DOMAIN files :
           /\ files[i].name >= left.backups /\ files[i].name > left.backups
           /\ files[i].sidecar # None => files[i].raced \/ files[i].sidecar = files[i].rows
  BY DEF FileInv, NameInv
<1>6. NameInv'
  <2>1. \A i \in DOMAIN files : files'[i].name # files'[n + 1].name
    BY <1>1, <1>2, <1>5 DEF Counted
  <2>2. \A i, j \in DOMAIN files' : files'[i].name = files'[j].name => i = j
    BY <1>1, <1>3, <1>5, <2>1
  <2>3. \A i \in DOMAIN files' :
          /\ files'[i].name >= left'.backups
          /\ files'[i].sidecar # None => files'[i].raced \/ files'[i].sidecar = files'[i].rows
    BY <1>1, <1>3, <1>5 DEF Counted
  <2>. QED  BY <2>2, <2>3 DEF NameInv
<1>7. NewestGoodStays'
  BY <1>1, <1>4 DEF FileInv, NewestGoodStays
<1>8. DrillsFileKept
  <2>1. drill.at = "expects" => drill.file > left.backups /\ drill.file \in Nat
    BY DEF FileInv, DrillInv, FileTypes, Drill
  <2>2. drill.at = "expects" => NewFile.name # drill.file
    BY <1>1, <2>1 DEF Counted
  <2>. QED  BY <1>1, <1>3, <2>2 DEF DrillsFileKept
<1>. QED  BY <1>1, <1>6, <1>7, <1>8, DrillKept DEF FileInv

(* The newest file gets whole, or gets its sidecar.                        *)
LEMMA FileSet ==
  ASSUME RotationTypes, FileTypes, FileInv, Counted, files # <<>>, NEW f \in File,
         files' = [files EXCEPT ![Len(files)] = f],
         f.name = Last(files).name, f.rows = Last(files).rows, f.raced = Last(files).raced,
         f.sidecar # None => f.raced \/ f.sidecar = f.rows,
         Last(files).whole => f.whole,
         good' = good \/ (good' = f.name /\ f.whole), drill' = drill, left' = left,
         backup'.at \notin {"sum", "dump"}
  PROVE  files' \in Seq(File) /\ NameInv' /\ NewestGoodStays' /\ DrillInv'
<1>1. /\ files' \in Seq(File) /\ DOMAIN files' = DOMAIN files /\ Len(files) \in DOMAIN files
      /\ \A i \in DOMAIN files : files'[i] = IF i = Len(files) THEN f ELSE files[i]
  BY SetLast
<1>2. Last(files) = files[Len(files)]
  BY FilesFacts
<1>3. \A i \in DOMAIN files :
        /\ files'[i].name = files[i].name /\ files'[i].rows = files[i].rows
        /\ files'[i].raced = files[i].raced /\ (files[i].whole => files'[i].whole)
  BY <1>1, <1>2
<1>4. /\ \A i, j \in DOMAIN files : files[i].name = files[j].name => i = j
      /\ \A i \in DOMAIN files :
           /\ files[i].name >= left.backups
           /\ files[i].sidecar # None => files[i].raced \/ files[i].sidecar = files[i].rows
  BY DEF FileInv, NameInv
<1>5. NameInv'
  <2>1. \A i \in DOMAIN files : files'[i].sidecar # None
                                  => files'[i].raced \/ files'[i].sidecar = files'[i].rows
    BY <1>1, <1>4
  <2>. QED  BY <1>1, <1>3, <1>4, <2>1 DEF NameInv
<1>6. NewestGoodStays'
  <2>1. files'[Len(files)] = f
    BY <1>1
  <2>. QED  BY <1>1, <1>3, <2>1 DEF FileInv, NewestGoodStays
<1>7. DrillsFileKept
  BY <1>1, <1>3 DEF DrillsFileKept
<1>. QED  BY <1>1, <1>5, <1>6, <1>7, DrillKept DEF FileInv

LEMMA FilesCleaned ==
  ASSUME RotationTypes, FileTypes, FileInv, Counted, CleanUp
  PROVE  files' \in Seq(File) /\ NameInv' /\ NewestGoodStays' /\ DrillInv'
<1>1. /\ backup.at = "clean" /\ files' = Newest(BackupKeep) /\ backup' = NoBackup
      /\ UNCHANGED <<left, drill, good>>
  BY DEF CleanUp
<1>2. files # <<>> /\ Last(files).whole /\ Last(files).name = good
  BY <1>1 DEF FileInv, BackupInv
<1>3. files' \in Seq(File) /\ files' # <<>> /\ Last(files') = Last(files)
  BY <1>1, <1>2, NewestFacts
<1>4. PICK d \in Nat : \A i \in DOMAIN files' : i + d \in DOMAIN files /\ files'[i] = files[i + d]
  BY <1>1, <1>2, NewestFacts
<1>5. Len(files') \in DOMAIN files' /\ DOMAIN files' \subseteq Nat
  BY <1>3, LenProperties, EmptySeq
<1>6. NameInv'
  <2>1. \A i, j \in DOMAIN files' : i + d = j + d => i = j
    BY <1>5
  <2>2. \A i \in DOMAIN files' : files'[i].name >= left'.backups
    BY <1>1, <1>4 DEF FileInv, NameInv
  <2>3. \A i \in DOMAIN files' : files'[i].sidecar # None
          => files'[i].raced \/ files'[i].sidecar = files'[i].rows
    BY <1>4 DEF FileInv, NameInv
  <2>4. \A i, j \in DOMAIN files' : files'[i].name = files'[j].name => i = j
    BY <1>4, <2>1 DEF FileInv, NameInv
  <2>. QED  BY <1>1, <2>2, <2>3, <2>4, NoBackupFacts DEF NameInv
<1>7. NewestGoodStays'
  BY <1>1, <1>2, <1>3, <1>5 DEF NewestGoodStays, Last
<1>8. DrillsFileKept
  BY <1>4 DEF DrillsFileKept
<1>. QED  BY <1>1, <1>3, <1>6, <1>7, <1>8, DrillKept DEF FileInv

LEMMA FileStep ==
  ASSUME RotationTypes, FileTypes, FileInv, [Next]_vars
  PROVE  FileTypes' /\ FileInv'
<1>. DEFINE Goal == orders' \in Nat /\ files' \in Seq(File) /\ FileInv'
<1>1. /\ orders \in Nat /\ files \in Seq(File) /\ backup \in Backup /\ drill \in Drill
      /\ orders + 1 \in Nat /\ left \in Budget
  BY DEF FileTypes, RotationTypes
<1>2. Counted
  BY Counting
<1>3. backup' \in Backup /\ drill' \in Drill /\ given' \in Nat \cup {None}
  BY BackupMoves, DrillSteps, GivenStays DEF FileTypes
<1>. SUFFICES Goal
  BY <1>3 DEF FileTypes
<1>4. NameInv /\ BackupInv /\ DrillInv /\ NewestGoodStays
  BY DEF FileInv
<1>5. CASE /\ UNCHANGED <<orders, files, drill, good>>
           /\ backup' = backup \/ backup' = NoBackup
  <2>1. NameInv' /\ NewestGoodStays' /\ DrillInv'
    BY <1>2, <1>5, FilesKept
  <2>2. BackupInv'
    BY <1>4, <1>5, NoBackupFacts DEF BackupInv
  <2>. QED  BY <1>1, <1>5, <2>1, <2>2 DEF FileInv
<1>6. CASE CommitOrder
  <2>1. PICK e \in BOOLEAN : e = (backup.at = "dump") /\ backup' = [backup EXCEPT !.raced = @ \/ e]
    <3>1. (backup.at = "dump") \in BOOLEAN
      OBVIOUS
    <3>. QED  BY <1>6, <3>1 DEF CommitOrder
  <2>2. backup'.at = backup.at /\ backup'.sum = backup.sum /\ backup'.raced = (backup.raced \/ e)
    BY <1>1, <2>1, BackupRaced
  <2>3. orders' = orders + 1 /\ UNCHANGED <<files, drill, good>>
    BY <1>6 DEF CommitOrder
  <2>4. NameInv' /\ NewestGoodStays' /\ DrillInv'
    BY <1>2, <2>3, FilesKept
  <2>5. BackupInv'
    BY <1>4, <2>1, <2>2, <2>3 DEF BackupInv
  <2>. QED  BY <1>1, <2>3, <2>4, <2>5 DEF FileInv
<1>7. CASE StartBackup
  <2>1. /\ UNCHANGED <<orders, files, drill, good>>
        /\ backup' = [at |-> "sum", pass |-> DbPassword, sum |-> 0, raced |-> FALSE]
    BY <1>7 DEF StartBackup
  <2>2. NameInv' /\ NewestGoodStays' /\ DrillInv'
    BY <1>2, <2>1, FilesKept
  <2>3. BackupInv'
    BY <2>1 DEF BackupInv
  <2>. QED  BY <1>1, <2>1, <2>2, <2>3 DEF FileInv
<1>8. CASE TakeChecksum
  <2>1. /\ UNCHANGED <<orders, files, drill, good>>
        /\ backup' = [at |-> "dump", pass |-> backup.pass, sum |-> orders, raced |-> FALSE]
    BY <1>8 DEF TakeChecksum, ChecksumOfLiveDb
  <2>2. NameInv' /\ NewestGoodStays' /\ DrillInv'
    BY <1>2, <2>1, FilesKept
  <2>3. BackupInv'
    BY <2>1 DEF BackupInv
  <2>. QED  BY <1>1, <2>1, <2>2, <2>3 DEF FileInv
<1>9. CASE BeginDump
  <2>1. /\ backup.at = "dump" /\ files' = Append(files, NewFile)
        /\ backup' = [backup EXCEPT !.at = "copy"] /\ UNCHANGED <<left, orders, drill, good>>
    BY <1>9 DEF BeginDump
  <2>2. backup'.at = "copy" /\ backup'.sum = backup.sum
    BY <1>1, <2>1, BackupSet
  <2>3. files' \in Seq(File) /\ NameInv' /\ NewestGoodStays' /\ DrillInv'
    BY <1>2, <2>1, <2>2, FileAdded
  <2>4. files' # <<>> /\ Last(files') = NewFile /\ NewFile.rows = orders /\ NewFile.raced = backup.raced
    BY <2>1, AppendFile
  <2>5. BackupInv'
    BY <1>4, <2>1, <2>2, <2>4 DEF BackupInv
  <2>. QED  BY <1>1, <2>1, <2>3, <2>5 DEF FileInv
<1>10. CASE FinishDump
  <2>1. /\ backup.at = "copy" /\ files' = [files EXCEPT ![Len(files)].whole = TRUE]
        /\ good' = Last(files).name
        /\ backup' = [backup EXCEPT !.at = "note"] /\ UNCHANGED <<left, orders, drill>>
    BY <1>10 DEF FinishDump
  <2>2. backup'.at = "note" /\ backup'.sum = backup.sum
    BY <1>1, <2>1, BackupSet
  <2>3. files # <<>> /\ (Last(files).raced \/ Last(files).rows = backup.sum)
    BY <1>4, <2>1 DEF BackupInv
  <2>4. /\ Len(files) \in DOMAIN files /\ Last(files) = files[Len(files)] /\ Last(files) \in File
        /\ Last(files).sidecar # None => Last(files).raced \/ Last(files).sidecar = Last(files).rows
    BY <1>4, <2>3, FilesFacts DEF NameInv
  <2>5. PICK f : f = [Last(files) EXCEPT !.whole = TRUE]
    OBVIOUS
  <2>6. /\ f \in File /\ f.whole /\ f.name = Last(files).name /\ f.rows = Last(files).rows
        /\ f.raced = Last(files).raced /\ f.sidecar = Last(files).sidecar
    BY <2>4, <2>5 DEF File
  <2>7. files' = [files EXCEPT ![Len(files)] = f]
    BY <2>1, <2>4, <2>5
  <2>8. files' \in Seq(File) /\ NameInv' /\ NewestGoodStays' /\ DrillInv'
    BY <1>2, <2>1, <2>2, <2>3, <2>4, <2>6, <2>7, FileSet
  <2>9. files' # <<>> /\ Last(files') = f
    BY <2>3, <2>6, <2>7, SetLast
  <2>10. BackupInv'
    BY <2>1, <2>2, <2>3, <2>6, <2>9 DEF BackupInv
  <2>. QED  BY <1>1, <2>1, <2>8, <2>10 DEF FileInv
<1>11. CASE WriteSidecar
  <2>1. /\ backup.at = "note" /\ files' = [files EXCEPT ![Len(files)].sidecar = backup.sum]
        /\ backup' = [backup EXCEPT !.at = "clean"] /\ UNCHANGED <<left, orders, drill, good>>
    BY <1>11 DEF WriteSidecar
  <2>2. backup'.at = "clean" /\ backup'.sum = backup.sum /\ backup.sum \in Nat
    BY <1>1, <2>1, BackupSet DEF Backup
  <2>3. /\ files # <<>> /\ (Last(files).raced \/ Last(files).rows = backup.sum)
        /\ Last(files).whole /\ Last(files).name = good
    BY <1>4, <2>1 DEF BackupInv
  <2>4. Len(files) \in DOMAIN files /\ Last(files) = files[Len(files)] /\ Last(files) \in File
    BY <2>3, FilesFacts
  <2>5. PICK f : f = [Last(files) EXCEPT !.sidecar = backup.sum]
    OBVIOUS
  <2>6. /\ f \in File /\ f.whole /\ f.name = Last(files).name /\ f.rows = Last(files).rows
        /\ f.raced = Last(files).raced /\ f.sidecar = backup.sum
    BY <2>2, <2>3, <2>4, <2>5 DEF File
  <2>7. files' = [files EXCEPT ![Len(files)] = f]
    BY <2>1, <2>4, <2>5
  <2>8. files' \in Seq(File) /\ NameInv' /\ NewestGoodStays' /\ DrillInv'
    BY <1>2, <2>1, <2>2, <2>3, <2>6, <2>7, FileSet
  <2>9. files' # <<>> /\ Last(files') = f
    BY <2>3, <2>6, <2>7, SetLast
  <2>10. BackupInv'
    BY <2>1, <2>2, <2>3, <2>6, <2>9 DEF BackupInv
  <2>. QED  BY <1>1, <2>1, <2>8, <2>10 DEF FileInv
<1>12. CASE CleanUp
  <2>1. backup' = NoBackup /\ orders' = orders
    BY <1>12 DEF CleanUp
  <2>2. BackupInv'
    BY <2>1, NoBackupFacts DEF BackupInv
  <2>. QED  BY <1>1, <1>2, <1>12, <2>1, <2>2, FilesCleaned DEF FileInv
<1>13. CASE BackupRefused
  <2>1. /\ backup' = NoBackup /\ UNCHANGED <<left, orders, drill, good>>
        /\ files' = files \/ (backup.at = "dump" /\ files' = Append(files, NewFile))
    BY <1>13 DEF BackupRefused
  <2>2. CASE files' = files
    BY <1>5, <2>1, <2>2
  <2>3. CASE backup.at = "dump" /\ files' = Append(files, NewFile)
    <3>1. files' \in Seq(File) /\ NameInv' /\ NewestGoodStays' /\ DrillInv'
      BY <1>2, <2>1, <2>3, NoBackupFacts, FileAdded
    <3>2. BackupInv'
      BY <2>1, NoBackupFacts DEF BackupInv
    <3>. QED  BY <1>1, <2>1, <3>1, <3>2 DEF FileInv
  <2>. QED  BY <2>1, <2>2, <2>3
<1>14. CASE BackupDies
  BY <1>5, <1>14 DEF BackupDies
<1>15. CASE PickDump \/ ReadSidecar \/ ReadLiveChecksum \/ Restore \/ DrillFails \/ DrillDies
  <2>1. UNCHANGED <<orders, files, backup, good>>
    BY <1>15 DEF PickDump, ReadSidecar, ReadLiveChecksum, Restore, DrillFails, DrillDies
  <2>2. CASE drill' = drill
    BY <1>5, <2>1, <2>2
  <2>3. CASE drill' # drill
    <3>1. DrillInv'
      BY <1>2, <1>4, <2>1, <2>3, DrillGoesOn
    <3>2. \A i \in DOMAIN files : files[i].name \in Nat
      BY FilesFacts DEF File
    <3>3. NameInv'
      BY <1>2, <1>4, <2>1, <3>2 DEF NameInv, Counted
    <3>4. BackupInv' /\ NewestGoodStays'
      BY <1>4, <2>1 DEF BackupInv, NewestGoodStays
    <3>. QED  BY <1>1, <2>1, <3>1, <3>3, <3>4 DEF FileInv
  <2>. QED  BY <2>2, <2>3
<1>16. ASSUME NEW s \in Scripts, TerminateAll(s) PROVE Goal
  BY <1>5, <1>16 DEF TerminateAll
<1>17. CASE UNCHANGED operationsVars
  BY <1>5, <1>17 DEF operationsVars
<1>. QED
  BY <1>6, <1>7, <1>8, <1>9, <1>10, <1>11, <1>12, <1>13, <1>14, <1>15, <1>16, <1>17, WhoOperates
     DEF OperatorStep

----------------------------------------------------------------------------
(* The invariant, and the theorems.                                        *)

LEMMA InitIInv ==
  ASSUME Init
  PROVE  IInv
<1>1. left \in Budget
  BY OperationsAssumption DEF Init, RotationInit
<1>2. /\ route \in {"direct", "pooler"} /\ role = 0 /\ secret = 0 /\ tmp = None /\ userlist = 0
      /\ script = [s \in Scripts |-> Done] /\ broken = FALSE /\ done = 0 /\ given \in {None, 0}
      /\ client = [c \in Clients |-> Closed]
      /\ orders = 0 /\ files = <<>> /\ good = None
      /\ backup = NoBackup /\ drill = NoDrill /\ strained = {}
  BY DEF Init, RotationInit
<1>3. script \in [Scripts -> Script] /\ \A s \in Scripts : script[s].at = "off" /\ script[s].new = 0
  BY <1>2 DEF Done, Script
<1>4. RotationTypes
  BY <1>1, <1>2, <1>3 DEF RotationTypes
<1>5. PoolTypes /\ \A c \in Clients : client[c].at = "none"
  BY <1>2, ClosedIsClient DEF PoolTypes
<1>6. FileTypes
  BY <1>2, NoBackupFacts, NoDrillFacts, EmptySeq DEF FileTypes
<1>7. \A s \in Scripts : ~InWindow(s)
  BY <1>3 DEF InWindow
<1>8. RotationInv
  BY <1>2, <1>3, <1>5, <1>7 DEF RotationInv, SecretInv, AgeInv, SessionInv
<1>9. StrainInv
  <2>1. ~Unsettled
    BY <1>2, <1>7 DEF Unsettled
  <2>. QED  BY <1>2, <1>5, <2>1, NoBackupFacts, NoDrillFacts DEF StrainInv
<1>10. FileInv
  <2>1. DOMAIN files = {}
    BY <1>2
  <2>. QED  BY <1>2, <2>1, NoBackupFacts, NoDrillFacts
            DEF FileInv, NameInv, BackupInv, DrillInv, MismatchNeedsWriters, NewestGoodStays
<1>. QED  BY <1>4, <1>5, <1>6, <1>8, <1>9, <1>10 DEF IInv, TypeInv

LEMMA NextIInv ==
  ASSUME IInv, [Next]_vars
  PROVE  IInv'
<1>1. /\ RotationTypes /\ PoolTypes /\ FileTypes
      /\ SecretInv /\ AgeInv /\ SessionInv /\ StrainInv /\ FileInv
  BY DEF IInv, TypeInv, RotationInv
<1>2. RotationTypes' /\ SecretInv' /\ AgeInv'
  BY <1>1, RotationPreserved
<1>3. PoolTypes' /\ SessionInv'
  BY <1>1, SessionStep
<1>4. FileTypes' /\ FileInv'
  BY <1>1, FileStep
<1>5. StrainInv'
  BY <1>1, <1>2, StrainStep
<1>. QED  BY <1>2, <1>3, <1>4, <1>5 DEF IInv, TypeInv, RotationInv

LEMMA Invariance == Spec => []IInv
<1>. QED  BY InitIInv, NextIInv, PTL DEF Spec

(* However many scripts overlap, break off or are refused, the passwords,  *)
(* the sessions, the dumps and the drill have the shapes that the model    *)
(* says; the secret file always has a whole password.                      *)
THEOREM OperationsTypes == Spec => []TypeInv
<1>1. IInv => TypeInv
  BY DEF IInv
<1>. QED  BY <1>1, Invariance, PTL

(* A rotation that is through leaves no session of the pool with an older  *)
(* password, whatever number of clients it has and however many rotations  *)
(* overlap, except of a login that was in progress.                        *)
THEOREM OldSessionsAreEnded == Spec => []OldSessionsEnd
<1>1. IInv => OldSessionsEnd
  BY DEF IInv, RotationInv, SessionInv, OldSessionsEnd
<1>. QED  BY <1>1, Invariance, PTL

(* Neither the pool, nor a backup or a drill that reads the secret file,   *)
(* is refused unless a rotation was under way or broke off since it read   *)
(* its password.                                                           *)
THEOREM RefusalsNeedRotation == Spec => RefusedOnlyByRotation
<1>1. IInv /\ [Next]_vars => \A p \in Readers : RefusedNow(p) => p \in strained
  BY NobodyRefused DEF IInv, TypeInv, RotationInv
<1>2. IInv /\ [Next]_vars => [\A p \in Readers : RefusedNow(p) => p \in strained]_vars
  BY <1>1
<1>. QED  BY <1>2, Invariance, PTL DEF Spec, RefusedOnlyByRotation

(* Whatever backups break off, are refused or are cut off by a rotation,   *)
(* and for every BACKUP_KEEP, the newest completed dump is kept.           *)
THEOREM NewestGoodIsKept == Spec => []NewestGoodStays
<1>1. IInv => NewestGoodStays
  BY DEF IInv, FileInv
<1>. QED  BY <1>1, Invariance, PTL

(* A drill turns a whole dump down only if orders were committed between   *)
(* its checksum and its snapshot, or it has no checksum of its own.        *)
THEOREM MismatchIsExcused == Spec => []MismatchNeedsWriters
<1>1. IInv => MismatchNeedsWriters
  BY DEF IInv, FileInv, DrillInv
<1>. QED  BY <1>1, Invariance, PTL
=============================================================================

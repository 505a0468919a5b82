---------------------------- MODULE Operations ----------------------------
(***************************************************************************)
(* The scripts an operator runs against the live database, together:       *)
(* SecretRotation, the nightly scripts/backup.sh and restore-drill.sh.     *)
(* They meet in the secret file, which lib-db.sh reads when a script       *)
(* starts, in the role's password, which each psql and pg_dump is asked    *)
(* for, and in pg_terminate_backend, which cuts pg_dump off.               *)
(*                                                                         *)
(* The state of the table orders is the number of commits before it: it    *)
(* stands for the count and the sum of total_cents, which are taken to     *)
(* tell any two states apart.  One backup and one drill run at a time.     *)
(***************************************************************************)
EXTENDS SecretRotation, SequencesExt

CONSTANTS BackupKeep     \* BACKUP_KEEP

Budget == [ users : BOOLEAN, rotations : Nat, deaths : Nat, restarts : Nat,
            commits : Nat, backups : Nat, drills : Nat ]

ASSUME OperationsAssumption ==
  /\ BackupKeep \in Nat \ {0} /\ Budgets \subseteq Budget
  /\ {"backup", "drill"} \cap Clients = {}

VARIABLES orders,        \* the table
          files,         \* BACKUP_DIR, oldest first: each dump with its sidecar
          given,         \* password of DATABASE_URL or PGPASSWORD of the
                         \*   scripts, None when they have neither
          backup, drill, \* the two scripts
          strained,      \* history: who has seen an unsettled moment since
                         \*   the password that it uses was read
          good           \* history: the newest dump that was completed

operationsVars == <<orders, files, given, backup, drill, good>>
vars == <<left, rotationVars, poolVars, operationsVars, strained>>

NoBackup == [at |-> "off", pass |-> 0, sum |-> 0, raced |-> FALSE]
NoDrill == [at |-> "off", pass |-> 0, file |-> 0, expected |-> 0, excuse |-> FALSE,
            result |-> "none"]

Init ==
  /\ RotationInit
  /\ orders = 0 /\ files = <<>> /\ good = None /\ given \in {None, 0}
  /\ backup = NoBackup /\ drill = NoDrill /\ strained = {}

(* The service commits something that moves the checksum.                  *)
CommitOrder ==
  /\ Spend("commits")
  /\ orders' = orders + 1
  /\ backup' = [backup EXCEPT !.raced = @ \/ backup.at = "dump"]
  /\ UNCHANGED <<rotationVars, poolVars, given, files, drill, good>>

----------------------------------------------------------------------------
(* lib-db.sh.                                                              *)

(* The password of DATABASE_URL, else PGPASSWORD, else the secret file.    *)
DbPassword == IF given # None THEN given ELSE secret

(* pg_tool goes to Postgres itself, never through PgBouncer.               *)
PgToolLogsIn(pass) == pass = role

ChecksumOfLiveDb == orders

----------------------------------------------------------------------------
(* backup.sh.                                                              *)

StartBackup ==
  /\ backup.at = "off" /\ Spend("backups")
  /\ backup' = [at |-> "sum", pass |-> DbPassword, sum |-> 0, raced |-> FALSE]
  /\ UNCHANGED <<rotationVars, poolVars, given, orders, files, drill, good>>

TakeChecksum ==
  /\ backup.at = "sum" /\ PgToolLogsIn(backup.pass)
  /\ backup' = [at |-> "dump", pass |-> backup.pass, sum |-> ChecksumOfLiveDb, raced |-> FALSE]
  /\ UNCHANGED <<left, rotationVars, poolVars, given, orders, files, drill, good>>

(* "$DUMP_FILE" as the shell makes it; its stamp is the number of backups  *)
(* that are left.                                                          *)
NewFile == [name |-> left.backups, whole |-> FALSE, rows |-> orders, sidecar |-> None,
            raced |-> backup.raced]

(* pg_dump > "$DUMP_FILE": pg_dump logs in and takes its snapshot.         *)
BeginDump ==
  /\ backup.at = "dump" /\ PgToolLogsIn(backup.pass)
  /\ files' = Append(files, NewFile)
  /\ backup' = [backup EXCEPT !.at = "copy"]
  /\ UNCHANGED <<left, rotationVars, poolVars, given, orders, drill, good>>

FinishDump ==
  /\ backup.at = "copy"
  /\ files' = [files EXCEPT ![Len(files)].whole = TRUE]
  /\ good' = Last(files).name
  /\ backup' = [backup EXCEPT !.at = "note"]
  /\ UNCHANGED <<left, rotationVars, poolVars, given, orders, drill>>

(* Mutant: one checksum file for the whole directory.                      *)
WriteOneSidecar ==
  /\ backup.at = "note"
  /\ files' = [i \in DOMAIN files |-> [files[i] EXCEPT !.sidecar = backup.sum]]
  /\ backup' = [backup EXCEPT !.at = "clean"]
  /\ UNCHANGED <<left, rotationVars, poolVars, given, orders, drill, good>>

(* The sidecars; nobody reads the .sha256.                                 *)
WriteSidecar ==
  /\ backup.at = "note"
  /\ files' = [files EXCEPT ![Len(files)].sidecar = backup.sum]
  /\ backup' = [backup EXCEPT !.at = "clean"]
  /\ UNCHANGED <<left, rotationVars, poolVars, given, orders, drill, good>>

(* Mutant: ls -1tr, the newest last.                                       *)
Oldest(n) == SubSeq(files, 1, IF Len(files) > n THEN n ELSE Len(files))

(* ls -1t | tail -n +$((BACKUP_KEEP + 1))                                  *)
Newest(n) == SubSeq(files, IF Len(files) > n THEN Len(files) - n + 1 ELSE 1, Len(files))

CleanUp ==
  /\ backup.at = "clean"
  /\ files' = Newest(BackupKeep)
  /\ backup' = NoBackup
  /\ UNCHANGED <<left, rotationVars, poolVars, given, orders, drill, good>>

(* psql or pg_dump is refused; the latter leaves an empty file.            *)
BackupRefused ==
  /\ backup.at \in {"sum", "dump"} /\ ~PgToolLogsIn(backup.pass)
  /\ files' = IF backup.at = "sum" THEN files
              ELSE Append(files, NewFile)
  /\ backup' = NoBackup
  /\ UNCHANGED <<left, rotationVars, poolVars, given, orders, drill, good>>

(* pg_dump fails, or the script is killed: set -e, nothing is cleaned up.  *)
BackupDies ==
  /\ backup.at # "off" /\ Spend("deaths")
  /\ backup' = NoBackup
  /\ UNCHANGED <<rotationVars, poolVars, given, orders, files, drill, good>>

----------------------------------------------------------------------------
(* restore-drill.sh.                                                       *)

PickDump ==
  /\ drill.at = "off" /\ files # <<>> /\ Spend("drills")
  /\ drill' = [at |-> "picked", pass |-> DbPassword, file |-> Last(files).name,
                expected |-> 0, excuse |-> FALSE, result |-> "none"]
  /\ UNCHANGED <<rotationVars, poolVars, given, orders, files, backup, good>>

Picked == {i \in DOMAIN files : files[i].name = drill.file}

HasSidecar == \E i \in Picked : files[i].sidecar # None

(* The checksum of the dump, or for want of it the live database's.        *)
ReadSidecar ==
  /\ drill.at = "picked"
  /\ \E i \in Picked :
       /\ files[i].sidecar # None
       /\ drill' = [at |-> "expects", pass |-> drill.pass, file |-> drill.file,
                     expected |-> files[i].sidecar, excuse |-> files[i].raced, result |-> "none"]
  /\ UNCHANGED <<left, rotationVars, poolVars, given, orders, files, backup, good>>

ReadLiveChecksum ==
  /\ drill.at = "picked" /\ ~HasSidecar /\ PgToolLogsIn(drill.pass)
  /\ drill' = [at |-> "expects", pass |-> drill.pass, file |-> drill.file,
                expected |-> ChecksumOfLiveDb, excuse |-> TRUE, result |-> "none"]
  /\ UNCHANGED <<left, rotationVars, poolVars, given, orders, files, backup, good>>

(* pg_restore into a clean cluster, and the checksum of what it restored.  *)
Restore ==
  /\ drill.at = "expects"
  /\ \E i \in Picked :
       /\ files[i].whole
       /\ drill' = [at |-> "off", pass |-> 0, file |-> 0, expected |-> 0, excuse |-> drill.excuse,
                     result |-> IF drill.expected = files[i].rows THEN "MATCH" ELSE "MISMATCH"]
  /\ UNCHANGED <<left, rotationVars, poolVars, given, orders, files, backup, good>>

(* pg_restore rejects a dump that is not whole or is gone, psql is refused. *)
DrillFails ==
  /\ \/ drill.at = "expects" /\ (\A i \in Picked : ~files[i].whole)
     \/ drill.at = "picked" /\ ~HasSidecar /\ ~PgToolLogsIn(drill.pass)
  /\ drill' = [NoDrill EXCEPT !.result = "failed"]
  /\ UNCHANGED <<left, rotationVars, poolVars, given, orders, files, backup, good>>

(* The clean cluster does not come up; the trap removes it.                *)
DrillDies ==
  /\ drill.at # "off" /\ Spend("deaths")
  /\ drill' = NoDrill
  /\ UNCHANGED <<rotationVars, poolVars, given, orders, files, backup, good>>

----------------------------------------------------------------------------
(* pg_terminate_backend does not spare the session of pg_dump.             *)
TerminateAll(s) ==
  /\ Terminate(s)
  /\ backup' = IF backup.at = "copy" THEN NoBackup ELSE backup
  /\ UNCHANGED <<orders, files, given, drill, good>>

OperatorStep ==
  \/ CommitOrder
  \/ StartBackup \/ TakeChecksum \/ BeginDump \/ FinishDump \/ WriteSidecar \/ CleanUp
  \/ BackupRefused \/ BackupDies
  \/ PickDump \/ ReadSidecar \/ ReadLiveChecksum \/ Restore \/ DrillFails \/ DrillDies

Step ==
  \/ OperatorStep
  \/ \E s \in Scripts : TerminateAll(s)
  \/ ((\E s \in Scripts : ScriptStep(s)) \/ UpdateUserlist \/ PoolStep) /\ UNCHANGED operationsVars

(* Who still uses the password that he read.                               *)
Uses(p) ==
  CASE p = "backup" -> backup.at # "off"
    [] p = "drill" -> drill.at # "off"
    [] OTHER -> client[p].at \in {"login", "proof", "wrong"}

Next ==
  /\ Step
  /\ strained' = {p \in Clients \cup {"backup", "drill"} :
                    Unsettled' \/ (p \in strained /\ Uses(p))}

Spec == Init /\ [][Next]_vars

----------------------------------------------------------------------------
(* Properties.                                                             *)

(* Who is refused in this step.                                            *)
RefusedNow(p) ==
  CASE p = "backup" -> backup.at \in {"sum", "dump"} /\ backup'.at = "off" /\ left' = left
    [] p = "drill" -> drill.at = "picked" /\ drill'.at = "off" /\ left' = left
    [] OTHER -> client[p].at = "wrong"

(* Who reads the secret file each time that he needs a password: the pool  *)
(* always, the scripts unless one was given to them, orm() never.          *)
Readers == Clients \cup (IF given = None THEN {"backup", "drill"} ELSE {})

(* Nobody who reads the secret file is refused unless a rotation was       *)
(* between ALTER ROLE and mv since he read it, or broke off there, or      *)
(* overlapped another one, or PgBouncer had not been told.                 *)
RefusedOnlyByRotation == [][\A p \in Readers : RefusedNow(p) => p \in strained]_vars

(* A whole dump that the drill turns down was taken while orders were      *)
(* committed between the checksum and the snapshot, or it has no sidecar   *)
(* and was compared with the live database: no file is taken for another,  *)
(* no sidecar for that of another dump.                                    *)
MismatchNeedsWriters == drill.result = "MISMATCH" => drill.excuse

(* However many backups break off, and whatever they leave behind, the     *)
(* newest dump that was completed is still there.                          *)
NewestGoodStays ==
  good # None => \E i \in DOMAIN files : files[i].name = good /\ files[i].whole
=============================================================================

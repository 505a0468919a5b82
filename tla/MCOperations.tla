--------------------------- MODULE MCOperations ---------------------------
(* Small instances of Operations for TLC.                                  *)
EXTENDS Operations

Limits(users, rotations, deaths, restarts, commits, backups, drills) ==
  [users |-> users, rotations |-> rotations, deaths |-> deaths, restarts |-> restarts,
   commits |-> commits, backups |-> backups, drills |-> drills]

(* The service under rotations that overlap, break off, or meet a restart; *)
(* backups and drills under a rotation; a longer row of backups.           *)
MCBudgets ==
  { Limits(TRUE, 2, 1, 0, 0, 0, 0), Limits(TRUE, 1, 0, 1, 0, 0, 0),
    Limits(FALSE, 1, 1, 0, 1, 2, 1), Limits(FALSE, 2, 0, 0, 1, 1, 1),
    Limits(FALSE, 0, 1, 0, 2, 3, 1) }
=============================================================================

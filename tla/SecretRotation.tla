-------------------------- MODULE SecretRotation --------------------------
(***************************************************************************)
(* Rotation of the database password under a running service: rotate.sh,   *)
(* the pool of DatabaseService (db/database.service.ts), its TypeORM       *)
(* connection, and PgBouncer when DB_URL goes through it.                  *)
(*                                                                         *)
(* A password is the number of ALTER ROLEs before it.  Postgres takes the  *)
(* role's verifier when a login begins, the client then calls password(),  *)
(* which reads the secret file, and Postgres compares: three steps.        *)
(* psql of rotate.sh reads the file and logs in at once.                   *)
(***************************************************************************)
EXTENDS Integers

CONSTANTS Scripts,       \* runs of rotate.sh that may overlap
          Requests,      \* queries of the service
          Clients,       \* slots of its pool, DB_POOL_MAX
          Budgets,       \* bound: how many rotations, deaths, restarts there
                         \*   may be, and whether users send requests
          None

VARIABLES mode,          \* MODE: psql is trusted in the container or not
          route,         \* DB_URL: Postgres itself or PgBouncer
          left,          \* what is left of the budget
          role,          \* the password in Postgres
          secret, tmp,   \* DB_PASSWORD_FILE and its .tmp
          userlist,      \* the password in PgBouncer's auth_file
          script,        \* script[s]: where rotate.sh is, its NEW_PASSWORD
          broken,        \* history: a rotation broke off half way, or two
                         \*   overlapped, and none began alone after it
          done,          \* history: the newest rotation that was completed
          client,        \* the pool
          using,         \* what each request waits for
          served,        \* PgBouncer has a session of its own with Postgres
          orm,           \* ormConnection
          env            \* PGPASSWORD of the service, None when it has none

rotationVars == <<mode, route, role, secret, tmp, userlist, script, broken, done>>
poolVars == <<client, using, served, orm, env>>

Closed == [at |-> "none", pass |-> 0, alive |-> FALSE, late |-> FALSE]
Done == [at |-> "off", new |-> 0]

RotationInit ==
  /\ mode \in {"compose", "local"} /\ route \in {"direct", "pooler"}
  /\ left \in Budgets
  /\ role = 0 /\ secret = 0 /\ tmp = None /\ userlist = 0
  /\ script = [s \in Scripts |-> Done]
  /\ broken = FALSE /\ done = 0
  /\ client = [c \in Clients |-> Closed]
  /\ using = [r \in Requests |-> "none"]
  /\ served = FALSE /\ orm = "none" /\ env \in {None, 0}

(* Takes one of what the budget has of k.                                  *)
Spend(k) == left[k] > 0 /\ left' = [left EXCEPT ![k] = @ - 1]

----------------------------------------------------------------------------
(* rotate.sh.                                                              *)

(* psql_exec: the unix socket of the container is trusted, TCP is not.     *)
PsqlLogsIn == mode = "compose" \/ secret = role

(* Between ALTER ROLE and mv.                                              *)
InWindow(s) == script[s].at \in {"write", "move"}

Start(s) ==
  /\ script[s].at = "off" /\ Spend("rotations")
  /\ script' = [script EXCEPT ![s].at = "alter"]
  /\ UNCHANGED <<mode, route, role, secret, tmp, userlist, broken, done, poolVars>>

AlterRole(s) ==
  /\ script[s].at = "alter" /\ PsqlLogsIn
  /\ role' = role + 1
  /\ script' = [script EXCEPT ![s] = [at |-> "write", new |-> role + 1]]
  /\ broken' = \E t \in Scripts \ {s} : InWindow(t)
  /\ UNCHANGED <<mode, route, left, secret, tmp, userlist, done, poolVars>>

(* printf > "$SECRET_FILE.tmp"                                             *)
WriteTmp(s) ==
  /\ script[s].at = "write"
  /\ tmp' = script[s].new
  /\ script' = [script EXCEPT ![s].at = "move"]
  /\ UNCHANGED <<mode, route, left, role, secret, userlist, broken, done, poolVars>>

(* mv -f; set -e ends the script when another one has moved the file.      *)
MoveSecret(s) ==
  /\ script[s].at = "move"
  /\ IF tmp = None
       THEN script' = [script EXCEPT ![s] = Done] /\ broken' = TRUE /\ UNCHANGED <<secret, tmp>>
       ELSE /\ secret' = tmp /\ tmp' = None
            /\ script' = [script EXCEPT ![s].at = "kill"]
            /\ UNCHANGED broken
  /\ UNCHANGED <<mode, route, left, role, userlist, done, poolVars>>

(* What pg_terminate_backend does to the sessions of the service.  A login *)
(* in progress is no session yet.  Behind PgBouncer the sessions are its   *)
(* own: the client whose query runs is cut off, idle ones notice nothing.  *)
Terminated(c) ==
  LET cut == client[c].at = "busy" \/ (client[c].at = "idle" /\ route = "direct")
  IN [ at |-> client[c].at, pass |-> client[c].pass, alive |-> client[c].alive /\ ~cut,
       late |-> client[c].at \in {"login", "proof", "wrong"} ]

SessionsTerminated ==
  /\ client' = [c \in Clients |-> Terminated(c)]
  /\ served' = FALSE
  /\ orm' = IF orm = "up" /\ route = "direct" THEN "down" ELSE orm

(* Mutant: only the sessions that run no query are terminated.             *)
TerminateIdle(s) ==
  /\ script[s].at = "kill" /\ PsqlLogsIn
  /\ client' = [c \in Clients |-> IF client[c].at = "busy" THEN client[c] ELSE Terminated(c)]
  /\ served' = FALSE
  /\ orm' = IF orm = "up" /\ route = "direct" THEN "down" ELSE orm
  /\ done' = IF script[s].new > done THEN script[s].new ELSE done
  /\ script' = [script EXCEPT ![s] = Done]
  /\ UNCHANGED <<mode, route, left, role, secret, tmp, userlist, broken, using, env>>

(* The count, then pg_terminate_backend of all but the own session.        *)
Terminate(s) ==
  /\ script[s].at = "kill" /\ PsqlLogsIn
  /\ SessionsTerminated
  /\ done' = IF script[s].new > done THEN script[s].new ELSE done
  /\ script' = [script EXCEPT ![s] = Done]
  /\ UNCHANGED <<mode, route, left, role, secret, tmp, userlist, broken, using, env>>

(* psql is refused, and set -e ends the script.                            *)
ScriptRefused(s) ==
  /\ script[s].at \in {"alter", "kill"} /\ ~PsqlLogsIn
  /\ script' = [script EXCEPT ![s] = Done]
  /\ UNCHANGED <<mode, route, left, role, secret, tmp, userlist, broken, done, poolVars>>

ScriptDies(s) ==
  /\ script[s].at # "off" /\ Spend("deaths")
  /\ broken' = (broken \/ InWindow(s))
  /\ script' = [script EXCEPT ![s] = Done]
  /\ UNCHANGED <<mode, route, role, secret, tmp, userlist, done, poolVars>>

(* README: the operator writes the new password to userlist.txt and sends  *)
(* RELOAD.                                                                 *)
UpdateUserlist ==
  /\ route = "pooler" /\ userlist # role
  /\ userlist' = role
  /\ UNCHANGED <<mode, route, left, role, secret, tmp, script, broken, done, poolVars>>

----------------------------------------------------------------------------
(* The pool of DatabaseService.                                            *)

(* What a login of the service is checked against.                         *)
Verifier == IF route = "direct" THEN role ELSE userlist

(* query(), ping()                                                         *)
Query(r) ==
  /\ using[r] = "none" /\ left.users
  /\ using' = [using EXCEPT ![r] = "waiting"]
  /\ UNCHANGED <<left, rotationVars, client, served, orm, env>>

(* An idle client, whose socket may be dead already without the pool       *)
(* having been told.                                                       *)
TakeIdle(r, c) ==
  /\ using[r] = "waiting" /\ client[c].at = "idle"
  /\ using' = [using EXCEPT ![r] = c]
  /\ client' = [client EXCEPT ![c].at = "busy"]
  /\ UNCHANGED <<left, rotationVars, served, orm, env>>

Connect(r, c) ==
  /\ using[r] = "waiting" /\ client[c].at = "none"
  /\ \A d \in Clients : client[d].at # "idle"
  /\ using' = [using EXCEPT ![r] = c]
  /\ client' = [client EXCEPT ![c] =
       [at |-> "login", pass |-> Verifier, alive |-> FALSE, late |-> FALSE]]
  /\ UNCHANGED <<left, rotationVars, served, orm, env>>

(* connectionTimeoutMillis                                                 *)
TimesOut(r) ==
  /\ using[r] = "waiting" /\ \A c \in Clients : client[c].at # "none"
  /\ using' = [using EXCEPT ![r] = "none"]
  /\ UNCHANGED <<left, rotationVars, client, served, orm, env>>

(* Mutant: the password comes from the environment of the process.         *)
PasswordOfEnv == env

(* password: () => this.readPassword()                                     *)
ReadPassword == secret

ReadSecret(r, c) ==
  /\ using[r] = c /\ client[c].at = "login"
  /\ client' = [client EXCEPT ![c].at = IF ReadPassword = client[c].pass THEN "proof" ELSE "wrong"]
  /\ UNCHANGED <<left, rotationVars, using, served, orm, env>>

Login(r, c) ==
  /\ using[r] = c /\ client[c].at = "proof"
  /\ client' = [client EXCEPT ![c] =
       [at |-> "busy", pass |-> client[c].pass, alive |-> TRUE, late |-> client[c].late]]
  /\ UNCHANGED <<left, rotationVars, using, served, orm, env>>

(* password authentication failed: the query rejects.                      *)
LoginRefused(r, c) ==
  /\ using[r] = c /\ client[c].at = "wrong"
  /\ client' = [client EXCEPT ![c] = Closed]
  /\ using' = [using EXCEPT ![r] = "none"]
  /\ UNCHANGED <<left, rotationVars, served, orm, env>>

(* Behind PgBouncer a query also needs a session of PgBouncer's.           *)
Backed == route = "direct" \/ served \/ userlist = role

Reaches(c) == client[c].alive /\ Backed

Answer(r, c) ==
  /\ using[r] = c /\ client[c].at = "busy" /\ Reaches(c)
  /\ using' = [using EXCEPT ![r] = "none"]
  /\ client' = [client EXCEPT ![c].at = "idle"]
  /\ served' = (route = "pooler")
  /\ UNCHANGED <<left, rotationVars, orm, env>>

(* Mutant: the client goes back to the pool whatever became of the query.  *)
QueryLostAndReleased(r, c) ==
  /\ using[r] = c /\ client[c].at = "busy" /\ ~Reaches(c)
  /\ using' = [using EXCEPT ![r] = "none"]
  /\ client' = [client EXCEPT ![c].at = "idle"]
  /\ UNCHANGED <<left, rotationVars, served, orm, env>>

(* The query rejects and the pool drops the client.                        *)
QueryLost(r, c) ==
  /\ using[r] = c /\ client[c].at = "busy" /\ ~Reaches(c)
  /\ using' = [using EXCEPT ![r] = "none"]
  /\ client' = [client EXCEPT ![c] = Closed]
  /\ UNCHANGED <<left, rotationVars, served, orm, env>>

(* pool.on('error'): the socket of an idle client is closed; the pool has  *)
(* dropped it, and the handler keeps the process alive.                    *)
IdleError(c) ==
  /\ client[c].at = "idle" /\ ~client[c].alive
  /\ client' = [client EXCEPT ![c] = Closed]
  /\ UNCHANGED <<left, rotationVars, using, served, orm, env>>

(* orm() for a checkout: the DataSource is made once, from DB_URL, which   *)
(* has no password, so that pg falls back on PGPASSWORD; a rejected        *)
(* promise is kept.                                                        *)
Checkout ==
  /\ left.users /\ orm # "rejected"
  /\ orm' = IF Backed /\ (orm = "up" \/ env = Verifier) THEN "up"
            ELSE IF orm = "none" THEN "rejected" ELSE "down"
  /\ UNCHANGED <<left, rotationVars, client, using, served, env>>

(* onApplicationShutdown, and a new process in the same environment:       *)
(* nothing brings that up to date.                                         *)
Restart ==
  /\ Spend("restarts")
  /\ client' = [c \in Clients |-> Closed]
  /\ using' = [r \in Requests |-> "none"]
  /\ orm' = "none"
  /\ UNCHANGED <<rotationVars, served, env>>

----------------------------------------------------------------------------
(* A login may fail for the rotation's sake: it is in its window, or broke *)
(* off there, or PgBouncer has not been told.                              *)
Unsettled ==
  broken \/ (\E s \in Scripts : InWindow(s)) \/ (route = "pooler" /\ userlist # role)

ScriptStep(s) ==
  Start(s) \/ AlterRole(s) \/ WriteTmp(s) \/ MoveSecret(s) \/ ScriptRefused(s) \/ ScriptDies(s)

PoolStep ==
  \/ \E r \in Requests : Query(r) \/ TimesOut(r)
  \/ \E r \in Requests, c \in Clients :
       \/ TakeIdle(r, c) \/ Connect(r, c) \/ ReadSecret(r, c)
       \/ Login(r, c) \/ LoginRefused(r, c) \/ Answer(r, c) \/ QueryLost(r, c)
  \/ \E c \in Clients : IdleError(c)
  \/ Checkout \/ Restart

----------------------------------------------------------------------------
(* Properties.                                                             *)

(* A rotation that is through leaves no session of an older password       *)
(* behind, except one that was still logging in when the others were       *)
(* terminated: its backend is not in pg_stat_activity yet.                 *)
OldSessionsEnd ==
  \A c \in Clients :
    /\ route = "direct" /\ client[c].at \in {"idle", "busy"}
    /\ client[c].alive /\ client[c].pass < done
    => client[c].late

(* A query that had a client, or tried to log in, comes back with an error.*)
QueryFails ==
  \E r \in Requests, c \in Clients :
    /\ using[r] = c /\ using'[r] = "none"
    /\ client[c].at # "busy" \/ ~Reaches(c)

(* Rotation without a restart: unless a rotation broke off, or PgBouncer   *)
(* was not told, failures come to an end, whatever idle connections the    *)
(* rotation left dead in the pool.                                         *)
FailuresPass == <>[](~Unsettled) => <>[][~QueryFails]_<<client, using>>
=============================================================================

------------------------------- MODULE Demos -------------------------------
(***************************************************************************)
(* The demonstration programs that check themselves.  Each is one main()   *)
(* that drives a component, waits until something has shown, reads its     *)
(* numbers one after another while the component goes on, and reports      *)
(* which of its invariants the numbers break:                              *)
(*   duplicate  demo-duplicate.ts and its child crash-consumer.ts          *)
(*   dlq        demo-dlq.ts                                                *)
(*   publish    demo-publish.ts                                            *)
(*   relay      demo-crash-relay.ts                                        *)
(*   outbox     demo-outbox.ts                                             *)
(*   workers    demo-workers.ts, whose pool is TaskWorkers                 *)
(* The first five run on OrderPipeline, relay and outbox with the inbox.   *)
(* As there, the COMMIT of an effect and its answer are two steps, and     *)
(* what the broker does with a reject is part of it.                       *)
(***************************************************************************)
EXTENDS TaskWorkers, Sequences, FiniteSets

CONSTANTS Scripts,            \* the programs a run starts, one at a time
          Placed,             \* ORDERS_TO_PLACE of demo:publish
          Main, Child, Relay, \* the consumers and the relay of a script
          Poison,
          BatchSize, Prefetch, DeliveryLimit,
          MaxMishaps          \* bound: crashes and failed statements

ASSUME DemosAssumption ==
  /\ Scripts \subseteq {"duplicate", "dlq", "publish", "relay", "outbox", "workers"}
  /\ Placed \in Nat \ {0}
  /\ Main # Child /\ None \notin {Main, Child}
  /\ Poison \notin 1 .. Placed
  /\ BatchSize \in Nat \ {0} /\ Prefetch \in Nat \ {0}
  /\ DeliveryLimit \in Nat /\ MaxMishaps \in Nat

VARIABLES row, attempts, batch, bound, msgs, consumer, work,
          inbox, picking, applied, mishaps,  \* OrderPipeline
          script, at,   \* which program runs, and where its main() is
          stats,        \* ConsumerStats of both consumers
          seen,         \* the numbers main has read
          late          \* a waitFor gave up

pipeVars == <<row, attempts, batch, bound, msgs, consumer, work, inbox, picking,
              applied, mishaps>>
demoVars == <<vars, pipeVars, script, at, stats, seen, late>>

P(UseInbox) == INSTANCE OrderPipeline
  WITH Orders <- 1 .. Placed, Relays <- {Relay}, Consumers <- {Main, Child},
       TopologyFirst <- TRUE, MaxPoison <- 1, MaxFaults <- MaxMishaps,
       Faults <- {"consumerDies", "relayFails", "applyFails"},
       status <- consumer, running <- {Relay}, faults <- mishaps

WithInbox == script \in {"relay", "outbox"}

Numbers == {"published", "deliveries", "applied", "skipped", "rejected", "effect",
            "processed", "marked", "unmarked", "outbox", "replay", "work", "dlq",
            "dropped", "done", "twice", "pending"}

(* assertTopology, empty queues, empty tables.                             *)
DemoInit ==
  /\ Init
  /\ P(TRUE)!Init
  /\ script \in Scripts
  /\ at = "start"
  /\ stats = [c \in {Main, Child} |->
                [deliveries |-> 0, applied |-> 0, skipped |-> 0, rejected |-> 0]]
  /\ seen = [n \in Numbers |-> 0]
  /\ late = FALSE

----------------------------------------------------------------------------
(* What the consumers of a script do by themselves.                        *)

Count(c, what) == stats' = [stats EXCEPT ![c][what] = @ + 1]

Receive(c, m) == P(FALSE)!Deliver(c, m) /\ Count(c, "deliveries")

Refuse(k) == P(FALSE)!Reject(k) /\ Count(k.by, "rejected")

Apply(k) ==
  \/ /\ ~WithInbox
     /\ P(FALSE)!ApplyPickingTask(k)
     /\ IF msgs[k.msg].id \in picking THEN Count(k.by, "skipped") ELSE UNCHANGED stats
  \/ /\ WithInbox
     /\ P(TRUE)!ClaimInbox(k)
     /\ IF msgs[k.msg].id \in inbox THEN Count(k.by, "skipped") ELSE UNCHANGED stats
  \/ WithInbox /\ P(TRUE)!ApplyEffect(k) /\ UNCHANGED stats
  \/ P(FALSE)!Told(k) /\ Count(k.by, "applied")

(* The child never gets to its ack, its afterEffect kills it first.        *)
Confirm(k) == k.by # Child /\ P(FALSE)!Ack(k) /\ UNCHANGED stats

(* The database fails under a callback, or the answer of a COMMIT that was *)
(* done is lost: nack(requeue = true).                                     *)
Fumble(k) == k.phase # "done" /\ P(FALSE)!ApplyFails(k) /\ UNCHANGED stats

ConsumerStep ==
  /\ \/ \E c \in {Main, Child}, m \in DOMAIN msgs : Receive(c, m)
     \/ \E k \in work : Refuse(k) \/ Apply(k) \/ Confirm(k) \/ Fumble(k)
  /\ UNCHANGED <<vars, script, at, seen, late>>

----------------------------------------------------------------------------
(* What main does.  A step of a script goes from one line to another.      *)

Line(s, from, to) == script = s /\ at = from /\ at' = to /\ UNCHANGED <<vars, script>>

Read(new) == seen' = [n \in Numbers |-> IF n \in DOMAIN new THEN new[n] ELSE seen[n]]

(* checkQueue: messageCount is of messages that are ready.                 *)
Depth(place) == Cardinality({m \in DOMAIN msgs : msgs[m].at = place})

(* Mutant: a wait that does not wait.                                      *)
WaitForNothing(condition) == UNCHANGED <<pipeVars, stats, seen, late>>

(* waitFor: polls until the condition holds or the time is up.             *)
WaitFor(condition) ==
  /\ late' = (late \/ ~condition)
  /\ UNCHANGED <<pipeVars, stats, seen>>

Look(new) == Read(new) /\ UNCHANGED <<pipeVars, stats, late>>

Subscribe(c) == P(FALSE)!StartConsumer(c) /\ UNCHANGED <<stats, seen, late>>

(* checkout() and the publication after its COMMIT.                        *)
PublishEvent(o) ==
  /\ P(FALSE)!Send(o)
  /\ Read([published |-> seen["published"] + 1])
  /\ UNCHANGED <<row, attempts, batch, bound, consumer, work, inbox, picking,
                 applied, mishaps, stats, late>>

Effect == Cardinality(picking)
Marked == Cardinality({o \in DOMAIN row : row[o] = "published"})
Unmarked == Cardinality({o \in DOMAIN row : row[o] = "pending"})

(* demo:duplicate: the child applies the event and kills itself.           *)
DuplicateChild ==
  \/ Line("duplicate", "start", "ready") /\ Subscribe(Child)
  \/ Line("duplicate", "ready", "child") /\ PublishEvent(1)
  \/ /\ Line("duplicate", "child", "again")
     /\ \E k \in work : k.by = Child /\ k.phase = "done"
     /\ P(FALSE)!ConsumerDies(Child)
     /\ Read([deliveries |-> stats[Child].deliveries])
     /\ UNCHANGED <<stats, late>>

(* Then a second consumer gets the event, and main counts.                 *)
DuplicateMain ==
  \/ Line("duplicate", "again", "wait") /\ Subscribe(Main)
  \/ Line("duplicate", "wait", "drain") /\ WaitFor(stats[Main].deliveries >= 1)
  \/ /\ Line("duplicate", "drain", "count")
     /\ late' = (late \/ Depth("ready") > 0)
     /\ Read([work |-> Depth("ready")])
     /\ UNCHANGED <<pipeVars, stats>>
  \/ /\ Line("duplicate", "count", "effect")
     /\ Look([deliveries |-> seen["deliveries"] + stats[Main].deliveries])
  \/ /\ Line("duplicate", "effect", "dlq")
     /\ Look([effect |-> Effect, skipped |-> stats[Main].skipped])
  \/ Line("duplicate", "dlq", "reported") /\ Look([dlq |-> Depth("dead")])

(* demo:dlq: a body without an eventId.                                    *)
Dlq ==
  \/ Line("dlq", "start", "publish") /\ Subscribe(Main)
  \/ /\ Line("dlq", "publish", "wait")
     /\ P(FALSE)!PublishPoison /\ UNCHANGED <<stats, seen, late>>
  \/ Line("dlq", "wait", "poll") /\ WaitFor(stats[Main].rejected >= 1)
  \/ /\ Line("dlq", "poll", "count")
     /\ late' = (late \/ Depth("dead") < 1)
     /\ Read([dlq |-> Depth("dead")])
     /\ UNCHANGED <<pipeVars, stats>>
  \/ Line("dlq", "count", "effect") /\ Look([work |-> Depth("ready")])
  \/ /\ Line("dlq", "effect", "reported")
     /\ Look([effect |-> Effect, rejected |-> stats[Main].rejected])

(* demo:publish: an event for each checkout, one after another.            *)
PublishAll ==
  \/ Line("publish", "start", "loop") /\ Subscribe(Main)
  \/ /\ Line("publish", "loop", "loop")
     /\ seen["published"] < Placed
     /\ PublishEvent(seen["published"] + 1)
  \/ /\ Line("publish", "loop", "work")
     /\ seen["published"] = Placed
     /\ WaitFor(stats[Main].applied >= Placed)
  \/ Line("publish", "work", "dlq") /\ Look([work |-> Depth("ready")])
  \/ /\ Line("publish", "dlq", "reported")
     /\ Look([dlq |-> Depth("dead"), applied |-> stats[Main].applied,
              dropped |-> Depth("dropped")])

(* relayOnce in a script: a pass over the one row.                         *)
RelayPass(s, from, to) ==
  \/ /\ Line(s, from, "publishing")
     /\ P(TRUE)!SelectBatch(Relay) /\ UNCHANGED <<stats, seen, late>>
  \/ /\ Line(s, "publishing", "marking")
     /\ P(TRUE)!Publish(Relay)
     /\ Read([published |-> seen["published"] + 1])
     /\ UNCHANGED <<stats, late>>
  \/ /\ Line(s, "marking", to)
     /\ P(TRUE)!CommitBatch(Relay) /\ UNCHANGED <<stats, seen, late>>

(* demo:crash-relay, first pass: betweenPublishAndMark throws.             *)
CrashRelay ==
  \/ Line("relay", "start", "place") /\ Subscribe(Main)
  \/ /\ Line("relay", "place", "select")
     /\ P(TRUE)!Place(1) /\ UNCHANGED <<stats, seen, late>>
  \/ /\ Line("relay", "select", "crash")
     /\ P(TRUE)!SelectBatch(Relay) /\ UNCHANGED <<stats, seen, late>>
  \/ /\ Line("relay", "crash", "thrown")
     /\ P(TRUE)!Publish(Relay)
     /\ Read([published |-> 1]) /\ UNCHANGED <<stats, late>>
  \/ /\ Line("relay", "thrown", "wait")
     /\ P(TRUE)!RelayFails(Relay) /\ UNCHANGED <<stats, seen, late>>

(* Second pass, and the numbers.                                           *)
RelayAgain ==
  \/ Line("relay", "wait", "unmarked") /\ WaitFor(stats[Main].deliveries >= 1)
  \/ Line("relay", "unmarked", "second") /\ Look([unmarked |-> Unmarked])
  \/ RelayPass("relay", "second", "delivered")
  \/ Line("relay", "delivered", "skipped") /\ WaitFor(stats[Main].deliveries >= 2)
  \/ Line("relay", "skipped", "marked") /\ WaitFor(stats[Main].skipped >= 1)
  \/ /\ Line("relay", "marked", "effect")
     /\ Look([deliveries |-> stats[Main].deliveries, marked |-> Marked])
  \/ Line("relay", "effect", "processed") /\ Look([effect |-> Effect])
  \/ Line("relay", "processed", "reported") /\ Look([processed |-> Cardinality(inbox)])

(* demo:outbox: two POSTs with one key, then the relay.                    *)
OutboxMain ==
  \/ Line("outbox", "start", "first") /\ Subscribe(Main)
  \/ /\ Line("outbox", "first", "second")
     /\ P(TRUE)!Place(1) /\ UNCHANGED <<stats, seen, late>>
  \/ /\ Line("outbox", "second", "count")
     /\ Look([replay |-> IF row[1] = "none" THEN 0 ELSE 1])
  \/ Line("outbox", "count", "pass") /\ Look([outbox |-> Marked + Unmarked])
  \/ RelayPass("outbox", "pass", "delivered")
  \/ Line("outbox", "delivered", "applied") /\ WaitFor(stats[Main].deliveries >= 1)
  \/ Line("outbox", "applied", "effect") /\ WaitFor(stats[Main].applied >= 1)
  \/ Line("outbox", "effect", "processed") /\ Look([effect |-> Effect])
  \/ Line("outbox", "processed", "reported") /\ Look([processed |-> Cardinality(inbox)])

(* demo:workers: main waits for all workers.  It rejects with the first    *)
(* that fails, and reports nothing.                                        *)
WorkersMain ==
  /\ script = "workers" /\ at = "start"
  /\ IF faults > 0 THEN at' = "failed" /\ UNCHANGED seen
     ELSE /\ \A w \in Workers : pc[w] = "stopped"
          /\ at' = "reported"
          /\ Read([done |-> Cardinality({t \in Tasks : status[t] = "done"}),
                   twice |-> Cardinality({t \in Tasks : processed[t] > 1}),
                   pending |-> Cardinality({t \in Tasks : status[t] = "pending"})])
  /\ UNCHANGED <<vars, pipeVars, script, stats, late>>

PoolStep ==
  /\ script = "workers" /\ at # "reported"
  /\ Next
  /\ UNCHANGED <<pipeVars, script, at, stats, seen, late>>

DemoNext ==
  \/ ConsumerStep
  \/ DuplicateChild \/ DuplicateMain \/ Dlq \/ PublishAll
  \/ CrashRelay \/ RelayAgain \/ OutboxMain
  \/ WorkersMain \/ PoolStep

DemoSpec == DemoInit /\ [][DemoNext]_demoVars

----------------------------------------------------------------------------
(* What the programs report.                                               *)

(* The invariants each program checks.  Those of demo:workers about times  *)
(* are left out.                                                           *)
DuplicateChecks ==
  [twice |-> seen["deliveries"] >= 2, once |-> seen["effect"] = 1,
   skipped |-> seen["skipped"] >= 1, drained |-> seen["work"] = 0,
   noDead |-> seen["dlq"] = 0]

DlqChecks ==
  [rejected |-> seen["rejected"] = 1, drained |-> seen["work"] = 0,
   dead |-> seen["dlq"] = 1, noEffect |-> seen["effect"] = 0]

PublishChecks ==
  [published |-> seen["published"] = Placed, applied |-> seen["applied"] = Placed,
   noDead |-> seen["dlq"] = 0, drained |-> seen["work"] = 0,
   routed |-> seen["dropped"] = 0]

RelayChecks ==
  [published |-> seen["published"] >= 2, twice |-> seen["deliveries"] >= 2,
   marked |-> seen["marked"] = 1, once |-> seen["effect"] = 1,
   processed |-> seen["processed"] = 1, unmarked |-> seen["unmarked"] = 1]

OutboxChecks ==
  [outbox |-> seen["outbox"] = 1, published |-> seen["published"] = 1,
   once |-> seen["effect"] = 1, processed |-> seen["processed"] = 1,
   replay |-> seen["replay"] = 1]

WorkersChecks ==
  [twice |-> seen["twice"] = 0, done |-> seen["done"] = Cardinality(Tasks \ Late),
   pending |-> seen["pending"] = 0]

Checks ==
  CASE script = "duplicate" -> DuplicateChecks
    [] script = "dlq" -> DlqChecks
    [] script = "publish" -> PublishChecks
    [] script = "relay" -> RelayChecks
    [] script = "outbox" -> OutboxChecks
    [] script = "workers" -> WorkersChecks

(* report(): the broken ones; none makes it a success.                     *)
Broken == {c \in DOMAIN Checks : ~Checks[c]}

----------------------------------------------------------------------------
(* Properties.                                                             *)

(* What a success is meant to have shown.                                  *)
Shown ==
  CASE script = "duplicate" ->
         Effect = 1 /\ msgs[1].returns >= 1 /\ msgs[1].at \in {"held", "acked"}
    [] script = "dlq" -> Effect = 0 /\ Depth("dead") = 1 /\ Depth("ready") = 0
    [] script = "publish" ->
         Effect = Placed /\ \A m \in DOMAIN msgs : msgs[m].at \in {"held", "acked"}
    [] script = "relay" -> Effect = 1 /\ Len(msgs) = 2 /\ Marked = 1 /\ inbox = picking
    [] script = "outbox" -> Effect = 1 /\ Len(msgs) = 1 /\ Marked = 1 /\ inbox = picking
    [] script = "workers" -> \A t \in Tasks \ Late : status[t] = "done" /\ processed[t] = 1

(* A success is true: main reads its numbers one after another, from a     *)
(* database, a broker and counters that go on changing, with waits that    *)
(* may have been given up, and yet what they are meant to show is so when  *)
(* it reports.                                                             *)
SuccessIsTrue == at = "reported" /\ Broken = {} => Shown

(* A failure has a reason: a wait that was given up, a statement that      *)
(* failed, a task that came late.  One program may fail without any:       *)
(* demo:duplicate counts the skipped delivery when the queue has nothing   *)
(* ready, and by then the callback may still be at work.                   *)
FailureHasReason ==
  at = "reported" /\ ~late /\ (\A t \in Late : status[t] = "none")
    /\ mishaps = (IF script \in {"duplicate", "relay"} THEN 1 ELSE 0)
  => IF script = "duplicate" THEN Broken \subseteq {"skipped"} ELSE Broken = {}

(* Both.                                                                   *)
ReportsAreRight == SuccessIsTrue /\ FailureHasReason
=============================================================================

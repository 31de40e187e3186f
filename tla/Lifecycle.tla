------------------------------ MODULE Lifecycle ------------------------------
(***************************************************************************)
(* Server processes over one Postgres and one Redis, from main() to exit:    *)
(* app.New with its migrations, the goroutine that listens, signals,         *)
(* Shutdown and Close.  A process that ended is started again by its         *)
(* supervisor.  A step is one call that can fail or wait, with the local     *)
(* code up to the next.                                                      *)
(*                                                                          *)
(* The schema is the set of migrations that took effect; version is what     *)
(* goose reads from goose_db_version, the version of its newest record.      *)
(***************************************************************************)
EXTENDS Naturals

CONSTANTS
  Proc,       \* server processes
  Request,    \* requests of clients
  Last,       \* the number of migrations
  OneShot,    \* the migrations that fail when their effect is already there
  MaxFaults,  \* bound on failing calls and crashes
  MaxSignals  \* bound on SIGINT and SIGTERM

ASSUME LifecycleAssumption ==
  /\ Last \in Nat /\ OneShot \subseteq 1..Last
  /\ MaxFaults \in Nat /\ MaxSignals \in Nat

VARIABLES
  pc,        \* where main() is
  open,      \* the handles the process holds: pool, Redis client, goose's own pool
  server,    \* the goroutine that listens
  active,    \* the requests whose handler runs
  signalled, \* whether the channel quit holds a signal
  outcome,   \* how the last run of the process ended
  seen,      \* the version goose has read in it
  version,   \* the newest version in goose_db_version
  schema,    \* the migrations that have taken effect
  faults, signals

processVars == <<pc, open, server, active, signalled, outcome>>
database == <<version, schema>>
vars == <<processVars, seen, database, faults, signals>>

StartPc == {"pgOpen", "pgPing", "redisPing", "gooseOpen", "gooseVersion", "gooseUp"}
PC == StartPc \cup {"down", "notify", "wait", "shutdown", "redisClose", "pgClose", "fatal"}
Handles == {"pg", "redis", "goose"}

Init ==
  /\ pc = [p \in Proc |-> "down"]
  /\ open = [p \in Proc |-> {}]
  /\ server = [p \in Proc |-> "none"]
  /\ active = [p \in Proc |-> {}]
  /\ signalled = [p \in Proc |-> FALSE]
  /\ outcome = [p \in Proc |-> "none"]
  /\ seen = [p \in Proc |-> 0]
  /\ version \in 0..Last /\ schema = 1..version
  /\ faults = 0 /\ signals = 0

Goto(p, l) == pc' = [pc EXCEPT ![p] = l]
Open(p, h) == open' = [open EXCEPT ![p] = @ \cup {h}]
Close(p, hs) == open' = [open EXCEPT ![p] = @ \ hs]

Fault == faults < MaxFaults /\ faults' = faults + 1

\* The process is gone: the kernel takes back what it held.
Exit(p, how) ==
  /\ Goto(p, "down")
  /\ open' = [open EXCEPT ![p] = {}]
  /\ server' = [server EXCEPT ![p] = "none"]
  /\ active' = [active EXCEPT ![p] = {}]
  /\ signalled' = [signalled EXCEPT ![p] = FALSE]
  /\ outcome' = [outcome EXCEPT ![p] = how]

-----------------------------------------------------------------------------
(***************************************************************************)
(* app.New.                                                                 *)
(***************************************************************************)

\* A call of New returns, and New goes on to the next.
Call(p, from, to) ==
  /\ pc[p] = from /\ Goto(p, to)
  /\ UNCHANGED <<server, active, signalled, outcome, database, signals>>

\* A call of New fails: New closes hs and returns the error.
CallFails(p, from, hs) ==
  /\ Call(p, from, "fatal") /\ Close(p, hs)
  /\ UNCHANGED seen

Start(p) == Call(p, "down", "pgOpen") /\ UNCHANGED <<open, seen, faults>>

OpenPostgres(p) == Call(p, "pgOpen", "pgPing") /\ Open(p, "pg") /\ UNCHANGED <<seen, faults>>
OpenPostgresFails(p) == CallFails(p, "pgOpen", {}) /\ Fault

\* newRedis starts with a client that has not connected yet.
PingPostgres(p) == Call(p, "pgPing", "redisPing") /\ Open(p, "redis") /\ UNCHANGED <<seen, faults>>
PingPostgresFails(p) == CallFails(p, "pgPing", {"pg"}) /\ Fault

PingRedis(p) == Call(p, "redisPing", "gooseOpen") /\ UNCHANGED <<open, seen, faults>>

\* Mutant of PingRedisFails: New returns without closing the pool.
PingRedisLeaks(p) == CallFails(p, "redisPing", {"redis"}) /\ Fault

PingRedisFails(p) == CallFails(p, "redisPing", {"redis", "pg"}) /\ Fault

OpenGoose(p) == Call(p, "gooseOpen", "gooseVersion") /\ Open(p, "goose") /\ UNCHANGED <<seen, faults>>
OpenGooseFails(p) == CallFails(p, "gooseOpen", {"redis", "pg"}) /\ Fault

-----------------------------------------------------------------------------
(***************************************************************************)
(* goose.Up: read the version, run the next migration in a transaction that  *)
(* also records it, and again until there is no next one.                    *)
(***************************************************************************)

\* Mutant of ReadVersion: a migration is looked for after the last one.
ReadBeyond(p) ==
  /\ Call(p, "gooseVersion", "gooseUp")
  /\ seen' = [seen EXCEPT ![p] = version]
  /\ UNCHANGED <<open, faults>>

ReadVersion(p) ==
  /\ version < Last
  /\ Call(p, "gooseVersion", "gooseUp")
  /\ seen' = [seen EXCEPT ![p] = version]
  /\ UNCHANGED <<open, faults>>

\* Nothing is left to do: the migrations' own pool is closed, the router is
\* built, and main starts the goroutine that listens.
UpToDate(p) ==
  /\ pc[p] = "gooseVersion" /\ version = Last
  /\ Goto(p, "notify") /\ Close(p, {"goose"})
  /\ server' = [server EXCEPT ![p] = "starting"]
  /\ UNCHANGED <<active, signalled, outcome, seen, database, faults, signals>>

Next1(p) == seen[p] + 1

\* The effect of the migration goose runs next in p, and its record.
Apply(p) == version' = Next1(p) /\ schema' = schema \cup {Next1(p)}

Conflicts(p) == Next1(p) \in OneShot \cap schema

Migrate(p) ==
  /\ pc[p] = "gooseUp" /\ ~Conflicts(p)
  /\ Goto(p, "gooseVersion") /\ Apply(p)
  /\ UNCHANGED <<open, server, active, signalled, outcome, seen, faults, signals>>

\* ALTER TABLE ADD COLUMN without IF NOT EXISTS, after another process: the
\* transaction is rolled back and goose.Up fails.
MigrateConflicts(p) ==
  /\ Conflicts(p)
  /\ CallFails(p, "gooseUp", Handles)
  /\ UNCHANGED faults

\* Mutant of MigrateFails: New ignores the error of runMigrations.
MigrateIgnored(p) ==
  /\ pc[p] = "gooseUp" /\ Fault
  /\ Goto(p, "notify") /\ Close(p, {"goose"})
  /\ server' = [server EXCEPT ![p] = "starting"]
  /\ UNCHANGED <<active, signalled, outcome, seen, database, signals>>

MigrateFails(p) == CallFails(p, "gooseUp", Handles) /\ Fault

ReadVersionFails(p) == CallFails(p, "gooseVersion", Handles) /\ Fault

\* Mutant of MigrateReplyLost: the effect and its record are two transactions.
MigrateHalf(p) ==
  /\ pc[p] = "gooseUp" /\ ~Conflicts(p) /\ Fault
  /\ schema' = schema \cup {Next1(p)} /\ UNCHANGED version
  /\ Goto(p, "fatal") /\ Close(p, Handles)
  /\ UNCHANGED <<server, active, signalled, outcome, seen, signals>>

\* The transaction commits, its reply is lost.
MigrateReplyLost(p) ==
  /\ pc[p] = "gooseUp" /\ ~Conflicts(p) /\ Fault
  /\ Apply(p)
  /\ Goto(p, "fatal") /\ Close(p, Handles)
  /\ UNCHANGED <<server, active, signalled, outcome, seen, signals>>

\* log.Fatalf.
Fatal(p) ==
  /\ pc[p] = "fatal" /\ Exit(p, "fatal")
  /\ UNCHANGED <<seen, database, faults, signals>>

-----------------------------------------------------------------------------
(***************************************************************************)
(* Serving, and the end.                                                    *)
(***************************************************************************)

Listen(p) ==
  /\ server[p] = "starting"
  /\ server' = [server EXCEPT ![p] = "listening"]
  /\ UNCHANGED <<pc, open, active, signalled, outcome, seen, database, faults, signals>>

\* ListenAndServe fails: panic in its goroutine ends the process.
ListenFails(p) ==
  /\ server[p] = "starting" /\ Fault
  /\ Exit(p, "panic")
  /\ UNCHANGED <<seen, database, signals>>

Begin(p, r) ==
  /\ server[p] = "listening" /\ \A q \in Proc : r \notin active[q]
  /\ active' = [active EXCEPT ![p] = @ \cup {r}]
  /\ UNCHANGED <<pc, open, server, signalled, outcome, seen, database, faults, signals>>

Finish(p, r) ==
  /\ r \in active[p]
  /\ active' = [active EXCEPT ![p] = @ \ {r}]
  /\ UNCHANGED <<pc, open, server, signalled, outcome, seen, database, faults, signals>>

\* signal.Notify.
Notify(p) ==
  /\ pc[p] = "notify" /\ Goto(p, "wait")
  /\ UNCHANGED <<open, server, active, signalled, outcome, seen, database, faults, signals>>

\* Before Notify a signal ends the process; after it, it goes to the channel,
\* which holds one and drops the others.
Signal(p) ==
  /\ pc[p] # "down"
  /\ signals < MaxSignals /\ signals' = signals + 1
  /\ IF pc[p] \in StartPc \cup {"notify", "fatal"}
     THEN Exit(p, "killed")
     ELSE /\ signalled' = [signalled EXCEPT ![p] = TRUE]
          /\ UNCHANGED <<pc, open, server, active, outcome>>
  /\ UNCHANGED <<seen, database, faults>>

\* Mutant of Quit: the application is closed before the server.
QuitAndClose(p) ==
  /\ pc[p] = "wait" /\ signalled[p]
  /\ Goto(p, "shutdown") /\ Close(p, {"redis"})
  /\ server' = [server EXCEPT ![p] = "closed"]
  /\ signalled' = [signalled EXCEPT ![p] = FALSE]
  /\ UNCHANGED <<active, outcome, seen, database, faults, signals>>

\* <-quit, and Shutdown closes the listener (or keeps the goroutine from
\* listening at all).
Quit(p) ==
  /\ pc[p] = "wait" /\ signalled[p]
  /\ Goto(p, "shutdown")
  /\ server' = [server EXCEPT ![p] = "closed"]
  /\ signalled' = [signalled EXCEPT ![p] = FALSE]
  /\ UNCHANGED <<open, active, outcome, seen, database, faults, signals>>

\* Shutdown returns when no handler runs any more.
Drained(p) ==
  /\ pc[p] = "shutdown" /\ active[p] = {}
  /\ Goto(p, "redisClose")
  /\ UNCHANGED <<open, server, active, signalled, outcome, seen, database, faults, signals>>

\* Mutants of DrainTimeout: no deadline; its error is ignored.
NoDeadline(p) == FALSE /\ UNCHANGED vars
DrainGivenUp(p) ==
  /\ pc[p] = "shutdown" /\ active[p] # {}
  /\ Goto(p, "redisClose")
  /\ UNCHANGED <<open, server, active, signalled, outcome, seen, database, faults, signals>>

\* Ten seconds have passed: panic.
DrainTimeout(p) ==
  /\ pc[p] = "shutdown" /\ active[p] # {}
  /\ Exit(p, "panic")
  /\ UNCHANGED <<seen, database, faults, signals>>

CloseRedis(p) ==
  /\ pc[p] = "redisClose" /\ Goto(p, "pgClose") /\ Close(p, {"redis"})
  /\ UNCHANGED <<server, active, signalled, outcome, seen, database, faults, signals>>

\* pool.Close, and main returns.
ClosePostgres(p) ==
  /\ pc[p] = "pgClose" /\ Exit(p, "ok")
  /\ UNCHANGED <<seen, database, faults, signals>>

\* SIGKILL, a power cut, a panic of the runtime.
Crash(p) ==
  /\ pc[p] # "down" /\ Fault
  /\ Exit(p, "killed")
  /\ UNCHANGED <<seen, database, signals>>

\* What a process does by itself, as long as its calls succeed.
Run(p) ==
  \/ OpenPostgres(p) \/ PingPostgres(p) \/ PingRedis(p) \/ OpenGoose(p)
  \/ ReadVersion(p) \/ UpToDate(p) \/ Migrate(p) \/ MigrateConflicts(p) \/ Fatal(p)
  \/ Notify(p) \/ Quit(p) \/ Drained(p) \/ DrainTimeout(p) \/ CloseRedis(p) \/ ClosePostgres(p)

Fail(p) ==
  \/ OpenPostgresFails(p) \/ PingPostgresFails(p) \/ PingRedisFails(p) \/ OpenGooseFails(p)
  \/ ReadVersionFails(p) \/ MigrateFails(p) \/ MigrateReplyLost(p) \/ ListenFails(p) \/ Crash(p)

Next ==
  \E p \in Proc :
    \/ Start(p) \/ Run(p) \/ Listen(p) \/ Fail(p) \/ Signal(p)
    \/ \E r \in Request : Begin(p, r) \/ Finish(p, r)

Spec == Init /\ [][Next]_vars

\* Main and the listening goroutine are scheduled, calls return, Shutdown's
\* deadline passes, and the supervisor starts what has ended.  Handlers may run
\* for ever, and nobody has to send a signal.
FairSpec ==
  Spec /\ \A p \in Proc : WF_vars(Start(p)) /\ WF_vars(Run(p)) /\ WF_vars(Listen(p))

-----------------------------------------------------------------------------
(***************************************************************************)
(* Properties.                                                              *)
(***************************************************************************)

\* Every variable holds what the process or the database can hold.
TypeOK ==
  /\ pc \in [Proc -> PC]
  /\ open \in [Proc -> SUBSET Handles]
  /\ server \in [Proc -> {"none", "starting", "listening", "closed"}]
  /\ active \in [Proc -> SUBSET Request]
  /\ signalled \in [Proc -> BOOLEAN]
  /\ outcome \in [Proc -> {"none", "ok", "fatal", "panic", "killed"}]
  /\ seen \in [Proc -> 0..Last]
  /\ version \in 0..Last /\ schema \in SUBSET (1..Last)
  /\ faults \in Nat /\ signals \in Nat

\* Whichever of its calls fails, New returns the error with every handle it
\* opened closed again.
FailedStartClosesAll == \A p \in Proc : pc[p] = "fatal" => open[p] = {}

\* No handler runs without the pool and the Redis client, however signal,
\* listening goroutine, Shutdown and Close interleave.
HandlesOutliveRequests == \A p \in Proc : active[p] # {} => {"pg", "redis"} \subseteq open[p]

\* A process that serves, serves over a schema with all migrations, whatever
\* other processes were migrating at the same time or died of it.
ServesMigrated == \A p \in Proc : server[p] = "listening" => schema = 1..Last

\* main returns only when every request has been answered and nobody can send
\* another.
CleanExit ==
  [][\A p \in Proc : pc[p] # "down" /\ pc'[p] = "down" /\ outcome'[p] = "ok"
       => active[p] = {} /\ server[p] = "closed"]_vars

\* A signal that main has been told of ends the process, also when a handler
\* never returns.
SignalEnds == \A p \in Proc : signalled[p] ~> pc[p] = "down"

\* A process is about to run a migration whose number another has recorded.
Overtaken == \E p \in Proc : pc[p] = "gooseUp" /\ seen[p] # version

\* goose's records say what the schema holds.
Recorded == schema = 1..version

\* No failing migration, lost reply, signal or crash sets the schema and goose's
\* records apart: only a process that another one has overtaken can.
OnlyRacesDesync == [][Recorded /\ ~Overtaken => Recorded']_vars

\* A process whose supervisor starts it again after each failure comes to
\* serve: nothing that failed starts and lost replies leave behind stops it,
\* unless two processes migrate at once and one overtakes the other.
ServesUnlessRaced ==
  (\A p \in Proc : pc[p] = "pgOpen" ~> server[p] = "listening") \/ <>Overtaken

-----------------------------------------------------------------------------
(***************************************************************************)
(* What the repository says of the program, and the code does not keep.     *)
(***************************************************************************)

\* README.md: migrations run automatically at the start, so whoever starts comes
\* to serve, also beside another process that starts.
StartsServe == \A p \in Proc : pc[p] = "pgOpen" ~> server[p] = "listening"
=============================================================================

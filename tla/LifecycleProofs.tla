--------------------------- MODULE LifecycleProofs ---------------------------
(***************************************************************************)
(* Start, service and end of any number of processes, with any number of     *)
(* migrations, faults and signals.                                          *)
(***************************************************************************)
EXTENDS Lifecycle, TLAPS

\* The handles a process holds where main() is.
HeldAt(l) ==
  CASE l \in {"down", "pgOpen", "fatal"}                              -> {}
    [] l \in {"pgPing", "pgClose"}                                    -> {"pg"}
    [] l \in {"gooseVersion", "gooseUp"}                              -> Handles
    [] l \in {"redisPing", "gooseOpen", "notify", "wait", "shutdown", "redisClose"} -> {"pg", "redis"}

Held == \A p \in Proc : open[p] = HeldAt(pc[p])

\* What main() has reached bounds what the listening goroutine and the handlers do.
Threads ==
  \A p \in Proc :
    /\ server[p] \in {"starting", "listening"} => pc[p] \in {"notify", "wait"}
    /\ pc[p] \in {"shutdown", "redisClose", "pgClose"} => server[p] = "closed"
    /\ active[p] # {} => pc[p] \in {"notify", "wait", "shutdown"}

\* Migrations take effect in order, and goose only trusts versions whose
\* migration has.
Migrations ==
  /\ \A m \in schema : 1..m \subseteq schema
  /\ version # 0 => version \in schema
  /\ \A p \in Proc :
       /\ seen[p] # 0 => seen[p] \in schema
       /\ pc[p] = "gooseUp" => seen[p] < Last
       /\ server[p] \in {"starting", "listening"} => schema = 1..Last

LifecycleInv == TypeOK /\ Held /\ Threads /\ Migrations

-----------------------------------------------------------------------------

\* Where main() may go, and that it holds the right handles there.
LEMMA HeldStep ==
  ASSUME TypeOK, Held, Threads, [Next]_vars
  PROVE  Held' /\ Threads'
<1> USE DEF TypeOK, Held, Threads, HeldAt, Handles, Goto, Open, Close
<1>1. ASSUME NEW p \in Proc, Start(p)
      PROVE  Held' /\ Threads'
  BY <1>1 DEF Start, Call
<1>2. ASSUME NEW p \in Proc,
             OpenPostgres(p) \/ PingPostgres(p) \/ PingRedis(p) \/ OpenGoose(p) \/ ReadVersion(p)
      PROVE  Held' /\ Threads'
  <2>1. CASE OpenPostgres(p)
    BY <2>1 DEF OpenPostgres, Call
  <2>2. CASE PingPostgres(p)
    BY <2>2 DEF PingPostgres, Call
  <2>3. CASE PingRedis(p)
    BY <2>3 DEF PingRedis, Call
  <2>4. CASE OpenGoose(p)
    BY <2>4 DEF OpenGoose, Call
  <2>5. CASE ReadVersion(p)
    BY <2>5 DEF ReadVersion, Call
  <2> QED
    BY <1>2, <2>1, <2>2, <2>3, <2>4, <2>5
<1>3. ASSUME NEW p \in Proc, UpToDate(p)
      PROVE  Held' /\ Threads'
  BY <1>3 DEF UpToDate
<1>4. ASSUME NEW p \in Proc, Migrate(p)
      PROVE  Held' /\ Threads'
  BY <1>4 DEF Migrate
<1>5. ASSUME NEW p \in Proc, NEW from \in StartPc, NEW hs, HeldAt(from) \subseteq hs, CallFails(p, from, hs)
      PROVE  Held' /\ Threads'
  <2>1. /\ pc[p] = from /\ pc' = [pc EXCEPT ![p] = "fatal"] /\ UNCHANGED <<server, active>>
        /\ open' = [open EXCEPT ![p] = open[p] \ hs]
    BY <1>5 DEF CallFails, Call
  <2>2. open'[p] = {}
    <3>1. open[p] = HeldAt(from)
      BY <2>1
    <3> HIDE DEF HeldAt
    <3> QED
      BY <1>5, <2>1, <3>1
  <2>3. Held'
    BY <2>1, <2>2
  <2>4. pc[p] \notin {"notify", "wait", "shutdown"}
    BY <1>5, <2>1 DEF StartPc
  <2>5. Threads'
    BY <2>1, <2>4
  <2> QED
    BY <2>3, <2>5
<1>6. ASSUME NEW p \in Proc, \/ OpenPostgresFails(p) \/ PingPostgresFails(p) \/ PingRedisFails(p)
                             \/ OpenGooseFails(p) \/ ReadVersionFails(p) \/ MigrateFails(p) \/ MigrateConflicts(p)
      PROVE  Held' /\ Threads'
  BY <1>5, <1>6 DEF OpenPostgresFails, PingPostgresFails, PingRedisFails, OpenGooseFails, ReadVersionFails,
     MigrateFails, MigrateConflicts, StartPc
<1>7. ASSUME NEW p \in Proc, MigrateReplyLost(p)
      PROVE  Held' /\ Threads'
  BY <1>7 DEF MigrateReplyLost
<1>8. ASSUME NEW p \in Proc, NEW how, Exit(p, how)
      PROVE  Held' /\ Threads'
  BY <1>8 DEF Exit
<1>9. ASSUME NEW p \in Proc, Fatal(p) \/ ListenFails(p) \/ DrainTimeout(p) \/ ClosePostgres(p) \/ Crash(p)
      PROVE  Held' /\ Threads'
  BY <1>8, <1>9 DEF Fatal, ListenFails, DrainTimeout, ClosePostgres, Crash
<1>10. ASSUME NEW p \in Proc, Signal(p)
       PROVE  Held' /\ Threads'
  BY <1>8, <1>10 DEF Signal
<1>11. ASSUME NEW p \in Proc, Listen(p) \/ (\E r \in Request : Begin(p, r) \/ Finish(p, r))
       PROVE  Held' /\ Threads'
  BY <1>11 DEF Listen, Begin, Finish
<1>12. ASSUME NEW p \in Proc, Notify(p) \/ Quit(p) \/ Drained(p) \/ CloseRedis(p)
       PROVE  Held' /\ Threads'
  <2>1. CASE Notify(p)
    BY <2>1 DEF Notify
  <2>2. CASE Quit(p)
    BY <2>2 DEF Quit
  <2>3. CASE Drained(p)
    BY <2>3 DEF Drained
  <2>4. CASE CloseRedis(p)
    BY <2>4 DEF CloseRedis
  <2> QED
    BY <1>12, <2>1, <2>2, <2>3, <2>4
<1>13. CASE UNCHANGED vars
  BY <1>13 DEF vars, processVars
<1> QED
  BY <1>1, <1>2, <1>3, <1>4, <1>6, <1>7, <1>9, <1>10, <1>11, <1>12, <1>13 DEF Next, Run, Fail

\* A migration takes effect after the ones before it.
LEMMA ApplyStep ==
  ASSUME TypeOK, Migrations, NEW p \in Proc, pc[p] = "gooseUp", Apply(p), UNCHANGED <<seen, server>>,
         \A q \in Proc : pc'[q] = "gooseUp" => pc[q] = "gooseUp"
  PROVE  Migrations' /\ version' \in 0..Last /\ schema' \in SUBSET (1..Last)
<1> USE LifecycleAssumption DEF TypeOK, Migrations, Apply, Next1
<1>1. Next1(p) \in 1..Last /\ 1..Next1(p) = 1..seen[p] \cup {Next1(p)}
  OBVIOUS
<1>2. 1..seen[p] \subseteq schema
  OBVIOUS
<1>3. schema' = schema \cup {Next1(p)} /\ version' = Next1(p)
  OBVIOUS
<1>4. \A m \in schema' : 1..m \subseteq schema'
  BY <1>1, <1>2, <1>3
<1>5. schema = 1..Last => schema' = 1..Last
  BY <1>1, <1>3
<1>6. version' \in 0..Last /\ schema' \in SUBSET (1..Last) /\ (version' # 0 => version' \in schema')
  <2>1. Next1(p) \in 0..Last /\ schema \subseteq 1..Last
    BY <1>1
  <2> HIDE DEF TypeOK, Migrations, Apply, Next1
  <2> QED
    BY <1>1, <1>3, <2>1
<1>7. ASSUME NEW q \in Proc
      PROVE  /\ seen'[q] # 0 => seen'[q] \in schema'
             /\ pc'[q] = "gooseUp" => seen'[q] < Last
             /\ server'[q] \in {"starting", "listening"} => schema' = 1..Last
  BY <1>3, <1>5
<1> QED
  BY <1>4, <1>6, <1>7

\* Migrations run in order in every process, and nobody listens before all ran.
LEMMA MigrationStep ==
  ASSUME TypeOK, Migrations, [Next]_vars
  PROVE  Migrations'
<1> USE LifecycleAssumption DEF TypeOK, Goto
<1>0. ASSUME UNCHANGED <<seen, database>>, \A q \in Proc : pc'[q] = "gooseUp" => pc[q] = "gooseUp",
             \A q \in Proc : server'[q] \in {"starting", "listening"} => server[q] \in {"starting", "listening"}
      PROVE  Migrations'
  BY <1>0 DEF Migrations, database
<1>1. ASSUME NEW p \in Proc, \/ Start(p) \/ OpenPostgres(p) \/ PingPostgres(p) \/ PingRedis(p) \/ OpenGoose(p)
                             \/ OpenPostgresFails(p) \/ PingPostgresFails(p) \/ PingRedisFails(p)
                             \/ OpenGooseFails(p) \/ ReadVersionFails(p) \/ MigrateFails(p) \/ MigrateConflicts(p)
      PROVE  Migrations'
  BY <1>0, <1>1 DEF Start, OpenPostgres, PingPostgres, PingRedis, OpenGoose, OpenPostgresFails, PingPostgresFails,
     PingRedisFails, OpenGooseFails, ReadVersionFails, MigrateFails, MigrateConflicts, CallFails, Call, database
<1>2. ASSUME NEW p \in Proc, ReadVersion(p)
      PROVE  Migrations'
  BY <1>2 DEF ReadVersion, Call, Migrations, database
<1>3. ASSUME NEW p \in Proc, UpToDate(p)
      PROVE  Migrations'
  <2>1. schema = 1..Last \/ Last = 0
    BY <1>3 DEF UpToDate, Migrations
  <2>2. schema = 1..Last
    <3>1. Last = 0 => 1..Last = {}
      OBVIOUS
    <3> QED
      BY <2>1, <3>1
  <2> QED
    BY <1>3, <2>2 DEF UpToDate, Migrations, database
<1>4. ASSUME NEW p \in Proc, Migrate(p) \/ MigrateReplyLost(p)
      PROVE  Migrations'
  BY <1>4, ApplyStep DEF Migrate, MigrateReplyLost
<1>5. ASSUME NEW p \in Proc, NEW how, Exit(p, how), UNCHANGED <<seen, database>>
      PROVE  Migrations'
  BY <1>0, <1>5 DEF Exit
<1>6. ASSUME NEW p \in Proc, \/ Fatal(p) \/ ListenFails(p) \/ DrainTimeout(p) \/ ClosePostgres(p) \/ Crash(p)
                             \/ Signal(p)
      PROVE  Migrations'
  BY <1>0, <1>5, <1>6 DEF Fatal, ListenFails, DrainTimeout, ClosePostgres, Crash, Signal
<1>7. ASSUME NEW p \in Proc, \/ Listen(p) \/ (\E r \in Request : Begin(p, r) \/ Finish(p, r))
                             \/ Notify(p) \/ Quit(p) \/ Drained(p) \/ CloseRedis(p)
      PROVE  Migrations'
  BY <1>0, <1>7 DEF Listen, Begin, Finish, Notify, Quit, Drained, CloseRedis
<1>8. CASE UNCHANGED vars
  BY <1>0, <1>8 DEF vars, processVars
<1> QED
  BY <1>1, <1>2, <1>3, <1>4, <1>6, <1>7, <1>8 DEF Next, Run, Fail

\* Every step keeps the types.
LEMMA TypeStep ==
  ASSUME TypeOK, Migrations, [Next]_vars
  PROVE  TypeOK'
<1> USE LifecycleAssumption DEF TypeOK, Goto, Open, Close, Handles, PC, StartPc, Fault
<1>1. ASSUME NEW p \in Proc, NEW from, NEW to \in PC, Call(p, from, to), seen' \in [Proc -> 0..Last],
             open' \in [Proc -> SUBSET Handles], faults' \in Nat
      PROVE  TypeOK'
  BY <1>1 DEF Call, database
<1>2. ASSUME NEW p \in Proc, Start(p) \/ PingRedis(p)
      PROVE  TypeOK'
  BY <1>1, <1>2 DEF Start, PingRedis
<1>3. ASSUME NEW p \in Proc, OpenPostgres(p) \/ PingPostgres(p) \/ OpenGoose(p) \/ ReadVersion(p)
      PROVE  TypeOK'
  BY <1>1, <1>3 DEF OpenPostgres, PingPostgres, OpenGoose, ReadVersion
<1>4. ASSUME NEW p \in Proc, NEW from, NEW hs, CallFails(p, from, hs), faults' \in Nat
      PROVE  TypeOK'
  BY <1>1, <1>4 DEF CallFails
<1>5. ASSUME NEW p \in Proc, \/ OpenPostgresFails(p) \/ PingPostgresFails(p) \/ PingRedisFails(p)
                             \/ OpenGooseFails(p) \/ ReadVersionFails(p) \/ MigrateFails(p) \/ MigrateConflicts(p)
      PROVE  TypeOK'
  BY <1>4, <1>5 DEF OpenPostgresFails, PingPostgresFails, PingRedisFails, OpenGooseFails, ReadVersionFails,
     MigrateFails, MigrateConflicts
<1>6. ASSUME NEW p \in Proc, UpToDate(p)
      PROVE  TypeOK'
  BY <1>6 DEF UpToDate, database
<1>7. ASSUME NEW p \in Proc, Migrate(p) \/ MigrateReplyLost(p)
      PROVE  TypeOK'
  <2>1. version' \in 0..Last /\ schema' \in SUBSET (1..Last)
    BY <1>7, ApplyStep DEF Migrate, MigrateReplyLost
  <2> QED
    BY <1>7, <2>1 DEF Migrate, MigrateReplyLost
<1>8. ASSUME NEW p \in Proc, NEW how \in {"ok", "fatal", "panic", "killed"}, Exit(p, how),
             UNCHANGED <<seen, database>>, faults' \in Nat, signals' \in Nat
      PROVE  TypeOK'
  BY <1>8 DEF Exit, database
<1>9. ASSUME NEW p \in Proc, Fatal(p) \/ ListenFails(p) \/ DrainTimeout(p) \/ ClosePostgres(p) \/ Crash(p)
      PROVE  TypeOK'
  BY <1>8, <1>9 DEF Fatal, ListenFails, DrainTimeout, ClosePostgres, Crash
<1>10. ASSUME NEW p \in Proc, Signal(p)
       PROVE  TypeOK'
  <2>1. UNCHANGED <<seen, database, faults>> /\ signals' \in Nat
    BY <1>10 DEF Signal
  <2>2. CASE Exit(p, "killed")
    BY <1>8, <2>1, <2>2
  <2>3. CASE ~Exit(p, "killed")
    BY <1>10, <2>1, <2>3 DEF Signal, database
  <2> QED
    BY <2>2, <2>3
<1>11. ASSUME NEW p \in Proc, \/ Listen(p) \/ (\E r \in Request : Begin(p, r) \/ Finish(p, r))
       PROVE  TypeOK'
  <2>1. CASE Listen(p)
    BY <2>1 DEF Listen, database
  <2>2. ASSUME NEW r \in Request, Begin(p, r)
        PROVE  TypeOK'
    BY <2>2 DEF Begin, database
  <2>3. ASSUME NEW r \in Request, Finish(p, r)
        PROVE  TypeOK'
    BY <2>3 DEF Finish, database
  <2> QED
    BY <1>11, <2>1, <2>2, <2>3
<1>12. ASSUME NEW p \in Proc, Notify(p) \/ Quit(p) \/ Drained(p) \/ CloseRedis(p)
       PROVE  TypeOK'
  <2>1. CASE Notify(p)
    BY <2>1 DEF Notify, database
  <2>2. CASE Quit(p)
    BY <2>2 DEF Quit, database
  <2>3. CASE Drained(p)
    BY <2>3 DEF Drained, database
  <2>4. CASE CloseRedis(p)
    BY <2>4 DEF CloseRedis, database
  <2> QED
    BY <1>12, <2>1, <2>2, <2>3, <2>4
<1>13. CASE UNCHANGED vars
  BY <1>13 DEF vars, processVars, database
<1> QED
  BY <1>2, <1>3, <1>5, <1>6, <1>7, <1>9, <1>10, <1>11, <1>12, <1>13 DEF Next, Run, Fail

\* The invariant holds whatever processes, requests, faults and signals there are.
THEOREM LifecycleCorrect == Spec => []LifecycleInv
<1>1. Init => LifecycleInv
  BY LifecycleAssumption DEF Init, LifecycleInv, TypeOK, Held, HeldAt, Threads, Migrations, PC
<1>2. LifecycleInv /\ [Next]_vars => LifecycleInv'
  BY TypeStep, HeldStep, MigrationStep DEF LifecycleInv
<1> QED
  BY <1>1, <1>2, PTL DEF Spec

\* Every process is in one of its phases, with handles, goroutines and a schema
\* version that fit their types.
THEOREM TypeCorrect == Spec => []TypeOK
<1>1. LifecycleInv => TypeOK
  BY DEF LifecycleInv
<1> QED
  BY <1>1, LifecycleCorrect, PTL

\* A start that fails half way has closed what it opened.
THEOREM FailedStartsHoldNothing == Spec => []FailedStartClosesAll
<1>1. LifecycleInv => FailedStartClosesAll
  BY DEF LifecycleInv, Held, HeldAt, Threads, FailedStartClosesAll
<1> QED
  BY <1>1, LifecycleCorrect, PTL

\* No handler runs without the database and Redis handles it uses.
THEOREM RequestsHaveHandles == Spec => []HandlesOutliveRequests
<1>1. LifecycleInv => HandlesOutliveRequests
  BY DEF LifecycleInv, Held, HeldAt, Threads, HandlesOutliveRequests
<1> QED
  BY <1>1, LifecycleCorrect, PTL

\* Whoever serves, serves over the whole schema, also when several processes
\* migrate at once.
THEOREM ServersAreMigrated == Spec => []ServesMigrated
<1>1. LifecycleInv => ServesMigrated
  BY DEF LifecycleInv, Migrations, ServesMigrated
<1> QED
  BY <1>1, LifecycleCorrect, PTL

\* main never returns under a running handler or an open listener.
THEOREM ExitsAreClean == Spec => CleanExit
<1> DEFINE Clean == \A p \in Proc : pc[p] # "down" /\ pc'[p] = "down" /\ outcome'[p] = "ok"
                      => active[p] = {} /\ server[p] = "closed"
<1>1. ASSUME LifecycleInv, Next, NEW p \in Proc, pc[p] # "down", pc'[p] = "down", outcome'[p] = "ok"
      PROVE  pc[p] = "pgClose"
  <2> USE <1>1 DEF LifecycleInv, TypeOK, Goto
  <2>1. ASSUME NEW q \in Proc, NEW from, NEW to \in PC \ {"down"}, Call(q, from, to)
        PROVE  FALSE
    BY <2>1 DEF Call
  <2>2. ASSUME NEW q \in Proc, NEW how, Exit(q, how)
        PROVE  q = p /\ how = "ok"
    BY <2>2 DEF Exit
  <2>3. ASSUME NEW q \in Proc, \/ Start(q) \/ OpenPostgres(q) \/ PingPostgres(q) \/ PingRedis(q) \/ OpenGoose(q)
                               \/ ReadVersion(q) \/ OpenPostgresFails(q) \/ PingPostgresFails(q)
                               \/ PingRedisFails(q) \/ OpenGooseFails(q) \/ ReadVersionFails(q)
                               \/ MigrateFails(q) \/ MigrateConflicts(q)
        PROVE  FALSE
    BY <2>1, <2>3 DEF Start, OpenPostgres, PingPostgres, PingRedis, OpenGoose, ReadVersion, OpenPostgresFails,
       PingPostgresFails, PingRedisFails, OpenGooseFails, ReadVersionFails, MigrateFails, MigrateConflicts,
       CallFails, PC, StartPc
  <2>4. ASSUME NEW q \in Proc, \/ UpToDate(q) \/ Migrate(q) \/ MigrateReplyLost(q) \/ Listen(q) \/ Notify(q)
                               \/ Quit(q) \/ Drained(q) \/ CloseRedis(q)
                               \/ (\E r \in Request : Begin(q, r) \/ Finish(q, r))
        PROVE  FALSE
    BY <2>4 DEF UpToDate, Migrate, MigrateReplyLost, Listen, Notify, Quit, Drained, CloseRedis, Begin, Finish
  <2>5. ASSUME NEW q \in Proc, Fatal(q) \/ ListenFails(q) \/ DrainTimeout(q) \/ Crash(q) \/ Signal(q)
        PROVE  FALSE
    BY <2>2, <2>5 DEF Fatal, ListenFails, DrainTimeout, Crash, Signal
  <2>6. ASSUME NEW q \in Proc, ClosePostgres(q)
        PROVE  pc[p] = "pgClose"
    BY <2>2, <2>6 DEF ClosePostgres
  <2> QED
    BY <2>3, <2>4, <2>5, <2>6 DEF Next, Run, Fail
<1>2. LifecycleInv /\ [Next]_vars => [Clean]_vars
  BY <1>1 DEF LifecycleInv, Threads
<1> QED
  BY <1>2, LifecycleCorrect, PTL DEF Spec, CleanExit

\* Only a migration that commits changes the schema or goose's records.
LEMMA OnlyMigrationsWrite ==
  ASSUME LifecycleInv, [Next]_vars
  PROVE  UNCHANGED database \/ \E p \in Proc : Migrate(p) \/ MigrateReplyLost(p)
<1>1. ASSUME NEW p \in Proc, NEW from, NEW to, Call(p, from, to)
      PROVE  UNCHANGED database
  BY <1>1 DEF Call
<1>2. ASSUME NEW p \in Proc, Start(p) \/ Run(p) \/ Listen(p) \/ Fail(p) \/ Signal(p),
             ~Migrate(p), ~MigrateReplyLost(p)
      PROVE  UNCHANGED database
  BY <1>1, <1>2 DEF Start, OpenPostgres, PingPostgres, PingRedis, OpenGoose, ReadVersion, UpToDate, MigrateConflicts,
     Fatal, Notify, Quit, Drained, DrainTimeout, CloseRedis, ClosePostgres, Listen, Signal, Run, Fail, CallFails,
     OpenPostgresFails, PingPostgresFails, PingRedisFails, OpenGooseFails, ReadVersionFails, MigrateFails,
     ListenFails, Crash
<1>3. ASSUME NEW p \in Proc, NEW r \in Request, Begin(p, r) \/ Finish(p, r)
      PROVE  UNCHANGED database
  BY <1>3 DEF Begin, Finish
<1>4. CASE UNCHANGED vars
  BY <1>4 DEF vars
<1> QED
  BY <1>2, <1>3, <1>4 DEF Next

\* A migration that runs over the version its process has read leaves records
\* and schema in agreement, and finds no effect of its own there.
LEMMA UnracedStep ==
  ASSUME LifecycleInv, Recorded, ~Overtaken, NEW p \in Proc, pc[p] = "gooseUp"
  PROVE  ~Conflicts(p) /\ (Apply(p) => Recorded')
<1>1. seen[p] = version /\ version \in 0..Last /\ Last \in Nat
  BY LifecycleAssumption DEF Overtaken, LifecycleInv, TypeOK
<1>2. ~Conflicts(p)
  BY <1>1 DEF Recorded, Conflicts, Next1
<1>3. 1..(version + 1) = 1..version \cup {version + 1}
  BY <1>1
<1>4. Apply(p) => Recorded'
  BY <1>1, <1>3 DEF Apply, Next1, Recorded
<1> QED
  BY <1>2, <1>4

\* Whatever fails and however many processes there are, records and schema come
\* apart only when one overtakes another in its migrations.
THEOREM RecordsFollowSchema == Spec => OnlyRacesDesync
<1>1. LifecycleInv /\ [Next]_vars => [Recorded /\ ~Overtaken => Recorded']_vars
  <2> SUFFICES ASSUME LifecycleInv, [Next]_vars, Recorded, ~Overtaken PROVE Recorded'
    OBVIOUS
  <2>1. CASE UNCHANGED database
    BY <2>1 DEF database, Recorded
  <2>2. ASSUME NEW p \in Proc, Migrate(p) \/ MigrateReplyLost(p)
        PROVE  Recorded'
    BY <2>2, UnracedStep DEF Migrate, MigrateReplyLost
  <2> QED
    BY <2>1, <2>2, OnlyMigrationsWrite
<1> QED
  BY <1>1, LifecycleCorrect, PTL DEF Spec, OnlyRacesDesync

\* As long as no process overtakes another, no start ever fails because the
\* effect of a migration is already there.
THEOREM UnracedStartsMigrate ==
  Spec => <>Overtaken \/ [](\A p \in Proc : pc[p] = "gooseUp" => ~Conflicts(p))
<1> DEFINE Unhindered == \A p \in Proc : pc[p] = "gooseUp" => ~Conflicts(p)
<1>1. Init => Recorded
  BY DEF Init, Recorded
<1>2. LifecycleInv /\ Recorded /\ ~Overtaken => Unhindered
  BY UnracedStep
<1>3. Recorded /\ ~Overtaken /\ [Recorded /\ ~Overtaken => Recorded']_vars => Recorded'
  BY DEF vars, database, Recorded
<1> QED
  BY <1>1, <1>2, <1>3, RecordsFollowSchema, LifecycleCorrect, PTL DEF Spec, OnlyRacesDesync
=============================================================================

# A TLA+ model of todo-back

todo-back is a todo API in Go: gin handlers over services, Postgres for the data, Redis for
sessions and for a read cache, `singleflight` to share concurrent reads. This directory
models it in TLA+, model-checks the model with TLC on small instances, and proves theorems
about it for every instance with TLAPS. `PROJECT.json` names, for every definition, the
lines it stands for.

## 1. The system

| Component | Code (under `src/`) | State | Operations |
|---|---|---|---|
| todos table | `internal/repo/todo_repo.go`, `internal/domain/todo.go` | rows of Postgres | INSERT, UPDATE, MarkDone, SoftDelete (each one statement, no transaction); GetByID, List, Search, Overdue |
| todo service and handlers | `internal/service/todo_service.go`, `internal/handlers/todo.go`, `internal/dto/todo.go` | none of its own but the request in progress | Create, GetByID, List, Search, Overdue, Update (read, patch, write), Complete, Delete |
| todo cache | `internal/cache/todo_cache.go` | Redis keys `todo:list:<u>`, `todo:overdue:<u>`, `todo:search:<u>:<q>` | Get, Set with TTL, InvalidateAll = DEL of two keys, then SCAN and one DEL for each key found |
| singleflight | `golang.org/x/sync`, used by the service | the flights of the process | `sf.Do`: lead a flight, join it, land |
| sessions, auth handlers, users | `internal/auth/*`, `internal/handlers/auth.go`, `internal/service/user_service.go`, `internal/repo/user_repo.go` | Redis keys `session:<id>`, the users table | Register, Login, Logout, RequireSession |
| process lifecycle | `cmd/api/main.go`, `internal/app/app.go` | pool, Redis client, HTTP server | New (open, ping, migrate, clean up on failure), serve, Shutdown, Close |
| routes | `internal/app/routes.go` | none | which operations exist and which need a session |
| configuration | `internal/config/config.go`, `internal/utils/utils.go` | none | reading and converting the environment |
| migrations | `migrations/*.sql` | schema, the seeded admin, backfilled owners | goose Up and Down |
| due_at parsing | `internal/dto/todo.go` | none | null, "", four layouts |
| API description, scripts | `docs/`, `scripts/genhash.go` | none | generated text, a one-off tool |

### How the components interact

A request is a goroutine. `RequireSession` puts the user id into its context, the handler
parses and binds, the service does the rest with calls to Postgres and Redis, without
locks or transactions. What two requests share is the table, the cache and the flights.

- A read (`List`, `Search`, `Overdue`) enters `sf.Do` under a key of view, user and query.
  The first request runs the function: cache GET, on a miss the query, then cache SET. The
  requests that come while it runs are answered with its result, errors included.
- A write runs its statement and then `invalidateCache`. Errors of the invalidation are
  dropped. `Update` runs two statements, a SELECT of the row and an UPDATE of all four
  patchable columns.
- Postgres and Redis survive the process; requests and flights do not.
- Register and Login make a user or find one and then a session, two calls to two stores
  with nothing that binds them. `todos.user_id` refers to `users`.
- `main` loads the configuration, builds the application (pool, Redis client, migrations over
  a pool of their own, router), listens in a goroutine, waits for a signal, gives Shutdown
  ten seconds and closes. A process that ends is started again by its supervisor, beside
  others that use the same Postgres.

### What is hard about it

1. Cache-aside fill: read, write and invalidation of another request, SET of the old rows.
2. `Update` reads and writes without a lock: a write in between is overwritten.
3. Requests that share a flight share its age and its errors.
4. `InvalidateAll` is several Redis calls, each of which may fail, among requests that go on
   adding keys.
5. A statement may commit and its reply never arrive, even long after the client was told of
   the error; the process may die after a commit and before the invalidation.
6. The SCAN pattern `todo:search:1*` has no separator after the id, and SCAN promises little
   about keys that come and go while it iterates.
7. Empty lists, TTLs that are not positive, blank titles, the clock, which changes the
   overdue list by itself.
8. Registrations race for a name; user and session are stored by two calls, either of which
   may fail or lose its reply; a session is checked once, at the start of a request that may
   outlive it.
9. Every call of a start may fail half way; processes that start together migrate together,
   and goose takes no lock; a signal may come at any time, a handler may never return.

`PROJECT.json` lists 35 such hazards with their lines and the properties that cover them.

### What makes each component correct

- table: a statement changes only an undeleted row of the caller; deletion is final.
- service and cache: an answer never holds rows of another user, view or query; a stale
  entry exists only for a known reason; a write that succeeds removes what it makes stale, and
  a reader that comes later sees it, but for one known exception.
- singleflight: one query per key at a time; nobody waits without a leader; everyone is
  answered.
- users and sessions: one user per name under racing registrations; a request acts as the
  user whose credentials its session was made for; a session never comes back after its end;
  what Register answers is what it did.
- the API as a whole: rows are seen and changed only by a request that was identified, by
  name and password, as their owner.
- lifecycle and migrations: a failed start closes what it opened, nobody serves over half a
  schema, pool and Redis client outlive the last handler, a signal ends the process, and a
  process that is started again and again comes to serve.
- configuration: a Redis URL overrides the separate variables, and nothing of them leaks into
  it; a duration is the number of seconds it says.

## 2. The modules

| Module | Content |
|---|---|
| `TodoTable` | the table and the SQL statements as pure operators |
| `TodoService` | the requests of one server process, step by step, over table, cache and flights; properties |
| `TodoStore` | abstract: what the todo API promises, one table with one step for each write |
| `TodoHistory` | `TodoService` with the moments of the table remembered; the refinement mapping to `TodoStore` |
| `Auth` | Register, Login, Logout, RequireSession over users and sessions; properties; the refinement mapping to `Accounts` |
| `Accounts` | abstract: what Register, Login, Logout and RequireSession promise, without tables, keys or failing calls |
| `Api` | `Auth` and `TodoService` as the routes compose them; end-to-end properties |
| `Lifecycle` | server processes from `main` to exit, with their migrations; properties |
| `Config` | `config.Load`; properties |
| `MCTodoService`, `MCTodoHistory`, `MCAuth`, `MCApi`, `MCLifecycle`, `MCConfig` | the instances TLC checks |
| `TodoServiceProofs` | type correctness, statements, flights |
| `TodoIsolationProofs` | no answer mixes users, views or queries |
| `TodoStalenessProofs` | why a cache entry may be stale, and which writes an answer counts |
| `TodoStoreProofs` | `TodoService` implements `TodoStore` |
| `AuthProofs` | names, sessions, identities, the answers of Register; `Auth` implements `Accounts` |
| `ApiProofs` | the theorems about the parts hold of the whole, and what they give together |
| `LifecycleProofs` | handles, schema, exits, goose's records |
| `ConfigProofs` | what `Load` makes of any environment |

### Plan

The todo API came first, then its abstract specification and the refinement, users and
sessions, what they promise, the composition of the two, the lifecycle with the migrations,
the configuration.
What is left:

1. The rows under the migrations: the seeded admin, the backfill of `user_id`.
2. Two server processes over one cache, so that a fill of one meets a write of the other.

### TodoTable and the code

A table is a sequence of rows: nothing is ever removed (`SoftDelete` stamps `deleted_at`),
so the BIGSERIAL id of a row is its position. (A sequence of Postgres may skip numbers; no
code depends on it.) `Hits` is the WHERE clause all one-row statements share, `Rows` the
three list queries, `Selects` what distinguishes them. `text` stands for title and
description together, `Contains` for ILIKE's `%q%`, which ignores case: `Fold` trims a query, as
Search does, and lowers it.

### TodoService and the code

A step is one call to Postgres, Redis or the flight group with the local code that follows
it up to the next. `pc[r]` says which call is next:

| `pc` | next call | code |
|---|---|---|
| `new` | the request arrives; parsing, binding, due check, `sf.Do` | `handlers/todo.go`, `todo_service.go:35-41, 56-59, 145-148, 168-171` |
| `cacheGet`, `query`, `cacheSet` | the three calls of a fill | `todo_service.go:60-69, 149-159, 172-181` |
| `land`, `landError` | the function has returned a list or an error; `sf.Do` releases its key | `todo_service.go:61, 65, 68`, singleflight |
| `wait` | none, it joined a flight | singleflight |
| `getByID` | SELECT | `todo_service.go:78-87` |
| `getForUpdate`, `update` | SELECT, then UPDATE | `todo_service.go:89-122` |
| `insert`, `markDone`, `softDelete` | the statement | `todo_service.go:48, 124-143` |
| `delKeys`, `scanStart`, `scanDel` | DEL of two keys, SCAN, one DEL a key | `todo_cache.go:112-124` |
| `noReply` | the reply to a statement will not come; pgx returns an error | `todo_service.go:49-51, 118, 130, 139` |
| `answered`, `lost` | none: answered, or the process died | |

The other variables are the table, the statements Postgres may still commit though nobody
waits for them (`inflight`, by their requests), the clock, the cache (an entry or `Nil` for each key),
the leader of each flight, and per request its call, the patched row (`patch`), what the
repository returned (`found`), the keys its SCAN still owes (`scan`) and its `answer`.
`ver`, `wrote`, `since`, `cleared`, `abandoned` and the fields `asOf`, `at`, `stored` are history that
no guard reads; they exist to state the properties.

Decisions a reader may want to question:

- Landing (`EndFlight`) is a step of its own, after the last call of the function: requests
  join and writes commit in between. It is one step for everyone aboard: singleflight deletes
  the key under its mutex and releases the waiters there; when each of them gets to write its
  response is not observable.
- The leader's context is the context of the whole flight. Its cancellation is `QueryFails`
  for everyone aboard.
- No reply to a statement comes (`ReplyLost`) when the client goes away, so that its context is
  cancelled, or the connection breaks. From then on the service and Postgres are on their own:
  the service gives up (`GiveUp`) and answers the error, and Postgres commits the statement
  (`LateCommit`) before that, after it, after later requests of the same client, or never. The
  statements a dying process has under way are left to Postgres in the same way (`Crash`).
- Flight and cache key are computed by two definitions, as in the code (`FlightKey`: trim, then
  lower-case; `CacheKey`: trimmed once more). They agree because lowering a trimmed text leaves
  it trimmed, which `TableAssumption` says of the two functions.
- A Redis call that took effect and then failed is the call followed by the failure of the
  next one; `CacheSetFails` after a SET that took effect is `CacheSet`, as its error is
  dropped.
- SCAN guarantees to return a key that is there from its start to its end, and may return one
  that was added meanwhile: `scan` holds the former, `DelSearchKey` may also take the latter.
  A key that is deleted or expires during the scan leaves it (`Forget`), also when a fill puts
  it back: nothing obliges Redis to return it then.
- `Matching` is what the glob `todo:search:<u>*` matches: any user whose decimal id begins
  with that of u. `Shorter` computes the prefixes by division.
- An empty list is cached as JSON `null`, which decodes to a nil slice and reads as a miss
  (`Usable`).
- `Expire` may drop an entry at any time when TTL > 0: the moment is not related to the
  clock. With TTL <= 0 go-redis sends no expiry.
- Each request is one-shot: a client that sends several is several requests. The number of
  requests bounds the behaviour.
- One process; `Crash` ends it and a new one goes on with the same table and cache.
- One clock. In the code the due check reads that of the process, Overdue that of Postgres.

### TodoStore, TodoHistory and the code

`TodoStore` is what a client may rely on. A write takes effect in one step (`Act`), at most
once and never before it was asked; `Truthful` says which answers are true:

- a success only after the effect, with the rows the effect returned;
- an error leaves it open whether the write took effect, will (`unsettled`) or never does: it
  may even come after the effects of requests the client made later. After any other answer
  nothing comes;
- a list is what the database would have answered at some moment of the past (`past`). No
  later moment can be promised: the cache may be stale;
- 404 when the row is not there now, 204 of a delete that did nothing when the row was not
  there at some moment since it was asked;
- an update writes the fields of its body over those of the row as it was at one moment since
  it was asked (`window`): the lost update, as a promise. At that moment its due date had not
  passed; when the write takes effect it may have.

`TodoHistory` adds the moments to `TodoService`; no step of the service reads them. The
mapping forgets cache, flights and steps: a request has acted when its `wrote` is not 0, and is
unsettled when it was answered while its statement is `inflight`.

### Auth and the code

A step is one call to Postgres or Redis with the local code up to the next, as above.

| `pc` | next call | code |
|---|---|---|
| `new` | the request arrives: binding, trimming, hashing, the cookie | `handlers/auth.go:39-43, 74-79, 106-108`, `middleware.go:30-34` |
| `insertUser` | INSERT | `user_service.go:48-66`, `user_repo.go:37-48` |
| `noReply` | the reply to the INSERT will not come; pgx returns an error | `user_service.go:63`, `handlers/auth.go:89` |
| `selectUser` | SELECT, then the comparison of the hash | `user_service.go:29-46` |
| `setSession` | SET with TTL | `session.go:33-45` |
| `delSession` | DEL | `session.go:63-66` |
| `getSession` | GET | `session.go:47-61`, `middleware.go:35-42` |
| `handler` | the todo handler runs | `c.Next()` |

- An INSERT whose reply is lost may commit at any time later (`inflight`, `LateInsert`), unless
  its name is taken then.
- A row of users never changes and is never deleted: its id is its position in the table.
- `Hash` is what bcrypt compares of a password. Two passwords with the same first 72 bytes are
  the same to `CompareHashAndPassword`; `GenerateFromPassword` refuses longer ones.
- Session ids are 128 random bits; the model never draws one twice. The branch for a failing
  `rand.Read` is dead: Go's never fails.
- A cookie is one that some response has set, or from before the start (`Held`). Clients keep
  cookies of sessions that are over.
- A DEL whose reply is lost is `DelSession`: the error is dropped. `Store.Exists` has no caller.
- `issued`, `late` and the field `by` of a user are history.

`Accounts` is what a client may rely on, of persons (a name and what bcrypt compares of a
password) instead of rows and ids:

- a registration makes one person, once and for good (`Join`), and is told 400 or 409 only
  if it has made nobody, 409 only while somebody has the name (`Reason`); once it has made
  somebody it gets a session or 500 (`JoinedOnly`); after a 500 it may still make somebody
  (`unsettled`);
- a login is told 401 only if nobody has its name and password at that moment. An error of
  Postgres is 500, so that a client never takes an outage for a wrong password;
- a session is granted (`Grant`) to the person whose name and password were sent, under an id
  that was never granted before, and it never comes back;
- a todo request is let through (`Admit`) as the owner its session has at one moment after
  its arrival, and is served as that person to the end. 401 promises nothing: `GetSession`
  answers it for any error of Redis. Neither does the 204 of a logout.

The mapping forgets `pc`, `found`, `faults` and `late`: a request has joined when a row is
`by` it, an id is spent when it is `issued`.

### Api and the code

`Api` instantiates `Auth` beside `TodoService` under the same requests. A todo request is in
`Auth` until RequireSession has put its user into the context, then in `TodoService`
(`HandlerStarts`: the call is any whose `user` is `Caller`, the id in the context) until the
handler returns. The parts share the process, so that `Crash` is joint, and nothing else; the
budgets of faults are separate. What the request asks for is chosen when its handler starts,
as nothing reads the body before.

### Lifecycle and the code

| `pc` | next | code |
|---|---|---|
| `pgOpen`, `pgPing`, `redisPing`, `gooseOpen` | the call of that name in `app.New` | `app.go:25-46, 66-114` |
| `gooseVersion`, `gooseUp` | goose reads the newest version, goose runs a migration | `app.go:116` |
| `fatal` | `log.Fatalf` | `main.go:33` |
| `notify` | `signal.Notify` | `main.go:52-53` |
| `wait` | `<-quit` | `main.go:55` |
| `shutdown` | Shutdown returns or its ten seconds pass | `main.go:57-62` |
| `redisClose`, `pgClose` | `App.Close` | `main.go:64`, `app.go:55-64` |
| `down` | not running | |

The goroutine that listens is `server`, the handlers that run are `active`, the channel
`quit` is `signalled`. goose is external and modelled from how it behaves: the version is
that of the newest record, read again before each migration; a migration and its record are
one transaction. A migration in `OneShot` fails when its effect is already there: of the
three, only 00003 (`ADD COLUMN` without `IF NOT EXISTS`). Two processes that create
goose_db_version or run a `CREATE TABLE IF NOT EXISTS` at the same moment may fail there too;
such a failure is one of the faults. `config.Load` is its own module and touches no handle.

### Config and the code

A text of the environment is a record of what `Load` can tell of it: for an address whether
it is a URL, its scheme, host, password and database; for a duration its number, unit, quotes
and spaces. `Wrap` is int64 arithmetic. cleanenv is external: defaults for what is not set, an
error for a missing PG_DSN or a REDIS_DB that is no number or does not fit an int. For the
number in a URL `Atoi` drops both errors: junk is 0, out of range the nearest int. Not modelled: the
letter case of a scheme, and that TLS, which `rediss` asks for, is not used.

## 3. Runs

| Run | Instance | Shows |
|---|---|---|
| `races` | 3 requests, 2 users, all operations, no faults, no expiry, clock 0..1 | `TypeOK`, `AnswerFitsCall`, `StaleEntryExplained`, `OneFillPerKey`, `EmptyAnswersAreCurrent`, `StaleAnswerExplained`, `DeletedIsFinal`, `RowChangesOnlyByOwner` |
| `failures` | 2 requests, 1 fault of any kind, expiry, refused and malformed calls, with history | `StaleEntryExplained`, `WaitersHaveLeader`, `ImplementsStore` |
| `liveness` | 2 requests, 1 fault, `FairSpec` | `EveryCallAnswered` |
| `auth` | 2 requests, 13 calls, 2 faults, expiry, a TTL of 0 | `TypeOK`, `NamesUnique`, `ActsAsOwner`, `LateRequestsRefused`, `RegisterAnswerTrue`, `ImplementsAccounts` |
| `api` | 3 requests, 2 users and one who registers, 1 fault in each part, expiry | `AnswersAreOwn`, `OwnersExist`, `RowsChangeForOwner` |
| `lifecycle` | 2 processes, 3 migrations, 2 requests, 2 faults, 1 signal, `FairSpec` | `TypeOK`, `FailedStartClosesAll`, `HandlesOutliveRequests`, `ServesMigrated`, `CleanExit`, `SignalEnds`, `ServesUnlessRaced`, `OnlyRacesDesync` |
| `config` | every combination of the Redis variables, every duration, a word of 8 bits | `RedisFromOneSource`, `SecondsMeant` |
| `lost_update` | a PATCH of the title beside a completion | violates `OmittedDoneKept` |
| `no_invalidation` | one write, one fault | violates `EveryWriteInvalidates` |
| `blank_title` | one creation | violates `TitlesNotEmpty` |
| `migrations_race` | 2 processes, no faults, no signals, `FairSpec` | violates `StartsServe` |
| `redis_password` | as `config` | violates `PasswordBesideUrl` |

What the properties say, in short (each is commented where it is stated):

- `AnswerFitsCall`: whatever way an answer took, its rows are the caller's, undeleted when
  read, and of the view and query that was asked.
- `StaleEntryExplained`: the only causes of a stale entry are a fill overtaken by a write,
  time (overdue only), and writes whose invalidation is pending or was given up. A write
  whose InvalidateAll runs to its end leaves no list behind that it made stale and that was
  there before it.
- `OneFillPerKey`, `WaitersHaveLeader`, `EveryCallAnswered`: what singleflight promises, also
  when the leader fails or the process is restarted.
- `EmptyAnswersAreCurrent`: an empty answer counts every write made before its flight began.
- `StaleAnswerExplained`: a list counts every write whose statement and invalidation were over
  when its flight began. The one exception is a cached list that a fill read before that write
  and stored after it. This is what a client sees of the cache, over all three ways to an
  answer: an invalidation that misses a key, a flight that outlives a write and is joined
  after it, an old entry served again.
- `DeletedIsFinal`, `RowChangesOnlyByOwner`: what no statement may do, also after the row that
  `Update` read was changed or deleted by others.
- `ImplementsStore`: every behaviour of the service is one of `TodoStore`.
- `ActsAsOwner`, `LateRequestsRefused`: a request that has passed RequireSession runs as the
  user whose name and password its session was made for, and a session that was over when a
  request arrived never lets it pass, whatever fails.
- `NamesUnique`, `RegisterAnswerTrue`: of racing registrations of one name, spaces aside, one
  succeeds; 201, 400 and 409 tell what the request did. 500 tells nothing: the user may have
  been made.
- `ImplementsAccounts`: every behaviour of `Auth` is one of `Accounts`.
- `AnswersAreOwn`, `RowsChangeForOwner`, `OwnersExist`: the same identity from the password
  to the row, through both parts; and no session names a user that is not stored, so the
  foreign key of todos never refuses an INSERT.
- `FailedStartClosesAll`, `HandlesOutliveRequests`, `CleanExit`, `SignalEnds`: what is open
  when, and how a process ends.
- `ServesMigrated`, `ServesUnlessRaced`: whoever serves has all migrations; whoever is started
  again after each failure comes to serve, unless two processes migrate at once.
- `OnlyRacesDesync`: goose's newest record and the schema come apart only at a step of a process
  whose migration another one has overtaken, not by a lost reply, a failure or a crash.
- `RedisFromOneSource`: a URL overrides the variables: REDIS_DB selects no database of its
  server and REDIS_PASSWORD replaces no password it has; a junk number selects database 0, one
  out of range none that a URL could name. What becomes of REDIS_PASSWORD beside a URL without
  a password is the question of `redis_password`.
- `SecondsMeant`: `Load` converts durations exactly up to the bound of the word; beyond it only
  a bare number gets through.

### Bounds

- Requests: three in `races` and `api` (a reader, a follower or a second reader, and a writer: the
  smallest number with which a fill is shared while it is overtaken), two elsewhere.
- Users 1 and 10: "1" is a prefix of "10", so that the SCAN pattern meets foreign keys. Each
  has one row; user 1 creates more. User 10 also asks for the row of user 1.
- The queries "milk", " milk", "MILK" and " MILK", of which `races` asks the first and the
  last, share a key; the texts "", " ", "milk", "tea" give one that is
  refused, one that trims to nothing, one that matches and one that does not.
- Clock 0..1: the row of user 1 is due at 0 and becomes overdue at 1, the row of user 10 is
  due at 1 and is not overdue then. A due date of 0 is refused at 1 and accepted at 0.
- Cache warm for all keys of user 10 and all lists, so that stale entries need not be
  filled first.
- Faults of the todo API: one in `failures` and `liveness`. `past` and `window` multiply the
  states, so a second fault is left to the theorems, which hold for any number.
- `auth`: two requests race for a name or for a session, with one session from before the
  start; two faults, so that an INSERT and a SET can both lose their replies. Four session
  ids: the old one, one for each request and one to spare. The calls meet every check of
  Register and Login once. TTL 0 is the case `NewStore` guards against.
- `api`: the sessions of two users are there, a third user may register and create a todo
  under the new session. The calls are the lists and writes that would show a mixture of
  users; what each operation does alone is the business of the other runs. The clock stands
  still: `races` moves it.
- `lifecycle`: two processes are the smallest number that races; two requests, so that one may
  return and one may not; two faults, so that one start may fail twice or both processes once.
  The initial version is any of 0..3: first start and upgrade.
- `config`: in a word of 8 bits with 10 for a second, 12 seconds fit and 13 do not, as
  9223372036 and 9223372037 in Go. Durations are independent, so one varies at a time.
- Symmetry over the requests in `races`, `failures`, `api` and `lost_update`: nothing in the
  specification tells requests apart. No run with a liveness property uses it.

The largest runs have 2.3 million (`api`), 1.0 million (`failures`), 610 thousand (`races`),
214 thousand (`lifecycle`), 213 thousand (`auth`) and 197 thousand (`liveness`) distinct states.

### Fairness

`FairSpec` of `TodoService` is weak fairness of `Progress(r)` for each request: the steps of a
request that has arrived. Goroutines are scheduled, Redis calls have go-redis's own timeouts,
and Postgres is assumed to answer or its connection to break. The code sets no deadline of its
own on either; a Postgres that never answers would hang the request, its flight and all its
followers. Arrivals, failures, crashes, late commits, expiry and the clock are not fair: nothing
that is checked rests on a key's expiry. `Auth` is checked without fairness.

In `Lifecycle` it is weak fairness of `Start`, `Run` and `Listen` of each process: main and
the listening goroutine are scheduled, the pings have deadlines of three and two seconds,
Shutdown has one of ten, goose's statements are assumed to return, and docker-compose.yml
starts the service again (`restart: unless-stopped`). Handlers may run for ever, nobody has
to send a signal, and faults are not fair.

### What disagrees with the repository's own words

1. `lost_update`: `dto/todo.go` says a nil `is_done` means "do not change". `Update` writes
   back the value it has read, so a completion that commits in between is undone.
2. `no_invalidation`: the README says every write is followed by invalidation; a write whose
   reply is lost is not.
3. `blank_title`: a title must have at least one character; a title of spaces is trimmed
   after that check and stored empty.
4. `migrations_race`: the README says migrations run automatically at the start, and nothing of
   one process at a time. Of two processes that start over an empty schema, one may run
   migration 2 after the other has finished. It succeeds (`IF NOT EXISTS`), and its record is
   now the newest. From then on every start runs migration 3 again, which fails.
5. `redis_password`: README.md:118 offers REDIS_PASSWORD for a URL that has no password. A URL
   without a password makes `Load` forget REDIS_PASSWORD (`config.go:67, 76`). The comment at
   `config.go:47` ("URL overrides Addr/Password/DB if set") agrees with the code.

Three more disagreements are visible in the model and have no run of their own:

- Logout drops the error of DEL (`handlers/auth.go:109`, `DelFails`): 204, and the session
  that README.md:87 says is removed works until its TTL. `Accounts` lets that 204 promise
  nothing.
- `InvalidateAll` is said to remove the keys "for the user" (`todo_cache.go:111`); for user 1 its
  pattern also removes the searches of user 10 (`Matching`). It costs that user hits, nothing
  else.
- A bare number of seconds above 9223372036 wraps (`utils.go:29`) where `<n>s` is refused.

## 4. Proofs

All theorems hold for every value of the constants (any requests, users, texts, calls,
processes, migrations, initial tables and sessions, TTLs and numbers of faults) that satisfies
the named assumptions: types, trimming and lower-casing idempotent and lowering a trimmed query
leaves it trimmed, `Nil` different from every
value, create has a text and search a query, as the binding and the handler make sure of;
initial users have trimmed names, each once; initial todos belong to initial users.

| Module | Theorem | States |
|---|---|---|
| `TodoServiceProofs` | `TypeCorrect` | `Spec => [](TypeOK /\ Phases)` |
| | `StatementsRespectRows` | `Spec => DeletedIsFinal /\ RowChangesOnlyByOwner` |
| | `DeletedRowsStay` | `Spec => DeletedIsFinal` |
| | `OneFillAtATime` | `Spec => []OneFillPerKey` |
| | `NobodyIsStranded` | `Spec => []WaitersHaveLeader` |
| `TodoIsolationProofs` | `AnswersFitCalls` | `Spec => []AnswerFitsCall` |
| `TodoStalenessProofs` | `StaleEntriesExplained` | `Spec => []StaleEntryExplained` |
| | `EmptyAnswersCountWrites` | `Spec => []EmptyAnswersAreCurrent` |
| | `StaleAnswersExplained` | `Spec => []StaleAnswerExplained` |
| `TodoStoreProofs` | `ServiceImplementsStore` | `HSpec => ImplementsStore` |
| `AuthProofs` | `TypeCorrect` | `Spec => []TypeOK /\ []Phases` |
| | `NamesStayUnique` | `Spec => []NamesUnique` |
| | `RequestsActAsOwner` | `Spec => []ActsAsOwner` |
| | `EndedSessionsStayEnded` | `Spec => []LateRequestsRefused` |
| | `RegisterTellsTheTruth` | `Spec => []RegisterAnswerTrue` |
| | `AuthImplementsAccounts` | `Spec => ImplementsAccounts` |
| `ApiProofs` | `PartsImplemented` | `ApiSpec => Spec /\ AuthApi!Spec` |
| | `AnswersBelongToCaller` | `ApiSpec => []AnswersAreOwn` |
| | `RowsBelongToCaller` | `ApiSpec => RowsChangeForOwner` |
| | `OwnersAreUsers` | `ApiSpec => []OwnersExist` |
| `LifecycleProofs` | `LifecycleCorrect` | `Spec => []LifecycleInv` |
| | `TypeCorrect` | `Spec => []TypeOK` |
| | `FailedStartsHoldNothing` | `Spec => []FailedStartClosesAll` |
| | `RequestsHaveHandles` | `Spec => []HandlesOutliveRequests` |
| | `ServersAreMigrated` | `Spec => []ServesMigrated` |
| | `ExitsAreClean` | `Spec => CleanExit` |
| | `RecordsFollowSchema` | `Spec => OnlyRacesDesync` |
| | `UnracedStartsMigrate` | `Spec => <>Overtaken \/ [](\A p \in Proc : pc[p] = "gooseUp" => ~Conflicts(p))` |
| `ConfigProofs` | `ConfigCorrect` | `Spec => []ConfigInv` |
| | `RedisHasOneSource` | `Spec => []RedisFromOneSource` |
| | `DurationsAreSeconds` | `Spec => []SecondsMeant` |

The argument for the todo API:

- `Phases` ties the place of a request to its operation and to the data it carries.
  `TypeOK` is not inductive without it: `update` writes `patch[r]`, which has to be a row.
- `Untouched` says that a request before its statement has written and read nothing, so that
  `wrote` changes exactly when a statement takes effect. `StatementsRespectRows` follows from
  both, statement by statement, by the lemma `WrittenRows` on what each leaves of the table.
- `Flights`: the flights are exactly the requests that run a fill, under their own keys. The
  two properties follow; neither is inductive alone, because what blocks a second leader is
  the entry in `flight`, which neither mentions.
- `Isolation`: entries fit their keys, fills fit the key they will be stored under, statements
  return rows of the caller. The cache is one of three ways to an answer, so all three have
  to be invariants together. What fits goes on fitting because `overdue` only grows with the
  clock.
- `Staleness`: every snapshot, in the cache or on its way to it, is what the database would
  answer unless a write of that user or (overdue) a tick has overtaken it (`Faithful`), and
  every write since an entry was stored is excused for not having removed it (`Excused`).
  `ExcuseStep` is the heart: a write stops being excused only by the DEL of that key.
- `Ages`: a fill began no later than now and has read no earlier than it began, and a waiter
  takes its leader's beginning for its own. An empty list comes only from a flight that has
  queried (`OnlyQueriesAnswerEmpty`), never from the cache, so it counts what was written
  before. `Flights` is needed once more: the leader a waiter joined is the one that lands.
- `Counts`: the writes a fill found over when it began (`cleared`) are over, and no later than
  what the fill has found was read or stored. What is over stays over (`OverStep`): nobody writes
  that version again, and `InvalidateAll` is not entered twice. For rows of the database it
  follows from `Ages`. For rows of the cache it needs `Staleness`: an entry stored before a write
  that is over would be excused, and nothing excuses that write any more.
- The refinement (`TodoStoreProofs`): `HistoryInv` says that the present is always among the
  moments and ties the arrival, the effect and the answer of a request to its step. `PastInv` is
  what the mapping needs: each cached list and each list on its way to the cache was the
  database's answer at some moment, each patch was made of the row as it was, its due date not
  passed, at one moment since the request arrived.
  Then there is one lemma for each kind of step: `EffectSim` for a statement, waited for or not
  (`ActSim`: an unsettled request acts), `GiveUpSim` for the error that leaves a request unsettled,
  `LandSim` for the end of a flight, which answers several requests at once, `ReplySim` for a
  single answer, and a stutter for cache, keys and expiry.

For the other parts:

- `AuthProofs`: `NamesStored` strengthens uniqueness with "stored names are trimmed".
  `SessionsOwned` carries the identity from INSERT or SELECT (`found`) to the session;
  users never change, so what a session owns it goes on owning. `HeldIssued` and `LateIsOver`
  are why no session comes back: only a fresh id is ever stored, and a client only holds ids
  that are not fresh. `MakersRegistered` ties the row a registration made to its place; a request
  whose INSERT is still `inflight` has made none, so that it makes one at most.
  The refinement needs them together (`PromiseInv`): `InsertSim` takes the free name of the row
  for a free name among the persons, `GrantSim` takes what was `found` for who was claimed,
  `AdmitSim` the session for its owner; `RefuseSim` is every refusal, whose reason must hold
  when it is given; rows never change, so persons stay the same (`PersonsStay`).
- `ApiProofs`: every step of `Api` is a step of each part or leaves it alone
  (`PartsImplemented`), so the theorems about the parts hold of the whole. `Linked` joins
  them: a todo call is asked as the user in the context. The rest follows without another
  induction, except for `OwnersExist`.
- `LifecycleProofs`: `Held` gives for each place of main exactly the handles that are open.
  `Threads` bounds what the goroutine and the handlers may do there. `Migrations` says that the
  schema has no gaps and that every version goose trusts has taken effect, which survives two
  processes that migrate at once because records are made only with effects. `Recorded`
  (records and schema agree) is inductive as long as nobody is overtaken; then no migration
  finds its effect there already, the safety half of `ServesUnlessRaced`.
- `ConfigProofs`: `ConfigInv` says what has been filled in after each part of `Load`. A number
  that fits the word survives the multiplication (`WrapKeepsWords`); one that does not has
  either been refused by `time.ParseDuration` or had no unit.

Only model-checked: the liveness properties (`EveryCallAnswered`, `SignalEnds`,
`ServesUnlessRaced`): fairness and ENABLED are out of the reach of TLAPS here.
`Shorter` is a recursive function; the proofs use only that a user matches its own pattern.

## 5. What is not modelled

- Order of answers, timestamps, JSON, wording of errors, logging, CORS, static routes,
  swagger: no property is about them.
- Maximum lengths of titles and queries, ids beyond int64.
- Commands that Redis executes after their caller has given up, and go-redis's retries: a SET
  that is delayed or repeated is a fill that stores later than the model's, with the cause of
  staleness the model has for it; a delayed DEL of an invalidation removes more than the model
  does; a delayed DEL of a session ends it later. Late statements of Postgres are modelled.
- Two server processes: flights are per process, all else is shared. With two, `OneFillPerKey`
  is a property of each. `Lifecycle` has several processes, without their requests' content.
- `NewTodoService` without a cache (`c == nil`): `routes.go` always passes one.
- The Down halves of the migrations, which the program never runs, and what the Up halves do
  to rows: the seeded admin is an initial user, `user_id` is there from the start.
- The sizes and timeouts of the pool: each call holds one connection only for its own
  duration, and none waits for another while it holds one.
- The four layouts of a due date: a call carries the instant.
- What net/http does with idle connections during Shutdown.

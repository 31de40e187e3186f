----------------------------- MODULE TodoService -----------------------------
(***************************************************************************)
(* The todo API of one server process: every request is a goroutine that    *)
(* runs a handler of handlers/todo.go, through TodoService, PGTodoRepo and  *)
(* TodoCache, over tables and keys it shares with the other requests.  A    *)
(* step is one call to Postgres, Redis or the singleflight group with the   *)
(* local code up to the next such call; between two steps anything may      *)
(* happen.                                                                  *)
(*                                                                          *)
(* ver, wrote, since, cleared, abandoned and the fields asOf, at and stored *)
(* are history: no guard reads them.  The version of a user counts the      *)
(* statements that changed the user's rows.                                 *)
(***************************************************************************)
EXTENDS TodoTable

CONSTANTS
  Request,      \* the requests of a behaviour
  Calls,        \* what clients may ask for
  Trim,         \* [Texts -> Texts]: strings.TrimSpace
  InitialTodos, \* the table when the process starts
  WarmKeys,     \* the cache keys that hold an up-to-date value when it starts
  TTL,          \* REDIS_DEFAULT_TTL
  MaxNow,       \* bound on the clock
  MaxFaults     \* bound on failing calls and crashes

Views == {"list", "search", "overdue"}
Ops == Views \cup {"create", "get", "update", "complete", "delete"}

Call == [op: Ops, user: Users, id: Int, text: Texts \cup {Nil}, due: Nat \cup {Nil},
         done: BOOLEAN \cup {Nil}, q: Queries \cup {Nil}]

Key == [view: {"list", "overdue"}, user: Users, q: {Nil}]
         \cup [view: {"search"}, user: Users, q: {Fold(q) : q \in Queries}]

\* Rows, the version and the time they were read at, and the version they were
\* put into the cache at, if they come from there.
Snapshot == [rows: SUBSET Item, asOf: Nat, at: Nat, stored: Nat]
Response == [status: Nat, rows: SUBSET Item, asOf: Nat, stored: Nat]

ASSUME ServiceAssumption ==
  /\ Calls \subseteq Call
  /\ \A c \in Calls : /\ c.op = "create" => c.text # Nil
                      /\ c.op = "search" => c.q # Nil
  /\ Trim \in [Texts -> Texts]
  /\ InitialTodos \in Seq(Row)
  /\ WarmKeys \subseteq Key
  /\ TTL \in Int /\ MaxNow \in Nat /\ MaxFaults \in Nat
  /\ Nil \notin Request /\ Nil \notin Call /\ Nil \notin Row
  /\ Nil \notin Snapshot /\ Nil \notin Response

VARIABLES
  todos,      \* the todos table
  inflight,   \* the requests whose statement may still commit, with nobody to hear of it
  now,        \* the clock
  cache,      \* Redis: a Snapshot or Nil for each key
  flight,     \* singleflight: the request that leads the flight of a key, or Nil
  pc,         \* where each request is
  call,       \* what it was asked
  patch,      \* Update: the row it is about to write
  found,      \* the rows it was sent by Postgres or Redis
  scan,       \* InvalidateAll: the keys its SCAN has to return and has not yet
  answer,     \* its response, or Nil
  faults,     \* how many faults have happened
  ver,        \* per user, the number of statements that changed its rows
  wrote,      \* per request, the version its statement made, or 0
  since,      \* per request, the version when its flight started
  cleared,    \* per request, the versions whose invalidation was complete then
  abandoned   \* per user, the versions whose invalidation was given up

serverVars == <<flight, pc, call, patch, found, scan, answer>>
historyVars == <<ver, wrote, since, cleared, abandoned>>
vars == <<todos, inflight, now, cache, faults, serverVars, historyVars>>

FillPc == {"cacheGet", "query", "cacheSet", "land", "landError"}
WritePc == {"insert", "update", "markDone", "softDelete"}
InvalidatePc == {"delKeys", "scanStart", "scanDel"}
PC == FillPc \cup WritePc \cup InvalidatePc
        \cup {"new", "getByID", "getForUpdate", "wait", "noReply", "answered", "lost"}

NoRows == [rows |-> {}, asOf |-> 0, at |-> 0, stored |-> 0]

\* What the database would answer now for the value kept under k.
Current(k) == Rows(todos, now, k.view, k.user, k.q)

Init ==
  /\ todos = InitialTodos
  /\ inflight = {}
  /\ now = 0
  /\ cache = [k \in Key |-> IF k \in WarmKeys
                            THEN [rows |-> Rows(InitialTodos, 0, k.view, k.user, k.q),
                                  asOf |-> 0, at |-> 0, stored |-> 0]
                            ELSE Nil]
  /\ flight = [k \in Key |-> Nil]
  /\ pc = [r \in Request |-> "new"]
  /\ call = [r \in Request |-> Nil]
  /\ patch = [r \in Request |-> Nil]
  /\ found = [r \in Request |-> NoRows]
  /\ scan = [r \in Request |-> {}]
  /\ answer = [r \in Request |-> Nil]
  /\ faults = 0
  /\ ver = [u \in Users |-> 0]
  /\ wrote = [r \in Request |-> 0]
  /\ since = [r \in Request |-> 0]
  /\ cleared = [r \in Request |-> {}]
  /\ abandoned = [u \in Users |-> {}]

-----------------------------------------------------------------------------
(***************************************************************************)
(* Steps and replies.                                                       *)
(***************************************************************************)

Goto(r, p) == pc' = [pc EXCEPT ![r] = p]

Reply(r, status, rows, asOf) ==
  /\ Goto(r, "answered")
  /\ answer' = [answer EXCEPT ![r] = [status |-> status, rows |-> rows, asOf |-> asOf, stored |-> asOf]]

\* The status of a handler that succeeds, and of one whose call failed.
OkStatus(op) == IF op = "create" THEN 201 ELSE IF op = "delete" THEN 204 ELSE 200
ErrStatus(op) == IF op = "create" THEN 400 ELSE 500

Fault == faults < MaxFaults /\ faults' = faults + 1
NoFault == UNCHANGED faults

(***************************************************************************)
(* Keys.  Search trims the query; the flight key then has it in lower case, *)
(* the cache key in lower case and trimmed once more.                       *)
(***************************************************************************)

KeyOf(c) == [view |-> c.op, user |-> c.user,
             q |-> IF c.op = "search" THEN Fold(c.q) ELSE Nil]

\* Mutant of FlightKey: the key lacks the user id.
KeyOfAnyUser(c) == [KeyOf(c) EXCEPT !.user = CHOOSE u \in Users : TRUE]

FlightKey(c) == [view |-> c.op, user |-> c.user,
                 q |-> IF c.op = "search" THEN LowerCase[TrimQuery[c.q]] ELSE Nil]

CacheKey(c) == [view |-> c.op, user |-> c.user,
                q |-> IF c.op = "search" THEN TrimQuery[LowerCase[TrimQuery[c.q]]] ELSE Nil]

\* The numbers whose decimal form is a proper prefix of that of n.
Shorter[n \in Nat] == IF n < 10 THEN {} ELSE {n \div 10} \cup Shorter[n \div 10]

IsPrefix(u, v) == u = v \/ u \in Shorter[v]

\* SCAN MATCH todo:search:<u>*
Matching(u) == {k \in Key : k.view = "search" /\ IsPrefix(u, k.user)}

-----------------------------------------------------------------------------
(***************************************************************************)
(* A request arrives: the handler parses the id, binds the body and calls   *)
(* the service, which checks due_at before it calls anything.               *)
(***************************************************************************)

Malformed(c) ==
  \/ c.op \in {"get", "update", "complete", "delete"} /\ c.id <= 0
  \/ c.op \in {"create", "update"} /\ c.text = EmptyText

PastDue(c) == c.due # Nil /\ c.due < now

Refused(c) == Malformed(c) \/ (c.op = "create" /\ PastDue(c))

FirstPc(op) ==
  CASE op = "create"   -> "insert"
    [] op = "get"      -> "getByID"
    [] op = "update"   -> "getForUpdate"
    [] op = "complete" -> "markDone"
    [] op = "delete"   -> "softDelete"
    [] op \in Views    -> "cacheGet"

Arrive(r, c) == pc[r] = "new" /\ call' = [call EXCEPT ![r] = c]

Refuse(r, c) ==
  /\ Arrive(r, c) /\ Refused(c)
  /\ Reply(r, 400, {}, 0)
  /\ UNCHANGED <<todos, inflight, now, cache, faults, flight, patch, found, scan, historyVars>>

StartCall(r, c) ==
  /\ Arrive(r, c) /\ ~Refused(c) /\ c.op \notin Views
  /\ Goto(r, FirstPc(c.op))
  /\ UNCHANGED <<todos, inflight, now, cache, faults, flight, patch, found, scan, answer, historyVars>>

\* The versions of user u whose invalidation is complete.
Cleared(u) ==
  {w \in 1..ver[u] : /\ w \notin abandoned[u]
                     /\ \A x \in Request : call[x] # Nil /\ call[x].user = u /\ wrote[x] = w
                                            => pc[x] \notin InvalidatePc}

\* Mutant of LeadFlight: the request runs the function without asking for a flight.
LeadAlways(r, c) ==
  /\ Arrive(r, c) /\ c.op \in Views
  /\ flight' = [flight EXCEPT ![FlightKey(c)] = r]
  /\ Goto(r, FirstPc(c.op))
  /\ since' = [since EXCEPT ![r] = ver[c.user]]
  /\ cleared' = [cleared EXCEPT ![r] = Cleared(c.user)]
  /\ UNCHANGED <<todos, inflight, now, cache, faults, patch, found, scan, answer, ver, wrote, abandoned>>

\* sf.Do finds no flight for the key: this request runs the function.
LeadFlight(r, c) ==
  /\ Arrive(r, c) /\ c.op \in Views
  /\ flight[FlightKey(c)] = Nil
  /\ flight' = [flight EXCEPT ![FlightKey(c)] = r]
  /\ Goto(r, FirstPc(c.op))
  /\ since' = [since EXCEPT ![r] = ver[c.user]]
  /\ cleared' = [cleared EXCEPT ![r] = Cleared(c.user)]
  /\ UNCHANGED <<todos, inflight, now, cache, faults, patch, found, scan, answer, ver, wrote, abandoned>>

\* sf.Do finds a flight: this request waits for its result.
JoinFlight(r, c) ==
  /\ Arrive(r, c) /\ c.op \in Views
  /\ flight[FlightKey(c)] # Nil
  /\ Goto(r, "wait")
  /\ since' = [since EXCEPT ![r] = since[flight[FlightKey(c)]]]
  /\ cleared' = [cleared EXCEPT ![r] = cleared[flight[FlightKey(c)]]]
  /\ UNCHANGED <<todos, inflight, now, cache, faults, flight, patch, found, scan, answer, ver, wrote, abandoned>>

-----------------------------------------------------------------------------
(***************************************************************************)
(* List, Search and Overdue: the function a flight runs.                    *)
(***************************************************************************)

\* Mutant of Aboard: only the leader gets the result.
LeaderOnly(r) == {r}

\* The requests that get the result of the flight r leads.
Aboard(r) == {r} \cup {x \in Request : /\ pc[x] = "wait"
                                       /\ FlightKey(call[x]) = FlightKey(call[r])}

\* The flight of r is forgotten, and everyone aboard answers with snapshot s.
Land(r, status, s) ==
  /\ flight' = [flight EXCEPT ![FlightKey(call[r])] = Nil]
  /\ pc' = [x \in Request |-> IF x \in Aboard(r) THEN "answered" ELSE pc[x]]
  /\ answer' = [x \in Request |-> IF x \in Aboard(r)
                                  THEN [status |-> status, rows |-> s.rows, asOf |-> s.asOf, stored |-> s.stored]
                                  ELSE answer[x]]

\* Mutant of Usable: an empty list is a hit.
UsableEmpty(e) == e # Nil

\* A cached empty list is the JSON null, which decodes to a nil slice: a miss.
Usable(e) == e # Nil /\ e.rows # {}

CacheHit(r) ==
  LET e == cache[CacheKey(call[r])] IN
  /\ pc[r] = "cacheGet" /\ Usable(e)
  /\ found' = [found EXCEPT ![r] = e]
  /\ Goto(r, "land")
  /\ UNCHANGED <<todos, inflight, now, cache, faults, flight, call, patch, scan, answer, historyVars>>

\* A Redis error counts as a miss.
CacheMiss(r) ==
  /\ pc[r] = "cacheGet"
  /\ IF Usable(cache[CacheKey(call[r])]) THEN Fault ELSE NoFault
  /\ Goto(r, "query")
  /\ UNCHANGED <<todos, inflight, now, cache, flight, call, patch, found, scan, answer, historyVars>>

QueryRows(r) ==
  LET c == call[r] IN
  /\ pc[r] = "query"
  /\ found' = [found EXCEPT ![r] = [rows |-> Rows(todos, now, c.op, c.user, c.q),
                                    asOf |-> ver[c.user], at |-> now, stored |-> ver[c.user]]]
  /\ Goto(r, "cacheSet")
  /\ UNCHANGED <<todos, inflight, now, cache, faults, flight, call, patch, scan, answer, historyVars>>

\* Mutant of QueryFails: the failing leader answers for itself alone.
QueryFailsAlone(r) ==
  /\ pc[r] = "query" /\ Fault
  /\ Reply(r, 500, {}, 0)
  /\ UNCHANGED <<todos, inflight, now, cache, flight, call, patch, found, scan, historyVars>>

QueryFails(r) ==
  /\ pc[r] = "query" /\ Fault
  /\ Goto(r, "landError")
  /\ UNCHANGED <<todos, inflight, now, cache, flight, call, patch, found, scan, answer, historyVars>>

CacheSet(r) ==
  LET k == CacheKey(call[r]) IN
  /\ pc[r] = "cacheSet"
  /\ cache' = [cache EXCEPT ![k] = [found[r] EXCEPT !.stored = ver[k.user]]]
  /\ Goto(r, "land")
  /\ UNCHANGED <<todos, inflight, now, faults, flight, call, patch, found, scan, answer, historyVars>>

\* The error of SetList, SetSearch or SetOverdue is dropped.
CacheSetFails(r) ==
  /\ pc[r] = "cacheSet" /\ Fault
  /\ Goto(r, "land")
  /\ UNCHANGED <<todos, inflight, now, cache, flight, call, patch, found, scan, answer, historyVars>>

\* The function has returned, and sf.Do takes the flight off its map.
EndFlight(r) ==
  /\ \/ pc[r] = "land" /\ Land(r, 200, found[r])
     \/ pc[r] = "landError" /\ Land(r, 500, NoRows)
  /\ UNCHANGED <<todos, inflight, now, cache, faults, call, patch, found, scan, historyVars>>

-----------------------------------------------------------------------------
(***************************************************************************)
(* GetByID, and the statements that change the table.                       *)
(***************************************************************************)

ItemAt(t, i) == [id |-> i, row |-> t[i]]

GetByID(r) ==
  LET c == call[r] IN
  /\ pc[r] = "getByID"
  /\ IF Hits(todos, c.user, c.id)
     THEN Reply(r, 200, {ItemAt(todos, c.id)}, ver[c.user])
     ELSE Reply(r, 404, {}, 0)
  /\ UNCHANGED <<todos, inflight, now, cache, faults, flight, call, patch, found, scan, historyVars>>

\* Mutant of Patched: is_done is written whether or not the body has it.
PatchedDone(row, c) ==
  [row EXCEPT !.text = IF c.text = Nil THEN @ ELSE Trim[c.text],
              !.due  = IF c.due = Nil THEN @ ELSE c.due,
              !.done = c.done]

\* The fields of the body that are not nil replace those of the row read.
Patched(row, c) ==
  [row EXCEPT !.text = IF c.text = Nil THEN @ ELSE Trim[c.text],
              !.due  = IF c.due = Nil THEN @ ELSE c.due,
              !.done = IF c.done = Nil THEN @ ELSE c.done]

ReadForUpdate(r) ==
  LET c == call[r] IN
  /\ pc[r] = "getForUpdate"
  /\ \/ /\ ~Hits(todos, c.user, c.id)
        /\ Reply(r, 404, {}, 0) /\ UNCHANGED patch
     \/ /\ Hits(todos, c.user, c.id) /\ PastDue(c)
        /\ Reply(r, 400, {}, 0) /\ UNCHANGED patch
     \/ /\ Hits(todos, c.user, c.id) /\ ~PastDue(c)
        /\ patch' = [patch EXCEPT ![r] = Patched(todos[c.id], c)]
        /\ Goto(r, "update") /\ UNCHANGED answer
  /\ UNCHANGED <<todos, inflight, now, cache, faults, flight, call, found, scan, historyVars>>

\* Whether the statement of r finds a row to change, and the table it leaves.
Effective(r) == call[r].op = "create" \/ Hits(todos, call[r].user, call[r].id)

Written(r) ==
  LET c == call[r] IN
  CASE c.op = "create"   -> InsertRow(todos, c.user, Trim[c.text], c.due)
    [] c.op = "update"   -> UpdateRow(todos, c.id, patch[r])
    [] c.op = "complete" -> MarkDone(todos, c.id)
    [] c.op = "delete"   -> SoftDelete(todos, c.id)

\* The row the statement returns (RETURNING); Exec returns none.
Returned(r) ==
  CASE call[r].op = "create" -> {ItemAt(Written(r), Len(todos) + 1)}
    [] call[r].op = "delete" -> {}
    [] OTHER                 -> {ItemAt(Written(r), call[r].id)}

\* The statement of r commits, and Postgres sends its reply.
Execute(r) ==
  LET u == call[r].user IN
  /\ Effective(r)
  /\ todos' = Written(r)
  /\ ver' = [ver EXCEPT ![u] = @ + 1]
  /\ wrote' = [wrote EXCEPT ![r] = ver[u] + 1]
  /\ found' = [found EXCEPT ![r] = [rows |-> Returned(r), asOf |-> ver[u] + 1, at |-> now, stored |-> ver[u] + 1]]
  /\ UNCHANGED <<now, cache, faults, flight, call, patch, scan, answer, since, cleared>>

\* The reply arrives: the service goes on to invalidate the cache.
Commit(r) ==
  /\ Execute(r)
  /\ Goto(r, "delKeys")
  /\ UNCHANGED <<inflight, abandoned>>

\* No row matches: RETURNING yields pgx.ErrNoRows.
NotFound(r) ==
  /\ ~Effective(r)
  /\ Reply(r, 404, {}, 0)
  /\ UNCHANGED <<todos, inflight, now, cache, faults, flight, call, patch, found, scan, historyVars>>

InsertTodo(r) == pc[r] = "insert" /\ Commit(r)
UpdateTodo(r) == pc[r] = "update" /\ (Commit(r) \/ NotFound(r))
CompleteTodo(r) == pc[r] = "markDone" /\ (Commit(r) \/ NotFound(r))

\* Exec does not say that no row matched: the service invalidates all the same.
DeleteTodo(r) ==
  /\ pc[r] = "softDelete"
  /\ \/ Commit(r)
     \/ /\ ~Effective(r)
        /\ Goto(r, "delKeys")
        /\ UNCHANGED <<todos, inflight, now, cache, faults, flight, call, patch, found, scan, answer, historyVars>>

ReadFails(r) ==
  /\ pc[r] \in {"getByID", "getForUpdate"} /\ Fault
  /\ Reply(r, ErrStatus(call[r].op), {}, 0)
  /\ UNCHANGED <<todos, inflight, now, cache, flight, call, patch, found, scan, historyVars>>

\* Mutant of ReplyLost: the statement is sent again.
RetryLost(r) ==
  /\ pc[r] \in WritePc /\ faults < MaxFaults
  /\ Execute(r)
  /\ UNCHANGED <<inflight, pc, abandoned>>

\* No reply to a statement comes (the client goes away and its context is
\* cancelled, or the connection breaks).  Postgres may have it, and run it to
\* its end at any time, or never.
ReplyLost(r) ==
  /\ pc[r] \in WritePc /\ Fault
  /\ inflight' = inflight \cup {r}
  /\ Goto(r, "noReply")
  /\ UNCHANGED <<todos, now, cache, flight, call, patch, found, scan, answer, historyVars>>

\* pgx returns an error: the service returns it before invalidateCache.
GiveUp(r) ==
  /\ pc[r] = "noReply"
  /\ Reply(r, ErrStatus(call[r].op), {}, 0)
  /\ UNCHANGED <<todos, inflight, now, cache, faults, flight, call, patch, found, scan, historyVars>>

\* A statement nobody waits for commits: before or after its client is told of
\* the error, and also when the process has died meanwhile.
LateCommit(r) ==
  LET u == call[r].user IN
  /\ r \in inflight
  /\ Execute(r)
  /\ inflight' = inflight \ {r}
  /\ abandoned' = [abandoned EXCEPT ![u] = @ \cup {ver[u] + 1}]
  /\ UNCHANGED pc

-----------------------------------------------------------------------------
(***************************************************************************)
(* invalidateCache: DEL of the list and overdue keys, then a SCAN whose      *)
(* every key is deleted by a DEL of its own.  SCAN returns each key that is  *)
(* there all the time from its start to its end, and may return others.      *)
(***************************************************************************)

Succeed(r) == Reply(r, OkStatus(call[r].op), found[r].rows, found[r].asOf)

\* Mutant of DelKeys: the overdue key is forgotten.
DelListKey(r) ==
  /\ pc[r] = "delKeys"
  /\ cache' = [k \in Key |-> IF k.user = call[r].user /\ k.view = "list" THEN Nil ELSE cache[k]]
  /\ Goto(r, "scanStart")
  /\ UNCHANGED <<todos, inflight, now, faults, flight, call, patch, found, scan, answer, historyVars>>

DelKeys(r) ==
  /\ pc[r] = "delKeys"
  /\ cache' = [k \in Key |-> IF k.user = call[r].user /\ k.view \in {"list", "overdue"}
                             THEN Nil ELSE cache[k]]
  /\ Goto(r, "scanStart")
  /\ UNCHANGED <<todos, inflight, now, faults, flight, call, patch, found, scan, answer, historyVars>>

ScanStart(r) ==
  /\ pc[r] = "scanStart"
  /\ scan' = [scan EXCEPT ![r] = {k \in Matching(call[r].user) : cache[k] # Nil}]
  /\ Goto(r, "scanDel")
  /\ UNCHANGED <<todos, inflight, now, cache, faults, flight, call, patch, found, answer, historyVars>>

\* No SCAN has to return a key any more that was deleted after it began.
Forget(k) == scan' = [r \in Request |-> scan[r] \ {k}]

DelSearchKey(r, k) ==
  /\ pc[r] = "scanDel"
  /\ k \in Matching(call[r].user) /\ cache[k] # Nil
  /\ cache' = [cache EXCEPT ![k] = Nil]
  /\ Forget(k)
  /\ UNCHANGED <<todos, inflight, now, faults, flight, pc, call, patch, found, answer, historyVars>>

\* Mutant of ScanEnd: the iterator stops before its last key.
ScanEndEarly(r) ==
  /\ pc[r] = "scanDel"
  /\ Succeed(r)
  /\ UNCHANGED <<todos, inflight, now, cache, faults, flight, call, patch, found, scan, historyVars>>

ScanEnd(r) ==
  /\ pc[r] = "scanDel" /\ scan[r] = {}
  /\ Succeed(r)
  /\ UNCHANGED <<todos, inflight, now, cache, faults, flight, call, patch, found, scan, historyVars>>

\* DEL or SCAN fails: InvalidateAll returns, and its error is dropped.
InvalidateFails(r) ==
  LET u == call[r].user IN
  /\ pc[r] \in InvalidatePc /\ Fault
  /\ Succeed(r)
  /\ abandoned' = [abandoned EXCEPT ![u] = @ \cup {wrote[r]}]
  /\ UNCHANGED <<todos, inflight, now, cache, flight, call, patch, found, scan, ver, wrote, since, cleared>>

-----------------------------------------------------------------------------
(***************************************************************************)
(* The environment.                                                         *)
(***************************************************************************)

\* The process dies and is restarted: requests and flights are lost, the table,
\* the cache and the statements Postgres has are not.
Crash ==
  /\ Fault
  /\ pc' = [r \in Request |-> IF pc[r] \in {"new", "answered"} THEN pc[r] ELSE "lost"]
  /\ inflight' = inflight \cup {r \in Request : pc[r] \in WritePc}
  /\ flight' = [k \in Key |-> Nil]
  /\ abandoned' = [u \in Users |-> abandoned[u] \cup
       {wrote[r] : r \in {x \in Request : pc[x] \in InvalidatePc /\ call[x].user = u}}]
  /\ UNCHANGED <<todos, now, cache, call, patch, found, scan, answer, ver, wrote, since, cleared>>

\* go-redis sends no expiry for a TTL that is not positive.
Expire(k) ==
  /\ TTL > 0 /\ cache[k] # Nil
  /\ cache' = [cache EXCEPT ![k] = Nil]
  /\ Forget(k)
  /\ UNCHANGED <<todos, inflight, now, faults, flight, pc, call, patch, found, answer, historyVars>>

Tick ==
  /\ now < MaxNow /\ now' = now + 1
  /\ UNCHANGED <<todos, inflight, cache, faults, serverVars, historyVars>>

\* Every request is over: the server idles.
Idle ==
  /\ \A r \in Request : pc[r] \in {"answered", "lost"}
  /\ UNCHANGED vars

Receive(r) ==
  \E c \in Calls : Refuse(r, c) \/ StartCall(r, c) \/ LeadFlight(r, c) \/ JoinFlight(r, c)

Fill(r) == CacheHit(r) \/ CacheMiss(r) \/ QueryRows(r) \/ CacheSet(r) \/ EndFlight(r)

Statement(r) ==
  \/ GetByID(r) \/ ReadForUpdate(r)
  \/ InsertTodo(r) \/ UpdateTodo(r) \/ CompleteTodo(r) \/ DeleteTodo(r) \/ GiveUp(r)

Invalidate(r) ==
  DelKeys(r) \/ ScanStart(r) \/ (\E k \in Key : DelSearchKey(r, k)) \/ ScanEnd(r)

Fail(r) ==
  \/ QueryFails(r) \/ CacheSetFails(r)
  \/ ReadFails(r) \/ ReplyLost(r) \/ InvalidateFails(r)

Next ==
  \/ \E r \in Request : Receive(r) \/ Fill(r) \/ Statement(r) \/ Invalidate(r) \/ Fail(r) \/ LateCommit(r)
  \/ \E k \in Key : Expire(k)
  \/ Crash \/ Tick \/ Idle

Spec == Init /\ [][Next]_vars

\* A call to Postgres or Redis returns, if only an error, and goroutines are
\* scheduled.  Clients owe nothing, nor does a statement nobody waits for.
Progress(r) == Fill(r) \/ Statement(r) \/ Invalidate(r)

FairSpec == Spec /\ \A r \in Request : WF_vars(Progress(r))

-----------------------------------------------------------------------------
(***************************************************************************)
(* Properties.                                                              *)
(***************************************************************************)

\* Every variable holds what the Go, SQL or Redis value it models can hold.
TypeOK ==
  /\ todos \in Seq(Row)
  /\ inflight \subseteq Request
  /\ now \in Nat /\ faults \in Nat
  /\ cache \in [Key -> Snapshot \cup {Nil}]
  /\ flight \in [Key -> Request \cup {Nil}]
  /\ pc \in [Request -> PC]
  /\ call \in [Request -> Calls \cup {Nil}]
  /\ patch \in [Request -> Row \cup {Nil}]
  /\ found \in [Request -> Snapshot]
  /\ scan \in [Request -> SUBSET Key]
  /\ answer \in [Request -> Response \cup {Nil}]
  /\ ver \in [Users -> Nat]
  /\ wrote \in [Request -> Nat]
  /\ since \in [Request -> Nat]
  /\ cleared \in [Request -> SUBSET Nat]
  /\ abandoned \in [Users -> SUBSET Nat]

\* Row x may appear in what view k.view shows user k.user for query k.q at time n.
Fits(k, x, n) == x.owner = k.user /\ ~x.deleted /\ Selects(k.view, k.q, x, n)

\* Whatever way an answer took, from the database, from the cache or from the
\* flight of another request, it holds rows of the caller that had not been
\* deleted when they were read, and a list, search or overdue answer only rows
\* of that view and query: keys never mix users, views or queries.
AnswerFitsCall ==
  \A r \in Request : answer[r] # Nil =>
    \A it \in answer[r].rows :
      /\ it.row.owner = call[r].user /\ ~it.row.deleted
      /\ call[r].op \in Views => Fits(KeyOf(call[r]), it.row, now)

\* Request r still has to delete key k: it is in InvalidateAll, before the DEL
\* that covers k.
Clears(r, k) ==
  \/ pc[r] = "delKeys"
  \/ pc[r] = "scanStart" /\ k.view = "search"
  \/ pc[r] = "scanDel" /\ k \in scan[r]

\* Write w of k's user cannot be counted on to have removed k: its invalidation
\* was given up, or has not come to k yet.
Excused(w, k) ==
  \/ w \in abandoned[k.user]
  \/ \E r \in Request : call[r] # Nil /\ call[r].user = k.user /\ wrote[r] = w /\ Clears(r, k)

\* A cached list that is not what the database would answer has one of three
\* causes: the fill read it before a write and stored it after; it is the
\* overdue list and time has passed; or every write since it was stored either
\* is still invalidating or had its invalidation fail.  Any other stale entry
\* would be a write whose InvalidateAll misses a key.
StaleEntryExplained ==
  \A k \in Key : cache[k] # Nil /\ cache[k].rows # Current(k) =>
    \/ cache[k].asOf < cache[k].stored
    \/ k.view = "overdue" /\ cache[k].at < now
    \/ /\ cache[k].stored < ver[k.user]
       /\ \A w \in (cache[k].stored + 1)..ver[k.user] : Excused(w, k)

\* singleflight: two requests never run the same list, search or overdue query
\* at the same time.
OneFillPerKey ==
  \A r, s \in Request :
    pc[r] \in FillPc /\ pc[s] \in FillPc /\ KeyOf(call[r]) = KeyOf(call[s]) => r = s

\* Whoever waits for a flight has a leader that is still running, for its own
\* view, user and query: no error path or restart strands it.
WaitersHaveLeader ==
  \A r \in Request : pc[r] = "wait" =>
    \E s \in Request : pc[s] \in FillPc /\ KeyOf(call[s]) = KeyOf(call[r])

\* An empty list is never served from the cache (its JSON null reads as a
\* miss), so an empty answer counts every write made before its flight began.
EmptyAnswersAreCurrent ==
  \A r \in Request :
    answer[r] # Nil /\ call[r].op \in Views /\ answer[r].status = 200 /\ answer[r].rows = {}
      => answer[r].asOf >= since[r]

\* A list counts every write whose statement and invalidation were over when
\* the flight that answers it began, whoever leads that flight and wherever its
\* rows come from, but for one case: rows from the cache that a fill read before
\* the write and stored after it.
StaleAnswerExplained ==
  \A r \in Request :
    answer[r] # Nil /\ call[r].op \in Views /\ answer[r].status = 200 =>
      \A w \in cleared[r] : \/ w <= answer[r].asOf
                            \/ answer[r].asOf < w /\ w <= answer[r].stored

\* No later step, and no update that read the row before it was deleted,
\* changes a deleted row.
DeletedIsFinal ==
  [][\A i \in DOMAIN todos : todos[i].deleted => todos'[i] = todos[i]]_todos

\* A row changes only by a statement of its owner.
RowChangesOnlyByOwner ==
  [][\A i \in DOMAIN todos : todos'[i] # todos[i] =>
       \E r \in Request : wrote'[r] # wrote[r] /\ call[r].user = todos[i].owner]_vars

\* A request that has arrived is answered unless the process dies under it,
\* also when it waits for the flight of a request that fails.
EveryCallAnswered ==
  \A r \in Request : pc[r] # "new" ~> pc[r] \in {"answered", "lost"}

-----------------------------------------------------------------------------
(***************************************************************************)
(* What the repository says of the program, and the code does not keep.     *)
(***************************************************************************)

\* dto/todo.go says of the fields of UpdateTodoRequest that nil is "не менять":
\* the UPDATE of a request whose body lacks is_done leaves is_done as it is.
OmittedDoneKept ==
  [][\A r \in Request :
       call[r] # Nil /\ call[r].op = "update" /\ wrote'[r] # wrote[r] /\ call[r].done = Nil
         => todos'[call[r].id].done = todos[call[r].id].done]_vars

\* README.md: any write of a user is followed by the invalidation of its keys.
EveryWriteInvalidates ==
  [][\A r \in Request : wrote'[r] # wrote[r] => pc'[r] = "delKeys"]_vars

\* CreateTodoRequest demands a title of at least one character: no todo is
\* stored without one.
TitlesNotEmpty == \A i \in DOMAIN todos : todos[i].text # EmptyText
=============================================================================

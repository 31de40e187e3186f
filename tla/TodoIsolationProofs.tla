------------------------- MODULE TodoIsolationProofs -------------------------
(***************************************************************************)
(* No answer of TodoService holds a row of another user, a deleted row, or  *)
(* a row of another view or query.                                          *)
(***************************************************************************)
EXTENDS TodoServiceProofs

\* What is kept under a key fits the key.
CacheFits == \A k \in Key : cache[k] # Nil => \A it \in cache[k].rows : Fits(k, it.row, now)

\* What a fill has read, from the database or from the cache, fits its key.
FillFits == \A r \in Request : pc[r] \in {"cacheSet", "land"} =>
              \A it \in found[r].rows : Fits(KeyOf(call[r]), it.row, now)

\* What a statement returned is a row of the caller.
WriteFits == \A r \in Request : pc[r] \in InvalidatePc =>
               \A it \in found[r].rows : it.row.owner = call[r].user /\ ~it.row.deleted

Basics == TypeOK /\ Phases /\ Untouched
Isolation == CacheFits /\ FillFits /\ WriteFits /\ AnswerFitsCall

\* The clock never goes back.
LEMMA ClockAdvances ==
  ASSUME TypeOK, [Next]_vars
  PROVE  now' \in Nat /\ now <= now'
<1>1. ASSUME NEW r \in Request, Receive(r)
      PROVE  now' = now
  BY <1>1 DEF Receive, Refuse, StartCall, LeadFlight, JoinFlight
<1>2. ASSUME NEW r \in Request, Fill(r) \/ QueryFails(r) \/ CacheSetFails(r)
      PROVE  now' = now
  BY <1>2 DEF Fill, CacheHit, CacheMiss, QueryRows, QueryFails, CacheSet, CacheSetFails, EndFlight
<1>3. ASSUME NEW r \in Request, Statement(r) \/ ReadFails(r) \/ ReplyLost(r) \/ LateCommit(r)
      PROVE  now' = now
  BY <1>3 DEF Statement, GetByID, ReadForUpdate, InsertTodo, UpdateTodo, CompleteTodo, DeleteTodo, GiveUp,
     ReadFails, ReplyLost, LateCommit, Commit, NotFound, Execute
<1>4. ASSUME NEW r \in Request, Invalidate(r) \/ InvalidateFails(r)
      PROVE  now' = now
  BY <1>4 DEF Invalidate, InvalidateFails, DelKeys, ScanStart, DelSearchKey, ScanEnd
<1>5. ASSUME Crash \/ (\E k \in Key : Expire(k)) \/ UNCHANGED vars
      PROVE  now' = now
  BY <1>5 DEF Crash, Expire, vars
<1>6. CASE Tick
  BY <1>6 DEF Tick, TypeOK
<1>7. now \in Nat
  BY DEF TypeOK
<1> QED
  BY <1>1, <1>2, <1>3, <1>4, <1>5, <1>6, <1>7 DEF Next, Fail, Idle

\* A row that fits goes on fitting: only the overdue view asks for the time, and
\* what is overdue stays so.
LEMMA FitsLater ==
  ASSUME NEW k \in Key, NEW x \in Row, NEW n \in Nat, NEW m \in Nat, n <= m, Fits(k, x, n)
  PROVE  Fits(k, x, m)
<1>1. x.due \in Nat \cup {Nil}
  BY DEF Row
<1> QED
  BY <1>1 DEF Fits, Selects

\* The query a request sends to the database answers for the key the answer is
\* kept under, though the key holds the query in lower case.
LEMMA QueryFitsKey ==
  ASSUME NEW t \in Seq(Row), NEW n \in Nat, NEW c \in Calls, c.op \in Views
  PROVE  /\ Rows(t, n, c.op, c.user, c.q) = Rows(t, n, KeyOf(c).view, KeyOf(c).user, KeyOf(c).q)
         /\ \A it \in Rows(t, n, c.op, c.user, c.q) : Fits(KeyOf(c), it.row, n)
<1>1. /\ KeyOf(c).view = c.op /\ KeyOf(c).user = c.user
      /\ c.op = "search" => KeyOf(c).q = Fold(c.q) /\ Fold(Fold(c.q)) = Fold(c.q)
  <2>1. c.op = "search" => c.q \in Queries
    BY ServiceAssumption DEF Call
  <2>2. ASSUME c.op = "search"
        PROVE  Fold(Fold(c.q)) = Fold(c.q)
    BY <2>1, <2>2, TableAssumption DEF Fold
  <2> QED
    BY <2>2 DEF KeyOf
<1>2. \A i \in DOMAIN t : Selects(c.op, c.q, t[i], n) <=> Selects(KeyOf(c).view, KeyOf(c).q, t[i], n)
  BY <1>1 DEF Selects, ILike
<1>3. Rows(t, n, c.op, c.user, c.q) = Rows(t, n, KeyOf(c).view, KeyOf(c).user, KeyOf(c).q)
  BY <1>1, <1>2 DEF Rows
<1>4. \A it \in Rows(t, n, c.op, c.user, c.q) : Fits(KeyOf(c), it.row, n)
  BY <1>1, <1>2 DEF Rows, Hits, Fits
<1> QED
  BY <1>3, <1>4

\* Nothing but the SET of a fill puts a value into the cache.
LEMMA OnlyFillsCache ==
  ASSUME TypeOK, Phases, [Next]_vars, NEW k \in Key, cache'[k] # Nil, cache'[k] # cache[k]
  PROVE  \E r \in Request :
           /\ pc[r] = "cacheSet" /\ k = KeyOf(call[r])
           /\ cache'[k] = [found[r] EXCEPT !.stored = ver[k.user]]
           /\ UNCHANGED <<todos, now, ver>>
<1>1. ASSUME NEW r \in Request, Receive(r)
      PROVE  cache' = cache
  BY <1>1 DEF Receive, Refuse, StartCall, LeadFlight, JoinFlight
<1>2. ASSUME NEW r \in Request, CacheHit(r) \/ CacheMiss(r) \/ QueryRows(r) \/ QueryFails(r) \/ CacheSetFails(r)
                                  \/ EndFlight(r)
      PROVE  cache' = cache
  BY <1>2 DEF CacheHit, CacheMiss, QueryRows, QueryFails, CacheSetFails, EndFlight
<1>3. ASSUME NEW r \in Request, Statement(r) \/ ReadFails(r) \/ ReplyLost(r) \/ LateCommit(r)
      PROVE  cache' = cache
  BY <1>3 DEF Statement, GetByID, ReadForUpdate, InsertTodo, UpdateTodo, CompleteTodo, DeleteTodo, GiveUp,
     ReadFails, ReplyLost, LateCommit, Commit, NotFound, Execute
<1>4. ASSUME NEW r \in Request, Invalidate(r) \/ InvalidateFails(r)
      PROVE  cache'[k] \in {Nil, cache[k]}
  BY <1>4 DEF Invalidate, InvalidateFails, DelKeys, ScanStart, DelSearchKey, ScanEnd, TypeOK
<1>5. ASSUME Crash \/ Tick \/ (\E x \in Key : Expire(x)) \/ UNCHANGED vars
      PROVE  cache'[k] \in {Nil, cache[k]}
  BY <1>5 DEF Crash, Tick, Expire, vars, TypeOK
<1>6. PICK r \in Request : CacheSet(r)
  BY <1>1, <1>2, <1>3, <1>4, <1>5 DEF Next, Fill, Fail, Idle
<1>7. pc[r] = "cacheSet" /\ call[r] \in Calls /\ call[r].op \in Views
  BY <1>6 DEF CacheSet, TypeOK, Phases, FillPc
<1>8. CacheKey(call[r]) = KeyOf(call[r])
  BY <1>7, KeysAgree
<1> QED
  BY <1>6, <1>7, <1>8 DEF CacheSet, historyVars, TypeOK

\* An arrival concerns the arriving request alone, and gives it no rows.
LEMMA ArrivalStep ==
  ASSUME TypeOK, NEW r \in Request, Receive(r)
  PROVE  /\ pc[r] = "new" /\ UNCHANGED <<todos, inflight, cache, found, scan, ver, wrote, abandoned>>
         /\ pc'[r] \notin InvalidatePc \cup {"new", "cacheSet", "land", "landError", "noReply"}
         /\ answer'[r] = answer[r] \/ answer'[r].rows = {}
         /\ \A x \in Request \ {r} : pc'[x] = pc[x] /\ call'[x] = call[x] /\ answer'[x] = answer[x]
<1> PICK c \in Calls : Refuse(r, c) \/ StartCall(r, c) \/ LeadFlight(r, c) \/ JoinFlight(r, c)
  BY DEF Receive
<1>1. CASE Refuse(r, c)
  BY <1>1 DEF Refuse, Arrive, Reply, Goto, TypeOK, InvalidatePc, historyVars
<1>2. CASE StartCall(r, c)
  <2>1. FirstPc(c.op) \notin InvalidatePc \cup {"new", "cacheSet", "land", "landError", "noReply"}
    BY <1>2, ServiceAssumption DEF StartCall, FirstPc, InvalidatePc, Call, Ops, Views
  <2> QED
    BY <1>2, <2>1 DEF StartCall, Arrive, Goto, TypeOK, historyVars
<1>3. CASE LeadFlight(r, c) \/ JoinFlight(r, c)
  BY <1>3 DEF LeadFlight, JoinFlight, Arrive, Goto, FirstPc, Views, TypeOK, InvalidatePc
<1> QED
  BY <1>1, <1>2, <1>3

\* A fill comes by its rows by asking the database or the cache.
LEMMA OnlyReadsFill ==
  ASSUME TypeOK, Phases, [Next]_vars, NEW x \in Request, pc'[x] \in {"cacheSet", "land"}
  PROVE  \/ /\ pc[x] \in {"cacheSet", "land"} /\ (pc'[x] = "cacheSet" => pc[x] = "cacheSet")
            /\ found'[x] = found[x] /\ call'[x] = call[x]
         \/ QueryRows(x) \/ CacheHit(x)
<1> DEFINE Kept == /\ pc[x] \in {"cacheSet", "land"} /\ (pc'[x] = "cacheSet" => pc[x] = "cacheSet")
                   /\ found'[x] = found[x] /\ call'[x] = call[x]
<1>1. ASSUME NEW r \in Request, Receive(r)
      PROVE  Kept
  BY <1>1, ArrivalStep
<1>2. ASSUME NEW r \in Request, Fill(r) \/ QueryFails(r) \/ CacheSetFails(r), ~QueryRows(x), ~CacheHit(x)
      PROVE  Kept
  BY <1>2 DEF Fill, CacheHit, CacheMiss, QueryRows, QueryFails, CacheSet, CacheSetFails, EndFlight, Land, Goto,
     TypeOK
<1>3. ASSUME NEW r \in Request, Statement(r) \/ ReadFails(r) \/ ReplyLost(r)
      PROVE  Kept
  BY <1>3 DEF Statement, GetByID, ReadForUpdate, InsertTodo, UpdateTodo, CompleteTodo, DeleteTodo, GiveUp,
     ReadFails, ReplyLost, Commit, NotFound, Execute, Reply, Goto, TypeOK
<1>4. ASSUME NEW r \in Request, LateCommit(r)
      PROVE  Kept
  <2>1. x # r
    BY <1>4 DEF LateCommit, Phases
  <2> QED
    BY <1>4, <2>1 DEF LateCommit, Execute, TypeOK
<1>5. ASSUME NEW r \in Request, Invalidate(r) \/ InvalidateFails(r)
      PROVE  Kept
  BY <1>5 DEF Invalidate, InvalidateFails, DelKeys, ScanStart, DelSearchKey, ScanEnd, Succeed, Reply, Goto, TypeOK
<1>6. ASSUME Crash \/ Tick \/ (\E k \in Key : Expire(k)) \/ UNCHANGED vars
      PROVE  Kept
  BY <1>6 DEF Crash, Tick, Expire, vars, TypeOK, serverVars
<1> QED
  BY <1>1, <1>2, <1>3, <1>4, <1>5, <1>6 DEF Next, Fail, Idle

\* A request comes to invalidate by its statement: with the row that returned,
\* or with none.
LEMMA OnlyStatementsInvalidate ==
  ASSUME TypeOK, Phases, [Next]_vars, NEW x \in Request, pc'[x] \in InvalidatePc
  PROVE  \/ pc[x] \in InvalidatePc /\ found'[x] = found[x] /\ call'[x] = call[x]
         \/ pc[x] \in WritePc /\ Commit(x)
         \/ pc[x] = "softDelete" /\ ~Effective(x) /\ found'[x] = found[x] /\ call'[x] = call[x]
<1> DEFINE Kept == pc[x] \in InvalidatePc /\ found'[x] = found[x] /\ call'[x] = call[x]
<1>1. ASSUME NEW r \in Request, Receive(r)
      PROVE  Kept
  BY <1>1, ArrivalStep
<1>2. ASSUME NEW r \in Request, Fill(r) \/ QueryFails(r) \/ CacheSetFails(r)
      PROVE  Kept
  BY <1>2 DEF Fill, CacheHit, CacheMiss, QueryRows, QueryFails, CacheSet, CacheSetFails, EndFlight, Land, Goto,
     TypeOK, InvalidatePc
<1>3. ASSUME NEW r \in Request, GetByID(r) \/ ReadForUpdate(r) \/ NotFound(r) \/ GiveUp(r) \/ ReadFails(r) \/ ReplyLost(r)
      PROVE  Kept
  BY <1>3 DEF GetByID, ReadForUpdate, NotFound, GiveUp, ReadFails, ReplyLost, Reply, Goto, TypeOK, InvalidatePc
<1>9. ASSUME NEW r \in Request, LateCommit(r)
      PROVE  Kept
  <2>1. x # r
    BY <1>9 DEF LateCommit, Phases, InvalidatePc
  <2> QED
    BY <1>9, <2>1 DEF LateCommit, Execute, TypeOK
<1>4. ASSUME NEW r \in Request, pc[r] \in WritePc, Commit(r)
      PROVE  Kept \/ (pc[x] \in WritePc /\ Commit(x))
  BY <1>4 DEF Commit, Execute, Goto, TypeOK
<1>5. ASSUME NEW r \in Request, DeleteTodo(r), ~Commit(r)
      PROVE  Kept \/ (pc[x] = "softDelete" /\ ~Effective(x) /\ found'[x] = found[x] /\ call'[x] = call[x])
  BY <1>5 DEF DeleteTodo, Goto, TypeOK
<1>6. ASSUME NEW r \in Request, Invalidate(r) \/ InvalidateFails(r)
      PROVE  Kept
  BY <1>6 DEF Invalidate, InvalidateFails, DelKeys, ScanStart, DelSearchKey, ScanEnd, Succeed, Reply, Goto, TypeOK,
     InvalidatePc
<1>7. ASSUME Crash \/ Tick \/ (\E k \in Key : Expire(k)) \/ UNCHANGED vars
      PROVE  Kept
  BY <1>7 DEF Crash, Tick, Expire, vars, TypeOK, serverVars, InvalidatePc
<1>8. ASSUME NEW r \in Request, Statement(r)
      PROVE  \/ GetByID(r) \/ ReadForUpdate(r) \/ NotFound(r) \/ GiveUp(r)
             \/ pc[r] \in WritePc /\ Commit(r)
             \/ DeleteTodo(r) /\ ~Commit(r)
  BY <1>8 DEF Statement, InsertTodo, UpdateTodo, CompleteTodo, DeleteTodo, WritePc
<1> QED
  BY <1>1, <1>2, <1>3, <1>4, <1>5, <1>6, <1>7, <1>8, <1>9 DEF Next, Fail, Idle

\* Where the rows of a new answer come from.
LEMMA OnlySourcesAnswer ==
  ASSUME TypeOK, Phases, Untouched, [Next]_vars, NEW x \in Request, answer'[x] # Nil, answer'[x].rows # {}
  PROVE  /\ call'[x] = call[x]
         /\ \/ answer'[x] = answer[x]
            \/ /\ pc[x] \in FillPc \cup {"wait"}
               /\ \E r \in Request : /\ pc[r] = "land" /\ KeyOf(call[r]) = KeyOf(call[x])
                                     /\ answer'[x].rows = found[r].rows
            \/ pc[x] \in InvalidatePc /\ answer'[x].rows = found[x].rows
            \/ /\ pc[x] = "getByID" /\ Hits(todos, call[x].user, call[x].id)
               /\ answer'[x].rows = {ItemAt(todos, call[x].id)}
<1> DEFINE Kept == call'[x] = call[x] /\ answer'[x] = answer[x]
<1>1. ASSUME NEW r \in Request, Receive(r)
      PROVE  Kept
  BY <1>1, ArrivalStep DEF Untouched
<1>2. ASSUME NEW r \in Request,
             CacheHit(r) \/ CacheMiss(r) \/ QueryRows(r) \/ QueryFails(r) \/ CacheSet(r) \/ CacheSetFails(r)
      PROVE  Kept
  BY <1>2 DEF CacheHit, CacheMiss, QueryRows, QueryFails, CacheSet, CacheSetFails
<1>3. ASSUME NEW r \in Request, EndFlight(r)
      PROVE  \/ Kept
             \/ /\ call'[x] = call[x] /\ pc[x] \in FillPc \cup {"wait"}
                /\ pc[r] = "land" /\ KeyOf(call[r]) = KeyOf(call[x])
                /\ answer'[x].rows = found[r].rows
  <2>1. PICK y \in {found[r], NoRows}, status \in {200, 500} :
          /\ Land(r, status, y) /\ call' = call /\ pc[r] \in FillPc
          /\ (pc[r] = "land" /\ y = found[r]) \/ y = NoRows
    BY <1>3 DEF EndFlight, FillPc
  <2>2. CASE x \notin Aboard(r)
    BY <2>1, <2>2 DEF Land
  <2>3. CASE x \in Aboard(r)
    <3>1. answer'[x].rows = y.rows
      BY <2>1, <2>3 DEF Land
    <3>2. pc[r] = "land" /\ answer'[x].rows = found[r].rows
      BY <2>1, <3>1 DEF NoRows
    <3>3. \A z \in Request : pc[z] \in FillPc \cup {"wait"} => FlightKey(call[z]) = KeyOf(call[z])
      BY KeysAgree DEF TypeOK, Phases, FillPc
    <3>4. pc[x] \in FillPc \cup {"wait"} /\ KeyOf(call[r]) = KeyOf(call[x])
      BY <2>1, <2>3, <3>3 DEF Aboard
    <3> QED
      BY <2>1, <3>2, <3>4
  <2> QED
    BY <2>2, <2>3
<1>4. ASSUME NEW r \in Request,
             NotFound(r) \/ GiveUp(r) \/ ReadFails(r) \/ ReplyLost(r) \/ LateCommit(r) \/ ReadForUpdate(r)
      PROVE  Kept
  BY <1>4 DEF NotFound, GiveUp, ReadFails, ReplyLost, LateCommit, ReadForUpdate, Execute, Reply, TypeOK
<1>5. ASSUME NEW r \in Request, Commit(r) \/ (DeleteTodo(r) /\ ~Commit(r))
      PROVE  Kept
  BY <1>5 DEF Commit, Execute, DeleteTodo
<1>6. ASSUME NEW r \in Request, GetByID(r)
      PROVE  \/ Kept
             \/ /\ call'[x] = call[x] /\ pc[x] = "getByID" /\ Hits(todos, call[x].user, call[x].id)
                /\ answer'[x].rows = {ItemAt(todos, call[x].id)}
  BY <1>6 DEF GetByID, Reply, TypeOK
<1>7. ASSUME NEW r \in Request, DelKeys(r) \/ ScanStart(r) \/ (\E k \in Key : DelSearchKey(r, k))
      PROVE  Kept
  BY <1>7 DEF DelKeys, ScanStart, DelSearchKey
<1>8. ASSUME NEW r \in Request, ScanEnd(r) \/ InvalidateFails(r)
      PROVE  \/ Kept
             \/ call'[x] = call[x] /\ pc[x] \in InvalidatePc /\ answer'[x].rows = found[x].rows
  BY <1>8 DEF ScanEnd, InvalidateFails, Succeed, Reply, InvalidatePc, TypeOK
<1>9. ASSUME Crash \/ Tick \/ (\E k \in Key : Expire(k)) \/ UNCHANGED vars
      PROVE  Kept
  BY <1>9 DEF Crash, Tick, Expire, vars, serverVars
<1>11. ASSUME NEW r \in Request, Statement(r)
       PROVE  \/ GetByID(r) \/ ReadForUpdate(r) \/ NotFound(r) \/ Commit(r) \/ GiveUp(r)
              \/ DeleteTodo(r) /\ ~Commit(r)
  BY <1>11 DEF Statement, InsertTodo, UpdateTodo, CompleteTodo, DeleteTodo
<1> QED
  BY <1>1, <1>2, <1>3, <1>4, <1>5, <1>6, <1>7, <1>8, <1>9, <1>11 DEF Next, Fill, Invalidate, Fail, Idle

-----------------------------------------------------------------------------
(***************************************************************************)
(* Isolation is inductive.                                                  *)
(***************************************************************************)

\* The row a statement returns is a live row of the caller.
LEMMA ReturnedFits ==
  ASSUME TypeOK, Phases, NEW r \in Request, Running(r), Effective(r)
  PROVE  \A it \in Returned(r) : it.row.owner = call[r].user /\ ~it.row.deleted
<1> DEFINE c == call[r]
<1>1. /\ todos \in Seq(Row) /\ c.due \in Nat \cup {Nil} /\ c.user \in Users /\ c.op \in Writes
      /\ c.op = "create" => c.text \in Texts
      /\ c.op = "update" => patch[r] \in Row
  BY RunningCalls DEF TypeOK
<1>2. CASE c.op = "create"
  <2> DEFINE x == [owner |-> c.user, text |-> Trim[c.text], done |-> FALSE, due |-> c.due, deleted |-> FALSE]
  <2>1. x \in Row
    BY <1>1, <1>2, ServiceAssumption DEF Row
  <2>2. Written(r) = Append(todos, x)
    BY <1>2 DEF Written, InsertRow
  <2>3. Written(r)[Len(todos) + 1] = x
    BY <1>1, <2>1, <2>2, AppendProperties
  <2> QED
    BY <1>2, <2>3 DEF Returned, ItemAt
<1>3. CASE c.op \in {"update", "complete"}
  <2>1. c.id \in DOMAIN todos /\ todos[c.id] \in Row /\ todos[c.id].owner = c.user /\ ~todos[c.id].deleted
    BY <1>1, <1>3 DEF Effective, Hits
  <2>2. Written(r)[c.id].owner = c.user /\ ~Written(r)[c.id].deleted
    <3>1. CASE c.op = "update"
      <4>1. Written(r)[c.id] = [todos[c.id] EXCEPT !.text = patch[r].text, !.due = patch[r].due, !.done = patch[r].done]
        BY <1>1, <2>1, <3>1 DEF Written, UpdateRow
      <4> QED
        BY <2>1, <4>1 DEF Row
    <3>2. CASE c.op = "complete"
      <4>1. Written(r)[c.id] = [todos[c.id] EXCEPT !.done = TRUE]
        BY <1>1, <2>1, <3>2 DEF Written, MarkDone
      <4> QED
        BY <2>1, <4>1 DEF Row
    <3> QED
      BY <1>3, <3>1, <3>2
  <2>3. Returned(r) = {ItemAt(Written(r), c.id)}
    BY <1>3 DEF Returned
  <2> QED
    BY <2>2, <2>3 DEF ItemAt
<1>4. CASE c.op = "delete"
  BY <1>4 DEF Returned
<1> QED
  BY <1>1, <1>2, <1>3, <1>4 DEF Writes

\* Every step keeps the isolation of what is read, kept and answered.
LEMMA IsolationStep ==
  ASSUME Basics, Isolation, [Next]_vars
  PROVE  Isolation'
<1> USE DEF Basics, Isolation
<1>k. \A r \in Request : pc[r] \in FillPc \cup {"wait"} =>
        /\ call[r] \in Calls /\ call[r].op \in Views
        /\ KeyOf(call[r]) \in Key /\ KeyOf(call[r]).user = call[r].user
        /\ CacheKey(call[r]) = KeyOf(call[r])
  BY KeyOfType, KeysAgree DEF TypeOK, Phases, KeyOf, FillPc
<1>n. now \in Nat /\ now' \in Nat /\ now <= now'
  BY ClockAdvances DEF TypeOK
<1>i. ASSUME NEW rows \in SUBSET Item, NEW k \in Key, \A it \in rows : Fits(k, it.row, now)
      PROVE  \A it \in rows : Fits(k, it.row, now')
  BY <1>i, <1>n, FitsLater DEF Item
<1>c. \A k \in Key : cache[k] # Nil => cache[k].rows \in SUBSET Item
  BY DEF TypeOK, Snapshot
<1>f. \A r \in Request : found[r].rows \in SUBSET Item
  BY DEF TypeOK, Snapshot
<1>1. CacheFits'
  <2> SUFFICES ASSUME NEW k \in Key, cache'[k] # Nil
               PROVE  \A it \in cache'[k].rows : Fits(k, it.row, now')
    BY DEF CacheFits
  <2>1. CASE cache'[k] = cache[k]
    BY <1>i, <1>c, <2>1 DEF CacheFits
  <2>2. CASE cache'[k] # cache[k]
    <3>1. PICK r \in Request : pc[r] = "cacheSet" /\ k = KeyOf(call[r]) /\ cache'[k].rows = found[r].rows
      <4>1. PICK r \in Request : /\ pc[r] = "cacheSet" /\ k = KeyOf(call[r])
                                /\ cache'[k] = [found[r] EXCEPT !.stored = ver[k.user]]
        BY <2>2, OnlyFillsCache
      <4>2. found[r] \in Snapshot
        BY DEF TypeOK
      <4> QED
        BY <4>1, <4>2 DEF Snapshot
    <3> QED
      BY <1>i, <1>f, <3>1 DEF FillFits
  <2> QED
    BY <2>1, <2>2
<1>2. FillFits'
  <2> SUFFICES ASSUME NEW x \in Request, pc'[x] \in {"cacheSet", "land"}
               PROVE  \A it \in found'[x].rows : Fits(KeyOf(call'[x]), it.row, now')
    BY DEF FillFits
  <2>1. CASE pc[x] \in {"cacheSet", "land"} /\ found'[x] = found[x] /\ call'[x] = call[x]
    <3>1. KeyOf(call[x]) \in Key
      BY <1>k, <2>1 DEF FillPc
    <3> QED
      BY <1>i, <1>f, <2>1, <3>1 DEF FillFits
  <2>2. CASE QueryRows(x)
    <3>1. call' = call /\ now' = now /\ call[x] \in Calls /\ call[x].op \in Views
      BY <1>k, <2>2 DEF QueryRows, FillPc
    <3>2. found'[x].rows = Rows(todos, now, call[x].op, call[x].user, call[x].q)
      BY <2>2 DEF QueryRows, TypeOK
    <3> QED
      BY <1>n, <3>1, <3>2, QueryFitsKey DEF TypeOK
  <2>3. CASE CacheHit(x)
    <3>1. call' = call /\ now' = now /\ KeyOf(call[x]) \in Key /\ CacheKey(call[x]) = KeyOf(call[x])
      BY <1>k, <2>3 DEF CacheHit, FillPc
    <3>2. cache[KeyOf(call[x])] # Nil /\ found'[x] = cache[KeyOf(call[x])]
      BY <2>3, <3>1 DEF CacheHit, Usable, TypeOK
    <3> QED
      BY <3>1, <3>2 DEF CacheFits
  <2> QED
    BY <2>1, <2>2, <2>3, OnlyReadsFill
<1>3. WriteFits'
  <2> SUFFICES ASSUME NEW x \in Request, pc'[x] \in InvalidatePc
               PROVE  \A it \in found'[x].rows : it.row.owner = call'[x].user /\ ~it.row.deleted
    BY DEF WriteFits
  <2>1. CASE pc[x] \in InvalidatePc /\ found'[x] = found[x] /\ call'[x] = call[x]
    BY <2>1 DEF WriteFits
  <2>2. CASE pc[x] \in WritePc /\ Commit(x)
    <3>1. Effective(x) /\ call' = call /\ found'[x].rows = Returned(x)
      BY <2>2 DEF Commit, Execute, TypeOK
    <3> QED
      BY <2>2, <3>1, ReturnedFits DEF Running
  <2>3. CASE pc[x] = "softDelete" /\ found'[x] = found[x] /\ call'[x] = call[x]
    BY <2>3 DEF Untouched, Running, WritePc
  <2> QED
    BY <2>1, <2>2, <2>3, OnlyStatementsInvalidate
<1>4. AnswerFitsCall'
  <2> SUFFICES ASSUME NEW x \in Request, answer'[x] # Nil, answer'[x].rows # {}
               PROVE  \A it \in answer'[x].rows :
                        /\ it.row.owner = call'[x].user /\ ~it.row.deleted
                        /\ call'[x].op \in Views => Fits(KeyOf(call'[x]), it.row, now')
    BY DEF AnswerFitsCall
  <2>0. call'[x] = call[x]
    BY OnlySourcesAnswer
  <2>1. CASE answer'[x] = answer[x]
    <3>1. answer[x].rows \in SUBSET Item /\ call[x] \in Calls
      BY <2>1 DEF TypeOK, Response, Phases, Untouched
    <3>2. call[x].op \in Views => KeyOf(call[x]) \in Key
      BY <3>1, KeyOfType
    <3> QED
      BY <1>i, <2>0, <2>1, <3>1, <3>2 DEF AnswerFitsCall
  <2>2. ASSUME pc[x] \in FillPc \cup {"wait"}, \A it \in answer'[x].rows : Fits(KeyOf(call[x]), it.row, now),
               answer'[x].rows \in SUBSET Item
        PROVE  \A it \in answer'[x].rows :
                        /\ it.row.owner = call'[x].user /\ ~it.row.deleted
                        /\ call'[x].op \in Views => Fits(KeyOf(call'[x]), it.row, now')
    BY <1>i, <1>k, <2>0, <2>2 DEF Fits
  <2>4. CASE /\ pc[x] \in FillPc \cup {"wait"}
             /\ \E r \in Request : /\ pc[r] = "land" /\ KeyOf(call[r]) = KeyOf(call[x])
                                   /\ answer'[x].rows = found[r].rows
    BY <1>f, <1>k, <2>2, <2>4 DEF FillFits
  <2>5. CASE pc[x] \in InvalidatePc /\ answer'[x].rows = found[x].rows
    BY <2>0, <2>5 DEF WriteFits, Phases, Writes, Views
  <2>6. CASE /\ pc[x] = "getByID" /\ Hits(todos, call[x].user, call[x].id)
             /\ answer'[x].rows = {ItemAt(todos, call[x].id)}
    BY <2>0, <2>6 DEF Hits, ItemAt, Phases, Views
  <2> QED
    BY <2>1, <2>4, <2>5, <2>6, OnlySourcesAnswer
<1> QED
  BY <1>1, <1>2, <1>3, <1>4

\* For any users, requests, calls and faults: no answer holds a row of another
\* user, a deleted row, or a row of another view or query, whether it came from
\* the database, the cache or the flight of another request.
THEOREM AnswersFitCalls == Spec => []AnswerFitsCall
<1>1. Init => Isolation
  <2> SUFFICES ASSUME Init PROVE Isolation
    OBVIOUS
  <2>1. CacheFits
    <3>1. ASSUME NEW k \in Key
          PROVE  \A it \in Rows(InitialTodos, 0, k.view, k.user, k.q) : Fits(k, it.row, 0)
      BY DEF Rows, Fits, Hits
    <3> QED
      BY <3>1 DEF Init, CacheFits
  <2> QED
    BY <2>1 DEF Init, Isolation, FillFits, WriteFits, AnswerFitsCall, InvalidatePc
<1>2. Basics /\ Isolation /\ [Next]_vars => Isolation'
  BY IsolationStep
<1>3. Isolation => AnswerFitsCall
  BY DEF Isolation
<1>4. Spec => []Basics
  BY BasicsCorrect DEF Basics
<1> QED
  BY <1>1, <1>2, <1>3, <1>4, PTL DEF Spec
=============================================================================

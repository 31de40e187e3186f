-------------------------- MODULE TodoServiceProofs --------------------------
(***************************************************************************)
(* Theorems about TodoService, for every set of requests, users, calls and  *)
(* queries, every initial table, clock and number of faults.                *)
(***************************************************************************)
EXTENDS TodoService, SequenceTheorems, TLAPS

Writes == {"create", "update", "complete", "delete"}

\* Where a request may be depends on what it was asked, and a request that is
\* about to write a patch has one.
Phases ==
  \A r \in Request :
    /\ call[r] = Nil => pc[r] = "new"
    /\ pc[r] \in FillPc \cup {"wait"} => call[r].op \in Views
    /\ pc[r] = "insert" => call[r].op = "create"
    /\ pc[r] = "getByID" => call[r].op = "get"
    /\ pc[r] \in {"getForUpdate", "update"} => call[r].op = "update"
    /\ pc[r] = "markDone" => call[r].op = "complete"
    /\ pc[r] = "softDelete" => call[r].op = "delete"
    /\ pc[r] = "update" => patch[r] # Nil
    /\ pc[r] \in InvalidatePc \cup {"noReply"} => call[r].op \in Writes
    /\ r \in inflight => /\ pc[r] \in {"noReply", "answered", "lost"}
                         /\ call[r].op \in Writes
                         /\ call[r].op = "update" => patch[r] # Nil

\* The statement of r may commit: its handler waits for it, or nobody does.
Running(r) == pc[r] \in WritePc \/ r \in inflight

\* A request whose statement is still to come has neither written nor read, one
\* that has not arrived has no answer.
Untouched ==
  \A r \in Request :
    /\ pc[r] \in {"new", "getForUpdate"} \/ Running(r) => wrote[r] = 0 /\ found[r].rows = {}
    /\ pc[r] = "new" => answer[r] = Nil

\* The flights are exactly the requests that run a fill, each under its own
\* key, and whoever waits waits for one of them.
Flights ==
  /\ \A k \in Key : flight[k] # Nil => pc[flight[k]] \in FillPc /\ KeyOf(call[flight[k]]) = k
  /\ \A r \in Request : pc[r] \in FillPc => flight[KeyOf(call[r])] = r
  /\ \A r \in Request : pc[r] = "wait" => flight[KeyOf(call[r])] # Nil

-----------------------------------------------------------------------------
(***************************************************************************)
(* The table and the keys.                                                  *)
(***************************************************************************)

\* A well-formed call asks for a well-formed key.
LEMMA KeyOfType ==
  ASSUME NEW c \in Calls, c.op \in Views
  PROVE  KeyOf(c) \in Key
<1>1. c \in Call /\ c.user \in Users /\ (c.op = "search" => c.q \in Queries)
  BY ServiceAssumption DEF Call
<1>2. CASE c.op = "search"
  BY <1>1, <1>2 DEF KeyOf, Key
<1>3. CASE c.op \in {"list", "overdue"}
  BY <1>1, <1>3 DEF KeyOf, Key
<1> QED
  BY <1>2, <1>3 DEF Views

\* Normalised in either of the two ways, a query gives the same key: flight and
\* cache are asked for the same list.
LEMMA KeysAgree ==
  ASSUME NEW c \in Calls, c.op \in Views
  PROVE  FlightKey(c) = KeyOf(c) /\ CacheKey(c) = KeyOf(c)
<1>1. c.op = "search" => c.q \in Queries
  BY ServiceAssumption DEF Call
<1> QED
  BY <1>1, TableAssumption DEF FlightKey, CacheKey, KeyOf, Fold

\* A statement that may commit is one of a write, and has what it needs.
LEMMA RunningCalls ==
  ASSUME TypeOK, Phases, NEW r \in Request, Running(r)
  PROVE  /\ call[r] \in Calls /\ call[r] \in Call /\ call[r] # Nil
         /\ call[r].user \in Users /\ call[r].due \in Nat \cup {Nil}
         /\ call[r].op \in Writes
         /\ call[r].op = "create" => call[r].text \in Texts
         /\ call[r].op = "update" => patch[r] \in Row
         /\ ver[call[r].user] \in Nat
<1>1. call[r] \in Calls /\ call[r].op \in Writes
  BY DEF TypeOK, Phases, Running, WritePc, Writes
<1>2. call[r] \in Call /\ call[r] # Nil /\ (call[r].op = "create" => call[r].text # Nil)
  BY <1>1, ServiceAssumption
<1>3. call[r].op = "update" => patch[r] # Nil
  BY DEF Phases, Running, WritePc
<1> QED
  BY <1>1, <1>2, <1>3 DEF TypeOK, Call

\* What the database answers is a set of items.
LEMMA RowsType ==
  ASSUME NEW t \in Seq(Row), NEW n, NEW view, NEW u, NEW q
  PROVE  Rows(t, n, view, u, q) \in SUBSET Item
<1>1. ASSUME NEW i \in DOMAIN t
      PROVE  [id |-> i, row |-> t[i]] \in Item
  BY DEF Item
<1> QED
  BY <1>1 DEF Rows, Hits

\* What an UPDATE makes of a row is a row of the same owner.
LEMMA PatchedRows ==
  ASSUME NEW x \in Row, NEW p \in Row
  PROVE  /\ LET y == [x EXCEPT !.text = p.text, !.due = p.due, !.done = p.done]
            IN y \in Row /\ y.owner = x.owner
         /\ LET y == [x EXCEPT !.done = TRUE] IN y \in Row /\ y.owner = x.owner
         /\ LET y == [x EXCEPT !.deleted = TRUE] IN y \in Row /\ y.owner = x.owner
BY DEF Row

\* A statement that finds its row leaves a table of rows.
LEMMA WrittenType ==
  ASSUME TypeOK, Phases, NEW r \in Request, Running(r), Effective(r)
  PROVE  /\ Written(r) \in Seq(Row)
         /\ Returned(r) \in SUBSET Item
<1> DEFINE c == call[r]
<1>1. /\ c \in Call /\ c.user \in Users /\ c.due \in Nat \cup {Nil} /\ c.op \in Writes
      /\ c.op = "create" => c.text \in Texts
      /\ c.op = "update" => patch[r] \in Row
      /\ todos \in Seq(Row)
  BY RunningCalls DEF TypeOK
<1>2. CASE c.op = "create"
  <2>1. Trim[c.text] \in Texts
    BY <1>1, <1>2, ServiceAssumption
  <2>2. [owner |-> c.user, text |-> Trim[c.text], done |-> FALSE, due |-> c.due,
         deleted |-> FALSE] \in Row
    BY <1>1, <2>1 DEF Row
  <2>3. Written(r) \in Seq(Row) /\ Len(todos) + 1 \in DOMAIN Written(r)
    BY <1>1, <1>2, <2>2 DEF Written, InsertRow
  <2> QED
    BY <1>2, <2>3 DEF Returned, ItemAt, Item
<1>3. CASE c.op # "create"
  <2>1. c.id \in DOMAIN todos /\ todos[c.id] \in Row /\ c.id \in Nat
    BY <1>1, <1>3 DEF Effective, Hits
  <2>2. PICK x \in Row : Written(r) = [todos EXCEPT ![c.id] = x]
    <3>1. CASE c.op = "update"
      BY <1>1, <2>1, <3>1, PatchedRows DEF Written, UpdateRow
    <3>2. CASE c.op = "complete"
      BY <2>1, <3>2, PatchedRows DEF Written, MarkDone
    <3>3. CASE c.op = "delete"
      BY <2>1, <3>3, PatchedRows DEF Written, SoftDelete
    <3> QED
      BY <1>1, <1>3, <3>1, <3>2, <3>3 DEF Writes
  <2>3. Written(r) \in Seq(Row) /\ DOMAIN Written(r) = DOMAIN todos
    BY <1>1, <2>1, <2>2, ExceptSeq
  <2>4. ItemAt(Written(r), c.id) \in Item
    BY <2>1, <2>3 DEF ItemAt, Item
  <2> QED
    BY <1>3, <2>3, <2>4 DEF Returned
<1> QED
  BY <1>2, <1>3

-----------------------------------------------------------------------------
(***************************************************************************)
(* Type correctness: TypeOK /\ Phases is inductive.                         *)
(***************************************************************************)

\* Arrivals keep types and phases.
LEMMA ArrivalTypes ==
  ASSUME TypeOK, Phases, NEW r \in Request, Receive(r)
  PROVE  TypeOK' /\ Phases'
<1> PICK c \in Calls : Refuse(r, c) \/ StartCall(r, c) \/ LeadFlight(r, c) \/ JoinFlight(r, c)
  BY DEF Receive
<1>0. /\ c \in Call /\ c # Nil /\ c.user \in Users /\ c.op \in Ops
      /\ c.op \in Views => KeyOf(c) \in Key
  BY ServiceAssumption, KeyOfType DEF Call
<1>1. CASE Refuse(r, c)
  <2>1. TypeOK'
    BY <1>1 DEF TypeOK, Refuse, Arrive, Reply, Goto, PC, Response, serverVars, historyVars
  <2>2. Phases'
    BY <1>0, <1>1 DEF TypeOK, Phases, Refuse, Arrive, Reply, Goto, FillPc, InvalidatePc
  <2> QED
    BY <2>1, <2>2
<1>2. CASE StartCall(r, c)
  <2>1. \/ c.op = "create" /\ FirstPc(c.op) = "insert"
        \/ c.op = "get" /\ FirstPc(c.op) = "getByID"
        \/ c.op = "update" /\ FirstPc(c.op) = "getForUpdate"
        \/ c.op = "complete" /\ FirstPc(c.op) = "markDone"
        \/ c.op = "delete" /\ FirstPc(c.op) = "softDelete"
    BY <1>0, <1>2 DEF StartCall, FirstPc, Ops, Views
  <2>2. TypeOK'
    BY <1>2, <2>1 DEF TypeOK, StartCall, Arrive, Goto, PC, WritePc, historyVars
  <2>3. Phases'
    BY <1>0, <1>2, <2>1 DEF TypeOK, Phases, StartCall, Arrive, Goto, FillPc, InvalidatePc
  <2> QED
    BY <2>2, <2>3
<1>3. CASE LeadFlight(r, c) \/ JoinFlight(r, c)
  <2>1. c.op \in Views /\ (pc' = [pc EXCEPT ![r] = "cacheGet"] \/ pc' = [pc EXCEPT ![r] = "wait"])
    BY <1>3 DEF LeadFlight, JoinFlight, Goto, FirstPc, Views
  <2>2. /\ since' \in [Request -> Nat] /\ flight' \in [Key -> Request \cup {Nil}]
        /\ cleared' \in [Request -> SUBSET Nat]
    <3>1. FlightKey(c) = KeyOf(c) /\ KeyOf(c) \in Key
      BY <1>0, <2>1, KeysAgree
    <3>2. ver[c.user] \in Nat /\ Cleared(c.user) \in SUBSET Nat
      BY <1>0 DEF TypeOK, Cleared
    <3>3. CASE LeadFlight(r, c)
      BY <1>0, <3>1, <3>2, <3>3 DEF TypeOK, LeadFlight
    <3>4. CASE JoinFlight(r, c)
      <4>1. flight[FlightKey(c)] \in Request
        BY <3>1, <3>4 DEF TypeOK, JoinFlight
      <4> QED
        BY <3>4, <4>1 DEF TypeOK, JoinFlight
    <3> QED
      BY <1>3, <3>3, <3>4
  <2>3. pc' \in [Request -> PC] /\ call' \in [Request -> Calls \cup {Nil}]
    <3>1. "cacheGet" \in PC /\ "wait" \in PC
      BY DEF PC, FillPc
    <3>2. pc' \in [Request -> PC]
      BY <2>1, <3>1 DEF TypeOK
    <3>3. call' = [call EXCEPT ![r] = c]
      BY <1>3 DEF LeadFlight, JoinFlight, Arrive
    <3> QED
      BY <3>2, <3>3 DEF TypeOK
  <2>4. TypeOK'
    BY <1>3, <2>2, <2>3 DEF TypeOK, LeadFlight, JoinFlight
  <2>5. Phases'
    <3>1. /\ pc[r] = "new" /\ call' = [call EXCEPT ![r] = c] /\ UNCHANGED <<patch, inflight>>
          /\ r \notin inflight
      BY <1>3 DEF LeadFlight, JoinFlight, Arrive, Phases
    <3> QED
      BY <1>0, <2>1, <3>1 DEF TypeOK, Phases, FillPc, InvalidatePc
  <2> QED
    BY <2>4, <2>5
<1> QED
  BY <1>1, <1>2, <1>3

\* The steps of a flight keep types and phases.
LEMMA FillTypes ==
  ASSUME TypeOK, Phases, NEW r \in Request, Fill(r) \/ QueryFails(r) \/ CacheSetFails(r)
  PROVE  TypeOK' /\ Phases'
<1> DEFINE c == call[r]
<1>0. pc[r] \in FillPc => /\ c \in Calls /\ c \in Call /\ c # Nil /\ c.user \in Users
                          /\ KeyOf(c) \in Key /\ KeyOf(c).user = c.user
  BY ServiceAssumption, KeyOfType DEF Phases, TypeOK, Call, KeyOf, FillPc
<1>k. pc[r] \in FillPc => FlightKey(c) = KeyOf(c) /\ CacheKey(c) = KeyOf(c)
  BY <1>0, KeysAgree DEF Phases
<1>1. ASSUME NEW p \in FillPc, pc[r] \in FillPc, Goto(r, p), UNCHANGED <<call, patch, inflight>>
      PROVE  pc' \in [Request -> PC] /\ Phases'
  <2>1. pc' \in [Request -> PC]
    BY <1>1 DEF Goto, TypeOK, PC
  <2>2. Phases'
    BY <1>0, <1>1 DEF Goto, TypeOK, Phases, FillPc, InvalidatePc
  <2> QED
    BY <2>1, <2>2
<1>2. CASE CacheHit(r)
  <2>1. pc[r] \in FillPc /\ "land" \in FillPc /\ Goto(r, "land") /\ UNCHANGED <<call, patch, inflight>>
    BY <1>2 DEF CacheHit, FillPc
  <2>2. cache[KeyOf(c)] \in Snapshot
    BY <1>0, <1>k, <1>2, <2>1 DEF CacheHit, Usable, TypeOK
  <2>3. pc' \in [Request -> PC] /\ Phases' /\ found' \in [Request -> Snapshot]
    BY <1>1, <1>2, <1>k, <2>1, <2>2 DEF CacheHit, TypeOK
  <2> QED
    BY <1>2, <2>3 DEF CacheHit, TypeOK, historyVars
<1>3. CASE CacheMiss(r) \/ QueryFails(r) \/ CacheSetFails(r)
  <2>1. PICK p \in FillPc : Goto(r, p) /\ pc[r] \in FillPc /\ UNCHANGED <<call, patch, inflight>>
    BY <1>3 DEF CacheMiss, QueryFails, CacheSetFails, FillPc
  <2>2. pc' \in [Request -> PC] /\ Phases'
    BY <1>1, <2>1
  <2> QED
    BY <1>3, <2>2 DEF CacheMiss, QueryFails, CacheSetFails, Fault, NoFault, TypeOK, historyVars
<1>4. CASE QueryRows(r)
  <2>1. Rows(todos, now, c.op, c.user, c.q) \in SUBSET Item /\ ver[c.user] \in Nat /\ now \in Nat
    BY <1>0, <1>4, RowsType DEF QueryRows, TypeOK, FillPc
  <2>2. found' \in [Request -> Snapshot]
    BY <1>4, <2>1 DEF QueryRows, TypeOK, Snapshot
  <2>3. pc' \in [Request -> PC] /\ Phases'
    BY <1>1, <1>4 DEF QueryRows, FillPc
  <2> QED
    BY <1>4, <2>2, <2>3 DEF QueryRows, TypeOK, historyVars
<1>5. CASE CacheSet(r)
  <2>1. pc[r] \in FillPc /\ found[r] \in Snapshot /\ ver[c.user] \in Nat
    BY <1>0, <1>5 DEF CacheSet, FillPc, TypeOK
  <2>2. [found[r] EXCEPT !.stored = ver[c.user]] \in Snapshot
    BY <2>1 DEF Snapshot
  <2>3. cache' \in [Key -> Snapshot \cup {Nil}]
    BY <1>0, <1>k, <1>5, <2>1, <2>2 DEF CacheSet, TypeOK
  <2>4. pc' \in [Request -> PC] /\ Phases'
    BY <1>1, <1>5 DEF CacheSet, FillPc
  <2> QED
    BY <1>5, <2>3, <2>4 DEF CacheSet, TypeOK, historyVars
<1>6. CASE EndFlight(r)
  <2>1. PICK status \in {200, 500}, x \in {found[r], NoRows} :
          pc[r] \in FillPc /\ Land(r, status, x) /\ UNCHANGED <<call, patch, inflight>>
    BY <1>6 DEF EndFlight, FillPc
  <2>2. x \in Snapshot /\ status \in Nat
    BY DEF NoRows, Snapshot, TypeOK
  <2>3. flight' \in [Key -> Request \cup {Nil}] /\ pc' \in [Request -> PC]
    <3>1. flight' = [flight EXCEPT ![FlightKey(c)] = Nil]
      BY <2>1 DEF Land
    <3>2. \A y \in Request : pc'[y] \in {"answered", pc[y]}
      BY <2>1 DEF Land
    <3>3. pc' = [y \in Request |-> pc'[y]]
      BY <2>1 DEF Land
    <3> QED
      BY <3>1, <3>2, <3>3 DEF TypeOK, PC
  <2>4. answer' \in [Request -> Response \cup {Nil}]
    <3>1. [status |-> status, rows |-> x.rows, asOf |-> x.asOf, stored |-> x.stored] \in Response
      BY <2>2 DEF Snapshot, Response
    <3> QED
      BY <2>1, <3>1 DEF Land, TypeOK
  <2>5. Phases'
    BY <2>1 DEF Land, TypeOK, Phases, FillPc, InvalidatePc, Aboard
  <2> QED
    BY <1>6, <2>3, <2>4, <2>5 DEF EndFlight, TypeOK, historyVars
<1> QED
  BY <1>2, <1>3, <1>4, <1>5, <1>6 DEF Fill

\* Statements keep types and phases.
LEMMA StatementTypes ==
  ASSUME TypeOK, Phases, NEW r \in Request,
         Statement(r) \/ ReadFails(r) \/ ReplyLost(r) \/ LateCommit(r)
  PROVE  TypeOK' /\ Phases'
<1> DEFINE c == call[r]
<1>0. pc[r] \in WritePc \cup {"getByID", "getForUpdate", "noReply"} =>
        /\ c \in Calls /\ c \in Call /\ c # Nil /\ c.user \in Users /\ ver[c.user] \in Nat
        /\ c.op \in Writes \cup {"get"}
        /\ pc[r] # "getByID" => c.op \in Writes
  BY ServiceAssumption DEF Phases, TypeOK, Call, WritePc, Writes
<1>1. ASSUME NEW status \in Nat, NEW rows \in SUBSET Item, NEW asOf \in Nat, Reply(r, status, rows, asOf),
             UNCHANGED <<call, patch, inflight>>, c # Nil
      PROVE  /\ pc' \in [Request -> PC]
             /\ answer' \in [Request -> Response \cup {Nil}]
             /\ Phases'
  <2>1. [status |-> status, rows |-> rows, asOf |-> asOf, stored |-> asOf] \in Response
    BY <1>1 DEF Response
  <2>2. pc' \in [Request -> PC] /\ answer' \in [Request -> Response \cup {Nil}]
    BY <1>1, <2>1 DEF Reply, Goto, TypeOK, PC
  <2>3. Phases'
    BY <1>1 DEF Reply, Goto, TypeOK, Phases, FillPc, InvalidatePc
  <2> QED
    BY <2>2, <2>3
<1>2. ASSUME Running(r), Execute(r)
      PROVE  /\ todos' \in Seq(Row)
             /\ ver' \in [Users -> Nat]
             /\ wrote' \in [Request -> Nat]
             /\ found' \in [Request -> Snapshot]
  <2>1. ver[c.user] \in Nat /\ now \in Nat /\ Returned(r) \in SUBSET Item /\ Written(r) \in Seq(Row)
    BY <1>2, WrittenType, RunningCalls DEF Execute, TypeOK
  <2>2. [rows |-> Returned(r), asOf |-> ver[c.user] + 1, at |-> now, stored |-> ver[c.user] + 1] \in Snapshot
    BY <2>1 DEF Snapshot
  <2>3. found' \in [Request -> Snapshot]
    BY <1>2, <2>2 DEF Execute, TypeOK
  <2>4. /\ todos' = Written(r)
        /\ ver' = [ver EXCEPT ![c.user] = ver[c.user] + 1]
        /\ wrote' = [wrote EXCEPT ![r] = ver[c.user] + 1]
    BY <1>2 DEF Execute
  <2>5. ver' \in [Users -> Nat] /\ wrote' \in [Request -> Nat]
    <3>1. ver \in [Users -> Nat] /\ wrote \in [Request -> Nat]
      BY DEF TypeOK
    <3>2. ver[c.user] + 1 \in Nat
      BY <2>1
    <3> QED
      BY <2>4, <3>1, <3>2
  <2> QED
    BY <2>1, <2>3, <2>4, <2>5
<1>3. ASSUME pc[r] \in WritePc, NEW p \in {"delKeys", "noReply"}, pc' = [pc EXCEPT ![r] = p],
             UNCHANGED <<call, patch>>, inflight' = inflight \/ (p = "noReply" /\ inflight' = inflight \cup {r})
      PROVE  pc' \in [Request -> PC] /\ Phases'
  <2>1. pc' \in [Request -> PC]
    BY <1>3 DEF TypeOK, PC, InvalidatePc
  <2>2. c.op = "update" => patch[r] # Nil
    BY <1>3 DEF Phases, WritePc
  <2>3. Phases'
    BY <1>0, <1>3, <2>2 DEF TypeOK, Phases, FillPc, WritePc, InvalidatePc
  <2> QED
    BY <2>1, <2>3
<1>4. ASSUME pc[r] \in WritePc, Commit(r)
      PROVE  TypeOK' /\ Phases'
  <2>1. /\ Execute(r) /\ pc' = [pc EXCEPT ![r] = "delKeys"] /\ Running(r)
        /\ UNCHANGED <<inflight, now, cache, flight, call, patch, scan, since, cleared, faults, answer, abandoned>>
    BY <1>4 DEF Commit, Execute, Goto, Running
  <2>2. pc' \in [Request -> PC] /\ Phases'
    BY <1>3, <1>4, <2>1
  <2> QED
    BY <1>2, <2>1, <2>2 DEF TypeOK
<1>5. ASSUME NotFound(r), pc[r] \in WritePc
      PROVE  TypeOK' /\ Phases'
  <2>1. Reply(r, 404, {}, 0) /\ UNCHANGED <<call, patch, inflight>> /\ c # Nil
    BY <1>0, <1>5 DEF NotFound
  <2>2. pc' \in [Request -> PC] /\ answer' \in [Request -> Response \cup {Nil}] /\ Phases'
    BY <1>1, <2>1
  <2> QED
    BY <1>5, <2>2 DEF NotFound, TypeOK, historyVars
<1>6. CASE GetByID(r)
  <2>1. Hits(todos, c.user, c.id) => ItemAt(todos, c.id) \in Item
    BY DEF Hits, ItemAt, Item, TypeOK
  <2>2. /\ \/ Reply(r, 404, {}, 0)
           \/ Hits(todos, c.user, c.id) /\ Reply(r, 200, {ItemAt(todos, c.id)}, ver[c.user])
        /\ UNCHANGED <<call, patch, inflight>> /\ c # Nil /\ ver[c.user] \in Nat
    BY <1>0, <1>6 DEF GetByID
  <2>3. pc' \in [Request -> PC] /\ answer' \in [Request -> Response \cup {Nil}] /\ Phases'
    <3>1. CASE Reply(r, 404, {}, 0)
      <4>1. Reply(r, 404, {}, 0) /\ UNCHANGED <<call, patch, inflight>> /\ c # Nil
        BY <2>2, <3>1
      <4> QED
        BY <1>1, <4>1
    <3>2. CASE Hits(todos, c.user, c.id) /\ Reply(r, 200, {ItemAt(todos, c.id)}, ver[c.user])
      <4>1. {ItemAt(todos, c.id)} \in SUBSET Item
        BY <2>1, <3>2
      <4> QED
        BY <1>1, <2>2, <3>2, <4>1
    <3> QED
      BY <2>2, <3>1, <3>2
  <2> QED
    BY <1>6, <2>3 DEF GetByID, TypeOK, historyVars
<1>7. CASE ReadForUpdate(r)
  <2>1. CASE UNCHANGED patch /\ \E status \in {404, 400} : Reply(r, status, {}, 0)
    <3>1. pc' \in [Request -> PC] /\ answer' \in [Request -> Response \cup {Nil}] /\ Phases'
      <4>1. (Reply(r, 404, {}, 0) \/ Reply(r, 400, {}, 0)) /\ UNCHANGED <<call, patch, inflight>> /\ c # Nil
        BY <1>0, <1>7, <2>1 DEF ReadForUpdate
      <4> QED
        BY <1>1, <4>1
    <3> QED
      BY <1>7, <2>1, <3>1 DEF ReadForUpdate, TypeOK, historyVars
  <2>2. CASE /\ Hits(todos, c.user, c.id) /\ patch' = [patch EXCEPT ![r] = Patched(todos[c.id], c)]
             /\ Goto(r, "update") /\ UNCHANGED answer
    <3>1. Patched(todos[c.id], c) \in Row
      <4>1. c \in Call /\ todos[c.id] \in Row
        BY <1>0, <1>7, <2>2 DEF ReadForUpdate, Hits, TypeOK
      <4>2. /\ c.text \in Texts \cup {Nil} /\ c.due \in Nat \cup {Nil} /\ c.done \in BOOLEAN \cup {Nil}
            /\ Trim \in [Texts -> Texts]
        BY <4>1, ServiceAssumption DEF Call
      <4>3. \A row \in Row : Patched(row, c) \in Row
        BY <4>2 DEF Patched, Row
      <4> QED
        BY <4>1, <4>3
    <3>2. TypeOK'
      BY <1>7, <2>2, <3>1 DEF ReadForUpdate, Goto, TypeOK, PC, WritePc, historyVars
    <3>3. Phases'
      BY <1>7, <2>2, <3>1, ServiceAssumption DEF ReadForUpdate, Goto, TypeOK, Phases, FillPc, InvalidatePc
    <3> QED
      BY <3>2, <3>3
  <2> QED
    BY <1>7, <2>1, <2>2 DEF ReadForUpdate
<1>8. CASE InsertTodo(r) \/ UpdateTodo(r) \/ CompleteTodo(r)
  BY <1>4, <1>5, <1>8 DEF InsertTodo, UpdateTodo, CompleteTodo, WritePc
<1>9. CASE DeleteTodo(r)
  <2>1. CASE Commit(r)
    BY <1>4, <1>9, <2>1 DEF DeleteTodo, WritePc
  <2>2. CASE ~Commit(r)
    <3>1. pc' \in [Request -> PC] /\ Phases'
      BY <1>3, <1>9, <2>2 DEF DeleteTodo, Goto, WritePc
    <3> QED
      BY <1>9, <2>2, <3>1 DEF DeleteTodo, TypeOK, historyVars
  <2> QED
    BY <2>1, <2>2
<1>10. CASE ReadFails(r) \/ GiveUp(r)
  <2>1. (Reply(r, 400, {}, 0) \/ Reply(r, 500, {}, 0)) /\ UNCHANGED <<call, patch, inflight>> /\ c # Nil
    BY <1>0, <1>10 DEF ReadFails, GiveUp, ErrStatus
  <2>2. pc' \in [Request -> PC] /\ answer' \in [Request -> Response \cup {Nil}] /\ Phases'
    BY <1>1, <2>1
  <2> QED
    BY <1>10, <2>2 DEF ReadFails, GiveUp, Fault, TypeOK, historyVars
<1>11. CASE ReplyLost(r)
  <2>1. pc' \in [Request -> PC] /\ Phases'
    BY <1>3, <1>11 DEF ReplyLost, Goto
  <2> QED
    BY <1>11, <2>1 DEF ReplyLost, Fault, TypeOK, historyVars
<1>12. CASE LateCommit(r)
  <2>1. Running(r) /\ Execute(r) /\ ver[c.user] \in Nat /\ c.user \in Users
    BY <1>12, RunningCalls DEF LateCommit, Running
  <2>2. abandoned' \in [Users -> SUBSET Nat] /\ inflight' \subseteq Request /\ pc' = pc
    BY <1>12, <2>1 DEF LateCommit, TypeOK
  <2>3. Phases'
    BY <1>12 DEF LateCommit, Execute, Phases
  <2> QED
    BY <1>2, <2>1, <2>2, <2>3 DEF Execute, TypeOK
<1> QED
  BY <1>6, <1>7, <1>8, <1>9, <1>10, <1>11, <1>12 DEF Statement

\* The steps of InvalidateAll keep types and phases.
LEMMA InvalidateTypes ==
  ASSUME TypeOK, Phases, NEW r \in Request, Invalidate(r) \/ InvalidateFails(r)
  PROVE  TypeOK' /\ Phases'
<1> DEFINE c == call[r]
<1>0. /\ pc[r] \in InvalidatePc /\ c \in Calls /\ c \in Call /\ c # Nil /\ c.user \in Users
      /\ c.op \in Writes /\ UNCHANGED <<call, patch, inflight>>
  BY ServiceAssumption DEF Invalidate, InvalidateFails, DelKeys, ScanStart, DelSearchKey, ScanEnd,
     Phases, TypeOK, Call, InvalidatePc
<1>1. ASSUME NEW p \in {"scanStart", "scanDel", "answered"}, pc' = [pc EXCEPT ![r] = p]
      PROVE  pc' \in [Request -> PC] /\ Phases'
  <2>1. pc' \in [Request -> PC]
    BY <1>1 DEF TypeOK, PC, InvalidatePc
  <2>2. Phases'
    BY <1>0, <1>1 DEF TypeOK, Phases, FillPc, InvalidatePc
  <2> QED
    BY <2>1, <2>2
<1>2. ASSUME Succeed(r)
      PROVE  pc' \in [Request -> PC] /\ answer' \in [Request -> Response \cup {Nil}] /\ Phases'
  <2>1. found[r] \in Snapshot /\ OkStatus(c.op) \in Nat
    BY DEF TypeOK, OkStatus
  <2>2. [status |-> OkStatus(c.op), rows |-> found[r].rows, asOf |-> found[r].asOf, stored |-> found[r].asOf] \in Response
    BY <2>1 DEF Snapshot, Response
  <2>3. answer' \in [Request -> Response \cup {Nil}] /\ pc' = [pc EXCEPT ![r] = "answered"]
    BY <1>2, <2>2 DEF Succeed, Reply, Goto, TypeOK
  <2> QED
    BY <1>1, <2>3
<1>3. CASE DelKeys(r)
  <2>1. pc' \in [Request -> PC] /\ Phases'
    BY <1>1, <1>3 DEF DelKeys, Goto
  <2>2. cache' \in [Key -> Snapshot \cup {Nil}]
    BY <1>3 DEF DelKeys, TypeOK
  <2> QED
    BY <1>3, <2>1, <2>2 DEF DelKeys, TypeOK, historyVars
<1>4. CASE ScanStart(r)
  <2>1. pc' \in [Request -> PC] /\ Phases'
    BY <1>1, <1>4 DEF ScanStart, Goto
  <2>2. scan' \in [Request -> SUBSET Key]
    BY <1>4 DEF ScanStart, TypeOK, Matching
  <2> QED
    BY <1>4, <2>1, <2>2 DEF ScanStart, TypeOK, historyVars
<1>5. CASE \E k \in Key : DelSearchKey(r, k)
  BY <1>5 DEF DelSearchKey, Forget, TypeOK, Phases, historyVars
<1>6. CASE ScanEnd(r)
  <2>1. pc' \in [Request -> PC] /\ answer' \in [Request -> Response \cup {Nil}] /\ Phases'
    BY <1>2, <1>6 DEF ScanEnd
  <2> QED
    BY <1>6, <2>1 DEF ScanEnd, TypeOK, historyVars
<1>7. CASE InvalidateFails(r)
  <2>1. pc' \in [Request -> PC] /\ answer' \in [Request -> Response \cup {Nil}] /\ Phases'
    BY <1>2, <1>7 DEF InvalidateFails
  <2>2. abandoned' \in [Users -> SUBSET Nat] /\ faults' \in Nat
    BY <1>0, <1>7 DEF InvalidateFails, Fault, TypeOK
  <2> QED
    BY <1>7, <2>1, <2>2 DEF InvalidateFails, TypeOK
<1> QED
  BY <1>3, <1>4, <1>5, <1>6, <1>7 DEF Invalidate

\* The steps of the environment keep types and phases.
LEMMA EnvironmentTypes ==
  ASSUME TypeOK, Phases, Crash \/ Tick \/ (\E k \in Key : Expire(k)) \/ UNCHANGED vars
  PROVE  TypeOK' /\ Phases'
<1>1. CASE Crash
  <2>1. pc' \in [Request -> PC]
    BY <1>1 DEF Crash, TypeOK, PC
  <2>2. abandoned' \in [Users -> SUBSET Nat]
    BY <1>1 DEF Crash, TypeOK
  <2>3. TypeOK'
    BY <1>1, <2>1, <2>2 DEF Crash, Fault, TypeOK
  <2>4. Phases'
    <3>1. \A r \in Request : pc[r] \in WritePc =>
            /\ call[r].op \in Writes /\ (call[r].op = "update" => patch[r] # Nil)
            /\ call[r] # Nil /\ pc'[r] = "lost"
      BY <1>1 DEF Crash, TypeOK, Phases, WritePc, Writes
    <3> QED
      BY <1>1, <3>1 DEF Crash, TypeOK, Phases, FillPc, InvalidatePc
  <2> QED
    BY <2>3, <2>4
<1>2. CASE Tick
  BY <1>2 DEF Tick, TypeOK, Phases, serverVars, historyVars
<1>3. CASE \E k \in Key : Expire(k)
  BY <1>3 DEF Expire, Forget, TypeOK, Phases, serverVars, historyVars
<1>4. CASE UNCHANGED vars
  BY <1>4 DEF vars, TypeOK, Phases, serverVars, historyVars
<1> QED
  BY <1>1, <1>2, <1>3, <1>4

\* In every reachable state every variable has its type, and every request is
\* where its operation allows.
THEOREM TypeCorrect == Spec => [](TypeOK /\ Phases)
<1>1. Init => TypeOK /\ Phases
  <2> SUFFICES ASSUME Init PROVE TypeOK /\ Phases
    OBVIOUS
  <2>1. cache \in [Key -> Snapshot \cup {Nil}]
    <3>1. \A k \in Key : Rows(InitialTodos, 0, k.view, k.user, k.q) \in SUBSET Item
      BY ServiceAssumption, RowsType
    <3> QED
      BY <3>1 DEF Init, Snapshot
  <2>2. found \in [Request -> Snapshot]
    BY DEF Init, NoRows, Snapshot
  <2>3. TypeOK
    BY <2>1, <2>2, ServiceAssumption DEF Init, TypeOK, PC
  <2>4. Phases
    BY DEF Init, Phases, FillPc, InvalidatePc
  <2> QED
    BY <2>3, <2>4
<1>2. TypeOK /\ Phases /\ [Next]_vars => (TypeOK /\ Phases)'
  <2> SUFFICES ASSUME TypeOK, Phases, [Next]_vars PROVE TypeOK' /\ Phases'
    OBVIOUS
  <2> QED
    BY ArrivalTypes, FillTypes, StatementTypes, InvalidateTypes, EnvironmentTypes DEF Next, Fail, Idle
<1> QED
  BY <1>1, <1>2, PTL DEF Spec

-----------------------------------------------------------------------------
(***************************************************************************)
(* What statements change.                                                  *)
(***************************************************************************)

\* A statement that finds its row leaves the row of every other user and every
\* deleted row as it is, moves no row to another user, and adds none but the
\* caller's.
LEMMA WrittenRows ==
  ASSUME TypeOK, Phases, NEW r \in Request, Running(r), Effective(r)
  PROVE  /\ \A i \in DOMAIN todos :
              /\ i \in DOMAIN Written(r) /\ Written(r)[i].owner = todos[i].owner
              /\ Written(r)[i] # todos[i] => todos[i].owner = call[r].user /\ ~todos[i].deleted
         /\ \A i \in DOMAIN Written(r) \ DOMAIN todos : Written(r)[i].owner = call[r].user
<1> DEFINE c == call[r]
<1>1. /\ c.user \in Users /\ c.due \in Nat \cup {Nil} /\ c.op \in Writes
      /\ c.op = "create" => c.text \in Texts
      /\ c.op = "update" => patch[r] \in Row
      /\ todos \in Seq(Row)
  BY RunningCalls DEF TypeOK
<1>2. CASE c.op = "create"
  <2> DEFINE x == [owner |-> c.user, text |-> Trim[c.text], done |-> FALSE, due |-> c.due, deleted |-> FALSE]
  <2>1. Trim[c.text] \in Texts
    BY <1>1, <1>2, ServiceAssumption
  <2>2. x \in Row
    BY <1>1, <2>1 DEF Row
  <2>3. Written(r) = Append(todos, x)
    BY <1>2 DEF Written, InsertRow
  <2>4. /\ DOMAIN Written(r) = 1..(Len(todos) + 1) /\ DOMAIN todos = 1..Len(todos)
        /\ \A i \in 1..Len(todos) : Written(r)[i] = todos[i]
        /\ Written(r)[Len(todos) + 1] = x
    BY <1>1, <2>2, <2>3, AppendProperties
  <2> QED
    BY <1>1, <2>4
<1>3. CASE c.op # "create"
  <2>1. c.id \in DOMAIN todos /\ todos[c.id] \in Row /\ todos[c.id].owner = c.user /\ ~todos[c.id].deleted
    BY <1>1, <1>3 DEF Effective, Hits
  <2>2. PICK x \in Row : Written(r) = [todos EXCEPT ![c.id] = x] /\ x.owner = todos[c.id].owner
    <3>1. CASE c.op = "update"
      BY <1>1, <2>1, <3>1, PatchedRows DEF Written, UpdateRow
    <3>2. CASE c.op = "complete"
      BY <2>1, <3>2, PatchedRows DEF Written, MarkDone
    <3>3. CASE c.op = "delete"
      BY <2>1, <3>3, PatchedRows DEF Written, SoftDelete
    <3> QED
      BY <1>1, <1>3, <3>1, <3>2, <3>3 DEF Writes
  <2> QED
    BY <1>1, <2>1, <2>2
<1> QED
  BY <1>2, <1>3

\* The only steps that change the table or a version are statements that find
\* their row.
LEMMA OnlyStatementsWrite ==
  ASSUME TypeOK, Phases, [Next]_vars, ~UNCHANGED <<todos, ver>>
  PROVE  \E r \in Request : Running(r) /\ Execute(r)
<1>1. ASSUME NEW r \in Request, Receive(r)
      PROVE  UNCHANGED <<todos, ver>>
  BY <1>1 DEF Receive, Refuse, StartCall, LeadFlight, JoinFlight, historyVars
<1>2. ASSUME NEW r \in Request, Fill(r) \/ QueryFails(r) \/ CacheSetFails(r)
      PROVE  UNCHANGED <<todos, ver>>
  BY <1>2 DEF Fill, CacheHit, CacheMiss, QueryRows, QueryFails, CacheSet, CacheSetFails, EndFlight, historyVars
<1>3. ASSUME NEW r \in Request, Statement(r) \/ ReadFails(r) \/ ReplyLost(r) \/ LateCommit(r)
      PROVE  UNCHANGED <<todos, ver>> \/ (Running(r) /\ Execute(r))
  BY <1>3 DEF Statement, GetByID, ReadForUpdate, InsertTodo, UpdateTodo, CompleteTodo, DeleteTodo, GiveUp,
     ReadFails, ReplyLost, LateCommit, Commit, NotFound, Running, WritePc, historyVars
<1>4. ASSUME NEW r \in Request, Invalidate(r) \/ InvalidateFails(r)
      PROVE  UNCHANGED <<todos, ver>>
  BY <1>4 DEF Invalidate, InvalidateFails, DelKeys, ScanStart, DelSearchKey, ScanEnd, historyVars
<1>5. ASSUME Crash \/ Tick \/ (\E k \in Key : Expire(k)) \/ UNCHANGED vars
      PROVE  UNCHANGED <<todos, ver>>
  BY <1>5 DEF Crash, Tick, Expire, vars, historyVars
<1> QED
  BY <1>1, <1>2, <1>3, <1>4, <1>5 DEF Next, Fail, Idle

\* A request still to run its statement stays untouched by every step.
LEMMA UntouchedStep ==
  ASSUME TypeOK, Phases, Untouched, [Next]_vars
  PROVE  Untouched'
<1>1. ASSUME NEW r \in Request, Receive(r)
      PROVE  Untouched'
  BY <1>1, ServiceAssumption DEF Receive, Refuse, StartCall, LeadFlight, JoinFlight, Arrive, Reply, Goto, Untouched,
     Running, TypeOK, historyVars
<1>2. ASSUME NEW r \in Request, Fill(r) \/ QueryFails(r) \/ CacheSetFails(r)
      PROVE  Untouched'
  <2>1. /\ pc[r] \in FillPc /\ UNCHANGED <<wrote, inflight>>
        /\ \A x \in Request \ {r} : found'[x] = found[x]
        /\ \A x \in Request : pc'[x] \in {"new", "getForUpdate"} \cup WritePc
                              => pc'[x] = pc[x] /\ answer'[x] = answer[x]
    BY <1>2 DEF Fill, CacheHit, CacheMiss, QueryRows, QueryFails, CacheSet, CacheSetFails, EndFlight, Land, Goto,
       TypeOK, WritePc, FillPc, historyVars
  <2>2. r \notin inflight
    BY <1>2, <2>1 DEF Phases, FillPc
  <2>3. pc[r] \notin {"new", "getForUpdate"} \cup WritePc /\ pc'[r] \notin {"new", "getForUpdate"} \cup WritePc
    BY <2>1 DEF FillPc, WritePc
  <2> QED
    BY <2>1, <2>2, <2>3 DEF Untouched, Running, WritePc
<1>3. ASSUME NEW r \in Request, Statement(r)
      PROVE  Untouched'
  <2>1. CASE GetByID(r) \/ ReadForUpdate(r)
    <3>1. /\ UNCHANGED <<wrote, found, inflight>> /\ \A x \in Request \ {r} : answer'[x] = answer[x]
          /\ \/ pc' = [pc EXCEPT ![r] = "answered"]
             \/ pc[r] = "getForUpdate" /\ pc' = [pc EXCEPT ![r] = "update"]
      BY <2>1 DEF GetByID, ReadForUpdate, Reply, Goto, TypeOK, historyVars
    <3> QED
      BY <3>1 DEF Untouched, Running, TypeOK, WritePc
  <2>2. CASE Commit(r)
    <3>1. /\ wrote' = [wrote EXCEPT ![r] = wrote'[r]] /\ \A x \in Request \ {r} : found'[x] = found[x]
          /\ pc' = [pc EXCEPT ![r] = "delKeys"] /\ UNCHANGED <<inflight, answer>>
      BY <2>2 DEF Commit, Execute, Goto, TypeOK
    <3>2. r \notin inflight
      BY <1>3, <2>2 DEF Statement, InsertTodo, UpdateTodo, CompleteTodo, DeleteTodo, GetByID, ReadForUpdate,
         GiveUp, Reply, Commit, Goto, Phases, TypeOK, WritePc
    <3> QED
      BY <3>1, <3>2 DEF Untouched, Running, TypeOK, WritePc
  <2>3. CASE NotFound(r)
    BY <2>3 DEF NotFound, Reply, Goto, Untouched, Running, TypeOK, WritePc, historyVars
  <2>4. CASE DeleteTodo(r) /\ ~Commit(r)
    BY <2>4 DEF DeleteTodo, Goto, Untouched, Running, TypeOK, WritePc, historyVars
  <2>5. CASE GiveUp(r)
    BY <2>5 DEF GiveUp, Reply, Goto, Untouched, Running, TypeOK, WritePc, historyVars
  <2> QED
    BY <1>3, <2>1, <2>2, <2>3, <2>4, <2>5 DEF Statement, InsertTodo, UpdateTodo, CompleteTodo
<1>4. ASSUME NEW r \in Request, ReadFails(r) \/ ReplyLost(r) \/ LateCommit(r)
      PROVE  Untouched'
  <2>1. CASE ReadFails(r)
    BY <2>1 DEF ReadFails, Reply, Goto, Untouched, Running, TypeOK, WritePc, historyVars
  <2>2. CASE ReplyLost(r)
    BY <2>2 DEF ReplyLost, Goto, Untouched, Running, TypeOK, WritePc, historyVars
  <2>3. CASE LateCommit(r)
    <3>1. /\ r \in inflight /\ inflight' = inflight \ {r} /\ UNCHANGED <<pc, answer>>
          /\ \A x \in Request \ {r} : wrote'[x] = wrote[x] /\ found'[x] = found[x]
      BY <2>3 DEF LateCommit, Execute, TypeOK
    <3>2. pc[r] \notin {"new", "getForUpdate"} \cup WritePc
      BY <3>1 DEF Phases, WritePc
    <3> QED
      BY <3>1, <3>2 DEF Untouched, Running
  <2> QED
    BY <1>4, <2>1, <2>2, <2>3
<1>5. ASSUME NEW r \in Request, Invalidate(r) \/ InvalidateFails(r)
      PROVE  Untouched'
  BY <1>5 DEF Invalidate, InvalidateFails, DelKeys, ScanStart, DelSearchKey, ScanEnd, Succeed, Reply, Goto,
     Untouched, Running, TypeOK, WritePc, historyVars
<1>6. ASSUME Crash \/ Tick \/ (\E k \in Key : Expire(k)) \/ UNCHANGED vars
      PROVE  Untouched'
  BY <1>6 DEF Crash, Tick, Expire, vars, Untouched, Running, TypeOK, WritePc, serverVars, historyVars
<1> QED
  BY <1>1, <1>2, <1>3, <1>4, <1>5, <1>6 DEF Next, Fail, Idle

\* What the later proofs start from holds in every reachable state.
THEOREM BasicsCorrect == Spec => [](TypeOK /\ Phases /\ Untouched)
<1>1. Init => Untouched
  BY DEF Init, Untouched, Running, NoRows, WritePc
<1>2. TypeOK /\ Phases /\ Untouched /\ [Next]_vars => Untouched'
  BY UntouchedStep
<1> QED
  BY <1>1, <1>2, TypeCorrect, PTL DEF Spec

\* Whatever the interleaving, a row changes only by a statement of its owner,
\* and a deleted row never changes.
THEOREM StatementsRespectRows == Spec => DeletedIsFinal /\ RowChangesOnlyByOwner
<1> DEFINE Deleted == \A i \in DOMAIN todos : todos[i].deleted => todos'[i] = todos[i]
           Owner == \A i \in DOMAIN todos : todos'[i] # todos[i] =>
                      \E r \in Request : wrote'[r] # wrote[r] /\ call[r].user = todos[i].owner
<1>1. ASSUME TypeOK, Phases, Untouched, [Next]_vars PROVE Deleted /\ Owner
  <2>1. CASE UNCHANGED <<todos, ver>>
    BY <2>1
  <2>2. CASE ~UNCHANGED <<todos, ver>>
    <3>1. PICK r \in Request : Running(r) /\ Execute(r)
      BY <1>1, <2>2, OnlyStatementsWrite
    <3>2. todos' = Written(r) /\ Effective(r) /\ wrote' = [wrote EXCEPT ![r] = ver[call[r].user] + 1]
      BY <3>1 DEF Execute
    <3>3. wrote'[r] # wrote[r]
      <4>1. wrote[r] = 0 /\ wrote \in [Request -> Nat]
        BY <1>1, <3>1 DEF Untouched, TypeOK
      <4>2. ver[call[r].user] \in Nat
        BY <1>1, <3>1, RunningCalls
      <4> QED
        BY <3>2, <4>1, <4>2
    <3> QED
      BY <1>1, <3>1, <3>2, <3>3, WrittenRows
  <2> QED
    BY <2>1, <2>2
<1>2. TypeOK /\ Phases /\ Untouched /\ [Next]_vars => [Deleted]_todos /\ [Owner]_vars
  BY <1>1
<1> QED
  BY <1>2, BasicsCorrect, PTL DEF Spec, DeletedIsFinal, RowChangesOnlyByOwner

\* A deleted row stays as it is, also under an update that read it before.
THEOREM DeletedRowsStay == Spec => DeletedIsFinal
  BY StatementsRespectRows

-----------------------------------------------------------------------------
(***************************************************************************)
(* Flights.                                                                 *)
(***************************************************************************)

\* No step leaves a fill without its flight, a flight without its fill, or a
\* waiter without a flight.
LEMMA FlightsStep ==
  ASSUME TypeOK, Phases, Flights, [Next]_vars
  PROVE  Flights'
<1>k. \A r \in Request : pc[r] \in FillPc \cup {"wait"} =>
        KeyOf(call[r]) \in Key /\ FlightKey(call[r]) = KeyOf(call[r])
  <2> SUFFICES ASSUME NEW r \in Request, pc[r] \in FillPc \cup {"wait"}
               PROVE  KeyOf(call[r]) \in Key /\ FlightKey(call[r]) = KeyOf(call[r])
    OBVIOUS
  <2>1. call[r] \in Calls /\ call[r].op \in Views
    BY DEF TypeOK, Phases, FillPc
  <2> QED
    BY <2>1, KeyOfType, KeysAgree
\* Requests that neither are nor become part of a flight do not matter.
<1>0. ASSUME NEW r \in Request, NEW p \in PC, UNCHANGED <<flight, call>>, pc' = [pc EXCEPT ![r] = p],
             p # "wait", pc[r] \in FillPc <=> p \in FillPc
      PROVE  Flights'
  BY <1>0, <1>k DEF Flights, TypeOK
<1>1. ASSUME NEW r \in Request, NEW c \in Calls, Refuse(r, c) \/ StartCall(r, c)
      PROVE  Flights'
  <2>1. pc[r] = "new" /\ call' = [call EXCEPT ![r] = c] /\ UNCHANGED flight
    BY <1>1 DEF Refuse, StartCall, Arrive
  <2>2. PICK p : pc' = [pc EXCEPT ![r] = p] /\ p \notin FillPc \cup {"wait"}
    <3>1. CASE Refuse(r, c)
      <4>1. pc' = [pc EXCEPT ![r] = "answered"]
        BY <3>1 DEF Refuse, Reply, Goto
      <4>2. "answered" \notin FillPc \cup {"wait"}
        BY DEF FillPc
      <4> QED
        BY <4>1, <4>2
    <3>2. CASE StartCall(r, c)
      <4>1. pc' = [pc EXCEPT ![r] = FirstPc(c.op)] /\ c.op \in Ops \ Views
        BY <3>2, ServiceAssumption DEF StartCall, Goto, Call
      <4>2. FirstPc(c.op) \notin FillPc \cup {"wait"}
        BY <4>1 DEF FirstPc, FillPc, Ops, Views
      <4> QED
        BY <4>1, <4>2
    <3> QED
      BY <1>1, <3>1, <3>2
  <2> QED
    BY <1>k, <2>1, <2>2 DEF Flights, TypeOK, FillPc
<1>2. ASSUME NEW r \in Request, NEW c \in Calls, LeadFlight(r, c)
      PROVE  Flights'
  <2>1. /\ pc[r] = "new" /\ call' = [call EXCEPT ![r] = c] /\ KeyOf(c) \in Key
        /\ flight[KeyOf(c)] = Nil /\ flight' = [flight EXCEPT ![KeyOf(c)] = r]
        /\ pc' = [pc EXCEPT ![r] = "cacheGet"]
    BY <1>2, KeyOfType, KeysAgree DEF LeadFlight, Arrive, Goto, FirstPc, Views
  <2>2. Nil \notin Request
    BY ServiceAssumption
  <2> QED
    BY <1>k, <2>1, <2>2 DEF Flights, TypeOK, FillPc
<1>3. ASSUME NEW r \in Request, NEW c \in Calls, JoinFlight(r, c)
      PROVE  Flights'
  <2>1. /\ pc[r] = "new" /\ call' = [call EXCEPT ![r] = c] /\ KeyOf(c) \in Key
        /\ flight[KeyOf(c)] # Nil /\ flight' = flight /\ pc' = [pc EXCEPT ![r] = "wait"]
    BY <1>3, KeyOfType, KeysAgree DEF JoinFlight, Arrive, Goto
  <2> QED
    BY <1>k, <2>1 DEF Flights, TypeOK, FillPc
<1>4. ASSUME NEW r \in Request, pc[r] \in FillPc, NEW status, NEW e, Land(r, status, e), UNCHANGED call
      PROVE  Flights'
  <2>1. /\ call' = call /\ flight' = [flight EXCEPT ![KeyOf(call[r])] = Nil]
        /\ pc' = [x \in Request |->
                    IF x = r \/ (pc[x] = "wait" /\ KeyOf(call[x]) = KeyOf(call[r])) THEN "answered" ELSE pc[x]]
    BY <1>4, <1>k DEF Land, Aboard
  <2>2. KeyOf(call[r]) \in Key
    BY <1>4, <1>k
  <2> QED
    BY <1>k, <1>4, <2>1, <2>2 DEF Flights, TypeOK, FillPc
<1>5. ASSUME NEW r \in Request, Fill(r) \/ QueryFails(r) \/ CacheSetFails(r)
      PROVE  Flights'
  <2>1. CASE ~EndFlight(r)
    <3>1. PICK p \in FillPc : pc[r] \in FillPc /\ pc' = [pc EXCEPT ![r] = p] /\ UNCHANGED <<flight, call>>
      BY <1>5, <2>1 DEF Fill, CacheHit, CacheMiss, QueryRows, QueryFails, CacheSet, CacheSetFails, Goto, FillPc
    <3> QED
      BY <1>0, <3>1 DEF FillPc, PC
  <2>2. CASE EndFlight(r)
    BY <1>4, <2>2 DEF EndFlight, FillPc
  <2> QED
    BY <1>5, <2>1, <2>2 DEF Fill
<1>6. ASSUME NEW r \in Request, Statement(r) \/ ReadFails(r) \/ ReplyLost(r)
      PROVE  Flights'
  <2>1. /\ pc[r] \notin FillPc /\ UNCHANGED <<flight, call>>
        /\ \E p \in {"answered", "update", "delKeys", "noReply"} : pc' = [pc EXCEPT ![r] = p]
    BY <1>6 DEF Statement, GetByID, ReadForUpdate, InsertTodo, UpdateTodo, CompleteTodo, DeleteTodo, GiveUp,
       ReadFails, ReplyLost, Commit, NotFound, Execute, Reply, Goto, WritePc, FillPc
  <2> QED
    BY <1>0, <2>1 DEF FillPc, PC, WritePc, InvalidatePc
<1>10. ASSUME NEW r \in Request, LateCommit(r)
       PROVE  Flights'
  BY <1>10 DEF LateCommit, Execute, Flights
<1>7. ASSUME NEW r \in Request, Invalidate(r) \/ InvalidateFails(r)
      PROVE  Flights'
  <2>1. /\ pc[r] \notin FillPc /\ UNCHANGED <<flight, call>>
        /\ \E p \in {"scanStart", "scanDel", "answered"} : pc' = [pc EXCEPT ![r] = p]
    BY <1>7 DEF Invalidate, InvalidateFails, DelKeys, ScanStart, DelSearchKey, ScanEnd, Succeed, Reply, Goto,
       InvalidatePc, FillPc, TypeOK
  <2> QED
    BY <1>0, <2>1 DEF FillPc, PC, InvalidatePc
<1>8. CASE Crash
  BY <1>8 DEF Crash, Flights, TypeOK, FillPc
<1>9. CASE Tick \/ (\E k \in Key : Expire(k)) \/ UNCHANGED vars
  BY <1>9 DEF Tick, Expire, vars, Flights, serverVars
<1> QED
  BY <1>1, <1>2, <1>3, <1>5, <1>6, <1>7, <1>8, <1>9, <1>10 DEF Next, Receive, Fail, Idle

\* In every reachable state the flights are the running fills.
LEMMA FlightsKept == Spec => []Flights
<1>1. Init => Flights
  BY ServiceAssumption DEF Init, Flights, FillPc
<1>2. TypeOK /\ Phases /\ Flights /\ [Next]_vars => Flights'
  BY FlightsStep
<1> QED
  BY <1>1, <1>2, TypeCorrect, PTL DEF Spec

\* singleflight keeps its promise in every reachable state: never two fills of
\* one key.
THEOREM OneFillAtATime == Spec => []OneFillPerKey
<1>1. Flights => OneFillPerKey
  BY DEF Flights, OneFillPerKey
<1> QED
  BY <1>1, FlightsKept, PTL

\* Whoever waits for a flight has a leader that is still running, after any
\* failure and any crash.
THEOREM NobodyIsStranded == Spec => []WaitersHaveLeader
<1>1. TypeOK /\ Phases /\ Flights => WaitersHaveLeader
  <2> SUFFICES ASSUME TypeOK, Phases, Flights, NEW r \in Request, pc[r] = "wait"
               PROVE  \E s \in Request : pc[s] \in FillPc /\ KeyOf(call[s]) = KeyOf(call[r])
    BY DEF WaitersHaveLeader
  <2>1. KeyOf(call[r]) \in Key
    BY KeyOfType DEF TypeOK, Phases
  <2> QED
    BY <2>1 DEF Flights, TypeOK
<1> QED
  BY <1>1, FlightsKept, TypeCorrect, PTL
=============================================================================

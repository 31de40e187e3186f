--------------------------- MODULE TodoStoreProofs ---------------------------
(***************************************************************************)
(* TodoService implements TodoStore: whatever the calls, users, faults and   *)
(* interleavings, each of its steps is a step of the abstract table or none. *)
(***************************************************************************)
EXTENDS TodoHistory, TodoIsolationProofs

\* What a moment of the table is.
Moments == [t: Seq(Row), n: Nat]

MomentsType == past \subseteq Moments /\ window \in [Request -> SUBSET Moments]

\* The present is part of the past, and of the time of every request under way.
PresentSeen ==
  /\ Moment \in past
  /\ \A r \in Request : /\ answer[r] = Nil => Moment \in window[r]
                        /\ call[r] = Nil => window[r] = {Moment}

\* A request has been asked once it has arrived, and answered once it is at its end.
Ends ==
  \A r \in Request : /\ pc[r] = "new" => call[r] = Nil
                     /\ answer[r] # Nil <=> pc[r] = "answered"

\* Only a request past its statement has written.
WritersPast == \A r \in Request : wrote[r] # 0 => pc[r] \in InvalidatePc \cup {"noReply", "answered", "lost"}

\* Every cached list was the database's answer at some moment.
CachePast ==
  \A k \in Key : cache[k] # Nil =>
    \E m \in past : cache[k].rows = Rows(m.t, m.n, k.view, k.user, k.q)

\* So was what a fill has read, from the database or from the cache.
FillPast ==
  \A r \in Request : pc[r] \in {"cacheSet", "land"} =>
    LET c == call[r] IN \E m \in past : found[r].rows = Rows(m.t, m.n, c.op, c.user, c.q)

\* The due date of c has passed at n.
Overdue(c, n) == c.due # Nil /\ c.due < n

\* A patch is made of the row as it was since the request arrived, when its due
\* date had not passed.
PatchPast ==
  \A r \in Request : pc[r] = "update" \/ (r \in inflight /\ call[r].op = "update") =>
    LET c == call[r] IN
    \E m \in window[r] : /\ Hits(m.t, c.user, c.id) /\ ~Overdue(c, m.n)
                         /\ patch[r] = Patched(m.t[c.id], c)

\* A request that invalidates has written, or is a delete that found nothing.
InvalidatorsWrote ==
  \A r \in Request : pc[r] \in InvalidatePc =>
    LET c == call[r] IN
    \/ wrote[r] # 0
    \/ /\ c.op = "delete" /\ found[r].rows = {}
       /\ \E m \in window[r] : ~Hits(m.t, c.user, c.id)

HistoryInv == MomentsType /\ PresentSeen /\ Ends /\ WritersPast
PastInv == CachePast /\ FillPast /\ PatchPast /\ InvalidatorsWrote

-----------------------------------------------------------------------------
(***************************************************************************)
(* What the history keeps.                                                  *)
(***************************************************************************)

\* The past only grows, and so does the time of a request under way.
LEMMA HistoryGrows ==
  ASSUME TypeOK, HistoryInv, HNext
  PROVE  /\ past \subseteq past' /\ Moment' \in past'
         /\ \A r \in Request : call[r] # Nil /\ answer[r] = Nil =>
              window[r] \subseteq window'[r] /\ Moment' \in window'[r]
BY DEF HNext

\* What a step leaves of the ends of a request.
Onward(r) ==
  /\ call[r] # Nil => call'[r] = call[r]
  /\ answer[r] # Nil => answer'[r] = answer[r]
  /\ pc'[r] = "new" => call'[r] = Nil
  /\ answer'[r] # Nil <=> pc'[r] = "answered"
  /\ wrote[r] # 0 => wrote'[r] = wrote[r]
  /\ wrote'[r] # 0 => pc'[r] \in InvalidatePc \cup {"noReply", "answered", "lost"}

\* Arriving and answering are for good.
LEMMA OnwardStep ==
  ASSUME TypeOK, Phases, Untouched, Ends, WritersPast, [Next]_vars, NEW x \in Request
  PROVE  Onward(x)
<1> USE DEF Onward
<1>0. ASSUME UNCHANGED <<call[x], answer[x], pc[x], wrote[x]>>
      PROVE  Onward(x)
  BY <1>0 DEF Ends, WritersPast
<1>1. ASSUME NEW r \in Request, Receive(r)
      PROVE  Onward(x)
  <2>1. PICK c \in Calls : Refuse(r, c) \/ StartCall(r, c) \/ LeadFlight(r, c) \/ JoinFlight(r, c)
    BY <1>1 DEF Receive
  <2>2. c # Nil /\ c \in Call
    BY ServiceAssumption
  <2>3. FirstPc(c.op) \notin {"new", "answered"}
    BY <2>2 DEF FirstPc, Call, Ops, Views
  <2>4. /\ UNCHANGED wrote /\ wrote[r] = 0 /\ pc[r] = "new" /\ call[r] = Nil /\ answer[r] = Nil
    BY <1>1, ArrivalStep DEF Untouched, Ends
  <2>5. CASE x # r
    BY <1>0, <1>1, <2>4, <2>5, ArrivalStep
  <2>6. CASE x = r /\ Refuse(r, c)
    <3>1. [status |-> 400, rows |-> {}, asOf |-> 0, stored |-> 0] # Nil
      BY ServiceAssumption DEF Response
    <3> QED
      BY <2>4, <2>6, <3>1 DEF Refuse, Reply, Goto, TypeOK
  <2>7. CASE x = r /\ (StartCall(r, c) \/ LeadFlight(r, c) \/ JoinFlight(r, c))
    BY <2>3, <2>4, <2>7 DEF StartCall, LeadFlight, JoinFlight, Goto, TypeOK
  <2> QED
    BY <2>1, <2>5, <2>6, <2>7
<1>2. ASSUME NEW r \in Request, NEW status \in Nat, NEW y \in Snapshot,
             pc[r] \in FillPc, Land(r, status, y), UNCHANGED <<call, wrote>>
      PROVE  Onward(x)
  <2>1. CASE x \in Aboard(r)
    <3>1. pc[x] \in FillPc \cup {"wait"} /\ wrote[x] = 0 /\ answer[x] = Nil
      BY <1>2, <2>1 DEF Aboard, Ends, WritersPast, FillPc, InvalidatePc
    <3>2. [status |-> status, rows |-> y.rows, asOf |-> y.asOf, stored |-> y.stored] \in Response
      BY <1>2 DEF Snapshot, Response
    <3>3. [status |-> status, rows |-> y.rows, asOf |-> y.asOf, stored |-> y.stored] # Nil
      BY <3>2, ServiceAssumption
    <3> QED
      BY <1>2, <2>1, <3>1, <3>3 DEF Land, TypeOK
  <2>2. CASE x \notin Aboard(r)
    BY <1>0, <1>2, <2>2 DEF Land, TypeOK
  <2> QED
    BY <2>1, <2>2
<1>3. ASSUME NEW r \in Request, Fill(r) \/ QueryFails(r) \/ CacheSetFails(r)
      PROVE  Onward(x)
  <2>1. CASE ~EndFlight(r)
    <3>1. PICK p \in FillPc : pc[r] \in FillPc /\ Goto(r, p) /\ UNCHANGED <<call, answer, wrote>>
      BY <1>3, <2>1 DEF Fill, CacheHit, CacheMiss, QueryRows, QueryFails, CacheSet, CacheSetFails, FillPc, historyVars
    <3> QED
      BY <1>0, <3>1 DEF Goto, TypeOK, Ends, WritersPast, InvalidatePc, FillPc
  <2>2. CASE EndFlight(r)
    <3>1. found[r] \in Snapshot /\ NoRows \in Snapshot
      BY DEF TypeOK, NoRows, Snapshot
    <3> QED
      BY <1>2, <2>2, <3>1 DEF EndFlight, FillPc, historyVars
  <2> QED
    BY <2>1, <2>2
<1>4. ASSUME NEW r \in Request, NEW status \in Nat, NEW rows \in SUBSET Item, NEW asOf \in Nat,
             pc[r] \notin {"new", "answered", "lost"}, Reply(r, status, rows, asOf), UNCHANGED call,
             wrote' = wrote
      PROVE  Onward(x)
  <2>1. [status |-> status, rows |-> rows, asOf |-> asOf, stored |-> asOf] # Nil
    BY <1>4, ServiceAssumption DEF Response
  <2>2. answer[r] = Nil
    BY <1>4 DEF Ends
  <2> QED
    BY <1>0, <1>4, <2>1, <2>2 DEF Reply, Goto, TypeOK
<1>5. ASSUME NEW r \in Request, Statement(r) \/ ReadFails(r) \/ ReplyLost(r)
      PROVE  Onward(x)
  <2>1. /\ pc[r] \in WritePc \cup {"getByID", "getForUpdate", "noReply"} /\ call[r] \in Calls
        /\ ver[call[r].user] \in Nat
    BY <1>5, ServiceAssumption DEF Statement, GetByID, ReadForUpdate, InsertTodo, UpdateTodo, CompleteTodo,
       DeleteTodo, GiveUp, ReadFails, ReplyLost, WritePc, TypeOK, Phases, Call
  <2>0. /\ {} \in SUBSET Item /\ 0 \in Nat /\ 404 \in Nat /\ 400 \in Nat
        /\ pc[r] \notin {"new", "answered", "lost"}
    BY <2>1 DEF WritePc
  <2>2. ErrStatus(call[r].op) \in Nat
    BY DEF ErrStatus
  <2>3. CASE GetByID(r)
    <3>1. Hits(todos, call[r].user, call[r].id) => {ItemAt(todos, call[r].id)} \in SUBSET Item
      BY DEF Hits, ItemAt, Item, TypeOK
    <3> QED
      BY <1>4, <2>1, <2>3, <3>1 DEF GetByID, historyVars
  <2>4. CASE ReadForUpdate(r) /\ pc'[r] = "answered"
    <3>1. UNCHANGED <<call, wrote>> /\ (Reply(r, 404, {}, 0) \/ Reply(r, 400, {}, 0))
      BY <2>4 DEF ReadForUpdate, Goto, historyVars, TypeOK
    <3> QED
      BY <1>4, <2>0, <2>1, <3>1
  <2>5. CASE ReadForUpdate(r) /\ pc'[r] # "answered"
    BY <1>0, <2>1, <2>5 DEF ReadForUpdate, Reply, Goto, historyVars, TypeOK, Untouched, Ends
  <2>6. CASE NotFound(r)
    <3>1. UNCHANGED <<call, wrote>> /\ Reply(r, 404, {}, 0)
      BY <2>6 DEF NotFound, historyVars
    <3> QED
      BY <1>4, <2>0, <2>1, <3>1
  <2>7. CASE pc[r] \in WritePc /\ Commit(r)
    <3>1. wrote[r] = 0 /\ answer[r] = Nil
      BY <2>1, <2>7 DEF Untouched, Running, Ends, WritePc
    <3> QED
      BY <1>0, <2>1, <2>7, <3>1 DEF Commit, Execute, Goto, TypeOK, Ends, InvalidatePc, WritePc
  <2>8. CASE DeleteTodo(r) /\ ~Commit(r)
    BY <1>0, <2>1, <2>8 DEF DeleteTodo, Goto, historyVars, TypeOK, Ends, InvalidatePc, WritePc, Untouched
  <2>9. CASE ReadFails(r) \/ GiveUp(r)
    <3>1. UNCHANGED <<call, wrote>> /\ Reply(r, ErrStatus(call[r].op), {}, 0)
      BY <2>9 DEF ReadFails, GiveUp, historyVars
    <3> QED
      BY <1>4, <2>0, <2>1, <2>2, <3>1
  <2>10. CASE ReplyLost(r)
    BY <1>0, <2>1, <2>10 DEF ReplyLost, Goto, historyVars, TypeOK, Ends, WritePc
  <2> QED
    BY <1>5, <2>3, <2>4, <2>5, <2>6, <2>7, <2>8, <2>9, <2>10
    DEF Statement, InsertTodo, UpdateTodo, CompleteTodo, DeleteTodo, WritePc
<1>6. ASSUME NEW r \in Request, Invalidate(r) \/ InvalidateFails(r)
      PROVE  Onward(x)
  <2>1. pc[r] \in InvalidatePc
    BY <1>6 DEF Invalidate, InvalidateFails, DelKeys, ScanStart, DelSearchKey, ScanEnd, InvalidatePc
  <2>2. CASE ScanEnd(r) \/ InvalidateFails(r)
    <3>1. found[r].rows \in SUBSET Item /\ found[r].asOf \in Nat /\ OkStatus(call[r].op) \in Nat
      BY DEF TypeOK, Snapshot, OkStatus
    <3> QED
      BY <1>4, <2>1, <2>2, <3>1 DEF ScanEnd, InvalidateFails, Succeed, InvalidatePc, historyVars
  <2>3. CASE DelKeys(r) \/ ScanStart(r) \/ (\E k \in Key : DelSearchKey(r, k))
    BY <1>0, <2>1, <2>3 DEF DelKeys, ScanStart, DelSearchKey, Goto, InvalidatePc, historyVars, TypeOK, Ends
  <2> QED
    BY <1>6, <2>2, <2>3 DEF Invalidate
<1>7. CASE Crash
  BY <1>7 DEF Crash, TypeOK, Ends, WritersPast
<1>9. ASSUME NEW r \in Request, LateCommit(r)
      PROVE  Onward(x)
  <2>1. CASE x # r
    BY <1>0, <1>9, <2>1 DEF LateCommit, Execute, TypeOK
  <2>2. CASE x = r
    <3>1. pc[x] \in {"noReply", "answered", "lost"} /\ wrote[x] = 0
      BY <1>9, <2>2 DEF LateCommit, Phases, Untouched, Running
    <3> QED
      BY <1>9, <3>1 DEF LateCommit, Execute, Ends
  <2> QED
    BY <2>1, <2>2
<1>8. CASE Tick \/ (\E k \in Key : Expire(k)) \/ UNCHANGED vars
  BY <1>0, <1>8 DEF Tick, Expire, vars, serverVars, historyVars
<1> QED
  BY <1>1, <1>3, <1>5, <1>6, <1>7, <1>8, <1>9 DEF Next, Fail, Idle

\* The patch of an update under way is the one it made of the row it read, also
\* when nobody waits for it any more.
Patching(r) == pc[r] = "update" \/ (r \in inflight /\ call[r].op = "update")

\* An update comes to write what it made of the row it read.
LEMMA OnlyReadsPatch ==
  ASSUME TypeOK, Phases, [Next]_vars, NEW x \in Request,
         pc'[x] = "update" \/ (x \in inflight' /\ call'[x].op = "update")
  PROVE  \/ Patching(x) /\ patch'[x] = patch[x] /\ call'[x] = call[x]
         \/ ReadForUpdate(x)
<1> DEFINE Kept == Patching(x) /\ patch'[x] = patch[x] /\ call'[x] = call[x]
<1>0. ASSUME pc'[x] \in {pc[x], "land", "landError", "query", "cacheSet", "answered", "delKeys", "scanStart", "scanDel"},
             UNCHANGED <<patch, call>>, inflight' \subseteq inflight
      PROVE  Kept
  BY <1>0 DEF Patching
<1>1. ASSUME NEW r \in Request, Receive(r)
      PROVE  Kept
  <2>1. PICK c \in Calls : Refuse(r, c) \/ StartCall(r, c) \/ LeadFlight(r, c) \/ JoinFlight(r, c)
    BY <1>1 DEF Receive
  <2>2. FirstPc(c.op) # "update"
    BY ServiceAssumption DEF FirstPc, Call, Ops, Views
  <2>3. /\ pc[r] = "new" /\ r \notin inflight /\ UNCHANGED <<patch, inflight>> /\ pc'[r] # "update"
        /\ \A y \in Request \ {r} : pc'[y] = pc[y] /\ call'[y] = call[y]
    BY <2>1, <2>2 DEF Refuse, StartCall, LeadFlight, JoinFlight, Arrive, Reply, Goto, TypeOK, Phases
  <2> QED
    BY <2>3 DEF Patching
<1>2. ASSUME NEW r \in Request, Fill(r) \/ QueryFails(r) \/ CacheSetFails(r)
      PROVE  Kept
  BY <1>0, <1>2 DEF Fill, CacheHit, CacheMiss, QueryRows, QueryFails, CacheSet, CacheSetFails, EndFlight, Land, Goto,
     TypeOK
<1>3. ASSUME NEW r \in Request, Statement(r) \/ ReadFails(r), ~ReadForUpdate(x)
      PROVE  Kept
  <2>1. /\ \A y \in Request \ {r} : pc'[y] = pc[y] /\ patch'[y] = patch[y]
        /\ call' = call /\ inflight' = inflight
        /\ patch'[r] = patch[r] \/ (ReadForUpdate(r) /\ r # x)
        /\ pc'[r] \in {"answered", "delKeys"} \/ (ReadForUpdate(r) /\ r # x)
    BY <1>3 DEF Statement, GetByID, ReadForUpdate, InsertTodo, UpdateTodo, CompleteTodo, DeleteTodo, GiveUp,
       ReadFails, Commit, NotFound, Execute, Reply, Goto, TypeOK
  <2> QED
    BY <2>1 DEF Patching
<1>4. ASSUME NEW r \in Request, ReplyLost(r)
      PROVE  Kept
  <2>1. /\ pc[r] \in WritePc /\ UNCHANGED <<call, patch>> /\ inflight' = inflight \cup {r}
        /\ pc' = [pc EXCEPT ![r] = "noReply"]
    BY <1>4 DEF ReplyLost, Goto
  <2>2. call[r].op = "update" => pc[r] = "update"
    BY <2>1 DEF Phases, WritePc
  <2> QED
    BY <2>1, <2>2 DEF Patching, TypeOK
<1>5. ASSUME NEW r \in Request, LateCommit(r)
      PROVE  Kept
  BY <1>0, <1>5 DEF LateCommit, Execute
<1>6. ASSUME NEW r \in Request, Invalidate(r) \/ InvalidateFails(r)
      PROVE  Kept
  BY <1>0, <1>6 DEF Invalidate, InvalidateFails, DelKeys, ScanStart, DelSearchKey, ScanEnd, Succeed, Reply, Goto,
     TypeOK
<1>7. CASE Crash
  <2>1. /\ UNCHANGED <<call, patch>> /\ inflight' = inflight \cup {r \in Request : pc[r] \in WritePc}
        /\ pc'[x] \in {pc[x], "lost"} /\ (pc[x] = "update" => pc'[x] = "lost")
    BY <1>7 DEF Crash
  <2>2. pc[x] \in WritePc /\ call[x].op = "update" => pc[x] = "update"
    BY DEF Phases, WritePc
  <2> QED
    BY <2>1, <2>2 DEF Patching
<1>8. ASSUME Tick \/ (\E k \in Key : Expire(k)) \/ UNCHANGED vars
      PROVE  Kept
  BY <1>0, <1>8 DEF Tick, Expire, vars, serverVars
<1> QED
  BY <1>1, <1>2, <1>3, <1>4, <1>5, <1>6, <1>7, <1>8 DEF Next, Fail, Idle

\* The history stays what it is.
LEMMA HistoryStep ==
  ASSUME TypeOK, TypeOK', Phases, Untouched, HistoryInv, HNext
  PROVE  HistoryInv'
<1>1. \A r \in Request : Onward(r)
  BY OnwardStep DEF HistoryInv, HNext
<1>2. Ends' /\ WritersPast'
  BY <1>1 DEF Onward, Ends, WritersPast
<1>3. Moment' \in Moments /\ Moment \in Moments
  BY DEF Moment, Moments, TypeOK
<1>4. MomentsType'
  BY <1>3 DEF HNext, HistoryInv, MomentsType
<1>5. PresentSeen'
  BY <1>1 DEF HNext, PresentSeen, Onward
<1> QED
  BY <1>2, <1>4, <1>5 DEF HistoryInv

\* Every list in the cache or on its way there stays a list of the past, every
\* patch one of its request's own time.
LEMMA PastStep ==
  ASSUME TypeOK, Phases, Untouched, HistoryInv, PastInv, HNext
  PROVE  PastInv'
<1> USE DEF HistoryInv, PastInv
<1>1. [Next]_vars /\ past \subseteq past'
  BY DEF HNext
<1>2. ASSUME NEW x \in Request, call[x] # Nil, answer[x] = Nil
      PROVE  window[x] \subseteq window'[x]
  BY <1>2, HistoryGrows
<1>3. \A x \in Request : Onward(x)
  BY <1>1, OnwardStep
<1>4. CachePast'
  <2> SUFFICES ASSUME NEW k \in Key, cache'[k] # Nil
               PROVE  \E m \in past' : cache'[k].rows = Rows(m.t, m.n, k.view, k.user, k.q)
    BY DEF CachePast
  <2>1. CASE cache'[k] = cache[k]
    BY <1>1, <2>1 DEF CachePast
  <2>2. CASE cache'[k] # cache[k]
    <3>1. PICK r \in Request :
            /\ pc[r] = "cacheSet" /\ k = KeyOf(call[r])
            /\ cache'[k] = [found[r] EXCEPT !.stored = ver[k.user]]
      BY <1>1, <2>2, OnlyFillsCache
    <3>5. found[r] \in Snapshot
      BY DEF TypeOK
    <3>6. cache'[k].rows = found[r].rows
      BY <3>1, <3>5 DEF Snapshot
    <3>2. PICK m \in past : found[r].rows = Rows(m.t, m.n, call[r].op, call[r].user, call[r].q)
      BY <3>1 DEF FillPast
    <3>3. m.t \in Seq(Row) /\ m.n \in Nat /\ call[r] \in Calls /\ call[r].op \in Views
      BY <3>1 DEF MomentsType, Moments, TypeOK, Phases, FillPc
    <3>4. cache'[k].rows = Rows(m.t, m.n, k.view, k.user, k.q)
      BY <3>1, <3>2, <3>3, <3>6, QueryFitsKey
    <3> QED
      BY <1>1, <3>4
  <2> QED
    BY <2>1, <2>2
<1>5. FillPast'
  <2> SUFFICES ASSUME NEW x \in Request, pc'[x] \in {"cacheSet", "land"}
               PROVE  \E m \in past' : found'[x].rows = Rows(m.t, m.n, call'[x].op, call'[x].user, call'[x].q)
    BY DEF FillPast
  <2>1. CASE pc[x] \in {"cacheSet", "land"} /\ found'[x] = found[x] /\ call'[x] = call[x]
    BY <1>1, <2>1 DEF FillPast
  <2>2. CASE QueryRows(x)
    <3>1. /\ found'[x].rows = Rows(Moment.t, Moment.n, call[x].op, call[x].user, call[x].q)
          /\ call' = call
      BY <2>2 DEF QueryRows, Moment, TypeOK
    <3> QED
      BY <1>1, <3>1 DEF PresentSeen
  <2>3. CASE CacheHit(x)
    <3>1. call[x] \in Calls /\ call[x].op \in Views /\ call' = call
      BY <2>3 DEF CacheHit, TypeOK, Phases, FillPc
    <3>2. KeyOf(call[x]) \in Key /\ CacheKey(call[x]) = KeyOf(call[x])
      BY <3>1, KeyOfType, KeysAgree
    <3>3. cache[KeyOf(call[x])] # Nil /\ found'[x] = cache[KeyOf(call[x])]
      BY <2>3, <3>2 DEF CacheHit, Usable, TypeOK
    <3>4. PICK m \in past : found'[x].rows = Rows(m.t, m.n, KeyOf(call[x]).view, KeyOf(call[x]).user, KeyOf(call[x]).q)
      BY <3>2, <3>3 DEF CachePast
    <3>5. m.t \in Seq(Row) /\ m.n \in Nat
      BY DEF MomentsType, Moments
    <3>6. found'[x].rows = Rows(m.t, m.n, call[x].op, call[x].user, call[x].q)
      BY <3>1, <3>4, <3>5, QueryFitsKey
    <3> QED
      BY <1>1, <3>1, <3>6
  <2> QED
    BY <1>1, <2>1, <2>2, <2>3, OnlyReadsFill
<1>6. PatchPast'
  <2> SUFFICES ASSUME NEW x \in Request, pc'[x] = "update" \/ (x \in inflight' /\ call'[x].op = "update")
               PROVE  \E m \in window'[x] : /\ Hits(m.t, call'[x].user, call'[x].id)
                                            /\ ~Overdue(call'[x], m.n)
                                            /\ patch'[x] = Patched(m.t[call'[x].id], call'[x])
    BY DEF PatchPast
  <2>1. CASE Patching(x) /\ patch'[x] = patch[x] /\ call'[x] = call[x]
    <3>1. call[x] # Nil
      BY <2>1 DEF Patching, Phases
    <3>2. window[x] \subseteq window'[x]
      BY <3>1 DEF HNext, MomentsType
    <3> QED
      BY <2>1, <3>2 DEF PatchPast, Patching
  <2>2. CASE ReadForUpdate(x)
    <3>1. call[x] # Nil /\ answer[x] = Nil /\ call' = call
      BY <2>2 DEF ReadForUpdate, Phases, Ends
    <3>3. pc'[x] # "answered"
      BY <2>2 DEF ReadForUpdate, Phases
    <3>2. /\ Hits(Moment.t, call[x].user, call[x].id) /\ ~Overdue(call[x], Moment.n)
          /\ patch'[x] = Patched(Moment.t[call[x].id], call[x])
      BY <2>2, <3>3 DEF ReadForUpdate, Reply, Goto, Moment, TypeOK, PastDue, Overdue
    <3> QED
      BY <1>2, <3>1, <3>2 DEF PresentSeen
  <2> QED
    BY <1>1, <2>1, <2>2, OnlyReadsPatch
<1>7. InvalidatorsWrote'
  <2> SUFFICES ASSUME NEW x \in Request, pc'[x] \in InvalidatePc, wrote'[x] = 0
               PROVE  /\ call'[x].op = "delete" /\ found'[x].rows = {}
                      /\ \E m \in window'[x] : ~Hits(m.t, call'[x].user, call'[x].id)
    BY DEF InvalidatorsWrote
  <2>1. CASE pc[x] \in InvalidatePc /\ found'[x] = found[x] /\ call'[x] = call[x]
    <3>1. window[x] \subseteq window'[x] /\ wrote[x] = 0
      BY <1>2, <1>3, <2>1 DEF Phases, Ends, Onward, InvalidatePc
    <3> QED
      BY <2>1, <3>1 DEF InvalidatorsWrote
  <2>2. CASE pc[x] \in WritePc /\ Commit(x)
    <3>1. call[x].user \in Users
      BY <2>2, RunningCalls DEF Running
    <3>2. wrote'[x] = ver[call[x].user] + 1 /\ ver[call[x].user] \in Nat
      BY <2>2, <3>1 DEF Commit, Execute, TypeOK
    <3> QED
      BY <3>2
  <2>3. CASE pc[x] = "softDelete" /\ ~Effective(x) /\ found'[x] = found[x] /\ call'[x] = call[x]
    <3>1. call[x] # Nil /\ answer[x] = Nil /\ found[x].rows = {} /\ call[x].op = "delete"
      BY <2>3 DEF Phases, Ends, Untouched, Running, WritePc
    <3>2. ~Hits(Moment.t, call[x].user, call[x].id)
      BY <2>3 DEF Effective, Moment
    <3> QED
      BY <1>2, <2>3, <3>1, <3>2 DEF PresentSeen
  <2> QED
    BY <1>1, <2>1, <2>2, <2>3, OnlyStatementsInvalidate
<1> QED
  BY <1>4, <1>5, <1>6, <1>7

-----------------------------------------------------------------------------
(***************************************************************************)
(* Each step is a step of the store.                                        *)
(***************************************************************************)

HInv == TypeOK /\ Phases /\ Untouched /\ HistoryInv /\ PastInv

\* A request has been told something exactly when it has an answer.
LEMMA ToldAnswer ==
  ASSUME TypeOK, NEW r \in Request
  PROVE  /\ answer[r] = Nil => Told[r] = Nil
         /\ answer[r] # Nil => Told[r] # Nil /\ Told[r] = [status |-> answer[r].status, rows |-> answer[r].rows]
<1>1. CASE answer[r] = Nil
  BY <1>1 DEF Told
<1>2. CASE answer[r] # Nil
  <2>1. answer[r].status \in Nat /\ answer[r].rows \in SUBSET Item
    BY <1>2 DEF TypeOK, Response
  <2> QED
    BY <1>2, <2>1, ReplyAssumption DEF Told
<1> QED
  BY <1>1, <1>2

\* The store remembers what the history remembers.
LEMMA RememberSim ==
  ASSUME TypeOK, HNext
  PROVE  Store!Remember
<1>1. \A r \in Request : Told[r] = Nil <=> answer[r] = Nil
  BY ToldAnswer
<1> QED
  BY <1>1 DEF HNext, Store!Remember, Store!Moment, Moment

\* A step that changes neither table nor clock, asks nothing, has no effect and
\* tells nothing is none of the store.
LEMMA Stutter ==
  ASSUME TypeOK, HistoryInv, HNext, UNCHANGED <<todos, now, call, answer, wrote, Unsettled>>,
         \A r \in Request : wrote[r] # 0 => found'[r] = found[r]
  PROVE  UNCHANGED Store!vars
<1>1. Moment' = Moment
  BY DEF Moment
<1>2. past' = past
  BY <1>1 DEF HNext, HistoryInv, PresentSeen
<1>3. window' = window
  BY <1>1 DEF HNext, HistoryInv, PresentSeen, MomentsType
<1>4. Acted' = Acted /\ Result' = Result /\ Told' = Told
  BY DEF Acted, Result, Told
<1> QED
  BY <1>2, <1>3, <1>4 DEF Store!vars

\* An arrival is accepted or refused by the store.
LEMMA ReceiveSim ==
  ASSUME HInv, NEW r \in Request, Receive(r)
  PROVE  \E c \in Calls : Store!Accept(r, c) \/ Store!Refuse(r, c)
<1> USE DEF HInv
<1>1. PICK c \in Calls : Refuse(r, c) \/ StartCall(r, c) \/ LeadFlight(r, c) \/ JoinFlight(r, c)
  BY DEF Receive
<1>2. /\ pc[r] = "new" /\ call[r] = Nil /\ call' = [call EXCEPT ![r] = c]
      /\ UNCHANGED <<todos, now, found, wrote, inflight>> /\ r \notin inflight
      /\ \A x \in Request \ {r} : answer'[x] = answer[x]
  BY <1>1, ArrivalStep DEF Refuse, StartCall, LeadFlight, JoinFlight, Arrive, historyVars, HistoryInv, Ends, Phases
<1>3. Acted' = Acted /\ Result' = Result /\ Unsettled' = Unsettled
  BY <1>2 DEF Acted, Result, Unsettled, TypeOK
<1>4. CASE Refuse(r, c)
  <2>1. Store!Unacceptable(c)
    BY <1>4 DEF Refuse, Refused, Malformed, PastDue, Store!Unacceptable, Store!Late
  <2>2. answer' = [answer EXCEPT ![r] = [status |-> 400, rows |-> {}, asOf |-> 0, stored |-> 0]]
    BY <1>4 DEF Refuse, Reply
  <2>3. [status |-> 400, rows |-> {}, asOf |-> 0, stored |-> 0] # Nil
    BY ServiceAssumption DEF Response
  <2>4. Told' = [Told EXCEPT ![r] = Store!Msg(400, {})]
    BY <2>2, <2>3 DEF Told, Store!Msg, TypeOK
  <2> QED
    BY <1>2, <1>3, <2>1, <2>4 DEF Store!Refuse
<1>5. CASE StartCall(r, c) \/ LeadFlight(r, c) \/ JoinFlight(r, c)
  <2>1. ~Store!Unacceptable(c)
    BY <1>5 DEF StartCall, LeadFlight, JoinFlight, Refused, Malformed, PastDue, Views,
       Store!Unacceptable, Store!Late
  <2>2. Told' = Told
    BY <1>5 DEF StartCall, LeadFlight, JoinFlight, Told
  <2> QED
    BY <1>2, <1>3, <2>1, <2>2 DEF Store!Accept
<1> QED
  BY <1>1, <1>4, <1>5

\* One answer that the store may give is given by it.  It settles the request
\* unless Postgres still has its statement.
LEMMA ReplySim ==
  ASSUME HInv, NEW r \in Request, pc[r] \notin {"new", "answered"},
         NEW status \in Nat, NEW rows \in SUBSET Item, NEW asOf \in Nat, Reply(r, status, rows, asOf),
         UNCHANGED <<todos, now, call, wrote, found, inflight>>,
         r \in inflight => status = ErrStatus(call[r].op) /\ rows = {},
         Store!Truthful(r, [status |-> status, rows |-> rows])
  PROVE  Store!Tell({r})
<1> USE DEF HInv
<1>1. [status |-> status, rows |-> rows, asOf |-> asOf, stored |-> asOf] # Nil
  BY ServiceAssumption DEF Response
<1>2. answer' = [answer EXCEPT ![r] = [status |-> status, rows |-> rows, asOf |-> asOf, stored |-> asOf]]
  BY DEF Reply
<1>3. Told' = [Told EXCEPT ![r] = [status |-> status, rows |-> rows]]
  BY <1>1, <1>2 DEF Told, TypeOK
<1>4. Acted' = Acted /\ Result' = Result
  BY DEF Acted, Result
<1>5. call[r] # Nil /\ answer[r] = Nil
  BY DEF Phases, HistoryInv, Ends
<1>6. Store!Pending(r)
  BY <1>5, ToldAnswer DEF Store!Pending
<1>7. Told'[r] = [status |-> status, rows |-> rows] /\ Told' = [x \in Request |-> IF x \in {r} THEN Told'[x] ELSE Told[x]]
  BY <1>3 DEF Told
<1>8. \E U \in SUBSET {x \in {r} : ~Acted[x] /\ Told'[x] = Store!Failure(x)} : Unsettled' = Unsettled \cup U
  <2>1. \A x \in Request \ {r} : answer'[x] = answer[x]
    BY <1>2 DEF TypeOK
  <2>2. answer'[r] # Nil
    BY <1>1, <1>2 DEF TypeOK
  <2>3. CASE r \in inflight
    <3>1. Unsettled' = Unsettled \cup {r}
      BY <2>1, <2>2, <2>3 DEF Unsettled, TypeOK
    <3>2. ~Acted[r]
      BY <2>3 DEF Untouched, Running, Acted
    <3>3. Told'[r] = Store!Failure(r)
      BY <1>7, <2>3 DEF Store!Failure, Store!Msg, Store!ErrStatus, ErrStatus
    <3> QED
      BY <3>1, <3>2, <3>3
  <2>4. CASE r \notin inflight
    <3>1. Unsettled' = Unsettled \cup {}
      BY <2>1, <2>4 DEF Unsettled, TypeOK
    <3> QED
      BY <3>1
  <2> QED
    BY <2>3, <2>4
<1> QED
  BY <1>4, <1>6, <1>7, <1>8 DEF Store!Tell

\* The store finds the rows the statements find.
LEMMA SameRows ==
  /\ \A t, u, i : Store!Hits(t, u, i) <=> Hits(t, u, i)
  /\ \A t, n, view, u, q : Store!Rows(t, n, view, u, q) = Rows(t, n, view, u, q)
  /\ \A t, c : Store!Found(t, c) <=> Hits(t, c.user, c.id)
<1>1. \A t, u, i : Store!Hits(t, u, i) <=> Hits(t, u, i)
  BY DEF Store!Hits, Hits
<1>2. \A t, n, view, u, q : Store!Rows(t, n, view, u, q) = Rows(t, n, view, u, q)
  BY DEF Store!Rows, Store!Hits, Store!Selects, Store!ILike, Store!Fold, Rows, Hits, Selects, ILike, Fold
<1> QED
  BY <1>1, <1>2 DEF Store!Found

\* The landing of a flight answers everyone aboard with an answer of the past.
LEMMA LandSim ==
  ASSUME HInv, NEW r \in Request, pc[r] \in FillPc,
         NEW status \in Nat, NEW y \in Snapshot, Land(r, status, y),
         UNCHANGED <<todos, now, call, wrote, found, inflight>>,
         \/ status = 500 /\ y.rows = {}
         \/ /\ status = 200
            /\ \E m \in past : y.rows = Rows(m.t, m.n, KeyOf(call[r]).view, KeyOf(call[r]).user, KeyOf(call[r]).q)
  PROVE  Store!Tell(Aboard(r))
<1> USE DEF HInv
<1> DEFINE rows == y.rows
<1>1. [status |-> status, rows |-> y.rows, asOf |-> y.asOf, stored |-> y.stored] # Nil
  <2>1. [status |-> status, rows |-> y.rows, asOf |-> y.asOf, stored |-> y.stored] \in Response
    BY DEF Snapshot, Response
  <2> QED
    BY <2>1, ServiceAssumption
<1>2. Acted' = Acted /\ Result' = Result
  BY DEF Acted, Result
<1>3. Told' = [x \in Request |-> IF x \in Aboard(r) THEN [status |-> status, rows |-> rows] ELSE Told[x]]
  BY <1>1 DEF Land, Told, TypeOK
<1>4. Told' = [x \in Request |-> IF x \in Aboard(r) THEN Told'[x] ELSE Told[x]]
  BY <1>3
<1>k. \A x \in Request : pc[x] \in FillPc \cup {"wait"} => FlightKey(call[x]) = KeyOf(call[x])
  BY KeysAgree DEF TypeOK, Phases, FillPc
<1>u. Unsettled' = Unsettled
  <2>1. \A x \in inflight : x \in Request /\ x \notin Aboard(r)
    BY DEF TypeOK, Phases, Aboard, FillPc
  <2>2. \A x \in inflight : answer'[x] = answer[x]
    BY <2>1 DEF Land
  <2> QED
    BY <2>2 DEF Unsettled
<1>5. ASSUME NEW x \in Aboard(r)
      PROVE  Store!Pending(x) /\ Store!Truthful(x, Told'[x])
  <2>1. x \in Request /\ pc[x] \in FillPc \cup {"wait"} /\ KeyOf(call[x]) = KeyOf(call[r])
    BY <1>k DEF Aboard
  <2>0. pc[x] \notin {"new", "noReply", "answered", "lost"} \cup InvalidatePc
    BY <2>1 DEF FillPc, InvalidatePc
  <2>7. call[x] # Nil /\ call[x].op \in Views /\ call[x] \in Calls
    BY <2>1, <2>0 DEF Phases, TypeOK
  <2>8. answer[x] = Nil /\ wrote[x] = 0
    BY <2>1, <2>0 DEF HistoryInv, Ends, WritersPast
  <2>2. Store!Pending(x)
    BY <2>1, <2>7, <2>8, ToldAnswer DEF Store!Pending
  <2>3. Told'[x] = [status |-> status, rows |-> rows] /\ ~Acted[x]
    BY <1>3, <2>1, <2>8 DEF Acted
  <2>4. CASE status = 500 /\ rows = {}
    <3>1. Store!ErrStatus(call[x]) = 500
      BY <2>7 DEF Store!ErrStatus, Views
    <3>2. Told'[x] = Store!Failure(x)
      BY <2>3, <2>4, <3>1 DEF Store!Msg, Store!Failure
    <3> QED
      BY <2>2, <2>3, <3>2 DEF Store!Truthful
  <2>5. ASSUME status = 200, NEW m \in past,
               rows = Rows(m.t, m.n, KeyOf(call[r]).view, KeyOf(call[r]).user, KeyOf(call[r]).q)
        PROVE  Store!Truthful(x, Told'[x])
    <3>1. m.t \in Seq(Row) /\ m.n \in Nat
      BY DEF HistoryInv, MomentsType, Moments
    <3>2. rows = Rows(m.t, m.n, call[x].op, call[x].user, call[x].q)
      BY <2>1, <2>7, <2>5, <3>1, QueryFitsKey
    <3>3. Told'[x] = Store!Msg(200, Store!Rows(m.t, m.n, call[x].op, call[x].user, call[x].q))
      BY <2>3, <2>5, <3>2, SameRows DEF Store!Msg
    <3> QED
      BY <2>3, <2>7, <3>3 DEF Store!Truthful, Views
  <2> QED
    BY <2>2, <2>4, <2>5
<1>6. \E U \in SUBSET {x \in Aboard(r) : ~Acted[x] /\ Told'[x] = Store!Failure(x)} : Unsettled' = Unsettled \cup U
  <2>1. Unsettled' = Unsettled \cup {}
    BY <1>u
  <2> QED
    BY <2>1
<1> QED
  BY <1>2, <1>4, <1>5, <1>6 DEF Store!Tell

\* A step of a fill answers a whole flight or nobody.
LEMMA FillSim ==
  ASSUME HInv, HNext, NEW r \in Request, Fill(r) \/ QueryFails(r) \/ CacheSetFails(r)
  PROVE  (\E S \in SUBSET Request : Store!Tell(S)) \/ UNCHANGED Store!vars
<1> USE DEF HInv, PastInv
<1>1. CASE ~EndFlight(r)
  <2>1. UNCHANGED <<todos, now, call, answer, wrote, inflight>> /\ pc[r] \in FillPc
    BY <1>1 DEF Fill, CacheHit, CacheMiss, QueryRows, QueryFails, CacheSet, CacheSetFails, historyVars, FillPc
  <2>2. wrote[r] = 0
    BY <2>1 DEF HistoryInv, WritersPast, FillPc, InvalidatePc
  <2>3. \A x \in Request : wrote[x] # 0 => found'[x] = found[x]
    BY <1>1, <2>2 DEF Fill, CacheHit, CacheMiss, QueryRows, QueryFails, CacheSet, CacheSetFails, TypeOK
  <2> QED
    BY <2>1, <2>3, Stutter DEF Unsettled
<1>2. CASE EndFlight(r) /\ pc[r] = "land"
  <2>1. Land(r, 200, found[r]) /\ UNCHANGED <<todos, now, call, wrote, found, inflight>> /\ found[r] \in Snapshot
    BY <1>2 DEF EndFlight, historyVars, TypeOK
  <2>2. PICK m \in past : found[r].rows = Rows(m.t, m.n, call[r].op, call[r].user, call[r].q)
    BY <1>2 DEF FillPast
  <2>3. m.t \in Seq(Row) /\ m.n \in Nat /\ call[r] \in Calls /\ call[r].op \in Views /\ pc[r] \in FillPc
    BY <1>2 DEF HistoryInv, MomentsType, Moments, TypeOK, Phases, FillPc
  <2>4. found[r].rows = Rows(m.t, m.n, KeyOf(call[r]).view, KeyOf(call[r]).user, KeyOf(call[r]).q)
    BY <2>2, <2>3, QueryFitsKey
  <2>5. Store!Tell(Aboard(r))
    BY <2>1, <2>3, <2>4, LandSim
  <2> QED
    BY <2>5 DEF Aboard
<1>3. CASE EndFlight(r) /\ pc[r] = "landError"
  <2>1. Land(r, 500, NoRows) /\ UNCHANGED <<todos, now, call, wrote, found, inflight>>
    BY <1>3 DEF EndFlight, historyVars
  <2>2. NoRows \in Snapshot /\ NoRows.rows = {} /\ pc[r] \in FillPc
    BY <1>3 DEF NoRows, Snapshot, FillPc
  <2>3. Store!Tell(Aboard(r))
    BY <2>1, <2>2, LandSim
  <2> QED
    BY <2>3 DEF Aboard
<1> QED
  BY <1>1, <1>2, <1>3 DEF EndFlight

\* A statement has the effect the store gives its request, and returns its rows.
LEMMA EffectSim ==
  ASSUME HInv, NEW r \in Request, Running(r), Execute(r)
  PROVE  Store!Effect(r) /\ Returned(r) = Store!Returned(todos', call[r])
<1> USE DEF HInv, PastInv
<1> DEFINE c == call[r]
<1>1. todos' = Written(r) /\ Effective(r) /\ todos \in Seq(Row) /\ c.op \in Writes
  BY RunningCalls DEF Execute, TypeOK
<1>2. CASE c.op = "create"
  <2>1. todos' = InsertRow(todos, c.user, Trim[c.text], c.due)
    BY <1>1, <1>2 DEF Written
  <2>2. Len(todos') = Len(todos) + 1
    BY <1>1, <2>1 DEF InsertRow
  <2>3. Returned(r) = {ItemAt(todos', Len(todos'))}
    BY <1>1, <1>2, <2>2 DEF Returned
  <2>4. Store!Effect(r)
    BY <1>2, <2>1 DEF Store!Effect, Store!InsertRow, InsertRow
  <2> QED
    BY <1>2, <2>3, <2>4 DEF Store!Returned, Store!Item1, ItemAt
<1>3. CASE c.op # "create"
  <2>1. Hits(todos, c.user, c.id) /\ Store!Found(todos, c)
    BY <1>1, <1>3, SameRows DEF Effective
  <2>2. CASE c.op = "update"
    <3>1. todos' = UpdateRow(todos, c.id, patch[r]) /\ Patching(r)
      BY <1>1, <2>2 DEF Written, Phases, Running, Patching, WritePc
    <3>2. PICK m \in window[r] : /\ Hits(m.t, c.user, c.id) /\ ~Overdue(c, m.n)
                                /\ patch[r] = Patched(m.t[c.id], c)
      BY <3>1 DEF PatchPast, Patching
    <3>3. /\ Store!Found(m.t, c) /\ ~Store!Late(c, m.n)
          /\ patch[r] = Store!Merged(m.t[c.id], c)
      BY <3>2, SameRows DEF Store!Merged, Patched, Store!Late, Overdue
    <3>4. todos' = Store!UpdateRow(todos, c.id, Store!Merged(m.t[c.id], c))
      BY <3>1, <3>3 DEF Store!UpdateRow, UpdateRow
    <3>5. Returned(r) = {ItemAt(todos', c.id)}
      BY <1>1, <2>2 DEF Returned
    <3>6. Store!Effect(r)
      BY <2>1, <2>2, <3>3, <3>4 DEF Store!Effect
    <3> QED
      BY <2>2, <3>5, <3>6 DEF Store!Returned, Store!Item1, ItemAt
  <2>3. CASE c.op = "complete"
    <3>1. todos' = MarkDone(todos, c.id) /\ Returned(r) = {ItemAt(todos', c.id)}
      BY <1>1, <2>3 DEF Written, Returned
    <3>2. Store!Effect(r)
      BY <2>1, <2>3, <3>1 DEF Store!Effect, Store!MarkDone, MarkDone
    <3> QED
      BY <2>3, <3>1, <3>2 DEF Store!Returned, Store!Item1, ItemAt
  <2>4. CASE c.op = "delete"
    <3>1. todos' = SoftDelete(todos, c.id) /\ Returned(r) = {}
      BY <1>1, <2>4 DEF Written, Returned
    <3>2. Store!Effect(r)
      BY <2>1, <2>4, <3>1 DEF Store!Effect, Store!SoftDelete, SoftDelete
    <3> QED
      BY <2>4, <3>1, <3>2 DEF Store!Returned
  <2> QED
    BY <1>1, <1>3, <2>2, <2>3, <2>4 DEF Writes
<1> QED
  BY <1>2, <1>3

\* A statement that commits, whether its handler waits for it or nobody does, is
\* the effect of its request: a settled one is not told of an error.
LEMMA ActSim ==
  ASSUME HInv, NEW r \in Request, Running(r), Execute(r),
         \/ pc[r] \in WritePc /\ inflight' = inflight
         \/ r \in inflight /\ inflight' = inflight \ {r}
  PROVE  Store!Act(r)
<1> USE DEF HInv
<1> DEFINE c == call[r]
<1>1. /\ Store!Effect(r) /\ Returned(r) = Store!Returned(todos', c)
      /\ UNCHANGED <<now, call, answer>> /\ wrote' = [wrote EXCEPT ![r] = ver[c.user] + 1]
      /\ found' = [found EXCEPT ![r] = [rows |-> Returned(r), asOf |-> ver[c.user] + 1, at |-> now,
                                        stored |-> ver[c.user] + 1]]
  BY EffectSim DEF Execute
<1>2. wrote[r] = 0 /\ ver[c.user] \in Nat /\ call[r] # Nil
  BY RunningCalls DEF Untouched
<1>3. wrote'[r] # 0 /\ \A x \in Request \ {r} : wrote'[x] = wrote[x] /\ found'[x] = found[x]
  BY <1>1, <1>2 DEF TypeOK
<1>4. found'[r].rows = Returned(r)
  BY <1>1 DEF TypeOK
<1>5. Acted' = [Acted EXCEPT ![r] = TRUE] /\ ~Acted[r]
  BY <1>2, <1>3 DEF Acted
<1>6. Result' = [Result EXCEPT ![r] = Returned(r)]
  BY <1>3, <1>4 DEF Result
<1>7. Told' = Told
  BY <1>1 DEF Told
<1>8. Unsettled' = Unsettled \ {r}
  <2>1. CASE pc[r] \in WritePc /\ inflight' = inflight
    <3>1. r \notin inflight
      BY <2>1 DEF Phases, WritePc
    <3> QED
      BY <1>1, <2>1, <3>1 DEF Unsettled
  <2>2. CASE r \in inflight /\ inflight' = inflight \ {r}
    BY <1>1, <2>2 DEF Unsettled
  <2> QED
    BY <2>1, <2>2
<1>9. Store!Pending(r) \/ r \in Unsettled
  <2>1. answer[r] = Nil => Store!Pending(r)
    BY <1>2, ToldAnswer DEF Store!Pending
  <2>2. answer[r] # Nil => r \in Unsettled
    <3>1. answer[r] # Nil => pc[r] \notin WritePc
      BY DEF HistoryInv, Ends, WritePc
    <3> QED
      BY <3>1 DEF Running, Unsettled
  <2> QED
    BY <2>1, <2>2
<1> QED
  BY <1>1, <1>5, <1>6, <1>7, <1>8, <1>9 DEF Store!Act

\* A handler whose statement was lost tells its client of the error, whether
\* the statement has had its effect, may still have it or never will.
LEMMA GiveUpSim ==
  ASSUME HInv, NEW r \in Request, GiveUp(r)
  PROVE  Store!Tell({r})
<1> USE DEF HInv
<1> DEFINE msg == [status |-> ErrStatus(call[r].op), rows |-> {}]
<1>1. /\ pc[r] = "noReply" /\ Reply(r, ErrStatus(call[r].op), {}, 0) /\ ErrStatus(call[r].op) \in Nat
      /\ UNCHANGED <<todos, now, call, wrote, found, inflight>>
  BY DEF GiveUp, historyVars, ErrStatus
<1>2. msg = Store!Failure(r)
  BY DEF Store!Failure, Store!Msg, Store!ErrStatus, ErrStatus
<1>3. Store!Truthful(r, msg)
  BY <1>2 DEF Store!Truthful
<1>4. {} \in SUBSET Item /\ 0 \in Nat /\ pc[r] \notin {"new", "answered"}
  BY <1>1
<1> QED
  BY <1>1, <1>3, <1>4, ReplySim

\* A statement is an effect, an answer or neither, and so is its failure.
LEMMA StatementSim ==
  ASSUME HInv, HNext, NEW r \in Request, Statement(r) \/ ReadFails(r) \/ ReplyLost(r)
  PROVE  \/ \E S \in SUBSET Request : Store!Tell(S)
         \/ Store!Act(r)
         \/ UNCHANGED Store!vars
<1> USE DEF HInv, PastInv
<1> DEFINE c == call[r]
<1>0. CASE GiveUp(r)
  BY <1>0, GiveUpSim
<1>1. ASSUME ~GiveUp(r)
      PROVE  /\ pc[r] \in WritePc \cup {"getByID", "getForUpdate"} /\ c \in Calls /\ c # Nil
             /\ answer[r] = Nil /\ wrote[r] = 0 /\ ver[c.user] \in Nat
             /\ pc[r] \notin {"new", "answered"} /\ r \notin inflight
  <2>1. pc[r] \in WritePc \cup {"getByID", "getForUpdate"}
    BY <1>1 DEF Statement, GetByID, ReadForUpdate, InsertTodo, UpdateTodo, CompleteTodo,
       DeleteTodo, ReadFails, ReplyLost, WritePc
  <2>2. pc[r] \notin {"new", "noReply", "answered", "lost"} \cup InvalidatePc
    BY <2>1 DEF WritePc, InvalidatePc
  <2> QED
    BY <2>1, <2>2, ServiceAssumption DEF TypeOK, Phases, Call, HistoryInv, Ends, WritersPast
<1>2. ASSUME ~GiveUp(r)
      PROVE  Store!Pending(r) /\ ~Acted[r]
  BY <1>1, <1>2, ToldAnswer DEF Store!Pending, Acted
<1>3. ASSUME ~GiveUp(r), NEW status \in Nat, NEW rows \in SUBSET Item, NEW asOf \in Nat,
             Reply(r, status, rows, asOf), UNCHANGED <<todos, now, call, wrote, found, inflight>>,
             Store!Truthful(r, [status |-> status, rows |-> rows])
      PROVE  \E S \in SUBSET Request : Store!Tell(S)
  BY <1>1, <1>3, ReplySim
<1>4. {} \in SUBSET Item /\ 0 \in Nat /\ 400 \in Nat /\ 404 \in Nat /\ 200 \in Nat
  OBVIOUS
<1>5. ASSUME ~GiveUp(r), ~Hits(todos, c.user, c.id), c.op \in {"get", "update", "complete"}
      PROVE  Store!Truthful(r, [status |-> 404, rows |-> {}])
  <2>1. [status |-> 404, rows |-> {}] = Store!Msg(404, {}) /\ ~Store!Found(todos, c)
    BY <1>5, SameRows DEF Store!Msg
  <2> QED
    BY <1>2, <1>5, <2>1 DEF Store!Truthful
<1>6. CASE GetByID(r)
  <2>1. c.op = "get" /\ ~GiveUp(r) /\ UNCHANGED <<todos, now, call, wrote, found, inflight>>
    BY <1>6 DEF GetByID, GiveUp, Phases, historyVars
  <2>2. CASE Hits(todos, c.user, c.id)
    <3>1. {ItemAt(todos, c.id)} \in SUBSET Item
      BY <2>2 DEF Hits, ItemAt, Item, TypeOK
    <3>2. [status |-> 200, rows |-> {ItemAt(todos, c.id)}] = Store!Msg(200, Store!Item1(todos, c.id))
      BY DEF Store!Msg, Store!Item1, ItemAt
    <3>3. Store!Found(todos, c)
      BY <2>2, SameRows
    <3>4. Store!Truthful(r, [status |-> 200, rows |-> {ItemAt(todos, c.id)}])
      BY <1>2, <2>1, <3>2, <3>3 DEF Store!Truthful
    <3> QED
      BY <1>1, <1>3, <1>4, <1>6, <2>1, <2>2, <3>1, <3>4 DEF GetByID
  <2>3. CASE ~Hits(todos, c.user, c.id)
    BY <1>3, <1>4, <1>5, <1>6, <2>1, <2>3 DEF GetByID
  <2> QED
    BY <2>2, <2>3
<1>7. CASE ReadForUpdate(r)
  <2>1. c.op = "update" /\ ~GiveUp(r) /\ UNCHANGED <<todos, now, call, wrote, found, inflight>>
    BY <1>7 DEF ReadForUpdate, GiveUp, Phases, historyVars
  <2>2. CASE ~Hits(todos, c.user, c.id)
    BY <1>3, <1>4, <1>5, <1>7, <2>1, <2>2 DEF ReadForUpdate
  <2>3. CASE Hits(todos, c.user, c.id) /\ PastDue(c)
    <3>1. [status |-> 400, rows |-> {}] = Store!Msg(400, {}) /\ Store!Found(todos, c) /\ Store!Late(c, now)
      BY <2>3, SameRows DEF Store!Msg, Store!Late, PastDue
    <3>2. Store!Truthful(r, [status |-> 400, rows |-> {}])
      BY <1>2, <2>1, <3>1 DEF Store!Truthful
    <3> QED
      BY <1>3, <1>4, <1>7, <2>1, <2>3, <3>2 DEF ReadForUpdate
  <2>4. CASE Hits(todos, c.user, c.id) /\ ~PastDue(c)
    <3>1. answer' = answer
      BY <1>7, <2>4 DEF ReadForUpdate
    <3> QED
      BY <2>1, <3>1, Stutter DEF Unsettled
  <2> QED
    BY <2>2, <2>3, <2>4
<1>8. CASE NotFound(r) /\ pc[r] \in {"update", "markDone"}
  <2>1. c.op \in {"update", "complete"} /\ ~Hits(todos, c.user, c.id) /\ ~GiveUp(r)
    BY <1>8 DEF NotFound, GiveUp, Effective, Phases
  <2>2. Reply(r, 404, {}, 0) /\ UNCHANGED <<todos, now, call, wrote, found, inflight>>
    BY <1>8 DEF NotFound, historyVars
  <2> QED
    BY <1>3, <1>4, <1>5, <2>1, <2>2
<1>9. CASE pc[r] \in WritePc /\ Commit(r)
  BY <1>9, ActSim DEF Commit, Running
<1>10. CASE (DeleteTodo(r) /\ ~Commit(r)) \/ ReplyLost(r)
  <2>1. /\ ~GiveUp(r) /\ UNCHANGED <<todos, now, call, answer, wrote, found>>
        /\ inflight' \in {inflight, inflight \cup {r}}
    BY <1>10 DEF DeleteTodo, ReplyLost, GiveUp, historyVars, WritePc
  <2>2. Unsettled' = Unsettled
    BY <1>1, <2>1 DEF Unsettled
  <2> QED
    BY <2>1, <2>2, Stutter
<1>11. CASE ReadFails(r)
  <2>1. /\ Reply(r, ErrStatus(c.op), {}, 0) /\ ErrStatus(c.op) \in Nat /\ ~GiveUp(r)
        /\ UNCHANGED <<todos, now, call, wrote, found, inflight>>
    BY <1>11 DEF ReadFails, GiveUp, historyVars, ErrStatus
  <2>2. [status |-> ErrStatus(c.op), rows |-> {}] = Store!Failure(r)
    BY DEF Store!Failure, Store!Msg, Store!ErrStatus, ErrStatus
  <2>3. Store!Truthful(r, [status |-> ErrStatus(c.op), rows |-> {}])
    BY <2>2 DEF Store!Truthful
  <2> QED
    BY <1>3, <1>4, <2>1, <2>3
<1> QED
  BY <1>0, <1>6, <1>7, <1>8, <1>9, <1>10, <1>11
  DEF Statement, InsertTodo, UpdateTodo, CompleteTodo, DeleteTodo, WritePc

\* The end of an invalidation, complete or not, answers with the effect.
LEMMA InvalidateSim ==
  ASSUME HInv, HNext, NEW r \in Request, Invalidate(r) \/ InvalidateFails(r)
  PROVE  (\E S \in SUBSET Request : Store!Tell(S)) \/ UNCHANGED Store!vars
<1> USE DEF HInv, PastInv
<1> DEFINE c == call[r]
<1>1. pc[r] \in InvalidatePc /\ pc[r] \notin {"new", "answered"} /\ r \notin inflight
  BY DEF Invalidate, InvalidateFails, DelKeys, ScanStart, DelSearchKey, ScanEnd, InvalidatePc, Phases
<1>2. CASE DelKeys(r) \/ ScanStart(r) \/ (\E k \in Key : DelSearchKey(r, k))
  <2>1. UNCHANGED <<todos, now, call, answer, wrote, found, inflight>>
    BY <1>2 DEF DelKeys, ScanStart, DelSearchKey, historyVars
  <2> QED
    BY <2>1, Stutter DEF Unsettled
<1>3. CASE ScanEnd(r) \/ InvalidateFails(r)
  <2> DEFINE status == OkStatus(c.op)
             msg == [status |-> status, rows |-> found[r].rows]
  <2>1. /\ Reply(r, status, found[r].rows, found[r].asOf)
        /\ UNCHANGED <<todos, now, call, wrote, found, inflight>>
    BY <1>3 DEF ScanEnd, InvalidateFails, Succeed, historyVars
  <2>2. found[r].rows \in SUBSET Item /\ found[r].asOf \in Nat /\ status \in Nat
    BY DEF TypeOK, Snapshot, OkStatus
  <2>3. c.op \in Writes /\ OkStatus(c.op) = Store!OkStatus(c)
    BY <1>1 DEF Phases, OkStatus, Store!OkStatus, Writes
  <2>4. ASSUME wrote[r] # 0
        PROVE  Store!Truthful(r, msg)
    <3>1. Acted[r] /\ Result[r] = found[r].rows
      BY <2>4 DEF Acted, Result
    <3>2. msg = Store!Msg(Store!OkStatus(c), Result[r])
      BY <2>3, <3>1 DEF Store!Msg
    <3> QED
      BY <3>1, <3>2 DEF Store!Truthful
  <2>5. ASSUME wrote[r] = 0
        PROVE  Store!Truthful(r, msg)
    <3>1. PICK m \in window[r] : c.op = "delete" /\ found[r].rows = {} /\ ~Hits(m.t, c.user, c.id)
      BY <1>1, <2>5 DEF InvalidatorsWrote
    <3>2. msg = Store!Msg(204, {}) /\ ~Store!Found(m.t, c) /\ ~Acted[r]
      BY <2>5, <3>1, SameRows DEF Store!Msg, OkStatus, Acted
    <3> QED
      BY <3>1, <3>2 DEF Store!Truthful
  <2>6. Store!Truthful(r, msg)
    BY <2>4, <2>5
  <2>7. Store!Tell({r})
    BY <1>1, <2>1, <2>2, <2>6, ReplySim
  <2> QED
    BY <2>7
<1> QED
  BY <1>2, <1>3 DEF Invalidate

-----------------------------------------------------------------------------
(***************************************************************************)
(* The implementation.                                                      *)
(***************************************************************************)

\* At the start the table is the store's, and every list in the cache is of
\* that moment.
LEMMA StartSim ==
  ASSUME HInit, TypeOK, Phases, Untouched
  PROVE  HInv /\ Store!Init
<1> USE DEF HInit, Init
<1>1. Moment \in Moments
  BY DEF Moment, Moments, TypeOK
<1>2. MomentsType /\ PresentSeen
  BY <1>1 DEF MomentsType, PresentSeen
<1>3. Ends /\ WritersPast
  BY DEF Ends, WritersPast
<1>4. CachePast
  <2> SUFFICES ASSUME NEW k \in Key, cache[k] # Nil
               PROVE  cache[k].rows = Rows(Moment.t, Moment.n, k.view, k.user, k.q)
    BY DEF CachePast
  <2>1. k \in WarmKeys
    OBVIOUS
  <2> QED
    BY <2>1 DEF Moment
<1>5. FillPast /\ PatchPast /\ InvalidatorsWrote
  BY DEF FillPast, PatchPast, InvalidatorsWrote, InvalidatePc
<1>9. Unsettled = {}
  BY DEF Unsettled
<1>6. Acted = [r \in Request |-> FALSE] /\ Result = [r \in Request |-> {}]
  BY DEF Acted, Result
<1>7. Told = [r \in Request |-> Nil]
  BY DEF Told
<1>8. Store!Init
  BY <1>6, <1>7, <1>9 DEF Store!Init, Store!Moment, Moment
<1> QED
  BY <1>2, <1>3, <1>4, <1>5, <1>8 DEF HInv, HistoryInv, PastInv

\* Every step of the service is a step of the store or none.
LEMMA StepSim ==
  ASSUME HInv, [HNext]_<<vars, historyOfTable>>
  PROVE  [Store!Next]_Store!vars
<1>1. CASE UNCHANGED <<vars, historyOfTable>>
  BY <1>1 DEF vars, historyOfTable, serverVars, historyVars, Store!vars, Acted, Result, Told, Unsettled
<1>2. CASE HNext
  <2>1. Store!Remember
    BY <1>2, RememberSim DEF HInv
  <2>2. ASSUME NEW r \in Request, Receive(r)
        PROVE  Store!Next
    BY <2>1, <2>2, ReceiveSim DEF Store!Next
  <2>3. ASSUME \/ \E S \in SUBSET Request : Store!Tell(S)
               \/ \E x \in Request : Store!Act(x)
        PROVE  Store!Next
    BY <2>1, <2>3 DEF Store!Next
  <2>4. ASSUME NEW r \in Request, Fill(r) \/ QueryFails(r) \/ CacheSetFails(r)
        PROVE  [Store!Next]_Store!vars
    BY <1>2, <2>3, <2>4, FillSim
  <2>5. ASSUME NEW r \in Request, Statement(r) \/ ReadFails(r) \/ ReplyLost(r)
        PROVE  [Store!Next]_Store!vars
    BY <1>2, <2>3, <2>5, StatementSim
  <2>6. ASSUME NEW r \in Request, Invalidate(r) \/ InvalidateFails(r)
        PROVE  [Store!Next]_Store!vars
    BY <1>2, <2>3, <2>6, InvalidateSim
  <2>7. CASE Crash \/ Idle \/ \E k \in Key : Expire(k)
    <3>1. UNCHANGED <<todos, now, call, answer, wrote, found>>
      BY <2>7 DEF Crash, Idle, Expire, vars, serverVars, historyVars
    <3>2. inflight' \in {inflight, inflight \cup {r \in Request : pc[r] \in WritePc}}
      BY <2>7 DEF Crash, Idle, Expire, vars, serverVars
    <3>3. \A r \in Request : pc[r] \in WritePc => answer[r] = Nil
      BY DEF HInv, HistoryInv, Ends, WritePc
    <3>4. Unsettled' = Unsettled
      BY <3>1, <3>2, <3>3 DEF Unsettled
    <3> QED
      BY <1>2, <3>1, <3>4, Stutter DEF HInv
  <2>8. CASE Tick
    <3>1. now' = now + 1 /\ UNCHANGED <<todos, call, answer, wrote, found, inflight>>
      BY <2>8 DEF Tick, serverVars, historyVars
    <3>2. Acted' = Acted /\ Result' = Result /\ Told' = Told /\ Unsettled' = Unsettled
      BY <3>1 DEF Acted, Result, Told, Unsettled
    <3> QED
      BY <2>1, <3>1, <3>2 DEF Store!Next, Store!Tick
  <2>9. ASSUME NEW r \in Request, LateCommit(r)
        PROVE  Store!Next
    <3>1. Running(r) /\ Execute(r) /\ r \in inflight /\ inflight' = inflight \ {r}
      BY <2>9 DEF LateCommit, Running
    <3> QED
      BY <2>3, <3>1, ActSim
  <2> QED
    BY <1>2, <2>2, <2>4, <2>5, <2>6, <2>7, <2>8, <2>9 DEF HNext, Next, Fail
<1> QED
  BY <1>1, <1>2

\* HSpec is TodoService with history: whatever holds of one holds of the other.
LEMMA HistoryIsHarmless == HSpec => Spec
<1>1. HInit => Init
  BY DEF HInit
<1>2. [HNext]_<<vars, historyOfTable>> => [Next]_vars
  BY DEF HNext
<1> QED
  BY <1>1, <1>2, PTL DEF HSpec, Spec

\* For any users, calls, tables, faults and interleavings, the service behaves
\* as one table on which every write takes effect at most once, not before its
\* call and as its answer says: a success only after the effect, none ever after
\* a 404 or an idle 204; an error leaves open whether the effect has come, comes
\* later or never does.  Every list is a state the table was in.
THEOREM ServiceImplementsStore == HSpec => ImplementsStore
<1> DEFINE Basic == TypeOK /\ Phases /\ Untouched
           Inv == HistoryInv /\ PastInv
<1>1. HInit /\ Basic => Inv /\ Store!Init
  BY StartSim DEF HInv
<1>2. Basic /\ Basic' /\ Inv /\ [HNext]_<<vars, historyOfTable>> => Inv'
  <2> SUFFICES ASSUME Basic, Basic', Inv, [HNext]_<<vars, historyOfTable>>
               PROVE  Inv'
    OBVIOUS
  <2>1. CASE HNext
    BY <2>1, HistoryStep, PastStep
  <2>2. CASE UNCHANGED <<vars, historyOfTable>>
    BY <2>2 DEF vars, historyOfTable, serverVars, historyVars, HistoryInv, MomentsType, PresentSeen, Ends,
       WritersPast, PastInv, CachePast, FillPast, PatchPast, InvalidatorsWrote, Moment
  <2> QED
    BY <2>1, <2>2
<1>3. Basic /\ Inv /\ [HNext]_<<vars, historyOfTable>> => [Store!Next]_Store!vars
  BY StepSim DEF HInv
<1>4. HSpec => []Basic
  BY HistoryIsHarmless, BasicsCorrect, PTL
<1> QED
  BY <1>1, <1>2, <1>3, <1>4, PTL DEF HSpec, ImplementsStore, Store!Spec
=============================================================================

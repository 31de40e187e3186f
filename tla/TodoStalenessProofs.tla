------------------------- MODULE TodoStalenessProofs -------------------------
(***************************************************************************)
(* How old what TodoService answers may be: a stale cache entry has one of   *)
(* the three causes StaleEntryExplained names, an empty list is never older  *)
(* than its flight, and a list misses a write that was over when its flight  *)
(* began only if a fill overtaken by that write put it into the cache.       *)
(***************************************************************************)
EXTENDS TodoIsolationProofs

\* A snapshot of k that no write of the user and no tick has overtaken is what
\* the database would answer from table t, with versions v, at time n.
Faithful(s, k, t, v, n) ==
  /\ s.asOf <= v[k.user] /\ s.at <= n
  /\ s.asOf = v[k.user] /\ (k.view = "overdue" => s.at = n) => s.rows = Rows(t, n, k.view, k.user, k.q)

\* An entry is faithful, and every write since it was stored is excused for not
\* having removed it.
EntryExplained(k) ==
  /\ Faithful(cache[k], k, todos, ver, now)
  /\ cache[k].asOf <= cache[k].stored /\ cache[k].stored <= ver[k.user]
  /\ \A w \in (cache[k].stored + 1)..ver[k.user] : Excused(w, k)

Staleness ==
  /\ \A k \in Key : cache[k] # Nil => EntryExplained(k)
  /\ \A r \in Request : pc[r] = "cacheSet" => Faithful(found[r], KeyOf(call[r]), todos, ver, now)

\* Keys name users.
LEMMA KeyUser ==
  ASSUME NEW k \in Key
  PROVE  k.user \in Users /\ k.view \in Views
BY DEF Key, Views

\* A statement of one user changes no answer another user could get.
LEMMA OtherUsersRows ==
  ASSUME TypeOK, Phases, NEW r \in Request, Running(r), Effective(r),
         NEW n, NEW view, NEW u, NEW q, u # call[r].user
  PROVE  Rows(Written(r), n, view, u, q) = Rows(todos, n, view, u, q)
<1>1. \A i : Hits(Written(r), u, i) <=> Hits(todos, u, i)
  BY WrittenRows DEF Hits
<1>2. \A i : Hits(todos, u, i) => Written(r)[i] = todos[i]
  BY WrittenRows DEF Hits
<1>3. \A i : i \in DOMAIN todos /\ Hits(todos, u, i) /\ Selects(view, q, todos[i], n)
             <=> i \in DOMAIN Written(r) /\ Hits(Written(r), u, i) /\ Selects(view, q, Written(r)[i], n)
  BY <1>1, <1>2 DEF Hits
<1> QED
  BY <1>2, <1>3 DEF Rows

\* Only the overdue view depends on the clock.
LEMMA TimelessRows ==
  ASSUME NEW t, NEW n, NEW m, NEW view, view # "overdue", NEW u, NEW q
  PROVE  Rows(t, n, view, u, q) = Rows(t, m, view, u, q)
<1>1. \A i \in DOMAIN t : Selects(view, q, t[i], n) <=> Selects(view, q, t[i], m)
  BY DEF Selects
<1> QED
  BY <1>1 DEF Rows

\* A step either leaves table and versions alone, or is a statement, which takes
\* the next version of its user and leaves the clock alone.
LEMMA VersionStep ==
  ASSUME Basics, [Next]_vars
  PROVE  \/ UNCHANGED <<todos, ver>>
         \/ \E r \in Request :
              /\ Running(r) /\ Effective(r) /\ todos' = Written(r) /\ now' = now
              /\ call[r].user \in Users /\ call[r] # Nil
              /\ ver' = [ver EXCEPT ![call[r].user] = @ + 1]
              /\ Execute(r)
<1> QED
  BY RunningCalls, OnlyStatementsWrite DEF Basics, Execute

\* A faithful snapshot stays faithful: what overtakes it also outdates it.
LEMMA FaithfulStep ==
  ASSUME Basics, [Next]_vars, NEW s, s.asOf \in Nat, s.at \in Nat, NEW k \in Key,
         Faithful(s, k, todos, ver, now)
  PROVE  Faithful(s, k, todos', ver', now')
<1>n. now \in Nat /\ now' \in Nat /\ now <= now' /\ ver \in [Users -> Nat] /\ k.user \in Users
  BY ClockAdvances, KeyUser DEF Basics, TypeOK
<1>1. CASE UNCHANGED <<todos, ver>>
  <2>1. CASE k.view = "overdue"
    BY <1>n, <1>1, <2>1 DEF Faithful
  <2>2. CASE k.view # "overdue"
    BY <1>n, <1>1, <2>2, TimelessRows DEF Faithful
  <2> QED
    BY <2>1, <2>2
<1>2. ASSUME NEW r \in Request, Running(r), Effective(r), todos' = Written(r), now' = now,
             call[r].user \in Users, ver' = [ver EXCEPT ![call[r].user] = @ + 1]
      PROVE  Faithful(s, k, todos', ver', now')
  <2>1. CASE k.user = call[r].user
    BY <1>n, <1>2, <2>1 DEF Faithful
  <2>2. CASE k.user # call[r].user
    BY <1>n, <1>2, <2>2, OtherUsersRows DEF Faithful, Basics
  <2> QED
    BY <2>1, <2>2
<1> QED
  BY <1>1, <1>2, VersionStep

\* What is given up: the invalidation of a write, all those a crash cuts short,
\* or that of a write that commits only now.
LEMMA AbandonedStep ==
  ASSUME Basics, [Next]_vars, NEW u \in Users
  PROVE  \/ abandoned'[u] = abandoned[u]
         \/ abandoned'[u] = abandoned[u] \cup {ver[u] + 1}
         \/ \E r \in Request : /\ pc[r] \in InvalidatePc /\ call[r].user = u
                               /\ abandoned'[u] = abandoned[u] \cup {wrote[r]}
         \/ abandoned'[u] = abandoned[u] \cup
              {wrote[r] : r \in {x \in Request : pc[x] \in InvalidatePc /\ call[x].user = u}}
<1> USE DEF Basics
<1>1. ASSUME NEW r \in Request, Receive(r)
      PROVE  abandoned' = abandoned
  BY <1>1, ArrivalStep
<1>2. ASSUME NEW r \in Request, Fill(r) \/ QueryFails(r) \/ CacheSetFails(r)
      PROVE  abandoned' = abandoned
  BY <1>2 DEF Fill, CacheHit, CacheMiss, QueryRows, QueryFails, CacheSet, CacheSetFails, EndFlight, historyVars
<1>3. ASSUME NEW r \in Request, Statement(r) \/ ReadFails(r) \/ ReplyLost(r)
      PROVE  abandoned' = abandoned
  BY <1>3 DEF Statement, GetByID, ReadForUpdate, InsertTodo, UpdateTodo, CompleteTodo, DeleteTodo, GiveUp,
     ReadFails, ReplyLost, Commit, NotFound, historyVars
<1>4. ASSUME NEW r \in Request, LateCommit(r)
      PROVE  abandoned'[u] \in {abandoned[u], abandoned[u] \cup {ver[u] + 1}}
  BY <1>4 DEF LateCommit, TypeOK
<1>5. ASSUME NEW r \in Request, Invalidate(r)
      PROVE  abandoned' = abandoned
  BY <1>5 DEF Invalidate, DelKeys, ScanStart, DelSearchKey, ScanEnd, historyVars
<1>6. ASSUME NEW r \in Request, InvalidateFails(r)
      PROVE  \/ abandoned'[u] = abandoned[u]
             \/ pc[r] \in InvalidatePc /\ call[r].user = u /\ abandoned'[u] = abandoned[u] \cup {wrote[r]}
  BY <1>6 DEF InvalidateFails, TypeOK
<1>7. CASE Crash
  BY <1>7 DEF Crash
<1>8. ASSUME Tick \/ (\E k \in Key : Expire(k)) \/ UNCHANGED vars
      PROVE  abandoned' = abandoned
  BY <1>8 DEF Tick, Expire, vars, historyVars
<1> QED
  BY <1>1, <1>2, <1>3, <1>4, <1>5, <1>6, <1>7, <1>8 DEF Next, Fail, Idle

\* What was given up stays given up.
LEMMA AbandonedGrows ==
  ASSUME Basics, [Next]_vars, NEW u \in Users
  PROVE  abandoned[u] \subseteq abandoned'[u]
BY AbandonedStep

\* An excuse holds until the key is gone: InvalidateAll goes on past a key only
\* by deleting it or by giving up.
LEMMA ExcuseStep ==
  ASSUME Basics, [Next]_vars, NEW k \in Key, cache[k] # Nil, cache'[k] = cache[k],
         NEW w \in Nat, Excused(w, k)
  PROVE  Excused(w, k)'
<1> USE DEF Basics
<1>u. k.user \in Users
  BY KeyUser
<1>a. ASSUME w \in abandoned[k.user]
      PROVE  w \in abandoned'[k.user]
  BY <1>u, <1>a, AbandonedGrows
<1>1. CASE w \in abandoned[k.user]
  BY <1>1, <1>a DEF Excused
<1>2. ASSUME NEW x \in Request, call[x] # Nil, call[x].user = k.user, wrote[x] = w, Clears(x, k)
      PROVE  Excused(w, k)'
  <2>0. pc[x] \in InvalidatePc
    BY <1>2 DEF Clears, InvalidatePc
  <2>k. ASSUME pc'[x] = pc[x], call'[x] = call[x], wrote'[x] = wrote[x], k \in scan[x] => k \in scan'[x]
        PROVE  Excused(w, k)'
    BY <1>2, <2>k DEF Excused, Clears
  <2>1. ASSUME NEW r \in Request, Receive(r)
        PROVE  Excused(w, k)'
    BY <2>0, <2>1, <2>k, ArrivalStep DEF InvalidatePc
  <2>2. ASSUME NEW r \in Request, Fill(r) \/ QueryFails(r) \/ CacheSetFails(r)
        PROVE  Excused(w, k)'
    <3>1. pc'[x] = pc[x] /\ UNCHANGED <<call, wrote, scan>>
      BY <2>0, <2>2 DEF Fill, CacheHit, CacheMiss, QueryRows, QueryFails, CacheSet, CacheSetFails, EndFlight, Land,
         Aboard, Goto, InvalidatePc, TypeOK, historyVars
    <3> QED
      BY <2>k, <3>1
  <2>3. ASSUME NEW r \in Request, Statement(r) \/ ReadFails(r) \/ ReplyLost(r)
        PROVE  Excused(w, k)'
    <3>1. pc'[x] = pc[x] /\ wrote'[x] = wrote[x] /\ UNCHANGED <<call, scan>>
      BY <2>0, <2>3 DEF Statement, GetByID, ReadForUpdate, InsertTodo, UpdateTodo, CompleteTodo, DeleteTodo, GiveUp,
         ReadFails, ReplyLost, Commit, NotFound, Execute, Reply, Goto, InvalidatePc, WritePc, TypeOK, historyVars
    <3> QED
      BY <2>k, <3>1
  <2>12. ASSUME NEW r \in Request, LateCommit(r)
         PROVE  Excused(w, k)'
    <3>1. x # r
      BY <2>0, <2>12 DEF LateCommit, Phases, InvalidatePc
    <3> QED
      BY <2>12, <2>k, <3>1 DEF LateCommit, Execute, TypeOK
  <2>4. ASSUME NEW r \in Request, r # x, DelKeys(r) \/ ScanStart(r) \/ ScanEnd(r) \/ InvalidateFails(r)
        PROVE  Excused(w, k)'
    <3>1. pc'[x] = pc[x] /\ wrote' = wrote /\ call' = call /\ scan'[x] = scan[x]
      BY <2>4 DEF InvalidateFails, DelKeys, ScanStart, ScanEnd, Succeed, Reply, Goto, TypeOK, historyVars
    <3> QED
      BY <2>k, <3>1
  <2>5. CASE DelKeys(x)
    <3>1. k.view = "search"
      BY <1>2, <2>5, KeyUser DEF DelKeys, Views
    <3>2. pc'[x] = "scanStart" /\ UNCHANGED <<call, wrote>>
      BY <2>5 DEF DelKeys, Goto, TypeOK, historyVars
    <3> QED
      BY <1>2, <3>1, <3>2 DEF Excused, Clears
  <2>6. CASE ScanStart(x)
    <3>1. k \in Matching(call[x].user)
      BY <1>2, <2>6 DEF ScanStart, Clears, Matching, IsPrefix
    <3>2. k \in scan'[x] /\ pc'[x] = "scanDel" /\ UNCHANGED <<call, wrote>>
      BY <2>6, <3>1 DEF ScanStart, Goto, TypeOK, historyVars
    <3> QED
      BY <1>2, <3>2 DEF Excused, Clears
  <2>7. ASSUME NEW k2 \in Key, NEW r \in Request, DelSearchKey(r, k2) \/ Expire(k2)
        PROVE  Excused(w, k)'
    <3>1. k # k2
      BY <2>7 DEF DelSearchKey, Expire, TypeOK
    <3>2. UNCHANGED <<pc, call, wrote>> /\ scan'[x] = scan[x] \ {k2}
      BY <2>7 DEF DelSearchKey, Expire, Forget, TypeOK, historyVars
    <3> QED
      BY <2>k, <3>1, <3>2
  <2>8. CASE ScanEnd(x)
    BY <1>2, <2>8 DEF ScanEnd, Clears
  <2>9. CASE InvalidateFails(x)
    <3>1. abandoned' = [abandoned EXCEPT ![k.user] = @ \cup {w}]
      BY <1>2, <2>9 DEF InvalidateFails
    <3> QED
      BY <1>u, <3>1 DEF Excused, TypeOK
  <2>10. CASE Crash
    <3>1. abandoned'[k.user] = abandoned[k.user] \cup
            {wrote[r] : r \in {y \in Request : pc[y] \in InvalidatePc /\ call[y].user = k.user}}
      BY <1>u, <2>10 DEF Crash
    <3>2. w \in abandoned'[k.user]
      BY <1>2, <2>0, <3>1
    <3> QED
      BY <3>2 DEF Excused
  <2>11. CASE Tick \/ UNCHANGED vars
    <3>1. UNCHANGED <<pc, call, wrote, scan>>
      BY <2>11 DEF Tick, vars, serverVars, historyVars
    <3> QED
      BY <2>k, <3>1
  <2> QED
    BY <2>1, <2>2, <2>3, <2>4, <2>5, <2>6, <2>7, <2>8, <2>9, <2>10, <2>11, <2>12 DEF Next, Invalidate, Fail, Idle
<1> QED
  BY <1>1, <1>2 DEF Excused

\* A new write is excused at once: it goes on to InvalidateAll, or nobody waits
\* for it and it is given up.
LEMMA NewWriteExcused ==
  ASSUME Basics, [Next]_vars, NEW k \in Key, NEW r \in Request, Running(r), Execute(r),
         call[r].user = k.user, NEW w, w = ver[k.user] + 1
  PROVE  Excused(w, k)'
<1> USE DEF Basics
<1>0. k.user \in Users /\ ver' # ver /\ call' = call /\ call[r] # Nil /\ wrote'[r] = w /\ wrote'[r] # wrote[r]
  <2>1. k.user \in Users /\ ver[k.user] \in Nat /\ wrote[r] = 0 /\ call[r] # Nil
    BY KeyUser, RunningCalls DEF TypeOK, Untouched
  <2> QED
    BY <2>1 DEF Execute, TypeOK
<1>1. ASSUME pc'[r] = "delKeys"
      PROVE  Excused(w, k)'
  BY <1>0, <1>1 DEF Excused, Clears
<1>2. ASSUME NEW x \in Request, Commit(x)
      PROVE  pc'[r] = "delKeys"
  <2>1. x = r
    BY <1>0, <1>2 DEF Commit, Execute, TypeOK
  <2> QED
    BY <1>2, <2>1 DEF Commit, Goto, TypeOK
<1>3. ASSUME NEW x \in Request, LateCommit(x)
      PROVE  Excused(w, k)'
  <2>1. x = r
    BY <1>0, <1>3 DEF LateCommit, Execute, TypeOK
  <2>2. w \in abandoned'[k.user]
    BY <1>0, <1>3, <2>1 DEF LateCommit, TypeOK
  <2> QED
    BY <2>2 DEF Excused
<1>4. ASSUME NEW x \in Request, Statement(x)
      PROVE  Commit(x) \/ ver' = ver
  BY <1>4 DEF Statement, GetByID, ReadForUpdate, InsertTodo, UpdateTodo, CompleteTodo, DeleteTodo, GiveUp, NotFound,
     historyVars
<1>5. ASSUME NEW x \in Request, Receive(x) \/ ReadFails(x) \/ ReplyLost(x) \/ Fill(x) \/ QueryFails(x)
                                \/ CacheSetFails(x) \/ Invalidate(x) \/ InvalidateFails(x)
      PROVE  ver' = ver
  BY <1>5, ArrivalStep DEF ReadFails, ReplyLost, Fill, CacheHit, CacheMiss, QueryRows, QueryFails, CacheSet,
     CacheSetFails, EndFlight, Invalidate, InvalidateFails, DelKeys, ScanStart, DelSearchKey, ScanEnd, historyVars
<1>6. ASSUME Crash \/ Tick \/ (\E y \in Key : Expire(y)) \/ UNCHANGED vars
      PROVE  ver' = ver
  BY <1>6 DEF Crash, Tick, Expire, vars, historyVars
<1> QED
  BY <1>0, <1>1, <1>2, <1>3, <1>4, <1>5, <1>6 DEF Next, Fail, Idle

\* A fill comes to store rows by reading them from the database.
LEMMA OnlyQueriesSet ==
  ASSUME Basics, [Next]_vars, NEW x \in Request, pc'[x] = "cacheSet"
  PROVE  \/ pc[x] = "cacheSet" /\ found'[x] = found[x] /\ call'[x] = call[x]
         \/ QueryRows(x)
<1>1. ASSUME CacheHit(x)
      PROVE  pc'[x] # "cacheSet"
  BY <1>1 DEF CacheHit, Goto, Basics, TypeOK
<1> QED
  BY <1>1, OnlyReadsFill DEF Basics

\* The three causes of stale entries, and the faithfulness of what is read, are
\* kept by every step: one step for entries that stay, one for the entry a fill
\* stores, one for the rows a fill carries.
LEMMA StalenessStep ==
  ASSUME Basics, Staleness, [Next]_vars
  PROVE  Staleness'
<1> USE DEF Basics
<1>1. ASSUME NEW k \in Key, cache'[k] # Nil, cache'[k] = cache[k]
      PROVE  EntryExplained(k)'
  <2>1. /\ cache[k].asOf \in Nat /\ cache[k].at \in Nat /\ cache[k].stored \in Nat
        /\ k.user \in Users /\ ver[k.user] \in Nat /\ EntryExplained(k)
    BY <1>1, KeyUser DEF TypeOK, Snapshot, Staleness
  <2>2. Faithful(cache[k], k, todos', ver', now')
    BY <2>1, FaithfulStep DEF EntryExplained
  <2>3. \A w \in (cache[k].stored + 1)..ver[k.user] : Excused(w, k)'
    <3>1. ASSUME NEW w \in (cache[k].stored + 1)..ver[k.user]
          PROVE  Excused(w, k)'
      BY <1>1, <2>1, ExcuseStep DEF EntryExplained
    <3> QED
      BY <3>1
  <2>4. CASE ver'[k.user] = ver[k.user]
    BY <1>1, <2>1, <2>2, <2>3, <2>4 DEF EntryExplained
  <2>5. CASE ver'[k.user] # ver[k.user]
    <3>1. ver'[k.user] = ver[k.user] + 1 /\ \A w : w = ver[k.user] + 1 => Excused(w, k)'
      <4>1. PICK r \in Request : /\ Running(r) /\ Execute(r)
                                /\ ver' = [ver EXCEPT ![call[r].user] = @ + 1]
        BY <2>5, VersionStep
      <4>2. call[r].user = k.user
        BY <2>1, <2>5, <4>1 DEF TypeOK
      <4> QED
        BY <2>1, <4>1, <4>2, NewWriteExcused DEF TypeOK
    <3>2. ASSUME NEW w \in (cache[k].stored + 1)..ver'[k.user]
          PROVE  Excused(w, k)'
      <4>1. w \in (cache[k].stored + 1)..ver[k.user] \/ w = ver[k.user] + 1
        BY <2>1, <3>1
      <4> QED
        BY <2>3, <3>1, <4>1
    <3> QED
      BY <1>1, <2>1, <2>2, <3>1, <3>2 DEF EntryExplained
  <2> QED
    BY <2>4, <2>5
<1>2. ASSUME NEW k \in Key, cache'[k] # Nil, cache'[k] # cache[k]
      PROVE  EntryExplained(k)'
  <2>1. PICK r \in Request : /\ pc[r] = "cacheSet" /\ k = KeyOf(call[r])
                            /\ cache'[k] = [found[r] EXCEPT !.stored = ver[k.user]]
                            /\ UNCHANGED <<todos, now, ver>>
    BY <1>2, OnlyFillsCache
  <2>2. Faithful(found[r], k, todos, ver, now) /\ ver[k.user] \in Nat
    BY <2>1, KeyUser DEF Staleness, TypeOK
  <2>e. /\ cache'[k].rows = found[r].rows /\ cache'[k].asOf = found[r].asOf /\ cache'[k].at = found[r].at
        /\ cache'[k].stored = ver[k.user]
    <3>1. found[r] \in Snapshot
      BY DEF TypeOK
    <3> QED
      BY <2>1, <3>1 DEF Snapshot
  <2>3. Faithful(cache'[k], k, todos', ver', now')
    BY <2>1, <2>2, <2>e DEF Faithful
  <2>4. cache'[k].asOf <= cache'[k].stored /\ cache'[k].stored = ver'[k.user]
    BY <2>1, <2>2, <2>e DEF Faithful
  <2>5. (cache'[k].stored + 1)..ver'[k.user] = {} /\ cache'[k].stored <= ver'[k.user]
    BY <2>1, <2>2, <2>4
  <2> QED
    BY <2>3, <2>4, <2>5 DEF EntryExplained
<1>3. ASSUME NEW x \in Request, pc'[x] = "cacheSet"
      PROVE  Faithful(found'[x], KeyOf(call'[x]), todos', ver', now')
  <2>1. CASE pc[x] = "cacheSet" /\ found'[x] = found[x] /\ call'[x] = call[x]
    <3>1. KeyOf(call[x]) \in Key /\ found[x].asOf \in Nat /\ found[x].at \in Nat
      BY <2>1, KeyOfType DEF TypeOK, Phases, FillPc, Snapshot
    <3> QED
      BY <2>1, <3>1, FaithfulStep DEF Staleness
  <2>2. CASE QueryRows(x)
    <3>1. /\ call[x] \in Calls /\ call[x].op \in Views /\ KeyOf(call[x]).user = call[x].user
          /\ call[x].user \in Users
      BY <2>2, ServiceAssumption DEF QueryRows, FillPc, TypeOK, Phases, KeyOf, Call
    <3>2. /\ UNCHANGED <<todos, ver, now, call>>
          /\ found'[x] = [rows |-> Rows(todos, now, call[x].op, call[x].user, call[x].q),
                          asOf |-> ver[call[x].user], at |-> now, stored |-> ver[call[x].user]]
      BY <2>2 DEF QueryRows, historyVars, TypeOK
    <3>3. now \in Nat /\ ver[call[x].user] \in Nat /\ todos \in Seq(Row)
      BY <3>1 DEF TypeOK
    <3>4. found'[x].rows = Rows(todos, now, KeyOf(call[x]).view, KeyOf(call[x]).user, KeyOf(call[x]).q)
      BY <3>1, <3>2, <3>3, QueryFitsKey
    <3> QED
      BY <3>1, <3>2, <3>3, <3>4 DEF Faithful
  <2> QED
    BY <1>3, <2>1, <2>2, OnlyQueriesSet
<1> QED
  BY <1>1, <1>2, <1>3 DEF Staleness

\* The causes of staleness are kept in every reachable state.
LEMMA StalenessKept == Spec => []Staleness
<1>1. Init => Staleness
  <2> SUFFICES ASSUME Init PROVE Staleness
    OBVIOUS
  <2>1. ASSUME NEW k \in Key, cache[k] # Nil
        PROVE  EntryExplained(k)
    <3>1. /\ cache[k] = [rows |-> Rows(InitialTodos, 0, k.view, k.user, k.q), asOf |-> 0, at |-> 0, stored |-> 0]
          /\ todos = InitialTodos /\ now = 0 /\ ver[k.user] = 0
      BY <2>1, KeyUser DEF Init
    <3> QED
      BY <3>1 DEF EntryExplained, Faithful
  <2> QED
    BY <2>1 DEF Init, Staleness
<1>2. Basics /\ Staleness /\ [Next]_vars => Staleness'
  BY StalenessStep
<1>3. Spec => []Basics
  BY BasicsCorrect DEF Basics
<1> QED
  BY <1>1, <1>2, <1>3, PTL DEF Spec

\* For any users, requests, calls and faults: every stale entry of the cache has
\* one of the three causes, and in particular no InvalidateAll that runs to its
\* end leaves behind a list its write has changed and that was there before it.
THEOREM StaleEntriesExplained == Spec => []StaleEntryExplained
<1>1. Basics /\ Staleness => StaleEntryExplained
  <2> SUFFICES ASSUME Basics, Staleness, NEW k \in Key, cache[k] # Nil, cache[k].rows # Current(k),
                      ~(cache[k].asOf < cache[k].stored), ~(k.view = "overdue" /\ cache[k].at < now)
               PROVE  /\ cache[k].stored < ver[k.user]
                      /\ \A w \in (cache[k].stored + 1)..ver[k.user] : Excused(w, k)
    BY DEF StaleEntryExplained
  <2>1. EntryExplained(k) /\ cache[k].asOf \in Nat /\ cache[k].at \in Nat /\ cache[k].stored \in Nat
        /\ ver[k.user] \in Nat /\ now \in Nat
    BY KeyUser DEF Staleness, Basics, TypeOK, Snapshot
  <2> QED
    BY <2>1 DEF EntryExplained, Faithful, Current
<1>2. Spec => []Basics
  BY BasicsCorrect DEF Basics
<1> QED
  BY <1>1, <1>2, StalenessKept, PTL

-----------------------------------------------------------------------------
(***************************************************************************)
(* What the answer of a flight counts.                                      *)
(***************************************************************************)

\* Write w of user u is over: its invalidation is complete.
Over(w, u) ==
  /\ w \in 1..ver[u] /\ w \notin abandoned[u]
  /\ \A x \in Request : call[x] # Nil /\ call[x].user = u /\ wrote[x] = w => pc[x] \notin InvalidatePc

\* A fill began no later than now, its rows from the database are no older than
\* it is, and it is as old as those who wait for it believe.
Ages ==
  /\ \A r \in Request : pc[r] \in FillPc => since[r] <= ver[call[r].user]
  /\ \A r \in Request : pc[r] = "cacheSet" \/ (pc[r] = "land" /\ found[r].rows = {}) => since[r] <= found[r].asOf
  /\ \A r, s \in Request :
       pc[r] = "wait" /\ pc[s] \in FillPc /\ KeyOf(call[r]) = KeyOf(call[s])
         => since[r] = since[s] /\ cleared[r] = cleared[s]

\* The writes a fill found over are over, and were so when what it has read was
\* read or put into the cache.
Counts ==
  /\ \A r \in Request : pc[r] \in FillPc => \A w \in cleared[r] : Over(w, call[r].user)
  /\ \A r \in Request : pc[r] \in {"cacheSet", "land"} => \A w \in cleared[r] : w <= found[r].stored

\* Versions only grow.
LEMMA VersionsGrow ==
  ASSUME TypeOK, Phases, [Next]_vars, NEW u \in Users
  PROVE  ver[u] \in Nat /\ ver'[u] \in Nat /\ ver[u] <= ver'[u]
<1>1. CASE ver' = ver
  BY <1>1 DEF TypeOK
<1>2. CASE ver' # ver
  <2>1. PICK r \in Request : Running(r) /\ Execute(r)
    BY <1>2, OnlyStatementsWrite
  <2>2. call[r].user \in Users
    BY <2>1, RunningCalls
  <2> QED
    BY <2>1, <2>2 DEF Execute, TypeOK
<1> QED
  BY <1>1, <1>2

\* A request that runs or awaits a fill has done so, or has just led or joined.
LEMMA OnlyFlightsFill ==
  ASSUME TypeOK, Phases, [Next]_vars, NEW x \in Request, pc'[x] \in FillPc \cup {"wait"}
  PROVE  \/ /\ pc[x] \in FillPc \cup {"wait"} /\ (pc'[x] = "wait" <=> pc[x] = "wait")
            /\ call'[x] = call[x] /\ since'[x] = since[x] /\ cleared'[x] = cleared[x]
         \/ \E c \in Calls : LeadFlight(x, c) \/ JoinFlight(x, c)
<1> DEFINE Kept == /\ pc[x] \in FillPc \cup {"wait"} /\ (pc'[x] = "wait" <=> pc[x] = "wait")
                   /\ call'[x] = call[x] /\ since'[x] = since[x] /\ cleared'[x] = cleared[x]
<1>1. ASSUME NEW r \in Request, NEW c \in Calls, Refuse(r, c) \/ StartCall(r, c)
      PROVE  Kept
  <2>1. CASE Refuse(r, c)
    BY <2>1 DEF Refuse, Arrive, Reply, Goto, FillPc, TypeOK, historyVars
  <2>2. CASE StartCall(r, c)
    <3>1. FirstPc(c.op) \notin FillPc \cup {"wait"}
      BY <2>2, ServiceAssumption DEF StartCall, FirstPc, FillPc, Call, Ops, Views
    <3> QED
      BY <2>2, <3>1 DEF StartCall, Arrive, Goto, TypeOK, historyVars
  <2> QED
    BY <1>1, <2>1, <2>2
<1>2. ASSUME NEW r \in Request, NEW c \in Calls, LeadFlight(r, c) \/ JoinFlight(r, c), r # x
      PROVE  Kept
  BY <1>2 DEF LeadFlight, JoinFlight, Arrive, Goto, TypeOK
<1>3. ASSUME NEW r \in Request, Fill(r) \/ QueryFails(r) \/ CacheSetFails(r)
      PROVE  Kept
  BY <1>3 DEF Fill, CacheHit, CacheMiss, QueryRows, QueryFails, CacheSet, CacheSetFails, EndFlight, Land, Goto,
     FillPc, TypeOK, historyVars
<1>4. ASSUME NEW r \in Request, Statement(r) \/ ReadFails(r) \/ ReplyLost(r) \/ LateCommit(r)
      PROVE  Kept
  BY <1>4 DEF Statement, GetByID, ReadForUpdate, InsertTodo, UpdateTodo, CompleteTodo, DeleteTodo, GiveUp,
     ReadFails, ReplyLost, LateCommit, Commit, NotFound, Execute, Reply, Goto, FillPc, TypeOK, historyVars
<1>5. ASSUME NEW r \in Request, Invalidate(r) \/ InvalidateFails(r)
      PROVE  Kept
  BY <1>5 DEF Invalidate, InvalidateFails, DelKeys, ScanStart, DelSearchKey, ScanEnd, Succeed, Reply, Goto,
     FillPc, TypeOK, historyVars
<1>6. ASSUME Crash \/ Tick \/ (\E k \in Key : Expire(k)) \/ UNCHANGED vars
      PROVE  Kept
  BY <1>6 DEF Crash, Tick, Expire, vars, TypeOK, serverVars, historyVars, FillPc
<1> QED
  BY <1>1, <1>2, <1>3, <1>4, <1>5, <1>6 DEF Next, Receive, Fail, Idle

\* The ages stay right: one step for each conjunct.
LEMMA AgesStep ==
  ASSUME Basics, Flights, Ages, [Next]_vars
  PROVE  Ages'
<1> USE DEF Basics
<1>t. /\ Nil \notin Request /\ "wait" \notin FillPc
      /\ \A x \in Request : pc[x] \in FillPc \cup {"wait"} =>
           call[x] \in Calls /\ call[x].user \in Users /\ KeyOf(call[x]) \in Key
  BY KeyOfType, ServiceAssumption DEF TypeOK, Phases, FillPc, Call
\* Who leads or joins has just arrived, and nobody else moves.
<1>l. ASSUME NEW x \in Request, NEW c \in Calls, LeadFlight(x, c)
      PROVE  /\ pc[x] = "new" /\ pc'[x] = "cacheGet" /\ call'[x] = c /\ since'[x] = ver[c.user] /\ ver' = ver
             /\ flight[KeyOf(c)] = Nil
             /\ \A y \in Request \ {x} : pc'[y] = pc[y] /\ call'[y] = call[y]
                                       /\ since'[y] = since[y] /\ cleared'[y] = cleared[y]
  BY <1>l, KeysAgree DEF LeadFlight, Arrive, Goto, FirstPc, Views, TypeOK
<1>j. ASSUME NEW x \in Request, NEW c \in Calls, JoinFlight(x, c)
      PROVE  /\ pc[x] = "new" /\ pc'[x] = "wait" /\ call'[x] = c
             /\ since'[x] = since[flight[KeyOf(c)]] /\ cleared'[x] = cleared[flight[KeyOf(c)]]
             /\ \A y \in Request \ {x} : pc'[y] = pc[y] /\ call'[y] = call[y]
                                       /\ since'[y] = since[y] /\ cleared'[y] = cleared[y]
  BY <1>j, KeysAgree DEF JoinFlight, Arrive, Goto, TypeOK
<1>1. ASSUME NEW x \in Request, pc'[x] \in FillPc
      PROVE  since'[x] <= ver'[call'[x].user]
  <2>1. CASE pc[x] \in FillPc /\ call'[x] = call[x] /\ since'[x] = since[x]
    <3>1. since[x] <= ver[call[x].user] /\ since[x] \in Nat
      BY <2>1 DEF Ages, TypeOK
    <3>2. ver[call[x].user] \in Nat /\ ver'[call[x].user] \in Nat /\ ver[call[x].user] <= ver'[call[x].user]
      BY <1>t, <2>1, VersionsGrow
    <3> QED
      BY <2>1, <3>1, <3>2
  <2>2. ASSUME NEW c \in Calls, LeadFlight(x, c)
        PROVE  since'[x] <= ver'[call'[x].user]
    <3>1. ver[c.user] \in Nat
      BY ServiceAssumption DEF TypeOK, Call
    <3> QED
      BY <1>l, <2>2, <3>1
  <2> QED
    BY <1>1, <1>t, <1>j, <2>1, <2>2, OnlyFlightsFill
<1>2. ASSUME NEW x \in Request, pc'[x] = "cacheSet" \/ (pc'[x] = "land" /\ found'[x].rows = {})
      PROVE  since'[x] <= found'[x].asOf
  <2>1. since'[x] = since[x] /\ pc[x] \in FillPc
    BY <1>2, <1>l, <1>j, OnlyFlightsFill DEF FillPc
  <2>2. CASE pc[x] \in {"cacheSet", "land"} /\ (pc'[x] = "cacheSet" => pc[x] = "cacheSet") /\ found'[x] = found[x]
    BY <1>2, <2>1, <2>2 DEF Ages
  <2>3. CASE QueryRows(x)
    <3>1. found'[x].asOf = ver[call[x].user]
      BY <2>3 DEF QueryRows, TypeOK
    <3> QED
      BY <2>1, <3>1 DEF Ages
  <2>4. CASE CacheHit(x)
    BY <1>2, <2>4 DEF CacheHit, Usable, Goto, TypeOK
  <2> QED
    BY <1>2, <2>2, <2>3, <2>4, OnlyReadsFill
<1>3. ASSUME NEW x \in Request, NEW s \in Request, pc'[x] = "wait", pc'[s] \in FillPc,
             KeyOf(call'[x]) = KeyOf(call'[s])
      PROVE  since'[x] = since'[s] /\ cleared'[x] = cleared'[s]
  <2>0. x # s
    BY <1>3, <1>t
  <2>1. CASE /\ pc[x] = "wait" /\ call'[x] = call[x] /\ since'[x] = since[x] /\ cleared'[x] = cleared[x]
             /\ pc[s] \in FillPc /\ call'[s] = call[s] /\ since'[s] = since[s] /\ cleared'[s] = cleared[s]
    BY <1>3, <2>1 DEF Ages
  <2>2. ASSUME NEW c \in Calls, JoinFlight(x, c)
        PROVE  since'[x] = since'[s] /\ cleared'[x] = cleared'[s]
    <3>1. pc[s] \in FillPc /\ call'[s] = call[s] /\ since'[s] = since[s] /\ cleared'[s] = cleared[s]
      BY <1>3, <2>0, <2>2, <1>j
    <3>2. flight[KeyOf(c)] = s
      BY <1>3, <2>2, <3>1, <1>j DEF Flights
    <3> QED
      BY <2>2, <3>1, <3>2, <1>j
  <2>3. ASSUME NEW c \in Calls, LeadFlight(s, c)
        PROVE  FALSE
    <3>1. pc[x] = "wait" /\ call'[x] = call[x]
      BY <1>3, <2>0, <2>3, <1>l
    <3>2. flight[KeyOf(c)] # Nil
      BY <1>3, <2>3, <3>1, <1>l DEF Flights
    <3> QED
      BY <2>3, <3>2, <1>l
  <2>4. ASSUME NEW c \in Calls, LeadFlight(x, c)
        PROVE  FALSE
    BY <1>3, <2>4, <1>l
  <2>5. ASSUME NEW c \in Calls, JoinFlight(s, c)
        PROVE  FALSE
    BY <1>3, <1>t, <2>5, <1>j
  <2> QED
    BY <1>3, <1>t, <2>1, <2>2, <2>3, <2>4, <2>5, OnlyFlightsFill
<1> QED
  BY <1>1, <1>2, <1>3 DEF Ages

\* The version a request wrote changes only by its statement.
LEMMA WroteStep ==
  ASSUME Basics, [Next]_vars, NEW x \in Request, wrote'[x] # wrote[x]
  PROVE  Running(x) /\ Execute(x)
<1> USE DEF Basics
<1>1. ASSUME NEW r \in Request, Receive(r)
      PROVE  wrote' = wrote
  BY <1>1, ArrivalStep
<1>2. ASSUME NEW r \in Request, Fill(r) \/ QueryFails(r) \/ CacheSetFails(r)
      PROVE  wrote' = wrote
  BY <1>2 DEF Fill, CacheHit, CacheMiss, QueryRows, QueryFails, CacheSet, CacheSetFails, EndFlight, historyVars
<1>3. ASSUME NEW r \in Request, Statement(r) \/ ReadFails(r) \/ ReplyLost(r) \/ LateCommit(r)
      PROVE  wrote' = wrote \/ (Running(r) /\ Execute(r))
  BY <1>3 DEF Statement, GetByID, ReadForUpdate, InsertTodo, UpdateTodo, CompleteTodo, DeleteTodo, GiveUp,
     ReadFails, ReplyLost, LateCommit, Commit, NotFound, Running, WritePc, historyVars
<1>4. ASSUME NEW r \in Request, Execute(r)
      PROVE  r = x
  BY <1>4 DEF Execute, TypeOK
<1>5. ASSUME NEW r \in Request, Invalidate(r) \/ InvalidateFails(r)
      PROVE  wrote' = wrote
  BY <1>5 DEF Invalidate, InvalidateFails, DelKeys, ScanStart, DelSearchKey, ScanEnd, historyVars
<1>6. ASSUME Crash \/ Tick \/ (\E k \in Key : Expire(k)) \/ UNCHANGED vars
      PROVE  wrote' = wrote
  BY <1>6 DEF Crash, Tick, Expire, vars, historyVars
<1> QED
  BY <1>1, <1>2, <1>3, <1>4, <1>5, <1>6 DEF Next, Fail, Idle

\* What is over stays over: nobody else writes that version, and InvalidateAll
\* is not entered again.
LEMMA OverStep ==
  ASSUME Basics, [Next]_vars, NEW u \in Users, NEW w, Over(w, u)
  PROVE  Over(w, u)'
<1> USE DEF Basics
<1>0. /\ ver[u] \in Nat /\ ver'[u] \in Nat /\ ver[u] <= ver'[u] /\ w \in 1..ver[u] /\ w \in Nat /\ w # 0
      /\ w # ver[u] + 1 /\ w \notin abandoned[u]
      /\ \A x \in Request : call[x] # Nil /\ call[x].user = u /\ wrote[x] = w => pc[x] \notin InvalidatePc
  BY VersionsGrow DEF Over, TypeOK
<1>v. w \in 1..ver'[u]
  BY <1>0
<1>1. ASSUME NEW x \in Request, pc'[x] \in InvalidatePc, call'[x].user = u, wrote'[x] = w
      PROVE  FALSE
  <2>1. CASE pc[x] \in InvalidatePc /\ call'[x] = call[x]
    <3>1. wrote'[x] = wrote[x]
      BY <2>1, WroteStep DEF InvalidatePc, WritePc, Running, Phases
    <3>2. call[x] # Nil
      BY <2>1 DEF Phases, InvalidatePc
    <3> QED
      BY <1>0, <1>1, <2>1, <3>1, <3>2
  <2>2. CASE Commit(x)
    <3>1. wrote'[x] = ver[u] + 1
      BY <1>1, <2>2 DEF Commit, Execute, TypeOK
    <3> QED
      BY <1>0, <1>1, <3>1
  <2>3. CASE pc[x] = "softDelete" /\ ~Effective(x)
    <3>1. wrote'[x] = wrote[x] /\ wrote[x] = 0
      BY <2>3, WroteStep DEF Untouched, Running, WritePc, Execute
    <3> QED
      BY <1>0, <1>1, <3>1
  <2> QED
    BY <1>1, <2>1, <2>2, <2>3, OnlyStatementsInvalidate
<1>2. w \notin abandoned'[u]
  <2>1. \/ abandoned'[u] = abandoned[u]
        \/ abandoned'[u] = abandoned[u] \cup {ver[u] + 1}
        \/ \E r \in Request : /\ pc[r] \in InvalidatePc /\ call[r].user = u
                              /\ abandoned'[u] = abandoned[u] \cup {wrote[r]}
        \/ abandoned'[u] = abandoned[u] \cup
             {wrote[r] : r \in {x \in Request : pc[x] \in InvalidatePc /\ call[x].user = u}}
    BY AbandonedStep
  <2>2. \A r \in Request : pc[r] \in InvalidatePc => call[r] # Nil
    BY DEF Phases, InvalidatePc
  <2>3. \A r \in Request : pc[r] \in InvalidatePc /\ call[r].user = u => wrote[r] # w
    BY <1>0, <2>2
  <2> QED
    BY <1>0, <2>1, <2>3
<1> QED
  BY <1>v, <1>1, <1>2 DEF Over

\* What a fill counts goes on being counted: one step for each conjunct.
LEMMA CountsStep ==
  ASSUME Basics, Flights, Staleness, Counts, [Next]_vars
  PROVE  Counts'
<1> USE DEF Basics
<1>1. ASSUME NEW x \in Request, pc'[x] \in FillPc, NEW w \in cleared'[x]
      PROVE  call'[x].user \in Users /\ \A u \in Users : u = call'[x].user => Over(w, u)'
  <2>1. CASE pc[x] \in FillPc /\ call'[x] = call[x] /\ cleared'[x] = cleared[x]
    <3>1. call[x].user \in Users
      BY <2>1, ServiceAssumption DEF TypeOK, Phases, FillPc, Call
    <3>2. Over(w, call[x].user)
      BY <1>1, <2>1 DEF Counts
    <3>3. \A u \in Users : Over(w, u) => Over(w, u)'
      BY OverStep
    <3> QED
      BY <2>1, <3>1, <3>2, <3>3
  <2>2. ASSUME NEW c \in Calls, LeadFlight(x, c)
        PROVE  call'[x].user \in Users /\ \A u \in Users : u = call'[x].user => Over(w, u)'
    <3>1. c.user \in Users
      BY ServiceAssumption DEF Call
    <3>2. cleared'[x] = Cleared(c.user) /\ call'[x] = c
      BY <2>2 DEF LeadFlight, Arrive, TypeOK
    <3>3. Over(w, c.user)
      BY <1>1, <3>2 DEF Cleared, Over
    <3>4. \A u \in Users : Over(w, u) => Over(w, u)'
      BY OverStep
    <3> QED
      BY <3>1, <3>2, <3>3, <3>4
  <2>3. ASSUME NEW c \in Calls, JoinFlight(x, c)
        PROVE  FALSE
    BY <1>1, <2>3 DEF JoinFlight, Goto, TypeOK, FillPc
  <2> QED
    BY <1>1, <2>1, <2>2, <2>3, OnlyFlightsFill DEF FillPc
<1>2. ASSUME NEW x \in Request, pc'[x] \in {"cacheSet", "land"}, NEW w \in cleared'[x]
      PROVE  w <= found'[x].stored
  <2>1. pc[x] \in FillPc /\ cleared'[x] = cleared[x]
    <3>1. ASSUME NEW c \in Calls, LeadFlight(x, c) \/ JoinFlight(x, c)
          PROVE  FALSE
      BY <1>2, <3>1 DEF LeadFlight, JoinFlight, Goto, FirstPc, Views, TypeOK
    <3> QED
      BY <1>2, <3>1, OnlyFlightsFill DEF FillPc
  <2>2. Over(w, call[x].user) /\ call[x].user \in Users /\ call[x] \in Calls /\ call[x].op \in Views
    <3>1. call[x] \in Calls /\ call[x].op \in Views
      BY <2>1 DEF TypeOK, Phases, FillPc
    <3>2. call[x].user \in Users
      BY <3>1, ServiceAssumption DEF Call
    <3> QED
      BY <1>2, <2>1, <3>1, <3>2 DEF Counts
  <2>3. CASE pc[x] \in {"cacheSet", "land"} /\ found'[x] = found[x]
    BY <1>2, <2>1, <2>3 DEF Counts
  <2>4. CASE QueryRows(x)
    <3>1. found'[x].stored = ver[call[x].user]
      BY <2>4 DEF QueryRows, TypeOK
    <3> QED
      BY <2>2, <3>1 DEF Over, TypeOK
  <2>5. CASE CacheHit(x)
    <3> DEFINE k == KeyOf(call[x])
    <3>1. k \in Key /\ CacheKey(call[x]) = k /\ k.user = call[x].user
      BY <2>2, KeysAgree, KeyOfType DEF KeyOf
    <3>2. cache[k] # Nil /\ found'[x] = cache[k]
      BY <2>5, <3>1 DEF CacheHit, Usable, TypeOK
    <3>3. cache[k].stored \in Nat /\ \A v \in (cache[k].stored + 1)..ver[k.user] : Excused(v, k)
      BY <3>1, <3>2 DEF Staleness, EntryExplained, TypeOK, Snapshot
    <3>4. ~Excused(w, k)
      BY <2>2, <3>1 DEF Excused, Over, Clears, InvalidatePc
    <3>5. w \in Nat /\ w <= ver[k.user] /\ ver[k.user] \in Nat
      BY <2>2, <3>1 DEF Over, TypeOK
    <3> HIDE DEF k
    <3> QED
      BY <3>2, <3>3, <3>4, <3>5
  <2> QED
    BY <1>2, <2>3, <2>4, <2>5, OnlyReadsFill
<1> QED
  BY <1>1, <1>2 DEF Counts, Over

\* A list is answered as before, or by the flight the request leads or awaits.
LEMMA OnlyFlightsAnswerLists ==
  ASSUME Basics, [Next]_vars, NEW x \in Request, answer'[x] # Nil, call'[x].op \in Views,
         answer'[x].status = 200
  PROVE  /\ call'[x] = call[x] /\ since'[x] = since[x] /\ cleared'[x] = cleared[x]
         /\ \/ answer'[x] = answer[x]
            \/ \E r \in Request : /\ pc[r] = "land" /\ (x = r \/ pc[x] = "wait")
                                  /\ KeyOf(call[x]) = KeyOf(call[r])
                                  /\ answer'[x].rows = found[r].rows
                                  /\ answer'[x].asOf = found[r].asOf
                                  /\ answer'[x].stored = found[r].stored
<1> USE DEF Basics
<1> DEFINE Kept == /\ call'[x] = call[x] /\ since'[x] = since[x] /\ cleared'[x] = cleared[x]
                   /\ answer'[x] = answer[x]
<1>1. ASSUME NEW r \in Request, NEW c \in Calls, Refuse(r, c)
      PROVE  Kept
  BY <1>1 DEF Refuse, Arrive, Reply, TypeOK, historyVars
<1>2. ASSUME NEW r \in Request, NEW c \in Calls, StartCall(r, c) \/ LeadFlight(r, c) \/ JoinFlight(r, c)
      PROVE  Kept
  BY <1>2 DEF StartCall, LeadFlight, JoinFlight, Arrive, Untouched, TypeOK, historyVars
<1>3. ASSUME NEW r \in Request,
             CacheHit(r) \/ CacheMiss(r) \/ QueryRows(r) \/ QueryFails(r) \/ CacheSet(r) \/ CacheSetFails(r)
      PROVE  Kept
  BY <1>3 DEF CacheHit, CacheMiss, QueryRows, QueryFails, CacheSet, CacheSetFails, historyVars
<1>4. ASSUME NEW r \in Request, EndFlight(r), ~Kept
      PROVE  /\ call'[x] = call[x] /\ since'[x] = since[x] /\ cleared'[x] = cleared[x]
             /\ pc[r] = "land" /\ (x = r \/ pc[x] = "wait") /\ KeyOf(call[x]) = KeyOf(call[r])
             /\ answer'[x].rows = found[r].rows /\ answer'[x].asOf = found[r].asOf
             /\ answer'[x].stored = found[r].stored
  <2>1. UNCHANGED <<call, since, cleared>> /\ pc[r] \in FillPc
    BY <1>4 DEF EndFlight, FillPc, historyVars
  <2>2. PICK status \in {200, 500}, y \in {found[r], NoRows} :
          Land(r, status, y) /\ (status = 200 => pc[r] = "land" /\ y = found[r])
    BY <1>4 DEF EndFlight
  <2>3. x \in Aboard(r)
    BY <1>4, <2>1, <2>2 DEF Land
  <2>4. answer'[x] = [status |-> status, rows |-> y.rows, asOf |-> y.asOf, stored |-> y.stored]
    BY <2>2, <2>3 DEF Land
  <2>5. pc[r] = "land" /\ y = found[r]
    BY <2>2, <2>4
  <2>6. \A z \in Request : pc[z] \in FillPc \cup {"wait"} => FlightKey(call[z]) = KeyOf(call[z])
    BY KeysAgree DEF TypeOK, Phases, FillPc
  <2>7. (x = r \/ pc[x] = "wait") /\ KeyOf(call[x]) = KeyOf(call[r])
    BY <2>1, <2>3, <2>6 DEF Aboard
  <2> QED
    BY <2>1, <2>4, <2>5, <2>7
\* The other replies are to calls that ask for no list.
<1>7. ASSUME NEW r \in Request, pc[r] \notin FillPc \cup {"new", "wait", "answered", "lost"},
             UNCHANGED <<call, since, cleared>>, \A y \in Request \ {r} : answer'[y] = answer[y]
      PROVE  Kept
  <2>1. call[r].op \notin Views
    <3>1. pc[r] \in WritePc \cup InvalidatePc \cup {"getByID", "getForUpdate", "noReply"}
      BY <1>7 DEF TypeOK, PC
    <3>2. call[r].op \in {"create", "get", "update", "complete", "delete"}
      BY <3>1 DEF Phases, WritePc, InvalidatePc, Writes
    <3> QED
      BY <3>2 DEF Views
  <2>2. x # r
    BY <1>7, <2>1
  <2> QED
    BY <1>7, <2>2
<1>8. ASSUME NEW r \in Request, Statement(r) \/ ReadFails(r) \/ ReplyLost(r)
      PROVE  Kept
  <2>1. pc[r] \in WritePc \cup {"getByID", "getForUpdate", "noReply"} /\ UNCHANGED <<call, since, cleared>>
    BY <1>8 DEF Statement, GetByID, ReadForUpdate, InsertTodo, UpdateTodo, CompleteTodo, DeleteTodo, GiveUp,
       ReadFails, ReplyLost, Commit, NotFound, Execute, WritePc, historyVars
  <2>2. \A y \in Request \ {r} : answer'[y] = answer[y]
    BY <1>8 DEF Statement, GetByID, ReadForUpdate, InsertTodo, UpdateTodo, CompleteTodo, DeleteTodo, GiveUp,
       ReadFails, ReplyLost, Commit, NotFound, Execute, Reply, TypeOK
  <2> QED
    BY <1>7, <2>1, <2>2 DEF WritePc, FillPc
<1>9. ASSUME NEW r \in Request, Invalidate(r) \/ InvalidateFails(r)
      PROVE  Kept
  <2>1. pc[r] \in InvalidatePc /\ UNCHANGED <<call, since, cleared>>
    BY <1>9 DEF Invalidate, InvalidateFails, DelKeys, ScanStart, DelSearchKey, ScanEnd, InvalidatePc, historyVars
  <2>2. \A y \in Request \ {r} : answer'[y] = answer[y]
    BY <1>9 DEF Invalidate, InvalidateFails, DelKeys, ScanStart, DelSearchKey, ScanEnd, Succeed, Reply, TypeOK
  <2> QED
    BY <1>7, <2>1, <2>2 DEF InvalidatePc, FillPc
<1>10. ASSUME Crash \/ Tick \/ (\E k \in Key : Expire(k)) \/ UNCHANGED vars
       PROVE  Kept
  BY <1>10 DEF Crash, Tick, Expire, vars, serverVars, historyVars
<1>11. ASSUME NEW r \in Request, LateCommit(r)
       PROVE  Kept
  BY <1>11 DEF LateCommit, Execute
<1> QED
  BY <1>1, <1>2, <1>3, <1>4, <1>8, <1>9, <1>10, <1>11 DEF Next, Receive, Fill, Fail, Idle

\* For any users, requests, calls and faults: an empty list counts every write
\* made before the flight that answers it began, whoever led that flight.
THEOREM EmptyAnswersCountWrites == Spec => []EmptyAnswersAreCurrent
<1>1. Init => Ages /\ EmptyAnswersAreCurrent
  BY DEF Init, Ages, EmptyAnswersAreCurrent, FillPc
<1>2. Basics /\ Flights /\ Ages /\ [Next]_vars => Ages'
  BY AgesStep
<1>3. Basics /\ Flights /\ Ages /\ EmptyAnswersAreCurrent /\ [Next]_vars => EmptyAnswersAreCurrent'
  <2> SUFFICES ASSUME Basics, Flights, Ages, EmptyAnswersAreCurrent, [Next]_vars,
                      NEW x \in Request, answer'[x] # Nil, call'[x].op \in Views,
                      answer'[x].status = 200, answer'[x].rows = {}
               PROVE  answer'[x].asOf >= since'[x]
    BY DEF EmptyAnswersAreCurrent
  <2>1. call'[x] = call[x] /\ since'[x] = since[x]
    BY OnlyFlightsAnswerLists
  <2>2. CASE answer'[x] = answer[x]
    BY <2>1, <2>2 DEF EmptyAnswersAreCurrent
  <2>3. ASSUME NEW r \in Request, pc[r] = "land", x = r \/ pc[x] = "wait", found[r].rows = {},
               KeyOf(call[x]) = KeyOf(call[r]), answer'[x].asOf = found[r].asOf
        PROVE  answer'[x].asOf >= since'[x]
    <3>1. since[x] = since[r]
      BY <2>3 DEF Ages, FillPc
    <3>2. since[r] <= found[r].asOf /\ since[r] \in Nat /\ found[r].asOf \in Nat
      BY <2>3 DEF Ages, Basics, TypeOK, Snapshot
    <3> QED
      BY <2>1, <2>3, <3>1, <3>2
  <2> QED
    BY <2>2, <2>3, OnlyFlightsAnswerLists
<1>4. Spec => []Basics
  BY BasicsCorrect DEF Basics
<1> QED
  BY <1>1, <1>2, <1>3, <1>4, FlightsKept, PTL DEF Spec

\* For any users, requests, calls and faults: a list that misses a write which
\* was over when its flight began comes from the cache, where a fill had put it
\* that read before the write and stored after it.
THEOREM StaleAnswersExplained == Spec => []StaleAnswerExplained
<1>1. Init => Ages /\ Counts /\ StaleAnswerExplained
  BY DEF Init, Ages, Counts, StaleAnswerExplained, FillPc
<1>2. Basics /\ Flights /\ Ages /\ [Next]_vars => Ages'
  BY AgesStep
<1>3. Basics /\ Flights /\ Staleness /\ Counts /\ [Next]_vars => Counts'
  BY CountsStep
<1>4. Basics /\ Ages /\ Counts /\ StaleAnswerExplained /\ [Next]_vars => StaleAnswerExplained'
  <2> SUFFICES ASSUME Basics, Ages, Counts, StaleAnswerExplained, [Next]_vars,
                      NEW x \in Request, answer'[x] # Nil, call'[x].op \in Views,
                      answer'[x].status = 200, NEW w \in cleared'[x]
               PROVE  w <= answer'[x].asOf \/ (answer'[x].asOf < w /\ w <= answer'[x].stored)
    BY DEF StaleAnswerExplained
  <2>1. call'[x] = call[x] /\ cleared'[x] = cleared[x]
    BY OnlyFlightsAnswerLists
  <2>2. CASE answer'[x] = answer[x]
    BY <2>1, <2>2 DEF StaleAnswerExplained
  <2>3. ASSUME NEW r \in Request, pc[r] = "land", x = r \/ pc[x] = "wait",
               KeyOf(call[x]) = KeyOf(call[r]), answer'[x].asOf = found[r].asOf, answer'[x].stored = found[r].stored
        PROVE  w <= answer'[x].asOf \/ (answer'[x].asOf < w /\ w <= answer'[x].stored)
    <3>1. cleared[x] = cleared[r]
      BY <2>3 DEF Ages, FillPc
    <3>2. w \in Nat /\ w <= found[r].stored /\ found[r].asOf \in Nat
      BY <2>1, <2>3, <3>1 DEF Counts, Basics, TypeOK, Snapshot
    <3> QED
      BY <2>3, <3>2
  <2> QED
    BY <2>2, <2>3, OnlyFlightsAnswerLists
<1>5. Spec => []Basics
  BY BasicsCorrect DEF Basics
<1> QED
  BY <1>1, <1>2, <1>3, <1>4, <1>5, FlightsKept, StalenessKept, PTL DEF Spec
=============================================================================

------------------------------ MODULE ApiProofs ------------------------------
(***************************************************************************)
(* Theorems about Api: what Auth and TodoService promise apart, they promise *)
(* together, for any users, sessions, requests, calls and faults.            *)
(***************************************************************************)
EXTENDS Api, TodoIsolationProofs

\* The theorems of AuthProofs, about Auth as Api instantiates it.
AuthFacts == INSTANCE AuthProofs WITH Calls <- AuthCalls, TTL <- SessionTTL, call <- asked, pc <- step,
                                      inflight <- registering, found <- account, answer <- sent, faults <- authFaults

\* A handler runs for a user, and what it was asked is asked as that user.
Linked ==
  \A r \in Request :
    /\ step[r] = "handler" => ctx[r] # Nil
    /\ call[r] # Nil => /\ step[r] \in {"handler", "answered", "lost"}
                        /\ ctx[r] # Nil /\ call[r].user = ctx[r]

\* What Auth promises to the rest.
AuthPromise == AuthApi!TypeOK /\ AuthApi!ActsAsOwner /\ AuthApi!LateRequestsRefused

\* What TodoService promises to the rest.
TodoPromise == TypeOK /\ Phases /\ Untouched /\ AnswerFitsCall

-----------------------------------------------------------------------------
(***************************************************************************)
(* The specification of each part holds of the whole.                       *)
(***************************************************************************)

\* Every step of the whole is a step of TodoService, or leaves it alone.
LEMMA TodoSteps == [ApiNext]_<<vars, authVars>> => [Next]_vars
<1>1. ASSUME NEW r \in Request, HandlerStarts(r)
      PROVE  \E c \in Calls : Refuse(r, c) \/ StartCall(r, c) \/ LeadFlight(r, c) \/ JoinFlight(r, c)
  BY <1>1 DEF HandlerStarts
<1> QED
  BY <1>1 DEF ApiNext, AuthStep, HandlerRuns, HandlerReturns, ApiCrash, ApiEnvironment, Next, Receive

\* Every step of the whole is a step of Auth, or leaves it alone.
LEMMA AuthSteps == [ApiNext]_<<vars, authVars>> => [AuthApi!Next]_AuthApi!vars
<1>1. UNCHANGED authVars => UNCHANGED AuthApi!vars
  BY DEF authVars, AuthApi!vars, AuthApi!requestVars
<1> QED
  BY <1>1 DEF ApiNext, AuthStep, HandlerStarts, HandlerRuns, HandlerReturns, ApiCrash, ApiEnvironment,
     AuthApi!Next, AuthApi!Progress

\* Every behaviour of the whole is a behaviour of TodoService and one of Auth:
\* what holds of a part alone holds of it in the whole.
THEOREM PartsImplemented == ApiSpec => Spec /\ AuthApi!Spec
BY TodoSteps, AuthSteps, PTL DEF ApiSpec, ApiInit, Spec, AuthApi!Spec

\* The two instances of Auth are one.
LEMMA SameAuth ==
  /\ AuthApi!Init <=> AuthFacts!Init
  /\ AuthApi!Next <=> AuthFacts!Next
  /\ AuthApi!vars = AuthFacts!vars
<1>1. AuthApi!Init <=> AuthFacts!Init
  BY DEF AuthApi!Init, AuthFacts!Init, AuthApi!InitialIssued, AuthFacts!InitialIssued
<1>2. \A r \in Request : AuthApi!Receive(r) <=> AuthFacts!Receive(r)
  BY DEF AuthApi!Receive, AuthFacts!Receive, AuthApi!AnswerAtOnce, AuthFacts!AnswerAtOnce, AuthApi!StartCall,
     AuthFacts!StartCall, AuthApi!Arrive, AuthFacts!Arrive, AuthApi!AtOnce, AuthFacts!AtOnce,
     AuthApi!Malformed, AuthFacts!Malformed, AuthApi!Reply, AuthFacts!Reply, AuthApi!Goto, AuthFacts!Goto,
     AuthApi!FirstPc, AuthFacts!FirstPc, AuthApi!Held, AuthFacts!Held
<1>3. \A r \in Request : AuthApi!Progress(r) <=> AuthFacts!Progress(r)
  BY DEF AuthApi!Progress, AuthFacts!Progress, AuthApi!InsertUser, AuthFacts!InsertUser, AuthApi!NameTaken,
     AuthFacts!NameTaken, AuthApi!GiveUp, AuthFacts!GiveUp, AuthApi!SelectUser, AuthFacts!SelectUser, AuthApi!SetSession, AuthFacts!SetSession,
     AuthApi!DelSession, AuthFacts!DelSession, AuthApi!GetSession, AuthFacts!GetSession, AuthApi!RunHandler,
     AuthFacts!RunHandler, AuthApi!Taken, AuthFacts!Taken, AuthApi!StoredName, AuthFacts!StoredName,
     AuthApi!AddUser, AuthFacts!AddUser, AuthApi!Matches, AuthFacts!Matches, AuthApi!StoreSession,
     AuthFacts!StoreSession, AuthApi!NewIds, AuthFacts!NewIds, AuthApi!Reply, AuthFacts!Reply, AuthApi!Goto,
     AuthFacts!Goto
<1>4. \A r \in Request : AuthApi!Fail(r) <=> AuthFacts!Fail(r)
  BY DEF AuthApi!Fail, AuthFacts!Fail, AuthApi!InsertReplyLost,
     AuthFacts!InsertReplyLost, AuthApi!SelectFails, AuthFacts!SelectFails, AuthApi!SetFails,
     AuthFacts!SetFails, AuthApi!SetReplyLost, AuthFacts!SetReplyLost, AuthApi!DelFails, AuthFacts!DelFails,
     AuthApi!GetFails, AuthFacts!GetFails, AuthApi!Taken, AuthFacts!Taken, AuthApi!StoredName,
     AuthFacts!StoredName, AuthApi!AddUser, AuthFacts!AddUser, AuthApi!Fault, AuthFacts!Fault,
     AuthApi!StoreSession, AuthFacts!StoreSession, AuthApi!NewIds, AuthFacts!NewIds, AuthApi!Reply,
     AuthFacts!Reply, AuthApi!Goto, AuthFacts!Goto
<1>5. /\ AuthApi!Crash <=> AuthFacts!Crash
      /\ AuthApi!Idle <=> AuthFacts!Idle
      /\ \A s \in Sid : AuthApi!Expire(s) <=> AuthFacts!Expire(s)
      /\ \A r \in Request : AuthApi!LateInsert(r) <=> AuthFacts!LateInsert(r)
  BY DEF AuthApi!LateInsert, AuthFacts!LateInsert, AuthApi!Taken, AuthFacts!Taken, AuthApi!StoredName,
     AuthFacts!StoredName, AuthApi!AddUser, AuthFacts!AddUser, AuthApi!Crash, AuthFacts!Crash, AuthApi!Idle, AuthFacts!Idle, AuthApi!Expire, AuthFacts!Expire,
     AuthApi!Fault, AuthFacts!Fault, AuthApi!StoreTTL, AuthFacts!StoreTTL, AuthApi!vars, AuthFacts!vars,
     AuthApi!requestVars, AuthFacts!requestVars
<1>6. AuthApi!Next <=> AuthFacts!Next
  BY <1>2, <1>3, <1>4, <1>5 DEF AuthApi!Next, AuthFacts!Next
<1> QED
  BY <1>1, <1>6 DEF AuthApi!vars, AuthApi!requestVars, AuthFacts!vars, AuthFacts!requestVars

\* What AuthProofs assumes of the constants, Api assumes.
LEMMA AuthAssumed == AuthFacts!AuthAssumption
BY AuthPartAssumption DEF AuthApi!AuthAssumption, AuthFacts!AuthAssumption, AuthApi!Call, AuthFacts!Call,
   AuthApi!Ops, AuthFacts!Ops, AuthApi!User, AuthFacts!User, AuthApi!Credential, AuthFacts!Credential

\* What Auth promises holds in every reachable state of the whole.
LEMMA AuthKept == ApiSpec => []AuthPromise
<1>1. AuthPromise <=> AuthFacts!TypeOK /\ AuthFacts!ActsAsOwner /\ AuthFacts!LateRequestsRefused
  BY DEF AuthPromise, AuthApi!TypeOK, AuthFacts!TypeOK, AuthApi!User, AuthFacts!User, AuthApi!PC, AuthFacts!PC,
     AuthApi!Response, AuthFacts!Response, AuthApi!Credential, AuthFacts!Credential,
     AuthApi!ActsAsOwner, AuthFacts!ActsAsOwner, AuthApi!Owns, AuthFacts!Owns,
     AuthApi!LateRequestsRefused, AuthFacts!LateRequestsRefused
<1>2. AuthFacts!Spec => [](AuthFacts!TypeOK /\ AuthFacts!ActsAsOwner /\ AuthFacts!LateRequestsRefused)
  BY AuthFacts!TypeCorrect, AuthFacts!RequestsActAsOwner, AuthFacts!EndedSessionsStayEnded,
     AuthAssumed, PTL
<1>3. [AuthApi!Next]_AuthApi!vars => [AuthFacts!Next]_AuthFacts!vars
  <2>1. UNCHANGED AuthApi!vars => UNCHANGED AuthFacts!vars
    BY DEF AuthApi!vars, AuthFacts!vars, AuthApi!requestVars, AuthFacts!requestVars
  <2> QED
    BY <2>1, SameAuth
<1>4. AuthApi!Init => AuthFacts!Init
  BY SameAuth
<1> QED
  BY <1>1, <1>2, <1>3, <1>4, PartsImplemented, PTL DEF AuthApi!Spec, AuthFacts!Spec

\* What TodoService promises holds in every reachable state of the whole.
LEMMA TodoKept == ApiSpec => []TodoPromise
BY PartsImplemented, BasicsCorrect, AnswersFitCalls, PTL DEF TodoPromise

-----------------------------------------------------------------------------
(***************************************************************************)
(* The two parts stay linked.                                               *)
(***************************************************************************)

\* A step of Auth concerns one request outside its handler; it enters the
\* handler with a user.
LEMMA AuthStepsEnter ==
  ASSUME AuthPromise, NEW r \in Request, AuthStep(r)
  PROVE  /\ UNCHANGED call
         /\ step[r] \notin {"handler", "answered", "lost"}
         /\ step'[r] = "handler" => ctx'[r] # Nil
         /\ \A x \in Request \ {r} : step'[x] = step[x] /\ ctx'[x] = ctx[x]
<1>t. step \in [Request -> AuthApi!PC] /\ ctx \in [Request -> DOMAIN users \cup {Nil}]
  BY DEF AuthPromise, AuthApi!TypeOK
<1>c. UNCHANGED call
  BY DEF AuthStep, vars, serverVars
<1>1. CASE AuthApi!Receive(r)
  <2>1. PICK c \in AuthCalls, s \in AuthApi!Held \cup {Nil} :
          AuthApi!AnswerAtOnce(r, c, s) \/ AuthApi!StartCall(r, c, s)
    BY <1>1 DEF AuthApi!Receive
  <2>2. c.op \in {"register", "login", "logout", "todo"}
    BY AuthPartAssumption DEF AuthApi!AuthAssumption, AuthApi!Call, AuthApi!Ops
  <2>3. AuthApi!FirstPc(c.op) # "handler"
    BY <2>2 DEF AuthApi!FirstPc
  <2> QED
    BY <1>t, <1>c, <2>1, <2>3 DEF AuthApi!AnswerAtOnce, AuthApi!StartCall, AuthApi!Arrive, AuthApi!Reply, AuthApi!Goto
<1>2. CASE AuthApi!Progress(r)
  BY <1>t, <1>c, <1>2 DEF AuthStep, AuthApi!Progress, AuthApi!InsertUser, AuthApi!NameTaken, AuthApi!GiveUp, AuthApi!SelectUser,
     AuthApi!SetSession, AuthApi!DelSession, AuthApi!GetSession, AuthApi!RunHandler, AuthApi!Reply, AuthApi!Goto
<1>3. CASE AuthApi!Fail(r)
  BY <1>t, <1>c, <1>3 DEF AuthApi!Fail, AuthApi!InsertReplyLost, AuthApi!SelectFails,
     AuthApi!SetFails, AuthApi!SetReplyLost, AuthApi!DelFails, AuthApi!GetFails, AuthApi!Reply, AuthApi!Goto
<1> QED
  BY <1>1, <1>2, <1>3 DEF AuthStep

\* Every step of the whole keeps the parts linked.
LEMMA LinkedStep ==
  ASSUME AuthPromise, TodoPromise, Linked, [ApiNext]_<<vars, authVars>>
  PROVE  Linked'
<1>t. /\ step \in [Request -> AuthApi!PC] /\ ctx \in [Request -> DOMAIN users \cup {Nil}]
      /\ call \in [Request -> Calls \cup {Nil}]
  BY DEF AuthPromise, AuthApi!TypeOK, TodoPromise, TypeOK
<1>1. ASSUME NEW r \in Request, AuthStep(r)
      PROVE  Linked'
  BY <1>1, AuthStepsEnter DEF Linked
<1>2. ASSUME NEW r \in Request, HandlerStarts(r)
      PROVE  Linked'
  <2>1. PICK c \in Calls : /\ c.user = ctx[r] /\ call' = [call EXCEPT ![r] = c]
    BY <1>2 DEF HandlerStarts, Caller, Refuse, StartCall, LeadFlight, JoinFlight, Arrive
  <2>2. step[r] = "handler" /\ UNCHANGED <<step, ctx>>
    BY <1>2 DEF HandlerStarts, authVars
  <2> QED
    BY <1>t, <2>1, <2>2 DEF Linked
<1>3. ASSUME NEW r \in Request, HandlerRuns(r)
      PROVE  Linked'
  <2>1. UNCHANGED <<step, ctx>>
    BY <1>3 DEF HandlerRuns, authVars
  <2>2. UNCHANGED call
    BY <1>3 DEF HandlerRuns, Fill, CacheHit, CacheMiss, QueryRows, CacheSet, EndFlight, Land, Statement, GetByID, ReadForUpdate,
       InsertTodo, UpdateTodo, CompleteTodo, DeleteTodo, Commit, NotFound, Execute, Invalidate, DelKeys, ScanStart,
       DelSearchKey, ScanEnd, Fail, QueryFails, CacheSetFails, ReadFails, GiveUp, ReplyLost, InvalidateFails
  <2> QED
    BY <2>1, <2>2 DEF Linked
<1>4. ASSUME NEW r \in Request, HandlerReturns(r)
      PROVE  Linked'
  <2>1. step' = [step EXCEPT ![r] = "answered"] /\ UNCHANGED <<ctx, call>> /\ step[r] = "handler"
    BY <1>4 DEF HandlerReturns, AuthApi!RunHandler, AuthApi!Reply, AuthApi!Goto, vars, serverVars
  <2> QED
    BY <1>t, <2>1 DEF Linked
<1>5. CASE ApiCrash
  <2>1. /\ UNCHANGED <<ctx, call>>
        /\ step' = [r \in Request |-> IF step[r] \in {"new", "answered"} THEN step[r] ELSE "lost"]
    BY <1>5 DEF ApiCrash, AuthApi!Crash, Crash
  <2> QED
    BY <1>t, <2>1 DEF Linked
<1>6. CASE ApiEnvironment \/ UNCHANGED <<vars, authVars>>
  <2>1. UNCHANGED <<step, ctx, call>>
    BY <1>6 DEF ApiEnvironment, LateCommit, Execute, Expire, Tick, AuthApi!LateInsert, AuthApi!Expire, AuthApi!Idle, AuthApi!vars, AuthApi!requestVars,
       vars, serverVars, authVars
  <2> QED
    BY <2>1 DEF Linked
<1> QED
  BY <1>1, <1>2, <1>3, <1>4, <1>5, <1>6 DEF ApiNext

\* The parts are linked in every reachable state.
LEMMA LinkKept == ApiSpec => []Linked
<1>1. ApiInit => Linked
  BY DEF ApiInit, Init, AuthApi!Init, Linked
<1>2. AuthPromise /\ TodoPromise /\ Linked /\ [ApiNext]_<<vars, authVars>> => Linked'
  BY LinkedStep
<1> QED
  BY <1>1, <1>2, AuthKept, TodoKept, PTL DEF ApiSpec

\* A request of the todo API that has been asked something was identified by the
\* name and password of the user it acts for.
LEMMA AskedAreIdentified ==
  ASSUME AuthPromise, Linked, NEW r \in Request, call[r] # Nil
  PROVE  Presented(r, call[r].user)
<1>1. ctx[r] # Nil /\ call[r].user = ctx[r]
  BY DEF Linked
<1> QED
  BY <1>1 DEF AuthPromise, AuthApi!ActsAsOwner, AuthApi!LateRequestsRefused, Presented

-----------------------------------------------------------------------------
(***************************************************************************)
(* The properties of the whole.                                             *)
(***************************************************************************)

\* Through sessions, the middleware, the cache and the flights of others: every
\* todo request is answered with rows of the user whose name and password were
\* presented for its session.
THEOREM AnswersBelongToCaller == ApiSpec => []AnswersAreOwn
<1>1. AuthPromise /\ TodoPromise /\ Linked => AnswersAreOwn
  <2> SUFFICES ASSUME AuthPromise, TodoPromise, Linked, NEW r \in Request, answer[r] # Nil,
                      NEW it \in answer[r].rows
               PROVE  Presented(r, it.row.owner)
    BY DEF AnswersAreOwn
  <2>1. it.row.owner = call[r].user
    BY DEF TodoPromise, AnswerFitsCall
  <2>2. call[r] # Nil
    BY DEF TodoPromise, Phases, Untouched
  <2> QED
    BY <2>1, <2>2, AskedAreIdentified
<1> QED
  BY <1>1, AuthKept, TodoKept, LinkKept, PTL

\* A statement that changes the table is one of a request that was identified,
\* and what it changes or adds belongs to that request's user.
LEMMA WritesAreIdentified ==
  ASSUME AuthPromise, TodoPromise, Linked, [ApiNext]_<<vars, authVars>>, ~UNCHANGED <<todos, ver>>
  PROVE  \E r \in Request :
           /\ wrote'[r] # wrote[r] /\ call[r] # Nil /\ Presented(r, call[r].user) /\ UNCHANGED authVars
           /\ \A i \in DOMAIN todos : i \in DOMAIN todos' /\ todos'[i].owner = todos[i].owner
           /\ \A i \in DOMAIN todos' : i \notin DOMAIN todos \/ todos'[i] # todos[i] =>
                todos'[i].owner = call[r].user
<1>1. PICK r \in Request : Running(r) /\ Execute(r)
  BY TodoSteps, OnlyStatementsWrite DEF TodoPromise
<1>2. todos' = Written(r) /\ Effective(r) /\ wrote' = [wrote EXCEPT ![r] = ver[call[r].user] + 1]
  BY <1>1 DEF Execute
<1>3. call[r] # Nil
  BY <1>1 DEF TodoPromise, Phases, Running, WritePc
<1>4. wrote'[r] # wrote[r]
  <2>1. wrote[r] = 0 /\ wrote \in [Request -> Nat]
    BY <1>1 DEF TodoPromise, Untouched, TypeOK
  <2>2. ver[call[r].user] \in Nat
    BY <1>1, <1>3, ServiceAssumption DEF TodoPromise, TypeOK, Call
  <2> QED
    BY <1>2, <2>1, <2>2
<1>5. UNCHANGED authVars
  <2>1. UNCHANGED <<todos, ver>> \/ UNCHANGED authVars
    BY DEF ApiNext, AuthStep, HandlerStarts, HandlerRuns, HandlerReturns, ApiCrash, ApiEnvironment,
       Crash, vars, historyVars
  <2> QED
    BY <2>1
<1> QED
  BY <1>1, <1>2, <1>3, <1>4, <1>5, AskedAreIdentified, WrittenRows DEF TodoPromise

\* A row is made and changed only by a request of its owner that came with a
\* session of that owner which had not ended.
THEOREM RowsBelongToCaller == ApiSpec => RowsChangeForOwner
<1> DEFINE Kept == \A i \in DOMAIN todos' : i \notin DOMAIN todos \/ todos'[i] # todos[i] =>
                     \E r \in Request : wrote'[r] # wrote[r] /\ Presented(r, todos'[i].owner)
<1>1. ASSUME AuthPromise, TodoPromise, Linked, [ApiNext]_<<vars, authVars>>
      PROVE  Kept
  <2>1. CASE UNCHANGED <<todos, ver>>
    BY <2>1
  <2>2. CASE ~UNCHANGED <<todos, ver>>
    BY <1>1, <2>2, WritesAreIdentified
  <2> QED
    BY <2>1, <2>2
<1>2. AuthPromise /\ TodoPromise /\ Linked /\ [ApiNext]_<<vars, authVars>> => [Kept]_<<vars, authVars>>
  BY <1>1
<1> QED
  BY <1>2, AuthKept, TodoKept, LinkKept, PTL DEF ApiSpec, RowsChangeForOwner

\* Users are never removed.
LEMMA UsersRemain ==
  ASSUME AuthPromise, [ApiNext]_<<vars, authVars>>
  PROVE  DOMAIN users \subseteq DOMAIN users'
<1>1. UNCHANGED users \/ \E r \in Request : AuthApi!AddUser(r)
  BY AuthSteps DEF AuthApi!Next, AuthApi!Receive, AuthApi!AnswerAtOnce, AuthApi!StartCall, AuthApi!Arrive,
     AuthApi!Progress, AuthApi!InsertUser, AuthApi!NameTaken, AuthApi!GiveUp, AuthApi!SelectUser, AuthApi!SetSession,
     AuthApi!DelSession, AuthApi!GetSession, AuthApi!RunHandler, AuthApi!Fail, 
     AuthApi!InsertReplyLost, AuthApi!SelectFails, AuthApi!SetFails, AuthApi!SetReplyLost, AuthApi!DelFails,
     AuthApi!GetFails, AuthApi!LateInsert, AuthApi!Expire, AuthApi!Crash, AuthApi!Idle, AuthApi!vars
<1>2. users \in Seq(AuthApi!User)
  BY DEF AuthPromise, AuthApi!TypeOK
<1>3. ASSUME NEW x, users' = Append(users, x)
      PROVE  DOMAIN users \subseteq DOMAIN users'
  <2> DEFINE S == AuthApi!User \cup {x}
  <2>1. users \in Seq(S) /\ x \in S
    BY <1>2
  <2> QED
    BY <1>3, <2>1, AppendProperties
<1> QED
  BY <1>1, <1>3 DEF AuthApi!AddUser

\* The foreign key of todos holds without being asked: every row belongs to a
\* stored user.
THEOREM OwnersAreUsers == ApiSpec => []OwnersExist
<1>1. ApiInit => OwnersExist
  BY ApiAssumption DEF ApiInit, Init, AuthApi!Init, OwnersExist
<1>2. ASSUME AuthPromise, TodoPromise, Linked, OwnersExist, [ApiNext]_<<vars, authVars>>
      PROVE  OwnersExist'
  <2>1. DOMAIN users \subseteq DOMAIN users'
    BY <1>2, UsersRemain
  <2>2. CASE UNCHANGED <<todos, ver>>
    BY <1>2, <2>1, <2>2 DEF OwnersExist
  <2>3. CASE ~UNCHANGED <<todos, ver>>
    BY <1>2, <2>1, <2>3, WritesAreIdentified DEF OwnersExist, Presented, AuthApi!Owns
  <2> QED
    BY <2>2, <2>3
<1> QED
  BY <1>1, <1>2, AuthKept, TodoKept, LinkKept, PTL DEF ApiSpec
=============================================================================

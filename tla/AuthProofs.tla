----------------------------- MODULE AuthProofs -----------------------------
(***************************************************************************)
(* Theorems about Auth, for every set of requests, names, passwords, calls   *)
(* and session ids, every initial table and every number of faults.          *)
(***************************************************************************)
EXTENDS Auth, SequenceTheorems, TLAPS

\* What Login and Register make of the name and password of a call.
CredentialOf(c) == [name |-> TrimName[c.name], hash |-> Hash[c.pass]]

\* Where a request may be depends on what it was asked and on what it has.
Phases ==
  \A r \in Request :
    /\ call[r] = Nil <=> pc[r] = "new"
    /\ pc[r] = "insertUser" => call[r].op = "register"
    /\ pc[r] = "selectUser" => call[r].op = "login"
    /\ pc[r] = "setSession" => call[r].op \in {"register", "login"}
    /\ pc[r] = "delSession" => call[r].op = "logout"
    /\ pc[r] \in {"getSession", "handler"} => call[r].op = "todo"
    /\ pc[r] \in {"delSession", "getSession", "handler"} => cookie[r] # Nil
    /\ ctx[r] # Nil => cookie[r] # Nil
    /\ ctx[r] # Nil => pc[r] \in {"handler", "answered", "lost"}
    /\ pc[r] = "handler" => ctx[r] # Nil
    /\ answer[r] # Nil => pc[r] = "answered"
    /\ pc[r] = "noReply" => call[r].op = "register"
    /\ r \in inflight => /\ pc[r] \in {"noReply", "answered", "lost"}
                         /\ call[r].op = "register"
                         /\ answer[r] # Nil => answer[r].status = 500

\* Names are stored trimmed, each once.
NamesStored ==
  /\ \A i \in DOMAIN users : TrimName[users[i].name] = users[i].name
  /\ \A i, j \in DOMAIN users : users[i].name = users[j].name => i = j

\* A session is made for the user its credentials belong to, and stays so.
SessionsOwned ==
  /\ \A r \in Request : pc[r] = "setSession" =>
       found[r] # Nil /\ Owns(users, found[r], CredentialOf(call[r]))
  /\ \A s \in Sid : sessions[s] # Nil => issued[s] # Nil /\ Owns(users, sessions[s], issued[s])

\* The session ids that clients hold are ids that were issued.
HeldIssued ==
  /\ \A s \in Sid : InitialSessions[s] # Nil => issued[s] # Nil
  /\ \A r \in Request : answer[r] # Nil /\ answer[r].cookie # Nil => issued[answer[r].cookie] # Nil

\* A session that is over when a request arrives stays over.
LateIsOver ==
  \A r \in Request : late[r] =>
    /\ cookie[r] # Nil /\ issued[cookie[r]] # Nil /\ sessions[cookie[r]] = Nil
    /\ pc[r] # "new" /\ pc[r] # "handler"

\* A request has made a user only if it is a registration past its INSERT, which
\* Postgres is then done with; the session it is about to make is that user's.
MakersRegistered ==
  /\ \A i \in DOMAIN users : users[i].by # Nil =>
       LET r == users[i].by IN
       /\ call[r] # Nil /\ call[r].op = "register"
       /\ pc[r] \notin {"new", "insertUser"} /\ r \notin inflight
  /\ \A r \in Request : pc[r] = "setSession" /\ call[r].op = "register" =>
       found[r] # Nil /\ users[found[r]].by = r

-----------------------------------------------------------------------------
(***************************************************************************)
(* What a step can do to the users, the sessions and a request.              *)
(***************************************************************************)

\* A call stands for credentials that can be stored.
LEMMA CredentialType ==
  ASSUME NEW c \in Calls
  PROVE  /\ c \in Call /\ c # Nil
         /\ CredentialOf(c) \in Credential
         /\ StoredName(c) = CredentialOf(c).name /\ Hash[c.pass] = CredentialOf(c).hash
         /\ TrimName[StoredName(c)] = StoredName(c)
BY AuthAssumption DEF Call, CredentialOf, Credential, StoredName

\* The status of an answer without a call is a number.
LEMMA AtOnceType ==
  ASSUME NEW c \in Calls, NEW s \in Sid \cup {Nil}, AtOnce(c, s) # Nil
  PROVE  AtOnce(c, s) \in Nat
BY DEF AtOnce

\* The INSERT adds one row, of the name and password of its request.
LEMMA InsertedRow ==
  ASSUME TypeOK, Phases, NEW r \in Request, pc[r] = "insertUser" \/ r \in inflight, AddUser(r)
  PROVE  /\ users' \in Seq(User) /\ Len(users') = Len(users) + 1
         /\ \A i \in DOMAIN users : i \in DOMAIN users' /\ users'[i] = users[i]
         /\ DOMAIN users' = DOMAIN users \cup {Len(users) + 1}
         /\ Len(users) + 1 \notin DOMAIN users
         /\ users'[Len(users) + 1] = [name |-> StoredName(call[r]), hash |-> Hash[call[r].pass], by |-> r]
<1>1. call[r] \in Calls
  BY DEF TypeOK, Phases
<1>2. [name |-> StoredName(call[r]), hash |-> Hash[call[r].pass], by |-> r] \in User
  BY <1>1, CredentialType DEF User, Credential
<1> QED
  BY <1>2 DEF TypeOK, AddUser

\* Users are only added, by an INSERT that finds its name free.
LEMMA UsersGrow ==
  ASSUME TypeOK, Phases, [Next]_vars
  PROVE  \/ UNCHANGED users
         \/ \E r \in Request :
              /\ ~Taken(StoredName(call[r])) /\ AddUser(r)
              /\ UNCHANGED <<sessions, issued, call, answer>>
              /\ \/ pc[r] = "insertUser" /\ Goto(r, "setSession") /\ UNCHANGED inflight
                 \/ r \in inflight /\ UNCHANGED pc /\ inflight' = inflight \ {r}
BY DEF Next, LateInsert, vars, requestVars, Receive, Progress, Fail, AnswerAtOnce, StartCall, Arrive, InsertUser,
       NameTaken, GiveUp, SelectUser, SetSession, DelSession, GetSession, RunHandler,
       InsertReplyLost, SelectFails, SetFails, SetReplyLost, DelFails, GetFails, Expire, Crash, Idle

\* A stored user keeps its place, its name and its password.
LEMMA UsersStay ==
  ASSUME TypeOK, Phases, [Next]_vars
  PROVE  \A i \in DOMAIN users : i \in DOMAIN users' /\ users'[i] = users[i]
BY UsersGrow, InsertedRow

\* A session is made under a new id by a request that has found its user, and
\* otherwise can only end.
LEMMA SessionsStep ==
  ASSUME TypeOK, Phases, [Next]_vars
  PROVE  \/ UNCHANGED <<sessions, issued>>
         \/ \E r \in Request : \E s \in NewIds : pc[r] = "setSession" /\ StoreSession(r, s) /\ UNCHANGED users
         \/ \E s \in Sid : /\ sessions' = [sessions EXCEPT ![s] = Nil]
                           /\ UNCHANGED <<issued, users>>
<1>1. ASSUME NEW r \in Request, DelSession(r)
      PROVE  \E s \in Sid : sessions' = [sessions EXCEPT ![s] = Nil] /\ UNCHANGED <<issued, users>>
  BY <1>1 DEF DelSession, TypeOK, Phases
<1>2. ASSUME NEW s \in Sid, Expire(s)
      PROVE  sessions' = [sessions EXCEPT ![s] = Nil] /\ UNCHANGED <<issued, users>>
  BY <1>2 DEF Expire
<1> QED
  BY <1>1, <1>2 DEF Next, LateInsert, vars, requestVars, Receive, Progress, Fail, AnswerAtOnce, StartCall, Arrive, InsertUser,
       NameTaken, GiveUp, SelectUser, SetSession, GetSession, RunHandler,
       InsertReplyLost, SelectFails, SetFails, SetReplyLost, DelFails, GetFails, Crash, Idle

-----------------------------------------------------------------------------
(***************************************************************************)
(* Types and phases.                                                        *)
(***************************************************************************)

\* The first state has the types and the phases.
LEMMA TypeInit == Init => TypeOK /\ Phases
<1> SUFFICES ASSUME Init PROVE TypeOK /\ Phases
  OBVIOUS
<1>1. issued \in [Sid -> Credential \cup {Nil}]
  <2>1. ASSUME NEW s \in Sid, InitialSessions[s] # Nil
        PROVE  InitialSessions[s] \in DOMAIN InitialUsers /\ InitialUsers[InitialSessions[s]] \in User
    BY <2>1, AuthAssumption
  <2> QED
    BY <2>1 DEF Init, InitialIssued, User, Credential
<1>2. TypeOK
  BY <1>1, AuthAssumption DEF Init, TypeOK, PC
<1>3. Phases
  BY DEF Init, Phases
<1> QED
  BY <1>2, <1>3

\* A step of a request that answers or moves on keeps the types.
LEMMA TypeStep ==
  ASSUME TypeOK, Phases, [Next]_vars
  PROVE  TypeOK'
<1>u. users' \in Seq(User)
  BY UsersGrow, InsertedRow DEF TypeOK
<1>d. DOMAIN users \subseteq DOMAIN users'
  BY UsersStay
<1>s. sessions' \in [Sid -> DOMAIN users' \cup {Nil}] /\ issued' \in [Sid -> Credential \cup {Nil}]
  <2>1. ASSUME NEW r \in Request, NEW s \in NewIds, pc[r] = "setSession", StoreSession(r, s), UNCHANGED users
        PROVE  sessions' \in [Sid -> DOMAIN users' \cup {Nil}] /\ issued' \in [Sid -> Credential \cup {Nil}]
    <3>1. call[r] \in Calls
      BY <2>1 DEF TypeOK, Phases
    <3> QED
      BY <2>1, <3>1, CredentialType DEF StoreSession, TypeOK, NewIds, CredentialOf
  <2> QED
    BY <2>1, <1>d, SessionsStep DEF TypeOK
<1>1. ASSUME NEW r \in Request, NEW status \in Nat, NEW s \in Sid \cup {Nil}, Reply(r, status, s)
      PROVE  pc' \in [Request -> PC] /\ answer' \in [Request -> Response \cup {Nil}]
  BY <1>1 DEF Reply, Goto, TypeOK, PC, Response
<1>2. ASSUME NEW r \in Request, NEW p \in PC, Goto(r, p)
      PROVE  pc' \in [Request -> PC]
  BY <1>2 DEF Goto, TypeOK
<1>3. ASSUME NEW r \in Request, Receive(r)
      PROVE  TypeOK'
  <2>1. PICK c \in Calls, s \in Held \cup {Nil} : AnswerAtOnce(r, c, s) \/ StartCall(r, c, s)
    BY <1>3 DEF Receive
  <2>2. Arrive(r, c, s) /\ s \in Sid \cup {Nil}
    BY <2>1 DEF AnswerAtOnce, StartCall, Held
  <2>3. /\ call' \in [Request -> Calls \cup {Nil}] /\ cookie' \in [Request -> Sid \cup {Nil}]
        /\ late' \in [Request -> BOOLEAN]
    BY <2>2 DEF Arrive, TypeOK
  <2>4. CASE AnswerAtOnce(r, c, s)
    <3>1. Reply(r, AtOnce(c, s), Nil) /\ AtOnce(c, s) \in Nat
      BY <2>2, <2>4, AtOnceType DEF AnswerAtOnce
    <3>2. pc' \in [Request -> PC] /\ answer' \in [Request -> Response \cup {Nil}]
      BY <1>1, <3>1
    <3> QED
      BY <1>u, <1>s, <2>2, <2>3, <3>2 DEF Arrive, TypeOK
  <2>5. CASE StartCall(r, c, s)
    <3>1. FirstPc(c.op) \in PC
      BY CredentialType DEF FirstPc, PC, Call, Ops
    <3>2. pc' \in [Request -> PC]
      BY <1>2, <2>5, <3>1 DEF StartCall
    <3> QED
      BY <1>u, <1>s, <2>2, <2>3, <2>5, <3>2 DEF Arrive, StartCall, TypeOK
  <2> QED
    BY <2>1, <2>4, <2>5
<1>4. ASSUME NEW r \in Request, InsertUser(r) \/ LateInsert(r)
      PROVE  TypeOK'
  <2>1. DOMAIN users' = DOMAIN users \cup {Len(users) + 1}
    BY <1>4, InsertedRow DEF InsertUser, LateInsert
  <2>2. CASE InsertUser(r)
    BY <1>u, <1>s, <1>2, <2>1, <2>2 DEF InsertUser, TypeOK, PC
  <2>3. CASE LateInsert(r)
    BY <1>u, <1>s, <2>1, <2>3 DEF LateInsert, requestVars, TypeOK
  <2> QED
    BY <1>4, <2>2, <2>3
<1>13. ASSUME NEW r \in Request, InsertReplyLost(r)
       PROVE  TypeOK'
  BY <1>u, <1>s, <1>2, <1>13 DEF InsertReplyLost, TypeOK, PC, Fault
<1>5. ASSUME NEW r \in Request, NameTaken(r) \/ GiveUp(r) \/ SelectFails(r) \/ SetFails(r) \/ DelFails(r)
                                \/ GetFails(r) \/ RunHandler(r) \/ DelSession(r)
      PROVE  TypeOK'
  <2>1. \E status \in Nat : Reply(r, status, Nil)
    BY <1>5 DEF NameTaken, GiveUp, SelectFails, SetFails, DelFails, GetFails, RunHandler, DelSession
  <2> QED
    BY <1>u, <1>s, <1>1, <1>5, <2>1
    DEF NameTaken, GiveUp, SelectFails, SetFails, DelFails, GetFails, RunHandler, DelSession, TypeOK, Fault
<1>6. ASSUME NEW r \in Request, SelectUser(r)
      PROVE  TypeOK'
  <2>1. /\ \/ \E i \in DOMAIN users : found' = [found EXCEPT ![r] = i] /\ Goto(r, "setSession") /\ UNCHANGED answer
           \/ Reply(r, 401, Nil) /\ UNCHANGED found
        /\ UNCHANGED <<users, inflight, call, cookie, ctx, faults, issued, late>>
    BY <1>6 DEF SelectUser
  <2> QED
    BY <1>u, <1>s, <1>1, <1>2, <2>1 DEF TypeOK, PC
<1>7. ASSUME NEW r \in Request, SetSession(r)
      PROVE  TypeOK'
  <2>1. \E s \in Sid, status \in Nat : Reply(r, status, s)
    BY <1>7 DEF SetSession, NewIds
  <2> QED
    BY <1>u, <1>s, <1>1, <1>7, <2>1 DEF SetSession, TypeOK
<1>8. ASSUME NEW r \in Request, SetReplyLost(r)
      PROVE  TypeOK'
  BY <1>u, <1>s, <1>1, <1>8 DEF SetReplyLost, TypeOK, Fault
<1>9. ASSUME NEW r \in Request, GetSession(r)
      PROVE  TypeOK'
  <2>1. sessions[cookie[r]] \in DOMAIN users \cup {Nil}
    BY <1>9 DEF GetSession, TypeOK, Phases
  <2> QED
    BY <1>u, <1>s, <1>1, <1>2, <1>9, <2>1 DEF GetSession, TypeOK, PC
<1>10. ASSUME NEW s \in Sid, Expire(s)
       PROVE  TypeOK'
  BY <1>u, <1>s, <1>10 DEF Expire, requestVars, TypeOK
<1>11. CASE Crash
  BY <1>u, <1>s, <1>11 DEF Crash, Fault, TypeOK, PC
<1>12. CASE UNCHANGED vars
  BY <1>12 DEF vars, requestVars, TypeOK
<1> QED
  BY <1>3, <1>4, <1>5, <1>6, <1>7, <1>8, <1>9, <1>10, <1>11, <1>12, <1>13 DEF Next, Progress, Fail, Idle

\* Each step takes a request to a step its operation has.
LEMMA PhasesStep ==
  ASSUME TypeOK, Phases, [Next]_vars
  PROVE  Phases'
<1>1. ASSUME NEW r \in Request, Receive(r)
      PROVE  Phases'
  <2>1. PICK c \in Calls, s \in Held \cup {Nil} : AnswerAtOnce(r, c, s) \/ StartCall(r, c, s)
    BY <1>1 DEF Receive
  <2>2. Arrive(r, c, s) /\ c \in Call /\ c # Nil
    BY <2>1, CredentialType DEF AnswerAtOnce, StartCall
  <2>3. ASSUME AtOnce(c, s) = Nil, c.op \in {"logout", "todo"}
        PROVE  s # Nil
    BY <2>3, AuthAssumption DEF AtOnce
  <2>4. CASE AnswerAtOnce(r, c, s)
    BY <2>2, <2>4 DEF AnswerAtOnce, Arrive, Reply, Goto, Phases, TypeOK
  <2>5. CASE StartCall(r, c, s)
    <3>1. \/ FirstPc(c.op) = "insertUser" /\ c.op = "register"
          \/ FirstPc(c.op) = "selectUser" /\ c.op = "login"
          \/ FirstPc(c.op) = "delSession" /\ c.op = "logout"
          \/ FirstPc(c.op) = "getSession" /\ c.op = "todo"
      BY <2>2 DEF FirstPc, Call, Ops
    <3> QED
      BY <2>2, <2>3, <2>5, <3>1 DEF StartCall, Arrive, Goto, Phases, TypeOK
  <2> QED
    BY <2>1, <2>4, <2>5
<1>2. ASSUME NEW r \in Request, Progress(r)
      PROVE  Phases'
  BY <1>2 DEF Progress, InsertUser, NameTaken, GiveUp, SelectUser, SetSession, DelSession, GetSession, RunHandler,
              Reply, Goto, Phases, TypeOK
<1>3. ASSUME NEW r \in Request, Fail(r)
      PROVE  Phases'
  BY <1>3 DEF Fail, InsertReplyLost, SelectFails, SetFails, SetReplyLost, DelFails, GetFails,
              Reply, Goto, Phases, TypeOK
<1>4. ASSUME NEW s \in Sid, Expire(s)
      PROVE  Phases'
  BY <1>4 DEF Expire, requestVars, Phases
<1>5. CASE Crash
  BY <1>5 DEF Crash, Phases, TypeOK
<1>6. CASE UNCHANGED vars
  BY <1>6 DEF vars, requestVars, Phases
<1>7. ASSUME NEW r \in Request, LateInsert(r)
      PROVE  Phases'
  BY <1>7 DEF LateInsert, requestVars, Phases
<1> QED
  BY <1>1, <1>2, <1>3, <1>4, <1>5, <1>6, <1>7 DEF Next, Idle

\* The types and the phases hold in every state: no step leaves a user id that
\* is not in the table, in Redis or in a request.
THEOREM TypeCorrect == Spec => []TypeOK /\ []Phases
<1>1. Init => TypeOK /\ Phases
  BY TypeInit
<1>2. TypeOK /\ Phases /\ [Next]_vars => TypeOK' /\ Phases'
  BY TypeStep, PhasesStep
<1> QED
  BY <1>1, <1>2, PTL DEF Spec

-----------------------------------------------------------------------------
(***************************************************************************)
(* Registrations that race.                                                 *)
(***************************************************************************)

\* An INSERT that finds its name free keeps the names apart.
LEMMA NamesStep ==
  ASSUME TypeOK, Phases, [Next]_vars, NamesStored
  PROVE  NamesStored'
<1>1. CASE UNCHANGED users
  BY <1>1 DEF NamesStored
<1>2. ASSUME NEW r \in Request, pc[r] = "insertUser" \/ r \in inflight, ~Taken(StoredName(call[r])), AddUser(r)
      PROVE  NamesStored'
  <2>1. call[r] \in Calls
    BY <1>2 DEF TypeOK, Phases
  <2>2. TrimName[StoredName(call[r])] = StoredName(call[r])
    BY <2>1, CredentialType
  <2>3. \A i \in DOMAIN users : users[i].name # StoredName(call[r])
    BY <1>2 DEF Taken
  <2>4. /\ DOMAIN users' = DOMAIN users \cup {Len(users) + 1}
        /\ users'[Len(users) + 1].name = StoredName(call[r])
        /\ \A i \in DOMAIN users : users'[i] = users[i]
    <3>1. users'[Len(users) + 1] = [name |-> StoredName(call[r]), hash |-> Hash[call[r].pass], by |-> r]
      BY <1>2, InsertedRow
    <3>2. /\ DOMAIN users' = DOMAIN users \cup {Len(users) + 1}
          /\ \A i \in DOMAIN users : users'[i] = users[i]
      BY <1>2, InsertedRow
    <3> QED
      BY <3>1, <3>2
  <2> QED
    BY <2>2, <2>3, <2>4 DEF NamesStored
<1> QED
  BY <1>1, <1>2, UsersGrow

\* However registrations race, no two users have names that differ only in
\* spaces around them: the UNIQUE constraint sees trimmed names alone.
THEOREM NamesStayUnique == Spec => []NamesUnique
<1>1. Init => NamesStored
  BY AuthAssumption DEF Init, NamesStored
<1>2. TypeOK /\ Phases /\ [Next]_vars /\ NamesStored => NamesStored'
  BY NamesStep
<1>3. NamesStored => NamesUnique
  BY DEF NamesStored, NamesUnique
<1> QED
  BY <1>1, <1>2, <1>3, TypeCorrect, PTL DEF Spec

-----------------------------------------------------------------------------
(***************************************************************************)
(* Whose session it is.                                                     *)
(***************************************************************************)

\* Who owns a credential keeps it: rows of users never change.
LEMMA OwnsStays ==
  ASSUME TypeOK, Phases, [Next]_vars, NEW i, NEW k, Owns(users, i, k)
  PROVE  Owns(users', i, k)
BY UsersStay DEF Owns

\* What has been issued stays issued, for the same credentials.
LEMMA IssuedStays ==
  ASSUME TypeOK, Phases, [Next]_vars, NEW s \in Sid, issued[s] # Nil
  PROVE  issued'[s] = issued[s]
BY SessionsStep DEF StoreSession, NewIds, TypeOK

\* A request comes to the SET of its session with the user it has just made, or
\* whose name and password it has just matched.
LEMMA FoundStep ==
  ASSUME TypeOK, Phases, [Next]_vars, NEW r \in Request, pc'[r] = "setSession", pc[r] # "setSession"
  PROVE  InsertUser(r) \/ SelectUser(r)
<1>1. ASSUME NEW x \in Request, Receive(x)
      PROVE  FALSE
  <2>1. PICK c \in Calls, s \in Held \cup {Nil} : AnswerAtOnce(x, c, s) \/ StartCall(x, c, s)
    BY <1>1 DEF Receive
  <2>2. FirstPc(c.op) # "setSession"
    BY CredentialType DEF FirstPc, Call, Ops
  <2> QED
    BY <2>1, <2>2 DEF AnswerAtOnce, StartCall, Arrive, Reply, Goto, TypeOK
<1>2. ASSUME NEW x \in Request, Fail(x)
      PROVE  FALSE
  BY <1>2 DEF Fail, InsertReplyLost, SelectFails, SetFails, SetReplyLost, DelFails, GetFails,
              Reply, Goto, TypeOK
<1>3. ASSUME NEW x \in Request, Progress(x)
      PROVE  InsertUser(r) \/ SelectUser(r)
  BY <1>3 DEF Progress, InsertUser, NameTaken, GiveUp, SelectUser, SetSession, DelSession, GetSession, RunHandler,
              Reply, Goto, TypeOK
<1> QED
  BY <1>1, <1>2, <1>3 DEF Next, LateInsert, Expire, Crash, Idle, vars, requestVars, TypeOK

\* A request that waits to store its session keeps what it has found.
LEMMA FoundStays ==
  ASSUME TypeOK, Phases, [Next]_vars, NEW r \in Request, pc[r] = "setSession"
  PROVE  UNCHANGED <<found[r], call[r]>>
<1>1. ASSUME NEW x \in Request, Receive(x)
      PROVE  UNCHANGED <<found[r], call[r]>>
  BY <1>1 DEF Receive, AnswerAtOnce, StartCall, Arrive, TypeOK
<1>2. ASSUME NEW x \in Request, Fail(x)
      PROVE  UNCHANGED <<found[r], call[r]>>
  BY <1>2 DEF Fail, InsertReplyLost, SelectFails, SetFails, SetReplyLost, DelFails, GetFails
<1>3. ASSUME NEW x \in Request, Progress(x)
      PROVE  UNCHANGED <<found[r], call[r]>>
  BY <1>3 DEF Progress, InsertUser, NameTaken, GiveUp, SelectUser, SetSession, DelSession, GetSession, RunHandler, TypeOK
<1> QED
  BY <1>1, <1>2, <1>3 DEF Next, LateInsert, Expire, Crash, Idle, vars, requestVars

\* A session belongs to whom it was issued for, from SET to its end.
LEMMA OwnedStep ==
  ASSUME TypeOK, Phases, [Next]_vars, SessionsOwned
  PROVE  SessionsOwned'
<1>1. ASSUME NEW r \in Request, pc'[r] = "setSession"
      PROVE  found'[r] # Nil /\ Owns(users', found'[r], CredentialOf(call'[r]))
  <2>1. CASE pc[r] = "setSession"
    BY <2>1, FoundStays, OwnsStays DEF SessionsOwned
  <2>2. CASE InsertUser(r)
    <3>1. call[r] \in Calls /\ call' = call
      BY <2>2 DEF InsertUser, TypeOK, Phases
    <3>2. /\ found'[r] = Len(users) + 1 /\ found'[r] \in DOMAIN users' /\ Len(users) \in Nat
          /\ users'[found'[r]] = [name |-> StoredName(call[r]), hash |-> Hash[call[r].pass], by |-> r]
      BY <2>2, InsertedRow DEF InsertUser, TypeOK
    <3>3. found'[r] # Nil
      BY <3>2, AuthAssumption
    <3> QED
      BY <3>1, <3>2, <3>3, CredentialType DEF Owns
  <2>3. CASE SelectUser(r)
    <3>1. PICK i \in DOMAIN users : Matches(i, call[r]) /\ found' = [found EXCEPT ![r] = i]
      BY <1>1, <2>3 DEF SelectUser, Reply, Goto, TypeOK
    <3>2. found'[r] = i /\ i \in Nat /\ call' = call /\ users' = users
      BY <2>3, <3>1 DEF SelectUser, TypeOK
    <3>3. Owns(users, i, CredentialOf(call[r]))
      BY <3>1 DEF Matches, Owns, CredentialOf
    <3> QED
      BY <3>2, <3>3, AuthAssumption DEF Owns
  <2> QED
    BY <1>1, <2>1, <2>2, <2>3, FoundStep
<1>2. ASSUME NEW s \in Sid, sessions'[s] # Nil
      PROVE  issued'[s] # Nil /\ Owns(users', sessions'[s], issued'[s])
  <2>1. CASE sessions'[s] = sessions[s] /\ issued'[s] = issued[s]
    BY <1>2, <2>1, OwnsStays DEF SessionsOwned
  <2>2. ASSUME NEW r \in Request, NEW x \in NewIds, pc[r] = "setSession", StoreSession(r, x), UNCHANGED users
        PROVE  issued'[s] # Nil /\ Owns(users', sessions'[s], issued'[s])
    <3>1. call[r] \in Calls
      BY <2>2 DEF TypeOK, Phases
    <3>2. CASE x = s
      <4>1. sessions'[s] = found[r] /\ issued'[s] = CredentialOf(call[r])
        BY <2>2, <3>2 DEF StoreSession, TypeOK, CredentialOf
      <4>2. Owns(users, found[r], CredentialOf(call[r])) /\ CredentialOf(call[r]) # Nil
        BY <2>2, <3>1, CredentialType, AuthAssumption DEF SessionsOwned
      <4> QED
        BY <2>2, <4>1, <4>2 DEF Owns
    <3>3. CASE x # s
      BY <2>1, <2>2, <3>3 DEF StoreSession, TypeOK
    <3> QED
      BY <3>2, <3>3
  <2>3. ASSUME NEW x \in Sid, sessions' = [sessions EXCEPT ![x] = Nil], UNCHANGED <<issued, users>>
        PROVE  issued'[s] # Nil /\ Owns(users', sessions'[s], issued'[s])
    BY <1>2, <2>1, <2>3 DEF TypeOK
  <2> QED
    BY <2>1, <2>2, <2>3, SessionsStep
<1> QED
  BY <1>1, <1>2 DEF SessionsOwned

\* A session from before the start belongs to the user it names.
LEMMA OwnedInit == Init => SessionsOwned
<1> SUFFICES ASSUME Init PROVE SessionsOwned
  OBVIOUS
<1>1. ASSUME NEW s \in Sid, sessions[s] # Nil
      PROVE  issued[s] # Nil /\ Owns(users, sessions[s], issued[s])
  <2>1. /\ sessions[s] \in DOMAIN users /\ users[sessions[s]] \in User
        /\ issued[s] = [name |-> users[sessions[s]].name, hash |-> users[sessions[s]].hash]
    BY <1>1, AuthAssumption DEF Init, InitialIssued
  <2>2. issued[s] \in Credential
    BY <2>1 DEF User, Credential
  <2> QED
    BY <2>1, <2>2, AuthAssumption DEF Owns
<1> QED
  BY <1>1 DEF Init, SessionsOwned

\* A request gets its user id from the session its cookie names.
LEMMA ActsStep ==
  ASSUME TypeOK, Phases, [Next]_vars, SessionsOwned, ActsAsOwner
  PROVE  ActsAsOwner'
<1> SUFFICES ASSUME NEW r \in Request, ctx'[r] # Nil
             PROVE  cookie'[r] # Nil /\ issued'[cookie'[r]] # Nil /\ Owns(users', ctx'[r], issued'[cookie'[r]])
  BY DEF ActsAsOwner
<1>1. \/ UNCHANGED <<ctx[r], cookie[r]>>
      \/ /\ cookie[r] \in Sid /\ cookie'[r] = cookie[r]
         /\ sessions[cookie[r]] # Nil /\ ctx'[r] = sessions[cookie[r]]
  <2>1. ASSUME NEW x \in Request, Receive(x)
        PROVE  UNCHANGED <<ctx[r], cookie[r]>>
    BY <2>1 DEF Receive, AnswerAtOnce, StartCall, Arrive, Phases, TypeOK
  <2>2. ASSUME NEW x \in Request, Fail(x)
        PROVE  UNCHANGED <<ctx[r], cookie[r]>>
    BY <2>2 DEF Fail, InsertReplyLost, SelectFails, SetFails, SetReplyLost, DelFails, GetFails
  <2>3. ASSUME NEW x \in Request, GetSession(x)
        PROVE  \/ UNCHANGED <<ctx[r], cookie[r]>>
               \/ /\ cookie[r] \in Sid /\ cookie'[r] = cookie[r]
                  /\ sessions[cookie[r]] # Nil /\ ctx'[r] = sessions[cookie[r]]
    BY <2>3 DEF GetSession, Phases, TypeOK
  <2>4. ASSUME NEW x \in Request, Progress(x), ~GetSession(x)
        PROVE  UNCHANGED <<ctx[r], cookie[r]>>
    BY <2>4 DEF Progress, InsertUser, NameTaken, GiveUp, SelectUser, SetSession, DelSession, RunHandler
  <2> QED
    BY <2>1, <2>2, <2>3, <2>4 DEF Next, LateInsert, Expire, Crash, Idle, vars, requestVars
<1>2. \A s \in Sid : \A i : issued[s] # Nil /\ Owns(users, i, issued[s]) => issued'[s] # Nil /\ Owns(users', i, issued'[s])
  BY IssuedStays, OwnsStays
<1>3. cookie[r] \in Sid \cup {Nil}
  BY DEF TypeOK
<1>4. CASE UNCHANGED <<ctx[r], cookie[r]>>
  BY <1>2, <1>3, <1>4 DEF ActsAsOwner
<1>5. CASE /\ cookie[r] \in Sid /\ cookie'[r] = cookie[r]
           /\ sessions[cookie[r]] # Nil /\ ctx'[r] = sessions[cookie[r]]
  BY <1>2, <1>5, AuthAssumption DEF SessionsOwned
<1> QED
  BY <1>1, <1>4, <1>5

\* A request past RequireSession runs as the user whose name and password were
\* presented for the session its cookie names.
THEOREM RequestsActAsOwner == Spec => []ActsAsOwner
<1>1. Init => SessionsOwned /\ ActsAsOwner
  BY OwnedInit DEF Init, ActsAsOwner
<1>2. TypeOK /\ Phases /\ [Next]_vars /\ SessionsOwned /\ ActsAsOwner => SessionsOwned' /\ ActsAsOwner'
  BY OwnedStep, ActsStep
<1> QED
  BY <1>1, <1>2, TypeCorrect, PTL DEF Spec

-----------------------------------------------------------------------------
(***************************************************************************)
(* Sessions that are over.                                                  *)
(***************************************************************************)

\* The sessions the process finds were issued.
LEMMA HeldInit == Init => HeldIssued
<1> SUFFICES ASSUME Init PROVE HeldIssued
  OBVIOUS
<1>1. ASSUME NEW s \in Sid, InitialSessions[s] # Nil
      PROVE  issued[s] # Nil
  <2>1. InitialUsers[InitialSessions[s]] \in User
    BY <1>1, AuthAssumption
  <2>2. issued[s] \in Credential
    BY <1>1, <2>1 DEF Init, InitialIssued, User, Credential
  <2> QED
    BY <2>2, AuthAssumption
<1> QED
  BY <1>1 DEF Init, HeldIssued

\* A response only hands out the id of a session just made.
LEMMA HeldStep ==
  ASSUME TypeOK, Phases, [Next]_vars, HeldIssued
  PROVE  HeldIssued'
<1>1. \A s \in Sid : issued[s] # Nil => issued'[s] # Nil
  BY IssuedStays
<1>2. ASSUME NEW r \in Request, answer'[r] # Nil, answer'[r].cookie # Nil
      PROVE  issued'[answer'[r].cookie] # Nil
  <2>1. CASE answer'[r] = answer[r]
    BY <1>1, <1>2, <2>1 DEF HeldIssued, TypeOK, Response
  <2>2. ASSUME NEW x \in Request, NEW status, Reply(x, status, Nil)
        PROVE  answer'[r] = answer[r]
    BY <1>2, <2>2 DEF Reply, TypeOK
  <2>3. ASSUME NEW x \in Request, SetSession(x)
        PROVE  issued'[answer'[r].cookie] # Nil
    <3>1. PICK s \in NewIds, status \in Nat : StoreSession(x, s) /\ Reply(x, status, s)
      BY <2>3 DEF SetSession
    <3>2. issued'[s] # Nil
      <4>1. [name |-> TrimName[call[x].name], hash |-> Hash[call[x].pass]] \in Credential
        BY <2>3, CredentialType DEF SetSession, TypeOK, Phases, CredentialOf
      <4> QED
        BY <3>1, <4>1, AuthAssumption DEF StoreSession, NewIds, TypeOK
    <3>3. CASE x = r
      BY <3>1, <3>2, <3>3 DEF Reply, TypeOK
    <3>4. CASE x # r
      BY <2>1, <3>1, <3>4 DEF Reply, TypeOK
    <3> QED
      BY <3>3, <3>4
  <2>4. ASSUME NEW x \in Request, Receive(x)
        PROVE  answer'[r] = answer[r]
    BY <2>2, <2>4 DEF Receive, AnswerAtOnce, StartCall
  <2>5. ASSUME NEW x \in Request, Progress(x), ~SetSession(x)
        PROVE  answer'[r] = answer[r]
    BY <2>2, <2>5 DEF Progress, InsertUser, NameTaken, GiveUp, SelectUser, DelSession, GetSession, RunHandler
  <2>6. ASSUME NEW x \in Request, Fail(x)
        PROVE  answer'[r] = answer[r]
    BY <2>2, <2>6 DEF Fail, InsertReplyLost, SelectFails, SetFails, SetReplyLost, DelFails, GetFails
  <2> QED
    BY <2>1, <2>3, <2>4, <2>5, <2>6 DEF Next, LateInsert, Expire, Crash, Idle, vars, requestVars
<1> QED
  BY <1>1, <1>2 DEF HeldIssued

\* No step brings back a session that has been issued and is over.
LEMMA OverStaysOver ==
  ASSUME TypeOK, Phases, [Next]_vars, NEW s \in Sid, issued[s] # Nil, sessions[s] = Nil
  PROVE  issued'[s] # Nil /\ sessions'[s] = Nil
BY SessionsStep, IssuedStays DEF StoreSession, NewIds, TypeOK

\* A request that arrives after its session is refused.
LEMMA LateStep ==
  ASSUME TypeOK, Phases, [Next]_vars, HeldIssued, LateIsOver, LateRequestsRefused
  PROVE  LateIsOver' /\ LateRequestsRefused'
<1> SUFFICES ASSUME NEW r \in Request, late'[r]
             PROVE  /\ cookie'[r] # Nil /\ issued'[cookie'[r]] # Nil /\ sessions'[cookie'[r]] = Nil
                    /\ pc'[r] # "new" /\ pc'[r] # "handler" /\ ctx'[r] = Nil
  BY DEF LateIsOver, LateRequestsRefused
<1>1. ASSUME late[r], cookie'[r] = cookie[r]
      PROVE  cookie'[r] # Nil /\ issued'[cookie'[r]] # Nil /\ sessions'[cookie'[r]] = Nil
  BY <1>1, OverStaysOver DEF LateIsOver, TypeOK
<1>2. ASSUME NEW x \in Request, Receive(x)
      PROVE  /\ cookie'[r] # Nil /\ issued'[cookie'[r]] # Nil /\ sessions'[cookie'[r]] = Nil
             /\ pc'[r] # "new" /\ pc'[r] # "handler" /\ ctx'[r] = Nil
  <2>1. PICK c \in Calls, s \in Held \cup {Nil} : AnswerAtOnce(x, c, s) \/ StartCall(x, c, s)
    BY <1>2 DEF Receive
  <2>2. Arrive(x, c, s)
    BY <2>1 DEF AnswerAtOnce, StartCall
  <2>3. CASE x = r
    <3>1. cookie'[r] = s /\ s # Nil /\ sessions[s] = Nil /\ ctx'[r] = Nil
      BY <2>2, <2>3 DEF Arrive, TypeOK, Phases
    <3>2. s \in Sid /\ issued[s] # Nil
      BY <3>1 DEF Held, HeldIssued
    <3>3. FirstPc(c.op) # "new" /\ FirstPc(c.op) # "handler"
      BY CredentialType DEF FirstPc, Call, Ops
    <3>4. pc'[r] # "new" /\ pc'[r] # "handler"
      BY <2>1, <2>3, <3>3 DEF AnswerAtOnce, StartCall, Reply, Goto, TypeOK
    <3> QED
      BY <3>1, <3>2, <3>4, OverStaysOver
  <2>4. CASE x # r
    <3>1. late[r] /\ cookie'[r] = cookie[r] /\ pc'[r] = pc[r] /\ ctx'[r] = ctx[r]
      BY <2>1, <2>2, <2>4 DEF Arrive, AnswerAtOnce, StartCall, Reply, Goto, TypeOK
    <3> QED
      BY <1>1, <3>1 DEF LateIsOver, LateRequestsRefused
  <2> QED
    BY <2>3, <2>4
<1>3. ASSUME NEW x \in Request, Progress(x) \/ Fail(x)
      PROVE  /\ cookie'[r] # Nil /\ issued'[cookie'[r]] # Nil /\ sessions'[cookie'[r]] = Nil
             /\ pc'[r] # "new" /\ pc'[r] # "handler" /\ ctx'[r] = Nil
  <2>1. late[r] /\ cookie'[r] = cookie[r]
    BY <1>3 DEF Progress, InsertUser, NameTaken, GiveUp, SelectUser, SetSession, DelSession, GetSession, RunHandler,
                Fail, InsertReplyLost, SelectFails, SetFails, SetReplyLost, DelFails, GetFails
  <2>2. pc'[r] # "new" /\ pc'[r] # "handler" /\ ctx'[r] = Nil
    BY <1>3, <2>1
    DEF Progress, InsertUser, NameTaken, GiveUp, SelectUser, SetSession, DelSession, GetSession, RunHandler,
        Fail, InsertReplyLost, SelectFails, SetFails, SetReplyLost, DelFails, GetFails,
        Reply, Goto, TypeOK, LateIsOver, LateRequestsRefused
  <2> QED
    BY <1>1, <2>1, <2>2
<1>4. CASE Crash \/ UNCHANGED vars \/ (\E s \in Sid : Expire(s)) \/ (\E x \in Request : LateInsert(x))
  BY <1>1, <1>4 DEF Crash, Expire, LateInsert, vars, requestVars, LateIsOver, LateRequestsRefused, TypeOK
<1> QED
  BY <1>2, <1>3, <1>4 DEF Next, Idle

\* No session comes back: a request that arrives after its session has ended
\* never passes RequireSession.
THEOREM EndedSessionsStayEnded == Spec => []LateRequestsRefused
<1>1. Init => HeldIssued /\ LateIsOver /\ LateRequestsRefused
  BY HeldInit DEF Init, LateIsOver, LateRequestsRefused
<1>2. /\ TypeOK /\ Phases /\ [Next]_vars /\ HeldIssued /\ LateIsOver /\ LateRequestsRefused
      => HeldIssued' /\ LateIsOver' /\ LateRequestsRefused'
  BY HeldStep, LateStep
<1> QED
  BY <1>1, <1>2, TypeCorrect, PTL DEF Spec

-----------------------------------------------------------------------------
(***************************************************************************)
(* What Register answers.                                                   *)
(***************************************************************************)

\* An answer, once given, stays, with the call it answers.
LEMMA AnsweredStays ==
  ASSUME TypeOK, Phases, [Next]_vars, NEW r \in Request, pc[r] # "new"
  PROVE  /\ UNCHANGED call[r] /\ pc'[r] # "new"
         /\ answer[r] # Nil => UNCHANGED answer[r]
<1>1. ASSUME NEW x \in Request, Receive(x)
      PROVE  UNCHANGED <<call[r], pc[r], answer[r]>>
  BY <1>1 DEF Receive, AnswerAtOnce, StartCall, Arrive, Reply, Goto, TypeOK
<1>2. ASSUME NEW x \in Request, Progress(x) \/ Fail(x)
      PROVE  /\ UNCHANGED call[r] /\ pc'[r] # "new"
             /\ answer[r] # Nil => UNCHANGED answer[r]
  BY <1>2 DEF Progress, InsertUser, NameTaken, GiveUp, SelectUser, SetSession, DelSession, GetSession, RunHandler,
              Fail, InsertReplyLost, SelectFails, SetFails, SetReplyLost, DelFails, GetFails,
              Reply, Goto, TypeOK, Phases
<1>3. CASE Crash \/ UNCHANGED vars \/ (\E s \in Sid : Expire(s)) \/ (\E x \in Request : LateInsert(x))
  BY <1>3 DEF Crash, Expire, LateInsert, vars, requestVars, TypeOK
<1> QED
  BY <1>1, <1>2, <1>3 DEF Next, Idle

\* A request does not come back to its INSERT once it and Postgres are past it.
LEMMA InsertedOnce ==
  ASSUME TypeOK, Phases, [Next]_vars, NEW r \in Request, pc[r] \notin {"new", "insertUser"}
  PROVE  /\ pc'[r] \notin {"new", "insertUser"}
         /\ r \notin inflight => r \notin inflight'
<1>1. ASSUME NEW x \in Request, Receive(x)
      PROVE  UNCHANGED <<pc[r], inflight>>
  BY <1>1 DEF Receive, AnswerAtOnce, StartCall, Arrive, Reply, Goto, TypeOK
<1>2. ASSUME NEW x \in Request, Progress(x) \/ Fail(x)
      PROVE  /\ pc'[r] \notin {"new", "insertUser"}
             /\ r \notin inflight => r \notin inflight'
  BY <1>2 DEF Progress, InsertUser, NameTaken, GiveUp, SelectUser, SetSession, DelSession, GetSession, RunHandler,
              Fail, InsertReplyLost, SelectFails, SetFails, SetReplyLost, DelFails, GetFails,
              Reply, Goto, TypeOK
<1>3. CASE Crash \/ UNCHANGED vars \/ (\E s \in Sid : Expire(s)) \/ (\E x \in Request : LateInsert(x))
  BY <1>3 DEF Crash, Expire, LateInsert, vars, requestVars, TypeOK
<1> QED
  BY <1>1, <1>2, <1>3 DEF Next, Idle

\* A row is added by a registration whose INSERT Postgres is then done with.
LEMMA AddedBy ==
  ASSUME TypeOK, Phases, [Next]_vars, NEW i \in DOMAIN users', i \notin DOMAIN users
  PROVE  \E r \in Request : /\ users'[i].by = r
                            /\ pc[r] = "insertUser" \/ r \in inflight
                            /\ call'[r] = call[r] /\ pc'[r] \notin {"new", "insertUser"} /\ r \notin inflight'
<1>1. PICK r \in Request : /\ AddUser(r) /\ call' = call
                           /\ \/ pc[r] = "insertUser" /\ Goto(r, "setSession") /\ UNCHANGED inflight
                              \/ r \in inflight /\ UNCHANGED pc /\ inflight' = inflight \ {r}
  BY UsersGrow
<1>2. /\ DOMAIN users' = DOMAIN users \cup {Len(users) + 1}
      /\ users'[Len(users) + 1] = [name |-> StoredName(call[r]), hash |-> Hash[call[r].pass], by |-> r]
  BY <1>1, InsertedRow
<1>3. i = Len(users) + 1 /\ users'[i].by = r
  BY <1>2
<1> QED
  BY <1>1, <1>3 DEF Goto, TypeOK, Phases

\* Only registrations past their INSERT have made users.
LEMMA MakersStep ==
  ASSUME TypeOK, Phases, [Next]_vars, MakersRegistered
  PROVE  MakersRegistered'
<1>1. ASSUME NEW i \in DOMAIN users', users'[i].by # Nil
      PROVE  LET r == users'[i].by IN
             /\ call'[r] # Nil /\ call'[r].op = "register"
             /\ pc'[r] \notin {"new", "insertUser"} /\ r \notin inflight'
  <2>1. CASE i \in DOMAIN users
    <3>1. users'[i] = users[i] /\ users[i] \in User
      BY <2>1, UsersStay DEF TypeOK
    <3>2. users[i].by \in Request
      BY <1>1, <3>1 DEF User
    <3> QED
      BY <1>1, <2>1, <3>1, <3>2, AnsweredStays, InsertedOnce DEF MakersRegistered
  <2>2. CASE i \notin DOMAIN users
    BY <2>2, AddedBy DEF Phases
  <2> QED
    BY <2>1, <2>2
<1>2. ASSUME NEW r \in Request, pc'[r] = "setSession", call'[r].op = "register"
      PROVE  found'[r] # Nil /\ users'[found'[r]].by = r
  <2>1. CASE pc[r] = "setSession"
    <3>1. found'[r] = found[r] /\ call'[r] = call[r]
      BY <2>1, FoundStays
    <3> QED
      BY <1>2, <2>1, <3>1, UsersStay DEF MakersRegistered, TypeOK
  <2>2. CASE InsertUser(r)
    <3>1. /\ found'[r] = Len(users) + 1 /\ Len(users) \in Nat
          /\ users'[found'[r]] = [name |-> StoredName(call[r]), hash |-> Hash[call[r].pass], by |-> r]
      BY <2>2, InsertedRow DEF InsertUser, TypeOK
    <3> QED
      BY <3>1, AuthAssumption
  <2>3. CASE SelectUser(r)
    BY <1>2, <2>3 DEF SelectUser, Phases
  <2> QED
    BY <1>2, <2>1, <2>2, <2>3, FoundStep
<1> QED
  BY <1>1, <1>2 DEF MakersRegistered

\* What RegisterAnswerTrue says of one request.
AnswerTrue(r) ==
  LET made == {i \in DOMAIN users : users[i].by = r} IN
  /\ answer[r].status = 201 => \E i \in made : /\ answer[r].cookie # Nil
                                               /\ Owns(users, i, issued[answer[r].cookie])
  /\ answer[r].status \in {400, 409} => made = {}
  /\ answer[r].status = 409 => Taken(TrimName[call[r].name])

\* What is true of an answer that has been given stays true: the request makes
\* no more users, and users and sessions keep their credentials.
LEMMA TruthStays ==
  ASSUME TypeOK, Phases, [Next]_vars, MakersRegistered, HeldIssued,
         NEW r \in Request, answer[r] # Nil, AnswerTrue(r)
  PROVE  AnswerTrue(r)'
<1>1. pc[r] = "answered" /\ call'[r] = call[r] /\ answer'[r] = answer[r]
  BY AnsweredStays DEF Phases
<1>2. \A i \in DOMAIN users : i \in DOMAIN users' /\ users'[i] = users[i]
  BY UsersStay
<1>3. ASSUME NEW i \in DOMAIN users', users'[i].by = r, answer[r].status # 500
      PROVE  i \in DOMAIN users /\ users[i].by = r
  BY <1>1, <1>2, <1>3, AddedBy DEF Phases
<1>4. answer[r].cookie # Nil => issued'[answer[r].cookie] = issued[answer[r].cookie]
  BY IssuedStays DEF HeldIssued, TypeOK, Response
<1> QED
  BY <1>1, <1>2, <1>3, <1>4 DEF AnswerTrue, Owns, Taken

\* Every answer Register gives is true when it is given.
LEMMA TruthStep ==
  ASSUME TypeOK, Phases, [Next]_vars, SessionsOwned, MakersRegistered,
         NEW r \in Request, answer[r] = Nil, answer'[r] # Nil, call'[r].op = "register"
  PROVE  AnswerTrue(r)'
<1>1. ASSUME pc[r] \in {"new", "insertUser"}, UNCHANGED users, NEW status \in Nat, Reply(r, status, Nil),
             status # 201, status = 409 => Taken(TrimName[call'[r].name])
      PROVE  AnswerTrue(r)'
  <2>1. answer'[r].status = status /\ users' = users
    BY <1>1 DEF Reply, TypeOK
  <2>2. \A i \in DOMAIN users : users[i].by # r
    BY <1>1, AuthAssumption DEF MakersRegistered
  <2> QED
    BY <1>1, <2>1, <2>2 DEF AnswerTrue, Taken
<1>2. ASSUME NEW x \in Request, Receive(x)
      PROVE  AnswerTrue(r)'
  <2>1. PICK c \in Calls, s \in Held \cup {Nil} : AnswerAtOnce(x, c, s) \/ StartCall(x, c, s)
    BY <1>2 DEF Receive
  <2>2. x = r /\ AnswerAtOnce(r, c, s) /\ call'[r] = c
    BY <2>1 DEF AnswerAtOnce, StartCall, Arrive, Reply, Goto, TypeOK
  <2>3. AtOnce(c, s) \in Nat /\ AtOnce(c, s) # 201 /\ AtOnce(c, s) # 409
    <3>1. AtOnce(c, s) # Nil /\ s \in Sid \cup {Nil}
      BY <2>2 DEF AnswerAtOnce, Held
    <3> QED
      BY <3>1, AuthAssumption DEF AtOnce
  <2> QED
    BY <1>1, <2>2, <2>3 DEF AnswerAtOnce, Arrive
<1>3. ASSUME NEW x \in Request, Progress(x) \/ Fail(x)
      PROVE  AnswerTrue(r)'
  <2>1. x = r
    BY <1>3 DEF Progress, InsertUser, NameTaken, GiveUp, SelectUser, SetSession, DelSession, GetSession, RunHandler,
                Fail, InsertReplyLost, SelectFails, SetFails, SetReplyLost, DelFails, GetFails,
                Reply, Goto, TypeOK
  <2>2. call'[r] = call[r] /\ call[r].op = "register"
    BY <1>3 DEF Progress, InsertUser, NameTaken, GiveUp, SelectUser, SetSession, DelSession, GetSession, RunHandler,
                Fail, InsertReplyLost, SelectFails, SetFails, SetReplyLost, DelFails, GetFails
  <2>3. CASE NameTaken(r)
    BY <1>1, <2>2, <2>3 DEF NameTaken, StoredName
  <2>4. ~InsertReplyLost(r)
    BY DEF InsertReplyLost
  <2>5. CASE GiveUp(r) \/ SetFails(r) \/ SetReplyLost(r)
    <3>1. Reply(r, 500, Nil)
      BY <2>5 DEF GiveUp, SetFails, SetReplyLost
    <3> QED
      BY <3>1 DEF Reply, TypeOK, AnswerTrue
  <2>6. CASE SetSession(r)
    <3>1. PICK s \in NewIds : StoreSession(r, s) /\ Reply(r, 201, s)
      BY <2>2, <2>6 DEF SetSession
    <3>2. /\ pc[r] = "setSession" /\ users' = users /\ call[r] \in Calls
          /\ answer'[r].status = 201 /\ answer'[r].cookie = s
      BY <2>6, <3>1 DEF SetSession, Reply, TypeOK, Phases
    <3>3. issued'[s] = CredentialOf(call[r]) /\ s # Nil
      BY <3>1, AuthAssumption DEF StoreSession, NewIds, TypeOK, CredentialOf
    <3>4. /\ found[r] \in DOMAIN users /\ users[found[r]].by = r
          /\ Owns(users, found[r], CredentialOf(call[r]))
      BY <2>2, <3>2 DEF SessionsOwned, MakersRegistered, Owns
    <3> QED
      BY <3>2, <3>3, <3>4 DEF AnswerTrue
  <2>7. ~(SelectUser(r) \/ SelectFails(r) \/ DelSession(r) \/ DelFails(r) \/ GetSession(r) \/ GetFails(r) \/ RunHandler(r))
    BY <2>2 DEF SelectUser, SelectFails, DelSession, DelFails, GetSession, GetFails, RunHandler, Phases
  <2>8. ~InsertUser(r)
    BY DEF InsertUser
  <2> QED
    BY <1>3, <2>1, <2>3, <2>4, <2>5, <2>6, <2>7, <2>8 DEF Progress, Fail
<1>4. CASE Crash \/ UNCHANGED vars \/ (\E s \in Sid : Expire(s)) \/ (\E x \in Request : LateInsert(x))
  BY <1>4 DEF Crash, Expire, LateInsert, vars, requestVars
<1> QED
  BY <1>2, <1>3, <1>4 DEF Next, Idle

\* Register answers the truth: 201 when it made the user whose session the
\* cookie names, 400 and 409 when it made none.
THEOREM RegisterTellsTheTruth == Spec => []RegisterAnswerTrue
<1>1. Init => SessionsOwned /\ HeldIssued /\ MakersRegistered /\ RegisterAnswerTrue
  <2> SUFFICES ASSUME Init PROVE MakersRegistered /\ RegisterAnswerTrue
    BY OwnedInit, HeldInit
  <2>1. \A i \in DOMAIN users : users[i].by = Nil
    BY AuthAssumption DEF Init
  <2> QED
    BY <2>1 DEF Init, MakersRegistered, RegisterAnswerTrue
<1>2. ASSUME TypeOK, Phases, [Next]_vars, SessionsOwned, HeldIssued, MakersRegistered, RegisterAnswerTrue
      PROVE  RegisterAnswerTrue'
  <2> SUFFICES ASSUME NEW r \in Request, answer'[r] # Nil, call'[r].op = "register"
               PROVE  AnswerTrue(r)'
    BY DEF RegisterAnswerTrue, AnswerTrue
  <2>1. CASE answer[r] = Nil
    BY <1>2, <2>1, TruthStep
  <2>2. CASE answer[r] # Nil
    <3>1. call[r].op = "register"
      BY <1>2, <2>2, AnsweredStays DEF Phases
    <3> QED
      BY <1>2, <2>2, <3>1, TruthStays DEF RegisterAnswerTrue, AnswerTrue
  <2> QED
    BY <2>1, <2>2
<1>3. /\ TypeOK /\ Phases /\ [Next]_vars /\ SessionsOwned /\ HeldIssued /\ MakersRegistered
      => SessionsOwned' /\ HeldIssued' /\ MakersRegistered'
  BY OwnedStep, HeldStep, MakersStep
<1> QED
  BY <1>1, <1>2, <1>3, TypeCorrect, PTL DEF Spec

-----------------------------------------------------------------------------
(***************************************************************************)
(* Auth implements Accounts.                                                *)
(***************************************************************************)

\* What the mapping needs of a state: types, places, whose sessions they are,
\* which ids clients hold and who has made users.
PromiseInv == TypeOK /\ Phases /\ SessionsOwned /\ HeldIssued /\ MakersRegistered

\* Stored users are persons, and stay the same persons.
LEMMA PersonsStay ==
  ASSUME TypeOK, Phases, [Next]_vars
  PROVE  \A i \in DOMAIN users : /\ Person(i) \in Credential /\ Person(i) # Nil
                                 /\ i \in DOMAIN users' /\ Person(i)' = Person(i)
<1>1. ASSUME NEW i \in DOMAIN users
      PROVE  Person(i) \in Credential
  <2>1. users[i] \in User
    BY <1>1 DEF TypeOK
  <2> QED
    BY <2>1 DEF User, Credential, Person
<1>2. \A i \in DOMAIN users : i \in DOMAIN users' /\ Person(i)' = Person(i)
  BY UsersStay DEF Person
<1> QED
  BY <1>1, <1>2, AuthAssumption

\* Sessions and contexts that stay belong to the same persons.
LEMMA RolesStay ==
  ASSUME TypeOK, Phases, [Next]_vars
  PROVE  /\ UNCHANGED sessions => UNCHANGED Owner
         /\ UNCHANGED ctx => UNCHANGED Role
<1>1. \A i \in DOMAIN users \cup {Nil} : i # Nil => Person(i)' = Person(i)
  BY PersonsStay
<1>2. ASSUME UNCHANGED sessions
      PROVE  UNCHANGED Owner
  <2>1. \A s \in Sid : sessions[s] # Nil => Person(sessions[s])' = Person(sessions[s])
    BY <1>1, <1>2 DEF TypeOK
  <2> QED
    BY <1>2, <2>1 DEF Owner
<1>3. ASSUME UNCHANGED ctx
      PROVE  UNCHANGED Role
  <2>1. \A r \in Request : ctx[r] # Nil => Person(ctx[r])' = Person(ctx[r])
    BY <1>1, <1>3 DEF TypeOK
  <2> QED
    BY <1>3, <2>1 DEF Role
<1> QED
  BY <1>2, <1>3

\* A step that touches no user, session or context is none of the promise's
\* state, but for what requests are asked and answered.
LEMMA PromiseFrame ==
  ASSUME UNCHANGED users
  PROVE  /\ UNCHANGED <<People, Joined>>
         /\ UNCHANGED sessions => UNCHANGED Owner
         /\ UNCHANGED ctx => UNCHANGED Role
         /\ UNCHANGED issued => UNCHANGED Spent
BY DEF People, Joined, Owner, Role, Spent, Person

\* What happens to a request Postgres has no INSERT of settles nothing.
LEMMA NothingSettled ==
  ASSUME PromiseInv, NEW r \in Request, r \notin inflight, UNCHANGED inflight,
         UNCHANGED answer \/ \E status, s : Reply(r, status, s)
  PROVE  UNCHANGED Unsettled
BY DEF Unsettled, Reply, PromiseInv, TypeOK

\* A request under way is pending, and one that is not past its INSERT, or is
\* no registration, has made nobody.
LEMMA UnderWay ==
  ASSUME PromiseInv, NEW r \in Request, pc[r] \notin {"new", "answered", "lost"}
  PROVE  /\ call[r] \in Calls /\ call[r] # Nil /\ Promise!Pending(r)
         /\ pc[r] # "noReply" => r \notin inflight
         /\ pc[r] = "insertUser" \/ call[r].op # "register" => r \notin Joined
         /\ pc[r] # "handler" => Role[r] = Nil
<1>1. call[r] # Nil /\ call[r] \in Calls /\ answer[r] = Nil
  BY DEF PromiseInv, TypeOK, Phases
<1>2. ASSUME r \in Joined
      PROVE  pc[r] # "insertUser" /\ call[r].op = "register"
  BY <1>2, AuthAssumption DEF Joined, PromiseInv, MakersRegistered
<1>3. pc[r] # "handler" => Role[r] = Nil
  BY DEF PromiseInv, Phases, Role
<1>4. pc[r] # "noReply" => r \notin inflight
  BY DEF PromiseInv, Phases
<1> QED
  BY <1>1, <1>2, <1>3, <1>4 DEF Promise!Pending

\* An answer of the code is an answer of the promise.
LEMMA ReplyTells ==
  ASSUME NEW r \in Request, NEW status, NEW s, Reply(r, status, s)
  PROVE  Promise!Tell(r, status, s)
BY DEF Reply, Promise!Tell, Promise!Msg

\* The promise's person of a call is the credential Auth stores or compares.
LEMMA ClaimedIs ==
  ASSUME NEW c
  PROVE  Promise!Claimed(c) = CredentialOf(c)
BY DEF Promise!Claimed, CredentialOf

-----------------------------------------------------------------------------
\* An arrival is accepted, or refused for a reason its body shows.
LEMMA ReceiveSim ==
  ASSUME PromiseInv, [Next]_vars, NEW r \in Request, Receive(r)
  PROVE  Promise!Next
<1>1. PICK c \in Calls, s \in Held \cup {Nil} : AnswerAtOnce(r, c, s) \/ StartCall(r, c, s)
  BY DEF Receive
<1>2. Arrive(r, c, s) /\ c \in Call
  BY <1>1, CredentialType DEF AnswerAtOnce, StartCall
<1>3. s \in Spent \cup {Nil} /\ s \in Sid \cup {Nil}
  BY DEF Held, Spent, PromiseInv, HeldIssued, TypeOK, Response
<1>4. call[r] = Nil
  BY <1>2 DEF Arrive, PromiseInv, Phases
<1>5. Promise!Ask(r, c, s)
  <2>1. UNCHANGED <<People, Joined, Owner, Role, Spent>>
    BY <1>2, PromiseFrame DEF Arrive
  <2>2. UNCHANGED Unsettled
    <3>1. r \notin inflight /\ UNCHANGED inflight
      BY <1>2 DEF Arrive, PromiseInv, Phases
    <3> QED
      BY <1>1, <3>1, NothingSettled DEF AnswerAtOnce, StartCall
  <2> QED
    BY <1>2, <1>3, <1>4, <2>1, <2>2 DEF Arrive, Promise!Ask
<1>6. CASE AnswerAtOnce(r, c, s)
  <2> DEFINE status == AtOnce(c, s)
  <2>1. status # Nil /\ Promise!Tell(r, status, Nil)
    BY <1>6, ReplyTells DEF AnswerAtOnce
  <2>2. status \in {204, 400, 401, 500} /\ Promise!Reason(c, status)
    BY <1>2, <2>1 DEF AtOnce, Malformed, Promise!Reason, Promise!Incomplete, Promise!Anonymous, Call, Ops
  <2>3. Promise!RefuseAtOnce(r, c, s)
    BY <1>5, <2>1, <2>2 DEF Promise!RefuseAtOnce
  <2> QED
    BY <1>3, <2>3 DEF Promise!Next
<1>7. CASE StartCall(r, c, s)
  <2>1. c.op \in {"register", "login"} => ~Promise!Incomplete(c) /\ ~Promise!Anonymous(c)
    BY <1>7, AuthAssumption DEF StartCall, AtOnce, Malformed, Promise!Incomplete, Promise!Anonymous
  <2>2. Promise!Accept(r, c, s)
    BY <1>5, <1>7, <2>1 DEF StartCall, Promise!Accept
  <2> QED
    BY <1>3, <2>2 DEF Promise!Next
<1> QED
  BY <1>1, <1>6, <1>7

\* The INSERT of a free name makes a person, whoever waits for it.
LEMMA InsertSim ==
  ASSUME PromiseInv, [Next]_vars, NEW r \in Request, InsertUser(r) \/ LateInsert(r)
  PROVE  Promise!Join(r)
<1>1. /\ pc[r] = "insertUser" \/ r \in inflight
      /\ ~Taken(StoredName(call[r])) /\ AddUser(r)
      /\ UNCHANGED <<sessions, issued, call, cookie, ctx, answer>>
      /\ inflight' = inflight \ {r}
  BY DEF InsertUser, LateInsert, requestVars, PromiseInv, Phases
<1>2. call[r] \in Calls /\ call[r] # Nil /\ r \notin Joined /\ call[r].op = "register"
  BY <1>1, AuthAssumption DEF PromiseInv, TypeOK, Phases, MakersRegistered, Joined
<1>10. Promise!Pending(r) \/ r \in Unsettled
  BY <1>1, <1>2, UnderWay DEF Promise!Pending, Unsettled
<1>11. Unsettled' = Unsettled \ {r}
  BY <1>1 DEF Unsettled
<1>3. /\ StoredName(call[r]) = CredentialOf(call[r]).name /\ Hash[call[r].pass] = CredentialOf(call[r]).hash
      /\ CredentialOf(call[r]) = Promise!Claimed(call[r])
  BY <1>2, CredentialType, ClaimedIs
<1>4. \A p \in People : p.name # Promise!Claimed(call[r]).name
  BY <1>1, <1>3 DEF People, Person, Taken
<1>5. PICK n : /\ DOMAIN users' = DOMAIN users \cup {n}
               /\ \A i \in DOMAIN users : users'[i] = users[i]
               /\ users'[n] = [name |-> StoredName(call[r]), hash |-> Hash[call[r].pass], by |-> r]
  BY <1>1, InsertedRow DEF PromiseInv
<1>6. Person(n)' = Promise!Claimed(call[r])
  <2>1. Promise!Claimed(call[r]) = [name |-> StoredName(call[r]), hash |-> Hash[call[r].pass]]
    BY <1>3 DEF CredentialOf
  <2> QED
    BY <1>5, <2>1 DEF Person
<1>7. People' = People \cup {Promise!Claimed(call[r])}
  <2>1. \A i \in DOMAIN users : Person(i)' = Person(i)
    BY <1>5 DEF Person
  <2>2. People' = {Person(i)' : i \in DOMAIN users \cup {n}}
    BY <1>5 DEF People
  <2> QED
    BY <1>6, <2>1, <2>2 DEF People
<1>8. Joined' = Joined \cup {r}
  BY <1>5 DEF Joined
<1>9. UNCHANGED <<Owner, Role, Spent>>
  BY <1>1, RolesStay DEF PromiseInv, Spent
<1> QED
  BY <1>1, <1>2, <1>4, <1>7, <1>8, <1>9, <1>10, <1>11 DEF Promise!Join

\* A registration whose INSERT was lost is told of a failure: it has joined, may
\* still join, or never will.
LEMMA GiveUpSim ==
  ASSUME PromiseInv, NEW r \in Request, GiveUp(r)
  PROVE  Promise!JoinedOnly(r) \/ Promise!Refuse(r)
<1>1. /\ pc[r] = "noReply" /\ UNCHANGED <<users, inflight, sessions, issued, call, cookie, ctx>>
      /\ Reply(r, 500, Nil) /\ Promise!Tell(r, 500, Nil)
  BY ReplyTells DEF GiveUp
<1>2. Promise!Pending(r) /\ Role[r] = Nil /\ call[r].op = "register"
  BY <1>1, UnderWay DEF PromiseInv, Phases
<1>3. UNCHANGED <<People, Joined, Owner, Role, Spent>>
  BY <1>1, PromiseFrame
<1>4. CASE r \in Joined
  <2>1. r \notin inflight
    BY <1>4, AuthAssumption DEF Joined, PromiseInv, MakersRegistered
  <2>2. UNCHANGED Unsettled
    BY <1>1, <2>1, NothingSettled
  <2> QED
    BY <1>1, <1>2, <1>3, <1>4, <2>2 DEF Promise!JoinedOnly
<1>5. CASE r \notin Joined
  <2>1. Promise!Reason(call[r], 500)
    BY <1>2 DEF Promise!Reason
  <2>2. answer'[r].status = 500 /\ \A x \in Request \ {r} : answer'[x] = answer[x]
    BY <1>1 DEF Reply, PromiseInv, TypeOK
  <2>3. UNCHANGED Unsettled \/ Unsettled' = Unsettled \cup {r}
    <3>1. inflight \subseteq Request /\ inflight' = inflight /\ answer[r] = Nil
      BY <1>1 DEF PromiseInv, TypeOK, Phases
    <3>2. CASE r \in inflight /\ answer'[r] # Nil
      BY <2>2, <3>1, <3>2 DEF Unsettled
    <3>3. CASE r \notin inflight \/ answer'[r] = Nil
      BY <2>2, <3>1, <3>3 DEF Unsettled
    <3> QED
      BY <3>2, <3>3
  <2> QED
    BY <1>1, <1>2, <1>3, <1>5, <2>1, <2>2, <2>3 DEF Promise!Refuse
<1> QED
  BY <1>4, <1>5

\* A failing step refuses the request for a reason that holds now; only a
\* registration that has made its person is told nothing but a failure.
LEMMA RefuseSim ==
  ASSUME PromiseInv, NEW r \in Request, UNCHANGED <<users, inflight, sessions, issued, call, cookie, ctx>>,
         pc[r] \in {"insertUser", "selectUser", "delSession", "getSession"},
         NEW status \in {204, 401, 409, 500}, Reply(r, status, Nil), Promise!Reason(call[r], status)
  PROVE  Promise!Refuse(r)
<1>1. Promise!Pending(r) /\ r \notin Joined /\ Role[r] = Nil
  BY UnderWay DEF PromiseInv, Phases
<1>2. UNCHANGED <<People, Joined, Owner, Role, Spent>>
  BY PromiseFrame
<1>3. UNCHANGED Unsettled
  BY UnderWay, NothingSettled
<1> QED
  BY <1>1, <1>2, <1>3, ReplyTells DEF Promise!Refuse

\* Without a session Register and Login answer 500.
LEMMA SetFailsSim ==
  ASSUME PromiseInv, NEW r \in Request, SetFails(r)
  PROVE  Promise!JoinedOnly(r) \/ Promise!Refuse(r)
<1>1. /\ pc[r] = "setSession" /\ UNCHANGED <<users, inflight, sessions, issued, call, cookie, ctx>>
      /\ Promise!Tell(r, 500, Nil) /\ Reply(r, 500, Nil)
  BY ReplyTells DEF SetFails
<1>2. Promise!Pending(r) /\ Role[r] = Nil
  BY <1>1, UnderWay
<1>3. UNCHANGED <<People, Joined, Owner, Role, Spent>>
  BY <1>1, PromiseFrame
<1>4. Promise!Reason(call[r], 500)
  BY <1>1 DEF PromiseInv, Phases, Promise!Reason
<1>5. UNCHANGED Unsettled
  BY <1>1, UnderWay, NothingSettled
<1> QED
  BY <1>1, <1>2, <1>3, <1>4, <1>5 DEF Promise!JoinedOnly, Promise!Refuse

\* A session is granted to the person whose name and password were sent.
LEMMA GrantSim ==
  ASSUME PromiseInv, NEW r \in Request, NEW s \in NewIds, pc[r] = "setSession", StoreSession(r, s),
         UNCHANGED <<users, inflight, call, cookie, ctx>>, \E status, t : Reply(r, status, t),
         Promise!Tell(r, Promise!OkStatus(call[r]), s) \/ Promise!Tell(r, 500, Nil)
  PROVE  s \in Sid /\ Promise!Grant(r, s)
<1>1. Promise!Pending(r) /\ call[r] \in Calls /\ call[r].op \in {"register", "login"}
  BY UnderWay DEF PromiseInv, Phases
<1>2. /\ found[r] # Nil /\ found[r] \in DOMAIN users
      /\ Person(found[r]) = Promise!Claimed(call[r])
      /\ call[r].op = "register" => users[found[r]].by = r
  BY <1>1, ClaimedIs DEF PromiseInv, SessionsOwned, MakersRegistered, Owns, Person, CredentialOf
<1>3. r \in Joined \/ call[r].op = "login"
  BY <1>1, <1>2 DEF Joined
<1>4. Promise!Claimed(call[r]) \in People
  BY <1>2 DEF People
<1>5. s \in Sid /\ s \notin Spent
  BY DEF NewIds, Spent
<1>6. Owner' = [Owner EXCEPT ![s] = Promise!Claimed(call[r])]
  BY <1>2, <1>5 DEF StoreSession, Owner, PromiseInv, TypeOK, Person
<1>7. Spent' = Spent \cup {s}
  <2>1. CredentialOf(call[r]) # Nil
    BY <1>1, CredentialType, AuthAssumption
  <2>2. issued' = [issued EXCEPT ![s] = CredentialOf(call[r])]
    BY DEF StoreSession, CredentialOf
  <2> QED
    BY <1>5, <2>1, <2>2 DEF Spent, PromiseInv, TypeOK
<1>8. UNCHANGED <<People, Joined, Role>>
  BY PromiseFrame
<1>9. UNCHANGED Unsettled
  BY UnderWay, NothingSettled
<1> QED
  BY <1>1, <1>3, <1>4, <1>5, <1>6, <1>7, <1>8, <1>9 DEF Promise!Grant

\* A session ends.
LEMMA EndSim ==
  ASSUME PromiseInv, NEW s \in Sid, sessions' = [sessions EXCEPT ![s] = Nil], UNCHANGED users
  PROVE  Owner' = [Owner EXCEPT ![s] = Nil]
BY DEF Owner, Person, PromiseInv, TypeOK

\* RequireSession lets a request through as the owner of its session.
LEMMA AdmitSim ==
  ASSUME PromiseInv, NEW r \in Request, pc[r] = "getSession", sessions[cookie[r]] # Nil,
         ctx' = [ctx EXCEPT ![r] = sessions[cookie[r]]],
         UNCHANGED <<users, inflight, sessions, issued, call, cookie, answer>>
  PROVE  Promise!Admit(r)
<1>1. /\ Promise!Pending(r) /\ call[r].op = "todo" /\ Role[r] = Nil
      /\ cookie[r] # Nil /\ cookie[r] \in Sid
  BY UnderWay DEF PromiseInv, Phases, TypeOK
<1>2. Owner[cookie[r]] = Person(sessions[cookie[r]]) /\ Owner[cookie[r]] # Nil
  <2>1. sessions[cookie[r]] \in DOMAIN users
    BY <1>1 DEF PromiseInv, TypeOK
  <2>2. users[sessions[cookie[r]]] \in User
    BY <2>1 DEF PromiseInv, TypeOK
  <2>3. Person(sessions[cookie[r]]) \in Credential
    BY <2>2 DEF User, Credential, Person
  <2> QED
    BY <1>1, <2>3, AuthAssumption DEF Owner
<1>3. Role' = [Role EXCEPT ![r] = Owner[cookie[r]]]
  BY <1>2 DEF Role, Person, PromiseInv, TypeOK
<1>4. UNCHANGED <<People, Joined, Owner, Spent>>
  BY PromiseFrame
<1>5. UNCHANGED Unsettled
  BY DEF Unsettled
<1> QED
  BY <1>1, <1>2, <1>3, <1>4, <1>5 DEF Promise!Admit

\* A registration is refused with 409 when somebody has its name.
LEMMA TakenSim ==
  ASSUME PromiseInv, NEW r \in Request, NameTaken(r)
  PROVE  Promise!Refuse(r)
<1>1. call[r] \in Calls /\ call[r].op = "register" /\ pc[r] = "insertUser"
  BY UnderWay DEF NameTaken, PromiseInv, Phases
<1>2. \E p \in People : p.name = Promise!Claimed(call[r]).name
  <2>1. PICK i \in DOMAIN users : users[i].name = StoredName(call[r])
    BY DEF NameTaken, Taken
  <2>2. Person(i) \in People /\ Person(i).name = CredentialOf(call[r]).name
    BY <1>1, <2>1, CredentialType DEF People, Person
  <2> QED
    BY <2>2, ClaimedIs
<1>3. Promise!Reason(call[r], 409)
  BY <1>1, <1>2 DEF Promise!Reason
<1> QED
  BY <1>1, <1>3, RefuseSim DEF NameTaken

\* A login goes on, or is refused with 401 when its name and password are
\* nobody's.
LEMMA SelectSim ==
  ASSUME PromiseInv, NEW r \in Request, SelectUser(r)
  PROVE  Promise!Refuse(r) \/ UNCHANGED Promise!vars
<1>1. call[r] \in Calls /\ call[r].op = "login" /\ pc[r] = "selectUser"
  BY UnderWay DEF SelectUser, PromiseInv, Phases
<1>2. CASE UNCHANGED answer
  BY <1>2, PromiseFrame DEF SelectUser, Unsettled, Promise!vars
<1>3. CASE (\A i \in DOMAIN users : ~Matches(i, call[r])) /\ Reply(r, 401, Nil)
  <2>1. Promise!Claimed(call[r]) \notin People
    BY <1>3, ClaimedIs DEF People, Person, Matches, CredentialOf
  <2>2. Promise!Reason(call[r], 401)
    BY <1>1, <2>1 DEF Promise!Reason
  <2> QED
    BY <1>1, <1>3, <2>2, RefuseSim DEF SelectUser
<1> QED
  BY <1>2, <1>3 DEF SelectUser

\* Each step of a request under way is a step of the promise, or none.
LEMMA ProgressSim ==
  ASSUME PromiseInv, [Next]_vars, NEW r \in Request, Progress(r)
  PROVE  [Promise!Next]_(Promise!vars)
<1>1. CASE InsertUser(r)
  BY <1>1, InsertSim DEF Promise!Next
<1>2. CASE NameTaken(r)
  BY <1>2, TakenSim DEF Promise!Next
<1>3. CASE SelectUser(r)
  BY <1>3, SelectSim DEF Promise!Next
<1>4. CASE SetSession(r)
  <2>1. PICK s \in NewIds : /\ StoreSession(r, s)
                            /\ Reply(r, IF call[r].op = "register" THEN 201 ELSE 200, s)
    BY <1>4 DEF SetSession
  <2>2. Promise!Tell(r, Promise!OkStatus(call[r]), s)
    BY <2>1, ReplyTells DEF Promise!OkStatus
  <2>3. s \in Sid /\ Promise!Grant(r, s)
    BY <1>4, <2>1, <2>2, GrantSim DEF SetSession
  <2> QED
    BY <2>3 DEF Promise!Next
<1>5. CASE DelSession(r)
  <2>1. /\ Promise!Pending(r) /\ call[r].op = "logout" /\ cookie[r] # Nil /\ cookie[r] \in Sid
    BY <1>5, UnderWay DEF DelSession, PromiseInv, Phases, TypeOK
  <2>2. Owner' = [Owner EXCEPT ![cookie[r]] = Nil]
    BY <1>5, <2>1, EndSim DEF DelSession
  <2>5. UNCHANGED Unsettled
    BY <1>5, UnderWay, NothingSettled DEF DelSession
  <2>3. UNCHANGED <<People, Joined, Role, Spent>> /\ Promise!Tell(r, 204, Nil)
    BY <1>5, PromiseFrame, ReplyTells DEF DelSession
  <2>4. Promise!SignOut(r)
    BY <1>5, <2>1, <2>2, <2>3, <2>5 DEF DelSession, Promise!SignOut
  <2> QED
    BY <2>4 DEF Promise!Next
<1>6. CASE GetSession(r)
  <2>1. CASE sessions[cookie[r]] # Nil
    <3>1. Promise!Admit(r)
      BY <1>6, <2>1, AdmitSim DEF GetSession
    <3> QED
      BY <3>1 DEF Promise!Next
  <2>2. CASE sessions[cookie[r]] = Nil
    <3>1. Promise!Reason(call[r], 401)
      BY <1>6 DEF GetSession, PromiseInv, Phases, Promise!Reason
    <3>2. Promise!Refuse(r)
      BY <1>6, <2>2, <3>1, RefuseSim DEF GetSession
    <3> QED
      BY <3>2 DEF Promise!Next
  <2> QED
    BY <2>1, <2>2
<1>7. CASE RunHandler(r)
  <2>1. Promise!Pending(r) /\ Promise!Tell(r, 200, Nil)
    BY <1>7, UnderWay, ReplyTells DEF RunHandler
  <2>2. Role[r] # Nil
    <3>1. ctx[r] # Nil /\ ctx[r] \in DOMAIN users
      BY <1>7 DEF RunHandler, PromiseInv, Phases, TypeOK
    <3> QED
      BY <3>1, PersonsStay DEF Role, PromiseInv
  <2>5. UNCHANGED Unsettled
    BY <1>7, UnderWay, NothingSettled DEF RunHandler
  <2>3. UNCHANGED <<People, Joined, Owner, Role, Spent>>
    BY <1>7, PromiseFrame DEF RunHandler
  <2>4. Promise!Serve(r)
    BY <1>7, <2>1, <2>2, <2>3, <2>5 DEF RunHandler, Promise!Serve
  <2> QED
    BY <2>4 DEF Promise!Next
<1>8. CASE GiveUp(r)
  BY <1>8, GiveUpSim DEF Promise!Next
<1> QED
  BY <1>1, <1>2, <1>3, <1>4, <1>5, <1>6, <1>7, <1>8 DEF Progress

\* Each failure is one the promise allows for, or, when a reply is lost, nothing
\* the promise sees.
LEMMA FailSim ==
  ASSUME PromiseInv, [Next]_vars, NEW r \in Request, Fail(r)
  PROVE  [Promise!Next]_(Promise!vars)
<1>1. CASE InsertReplyLost(r)
  <2>1. UNCHANGED <<users, sessions, call, cookie, ctx, answer, issued>> /\ inflight' = inflight \cup {r}
    BY <1>1 DEF InsertReplyLost
  <2>2. answer[r] = Nil
    BY <1>1 DEF InsertReplyLost, PromiseInv, Phases
  <2>3. UNCHANGED Unsettled
    BY <2>1, <2>2 DEF Unsettled
  <2> QED
    BY <2>1, <2>3, PromiseFrame DEF Promise!vars
<1>2. CASE SetFails(r)
  BY <1>2, SetFailsSim DEF Promise!Next
<1>3. CASE SetReplyLost(r)
  <2>1. PICK s \in NewIds : StoreSession(r, s)
    BY <1>3 DEF SetReplyLost
  <2>2. s \in Sid /\ Promise!Grant(r, s)
    BY <1>3, <2>1, GrantSim, ReplyTells DEF SetReplyLost
  <2> QED
    BY <2>2 DEF Promise!Next
<1>4. CASE SelectFails(r) \/ DelFails(r) \/ GetFails(r)
  <2>1. /\ pc[r] \in {"insertUser", "selectUser", "delSession", "getSession"}
        /\ UNCHANGED <<users, inflight, sessions, issued, call, cookie, ctx>>
        /\ \E status \in {204, 401, 409, 500} : Reply(r, status, Nil) /\ Promise!Reason(call[r], status)
    BY <1>4 DEF SelectFails, DelFails, GetFails, PromiseInv, Phases, Promise!Reason
  <2>2. Promise!Refuse(r)
    BY <2>1, RefuseSim
  <2> QED
    BY <2>2 DEF Promise!Next
<1> QED
  BY <1>1, <1>2, <1>3, <1>4 DEF Fail

\* Every step of Auth is a step of the promise, or none.
LEMMA PromiseStep ==
  ASSUME PromiseInv, [Next]_vars
  PROVE  [Promise!Next]_(Promise!vars)
<1>1. ASSUME NEW s \in Sid, Expire(s)
      PROVE  Promise!Next
  <2>1. Owner' = [Owner EXCEPT ![s] = Nil]
    BY <1>1, EndSim DEF Expire
  <2>2. UNCHANGED <<People, Joined, Role, Spent, Unsettled>>
    BY <1>1, PromiseFrame DEF Expire, requestVars, Unsettled
  <2>3. Promise!Lapse(s)
    BY <1>1, <2>1, <2>2 DEF Expire, requestVars, Promise!Lapse
  <2> QED
    BY <2>3 DEF Promise!Next
<1>2. CASE Crash \/ UNCHANGED vars
  <2>1. UNCHANGED <<users, sessions, call, cookie, ctx, answer, issued>>
    BY <1>2 DEF Crash, vars, requestVars
  <2>2. inflight' \in {inflight, inflight \cup {r \in Request : pc[r] = "insertUser"}}
    BY <1>2 DEF Crash, vars
  <2>3. \A r \in Request : pc[r] = "insertUser" => answer[r] = Nil
    BY DEF PromiseInv, Phases
  <2>4. UNCHANGED Unsettled
    BY <2>1, <2>2, <2>3 DEF Unsettled
  <2> QED
    BY <2>1, <2>4, PromiseFrame DEF Promise!vars
<1>3. ASSUME NEW r \in Request, LateInsert(r)
      PROVE  Promise!Next
  BY <1>3, InsertSim DEF Promise!Next
<1> QED
  BY <1>1, <1>2, <1>3, ReceiveSim, ProgressSim, FailSim DEF Next, Idle

\* The process starts where the promise does.
LEMMA PromiseInit == Init => Promise!Init
<1> SUFFICES ASSUME Init PROVE Promise!Init
  OBVIOUS
<1>1. Owner = InitialIssued
  BY DEF Init, Owner, InitialIssued, Person
<1>2. Joined = {}
  BY AuthAssumption DEF Init, Joined
<1>3. Spent = {s \in Sid : Owner[s] # Nil}
  BY <1>1 DEF Init, Spent
<1>4. Role = [r \in Request |-> Nil]
  BY DEF Init, Role
<1>5. Unsettled = {}
  BY DEF Init, Unsettled
<1> QED
  BY <1>1, <1>2, <1>3, <1>4, <1>5 DEF Init, Promise!Init, People, Person

\* For any requests, calls and faults Auth keeps the promise of Accounts: every
\* step is one of its steps, and what is answered is what it allows.
THEOREM AuthImplementsAccounts == Spec => ImplementsAccounts
<1>1. Init => SessionsOwned /\ HeldIssued /\ MakersRegistered
  <2>1. Init => MakersRegistered
    BY AuthAssumption DEF Init, MakersRegistered
  <2> QED
    BY <2>1, OwnedInit, HeldInit
<1>2. PromiseInv /\ [Next]_vars => SessionsOwned' /\ HeldIssued' /\ MakersRegistered'
  BY OwnedStep, HeldStep, MakersStep DEF PromiseInv
<1>3. Spec => []PromiseInv
  BY <1>1, <1>2, TypeCorrect, PTL DEF Spec, PromiseInv
<1> QED
  BY <1>3, PromiseInit, PromiseStep, PTL DEF Spec, ImplementsAccounts, Promise!Spec
=============================================================================

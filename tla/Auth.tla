-------------------------------- MODULE Auth --------------------------------
(***************************************************************************)
(* Users and sessions: AuthHandler over UserService, PGUserRepo and the      *)
(* session store, and the RequireSession middleware in front of every todo   *)
(* handler.  Every request is a goroutine; a step is one call to Postgres or *)
(* Redis with the local code up to the next such call.                       *)
(*                                                                          *)
(* issued and late are history: no guard of the code reads them.  A row of   *)
(* users is made once and never changes, so its id is its position; its      *)
(* field `by' is history too.                                               *)
(***************************************************************************)
EXTENDS Integers, Sequences

CONSTANTS
  Request,         \* the requests of a behaviour
  Calls,           \* what clients may ask for
  Names,           \* what a client may send as a username
  EmptyName,       \* the username ""
  LongNames,       \* usernames of more than 120 characters
  TrimName,        \* [Names -> Names]: strings.TrimSpace
  Passwords,       \* what a client may send as a password
  EmptyPassword,   \* the password ""
  LongPasswords,   \* passwords of more than 72 bytes, which bcrypt refuses to hash
  Hash,            \* [Passwords -> Passwords]: what CompareHashAndPassword compares of a password
  Sid,             \* session ids
  InitialUsers,    \* the users table when the process starts
  InitialSessions, \* the sessions it finds in Redis, as a function to user ids
  TTL,             \* what NewStore is asked for
  DefaultTTL,      \* sessionTTL
  MaxFaults,       \* bound on failing calls and crashes
  Nil

Ops == {"register", "login", "logout", "todo"}

Call == [op: Ops, name: Names, pass: Passwords]

User == [name: Names, hash: Passwords, by: Request \cup {Nil}]

Credential == [name: Names, hash: Passwords]

ASSUME AuthAssumption ==
  /\ Calls \subseteq Call
  /\ EmptyName \in Names /\ LongNames \subseteq Names
  /\ TrimName \in [Names -> Names]
  /\ \A n \in Names : TrimName[TrimName[n]] = TrimName[n]
  /\ EmptyPassword \in Passwords /\ LongPasswords \subseteq Passwords
  /\ Hash \in [Passwords -> Passwords]
  /\ Nil \notin Request /\ Nil \notin Sid /\ Nil \notin Call /\ Nil \notin Nat /\ Nil \notin Credential
  /\ InitialUsers \in Seq(User)
  /\ \A i, j \in DOMAIN InitialUsers : InitialUsers[i].name = InitialUsers[j].name => i = j
  /\ \A i \in DOMAIN InitialUsers : /\ TrimName[InitialUsers[i].name] = InitialUsers[i].name
                                    /\ InitialUsers[i].by = Nil
  /\ InitialSessions \in [Sid -> DOMAIN InitialUsers \cup {Nil}]
  /\ TTL \in Int /\ DefaultTTL \in Nat \ {0} /\ MaxFaults \in Nat

VARIABLES
  users,    \* the users table
  inflight, \* the requests whose INSERT may still commit, with nobody to hear of it
  sessions, \* Redis: the user id under session:<id>, or Nil
  pc,       \* where each request is
  call,     \* what it was asked
  cookie,   \* the session_id cookie it came with, or Nil
  found,    \* the id of the user the service returned to it, or Nil
  ctx,      \* the user id RequireSession put into its context, or Nil
  answer,   \* its response, or Nil
  faults,   \* how many faults have happened
  issued,   \* per session id, the credentials it was issued for, or Nil
  late      \* per request, whether its session had ended when it arrived

requestVars == <<pc, call, cookie, found, ctx, answer, late>>
vars == <<users, inflight, sessions, faults, issued, requestVars>>

PC == {"new", "insertUser", "noReply", "selectUser", "setSession", "delSession", "getSession", "handler",
       "answered", "lost"}

Response == [status: Nat, cookie: Sid \cup {Nil}]

InitialIssued ==
  [s \in Sid |-> IF InitialSessions[s] = Nil THEN Nil
                 ELSE [name |-> InitialUsers[InitialSessions[s]].name,
                       hash |-> InitialUsers[InitialSessions[s]].hash]]

Init ==
  /\ users = InitialUsers
  /\ inflight = {}
  /\ sessions = InitialSessions
  /\ pc = [r \in Request |-> "new"]
  /\ call = [r \in Request |-> Nil]
  /\ cookie = [r \in Request |-> Nil]
  /\ found = [r \in Request |-> Nil]
  /\ ctx = [r \in Request |-> Nil]
  /\ answer = [r \in Request |-> Nil]
  /\ faults = 0
  /\ issued = InitialIssued
  /\ late = [r \in Request |-> FALSE]

Goto(r, p) == pc' = [pc EXCEPT ![r] = p]

Reply(r, status, s) ==
  /\ Goto(r, "answered")
  /\ answer' = [answer EXCEPT ![r] = [status |-> status, cookie |-> s]]

Fault == faults < MaxFaults /\ faults' = faults + 1

-----------------------------------------------------------------------------
(***************************************************************************)
(* A request arrives: binding, trimming, hashing, reading the cookie.        *)
(***************************************************************************)

Malformed(c) ==
  \/ c.name = EmptyName \/ c.pass = EmptyPassword
  \/ c.op = "register" /\ c.name \in LongNames

\* Mutant of StoredName: Register forgets to trim.
UntrimmedName(c) == c.name

StoredName(c) == TrimName[c.name]

\* What a request is answered without a call to Postgres or Redis, or Nil.
AtOnce(c, s) ==
  CASE c.op \in {"register", "login"} /\ Malformed(c)              -> 400
    [] c.op = "register" /\ TrimName[c.name] = EmptyName           -> 400
    [] c.op = "login" /\ TrimName[c.name] = EmptyName              -> 401
    [] c.op = "register" /\ c.pass \in LongPasswords               -> 500
    [] c.op = "logout" /\ s = Nil                                  -> 204
    [] c.op = "todo" /\ s = Nil                                    -> 401
    [] OTHER                                                       -> Nil

FirstPc(op) ==
  CASE op = "register" -> "insertUser"
    [] op = "login"    -> "selectUser"
    [] op = "logout"   -> "delSession"
    [] op = "todo"     -> "getSession"

\* The cookies clients hold: those a response has set, however long ago.
Held == {s \in Sid : InitialSessions[s] # Nil \/ \E r \in Request : answer[r] # Nil /\ answer[r].cookie = s}

Arrive(r, c, s) ==
  /\ pc[r] = "new"
  /\ call' = [call EXCEPT ![r] = c]
  /\ cookie' = [cookie EXCEPT ![r] = s]
  /\ late' = [late EXCEPT ![r] = s # Nil /\ sessions[s] = Nil]
  /\ UNCHANGED <<users, inflight, sessions, found, ctx, faults, issued>>

AnswerAtOnce(r, c, s) ==
  /\ Arrive(r, c, s) /\ AtOnce(c, s) # Nil
  /\ Reply(r, AtOnce(c, s), Nil)

StartCall(r, c, s) ==
  /\ Arrive(r, c, s) /\ AtOnce(c, s) = Nil
  /\ Goto(r, FirstPc(c.op)) /\ UNCHANGED answer

-----------------------------------------------------------------------------
(***************************************************************************)
(* Register and Login: find or make the user, then make a session.           *)
(***************************************************************************)

Taken(n) == \E i \in DOMAIN users : users[i].name = n

\* Mutant of AddUser: the INSERT runs in a transaction that is never committed.
Uncommitted(r) == UNCHANGED users

AddUser(r) ==
  users' = Append(users, [name |-> StoredName(call[r]), hash |-> Hash[call[r].pass], by |-> r])

InsertUser(r) ==
  /\ pc[r] = "insertUser" /\ ~Taken(StoredName(call[r]))
  /\ AddUser(r)
  /\ found' = [found EXCEPT ![r] = Len(users) + 1]
  /\ Goto(r, "setSession")
  /\ UNCHANGED <<inflight, sessions, call, cookie, ctx, answer, faults, issued, late>>

\* SQLSTATE 23505.
NameTaken(r) ==
  /\ pc[r] = "insertUser" /\ Taken(StoredName(call[r]))
  /\ Reply(r, 409, Nil)
  /\ UNCHANGED <<users, inflight, sessions, call, cookie, found, ctx, faults, issued, late>>

\* No reply to the INSERT comes.  Postgres may have it, and run it to its end at
\* any time, or never.
InsertReplyLost(r) ==
  /\ pc[r] = "insertUser" /\ Fault
  /\ inflight' = inflight \cup {r}
  /\ Goto(r, "noReply")
  /\ UNCHANGED <<users, sessions, call, cookie, found, ctx, answer, issued, late>>

\* Mutant of GiveUp: every error of the INSERT counts as a taken name.
LostIsTaken(r) ==
  /\ pc[r] = "noReply"
  /\ Reply(r, 409, Nil)
  /\ UNCHANGED <<users, inflight, sessions, call, cookie, found, ctx, faults, issued, late>>

\* pgx returns an error that is no 23505.
GiveUp(r) ==
  /\ pc[r] = "noReply"
  /\ Reply(r, 500, Nil)
  /\ UNCHANGED <<users, inflight, sessions, call, cookie, found, ctx, faults, issued, late>>

\* An INSERT nobody waits for commits: before or after its client is told of the
\* error, and also when the process has died meanwhile.
LateInsert(r) ==
  /\ r \in inflight /\ ~Taken(StoredName(call[r]))
  /\ AddUser(r)
  /\ inflight' = inflight \ {r}
  /\ UNCHANGED <<sessions, faults, issued, requestVars>>

\* Mutant of Matches: the result of CompareHashAndPassword is ignored.
MatchesName(i, c) == users[i].name = TrimName[c.name]

Matches(i, c) == users[i].name = TrimName[c.name] /\ users[i].hash = Hash[c.pass]

SelectUser(r) ==
  /\ pc[r] = "selectUser"
  /\ \/ \E i \in DOMAIN users : /\ Matches(i, call[r])
                                /\ found' = [found EXCEPT ![r] = i]
                                /\ Goto(r, "setSession") /\ UNCHANGED answer
     \/ /\ \A i \in DOMAIN users : ~Matches(i, call[r])
        /\ Reply(r, 401, Nil) /\ UNCHANGED found
  /\ UNCHANGED <<users, inflight, sessions, call, cookie, ctx, faults, issued, late>>

\* Mutant of SelectFails: every error of ValidateCredentials answers 401.
SelectFailsAs401(r) ==
  /\ pc[r] = "selectUser" /\ Fault
  /\ Reply(r, 401, Nil)
  /\ UNCHANGED <<users, inflight, sessions, call, cookie, found, ctx, issued, late>>

SelectFails(r) ==
  /\ pc[r] = "selectUser" /\ Fault
  /\ Reply(r, 500, Nil)
  /\ UNCHANGED <<users, inflight, sessions, call, cookie, found, ctx, issued, late>>

\* newSessionID: 128 random bits, never drawn twice.
NewIds == {s \in Sid : issued[s] = Nil}

StoreSession(r, s) ==
  /\ sessions' = [sessions EXCEPT ![s] = found[r]]
  /\ issued' = [issued EXCEPT ![s] = [name |-> TrimName[call[r].name], hash |-> Hash[call[r].pass]]]

SetSession(r) ==
  /\ pc[r] = "setSession"
  /\ \E s \in NewIds : /\ StoreSession(r, s)
                       /\ Reply(r, IF call[r].op = "register" THEN 201 ELSE 200, s)
  /\ UNCHANGED <<users, inflight, call, cookie, found, ctx, faults, late>>

SetFails(r) ==
  /\ pc[r] = "setSession" /\ Fault
  /\ Reply(r, 500, Nil)
  /\ UNCHANGED <<users, inflight, sessions, call, cookie, found, ctx, issued, late>>

\* The session is stored under an id no client will ever learn.
SetReplyLost(r) ==
  /\ pc[r] = "setSession" /\ Fault
  /\ \E s \in NewIds : StoreSession(r, s)
  /\ Reply(r, 500, Nil)
  /\ UNCHANGED <<users, inflight, call, cookie, found, ctx, late>>

-----------------------------------------------------------------------------
(***************************************************************************)
(* Logout, and RequireSession in front of a todo handler.                    *)
(***************************************************************************)

DelSession(r) ==
  /\ pc[r] = "delSession"
  /\ sessions' = [sessions EXCEPT ![cookie[r]] = Nil]
  /\ Reply(r, 204, Nil)
  /\ UNCHANGED <<users, inflight, call, cookie, found, ctx, faults, issued, late>>

\* The error of DEL is dropped.
DelFails(r) ==
  /\ pc[r] = "delSession" /\ Fault
  /\ Reply(r, 204, Nil)
  /\ UNCHANGED <<users, inflight, sessions, call, cookie, found, ctx, issued, late>>

GetSession(r) ==
  /\ pc[r] = "getSession"
  /\ \/ /\ sessions[cookie[r]] # Nil
        /\ ctx' = [ctx EXCEPT ![r] = sessions[cookie[r]]]
        /\ Goto(r, "handler") /\ UNCHANGED answer
     \/ /\ sessions[cookie[r]] = Nil
        /\ Reply(r, 401, Nil) /\ UNCHANGED ctx
  /\ UNCHANGED <<users, inflight, sessions, call, cookie, found, faults, issued, late>>

\* A Redis error counts as no session.
GetFails(r) ==
  /\ pc[r] = "getSession" /\ Fault
  /\ Reply(r, 401, Nil)
  /\ UNCHANGED <<users, inflight, sessions, call, cookie, found, ctx, issued, late>>

\* Mutant of RunHandler: the session is renewed when its request ends.
RenewSession(r) ==
  /\ pc[r] = "handler"
  /\ sessions' = [sessions EXCEPT ![cookie[r]] = ctx[r]]
  /\ Reply(r, 200, Nil)
  /\ UNCHANGED <<users, inflight, call, cookie, found, ctx, faults, issued, late>>

\* The todo handler runs, as the user in its context, and never looks at the
\* session again.
RunHandler(r) ==
  /\ pc[r] = "handler"
  /\ Reply(r, 200, Nil)
  /\ UNCHANGED <<users, inflight, sessions, call, cookie, found, ctx, faults, issued, late>>

-----------------------------------------------------------------------------
(***************************************************************************)
(* The environment.                                                         *)
(***************************************************************************)

StoreTTL == IF TTL <= 0 THEN DefaultTTL ELSE TTL

\* go-redis sends no expiry for a TTL that is not positive.
Expire(s) ==
  /\ StoreTTL > 0 /\ sessions[s] # Nil
  /\ sessions' = [sessions EXCEPT ![s] = Nil]
  /\ UNCHANGED <<users, inflight, faults, issued, requestVars>>

\* The process dies and is restarted; Postgres and Redis keep what they have, and
\* Postgres the statements it has been sent.
Crash ==
  /\ Fault
  /\ pc' = [r \in Request |-> IF pc[r] \in {"new", "answered"} THEN pc[r] ELSE "lost"]
  /\ inflight' = inflight \cup {r \in Request : pc[r] = "insertUser"}
  /\ UNCHANGED <<users, sessions, issued, call, cookie, found, ctx, answer, late>>

Idle ==
  /\ \A r \in Request : pc[r] \in {"answered", "lost"}
  /\ UNCHANGED vars

Receive(r) == \E c \in Calls, s \in Held \cup {Nil} : AnswerAtOnce(r, c, s) \/ StartCall(r, c, s)

Progress(r) ==
  \/ InsertUser(r) \/ NameTaken(r) \/ GiveUp(r) \/ SelectUser(r) \/ SetSession(r)
  \/ DelSession(r) \/ GetSession(r) \/ RunHandler(r)

Fail(r) ==
  \/ InsertReplyLost(r) \/ SelectFails(r)
  \/ SetFails(r) \/ SetReplyLost(r) \/ DelFails(r) \/ GetFails(r)

Next ==
  \/ \E r \in Request : Receive(r) \/ Progress(r) \/ Fail(r) \/ LateInsert(r)
  \/ \E s \in Sid : Expire(s)
  \/ Crash \/ Idle

Spec == Init /\ [][Next]_vars

-----------------------------------------------------------------------------
(***************************************************************************)
(* Properties.                                                              *)
(***************************************************************************)

\* Every variable holds what the Go, SQL or Redis value it models can hold, and
\* every user id, in Redis or in a request, is that of a stored user.
TypeOK ==
  /\ users \in Seq(User)
  /\ inflight \subseteq Request
  /\ sessions \in [Sid -> DOMAIN users \cup {Nil}]
  /\ pc \in [Request -> PC]
  /\ call \in [Request -> Calls \cup {Nil}]
  /\ cookie \in [Request -> Sid \cup {Nil}]
  /\ found \in [Request -> DOMAIN users \cup {Nil}]
  /\ ctx \in [Request -> DOMAIN users \cup {Nil}]
  /\ answer \in [Request -> Response \cup {Nil}]
  /\ faults \in Nat
  /\ issued \in [Sid -> Credential \cup {Nil}]
  /\ late \in [Request -> BOOLEAN]

\* However registrations race, no two users have names that differ only in
\* spaces around them.
NamesUnique ==
  \A i, j \in DOMAIN users : TrimName[users[i].name] = TrimName[users[j].name] => i = j

\* Row i of table t is the user of credential k.
Owns(t, i, k) == i \in DOMAIN t /\ t[i].name = k.name /\ t[i].hash = k.hash

\* A request that has passed RequireSession runs as the user whose name and
\* password were presented for the session its cookie names, whatever has
\* become of the session since.
ActsAsOwner ==
  \A r \in Request : ctx[r] # Nil =>
    cookie[r] # Nil /\ issued[cookie[r]] # Nil /\ Owns(users, ctx[r], issued[cookie[r]])

\* No request that arrives after its session has ended, by Logout or by expiry,
\* passes RequireSession: no session comes back.
LateRequestsRefused == \A r \in Request : late[r] => ctx[r] = Nil

\* The answer of Register tells what it did: 201 that the user was made and the
\* cookie names its session, 400 or 409 that this request made no user, 409 that
\* another one has the name.
RegisterAnswerTrue ==
  \A r \in Request : answer[r] # Nil /\ call[r].op = "register" =>
    LET made == {i \in DOMAIN users : users[i].by = r} IN
    /\ answer[r].status = 201 => \E i \in made : /\ answer[r].cookie # Nil
                                                 /\ Owns(users, i, issued[answer[r].cookie])
    /\ answer[r].status \in {400, 409} => made = {}
    /\ answer[r].status = 409 => Taken(TrimName[call[r].name])

Person(i) == [name |-> users[i].name, hash |-> users[i].hash]

People == {Person(i) : i \in DOMAIN users}

Owner == [s \in Sid |-> IF sessions[s] = Nil THEN Nil ELSE Person(sessions[s])]

Spent == {s \in Sid : issued[s] # Nil}

Joined == {r \in Request : \E i \in DOMAIN users : users[i].by = r}

\* The requests told of an error while Postgres still has their INSERT.
Unsettled == {r \in inflight : answer[r] # Nil}

Role == [r \in Request |-> IF ctx[r] = Nil THEN Nil ELSE Person(ctx[r])]

Promise == INSTANCE Accounts WITH
  InitialPeople <- {[name |-> InitialUsers[i].name, hash |-> InitialUsers[i].hash] : i \in DOMAIN InitialUsers},
  InitialOwner <- InitialIssued,
  people <- People, owner <- Owner, spent <- Spent, asked <- call, shown <- cookie,
  joined <- Joined, role <- Role, reply <- answer, unsettled <- Unsettled

\* However requests race and whichever call fails or loses its reply: a
\* registration makes one person or none, and none, for good, if it is answered
\* 400 or 409;
\* 401 tells a login that its name and password belonged to nobody at that
\* moment; a session is granted under an id never used before, to the person
\* whose name and password were sent, and an answer carries that id only if it
\* was granted to this very request; a todo request is served as the person who
\* owned its session at one moment between its arrival and its answer.
ImplementsAccounts == Promise!Spec
=============================================================================

-------------------------------- MODULE Api --------------------------------
(***************************************************************************)
(* The whole API of one server process: Auth and TodoService side by side,   *)
(* as Setup wires them.  A todo request goes through RequireSession (Auth),  *)
(* its handler runs in TodoService as the user RequireSession put into its   *)
(* context, and the handler's return is the end of the request in Auth.  The *)
(* two share the process and its crashes, and nothing else: todos.user_id    *)
(* refers to a row of users.                                                *)
(***************************************************************************)
EXTENDS TodoService

CONSTANTS
  AuthCalls,       \* Calls of Auth
  Names, EmptyName, LongNames, TrimName, Passwords, EmptyPassword, LongPasswords, Hash,
  Sid, InitialUsers, InitialSessions,
  SessionTTL,      \* TTL of Auth
  DefaultTTL

VARIABLES
  users, sessions, cookie, ctx, issued, late, \* as in Auth
  registering, \* inflight of Auth
  asked,       \* call of Auth
  step,        \* pc of Auth
  account,     \* found of Auth
  sent,        \* answer of Auth
  authFaults

AuthApi == INSTANCE Auth WITH Calls <- AuthCalls, TTL <- SessionTTL, call <- asked, pc <- step, inflight <- registering,
                              found <- account, answer <- sent, faults <- authFaults

authVars == <<users, registering, sessions, cookie, ctx, issued, late, asked, step, account, sent,
              authFaults>>

ASSUME AuthPartAssumption == AuthApi!AuthAssumption

\* The rows the table starts with are those of stored users.
ASSUME ApiAssumption == \A i \in DOMAIN InitialTodos : InitialTodos[i].owner \in DOMAIN InitialUsers

ApiInit == Init /\ AuthApi!Init

\* Auth's part of a request: all of it, but for the time in the handler.
AuthStep(r) ==
  /\ step[r] # "handler"
  /\ AuthApi!Receive(r) \/ AuthApi!Progress(r) \/ AuthApi!Fail(r)
  /\ UNCHANGED vars

\* Mutant of Caller: the handler trusts the id in the request.
AnyCaller(r) == Users

\* UserIDFromContext.
Caller(r) == {ctx[r]}

\* c.Next() after RequireSession: the handler starts.
HandlerStarts(r) ==
  /\ step[r] = "handler"
  /\ \E c \in Calls :
       /\ c.user \in Caller(r)
       /\ Refuse(r, c) \/ StartCall(r, c) \/ LeadFlight(r, c) \/ JoinFlight(r, c)
  /\ UNCHANGED authVars

HandlerRuns(r) ==
  /\ Fill(r) \/ Statement(r) \/ Invalidate(r) \/ Fail(r)
  /\ UNCHANGED authVars

\* The response of the handler is the response of the request.
HandlerReturns(r) ==
  /\ pc[r] = "answered"
  /\ AuthApi!RunHandler(r)
  /\ UNCHANGED vars

\* One process: what is lost, is lost together.
ApiCrash == Crash /\ AuthApi!Crash

ApiEnvironment ==
  \/ (\E r \in Request : LateCommit(r)) /\ UNCHANGED authVars
  \/ ((\E k \in Key : Expire(k)) \/ Tick) /\ UNCHANGED authVars
  \/ (\E s \in Sid : AuthApi!Expire(s)) /\ UNCHANGED vars
  \/ (\E r \in Request : AuthApi!LateInsert(r)) /\ UNCHANGED vars
  \/ AuthApi!Idle /\ UNCHANGED vars

ApiNext ==
  \/ \E r \in Request : AuthStep(r) \/ HandlerStarts(r) \/ HandlerRuns(r) \/ HandlerReturns(r)
  \/ ApiCrash \/ ApiEnvironment

ApiSpec == ApiInit /\ [][ApiNext]_<<vars, authVars>>

-----------------------------------------------------------------------------
(***************************************************************************)
(* Properties.                                                              *)
(***************************************************************************)

\* User u is the one whose name and password were presented for the session
\* that the cookie of r names, and that session had not ended when r arrived.
Presented(r, u) ==
  /\ ~late[r]
  /\ cookie[r] # Nil /\ issued[cookie[r]] # Nil
  /\ AuthApi!Owns(users, u, issued[cookie[r]])

\* End to end, through RequireSession, the cache and the flights of others: a
\* todo request is answered with rows of the user whose name and password were
\* presented for its session, and of nobody else.
AnswersAreOwn ==
  \A r \in Request : step[r] = "answered" /\ answer[r] # Nil =>
    \A it \in answer[r].rows : Presented(r, it.row.owner)

\* A row is made and changed only by a request of its owner, identified by name
\* and password through a session that had not ended when the request arrived,
\* however late the statement runs.
RowsChangeForOwner ==
  [][\A i \in DOMAIN todos' : i \notin DOMAIN todos \/ todos'[i] # todos[i] =>
       \E r \in Request : wrote'[r] # wrote[r] /\ Presented(r, todos'[i].owner)]_<<vars, authVars>>

\* todos.user_id REFERENCES users: no INSERT can fail for a user that does not
\* exist, since no session names one.
OwnersExist == \A i \in DOMAIN todos : todos[i].owner \in DOMAIN users
=============================================================================

------------------------------ MODULE Accounts ------------------------------
(***************************************************************************)
(* What Register, Login, Logout and RequireSession promise, without tables,  *)
(* keys or calls that fail: a person joins once and for good, a session is    *)
(* granted to one person under an id never granted before, ends once, and     *)
(* lets a request through only while it lasts; every refusal has its reason.  *)
(***************************************************************************)
CONSTANTS Request, Calls, Sid, Nil, EmptyName, LongNames, TrimName, EmptyPassword, Hash,
          InitialPeople, InitialOwner

VARIABLES
  people,    \* the persons who have joined, each a name and a password
  owner,     \* per session id, the person it is granted to, or Nil
  spent,     \* the session ids that have been granted
  asked,     \* per request, what it was asked, or Nil
  shown,     \* per request, the session id it came with, or Nil
  joined,    \* the requests that have made a person
  role,      \* per request, the person it was let through as, or Nil
  reply,     \* per request, its status and session id, or Nil
  unsettled  \* the requests told of an error that may still make a person

vars == <<people, owner, spent, asked, shown, joined, role, reply, unsettled>>

Init ==
  /\ people = InitialPeople
  /\ owner = InitialOwner
  /\ spent = {s \in Sid : owner[s] # Nil}
  /\ asked = [r \in Request |-> Nil]
  /\ shown = [r \in Request |-> Nil]
  /\ joined = {}
  /\ role = [r \in Request |-> Nil]
  /\ reply = [r \in Request |-> Nil]
  /\ unsettled = {}

\* The person a call names.
Claimed(c) == [name |-> TrimName[c.name], hash |-> Hash[c.pass]]

\* The body lacks what its binding asks for.
Incomplete(c) ==
  \/ c.name = EmptyName \/ c.pass = EmptyPassword
  \/ c.op = "register" /\ c.name \in LongNames

Anonymous(c) == TrimName[c.name] = EmptyName

Msg(status, s) == [status |-> status, cookie |-> s]

OkStatus(c) == IF c.op = "register" THEN 201 ELSE 200

\* What c may be refused with now if it has made nobody.
Reason(c, status) ==
  \/ c.op \in {"register", "login"} /\ Incomplete(c) /\ status = 400
  \/ c.op \in {"register", "login"} /\ status = 500
  \/ c.op = "register" /\ Anonymous(c) /\ status = 400
  \/ c.op = "register" /\ (\E p \in people : p.name = Claimed(c).name) /\ status = 409
  \/ c.op = "login" /\ (Anonymous(c) \/ Claimed(c) \notin people) /\ status = 401
  \/ c.op = "logout" /\ status = 204
  \/ c.op = "todo" /\ status = 401

Pending(r) == asked[r] # Nil /\ reply[r] = Nil

Tell(r, status, s) == reply' = [reply EXCEPT ![r] = Msg(status, s)]

-----------------------------------------------------------------------------
Ask(r, c, s) ==
  /\ asked[r] = Nil /\ s \in spent \cup {Nil}
  /\ asked' = [asked EXCEPT ![r] = c]
  /\ shown' = [shown EXCEPT ![r] = s]
  /\ UNCHANGED <<people, owner, spent, joined, role, unsettled>>

\* What is incomplete or anonymous never gets past this.
Accept(r, c, s) ==
  /\ Ask(r, c, s) /\ UNCHANGED reply
  /\ c.op \in {"register", "login"} => ~Incomplete(c) /\ ~Anonymous(c)

RefuseAtOnce(r, c, s) ==
  /\ Ask(r, c, s)
  /\ \E status \in {204, 400, 401, 500} : Reason(c, status) /\ Tell(r, status, Nil)

Refuse(r) ==
  /\ Pending(r) /\ r \notin joined /\ role[r] = Nil
  /\ \E status \in {204, 401, 409, 500} : Reason(asked[r], status) /\ Tell(r, status, Nil)
  /\ UNCHANGED <<people, owner, spent, asked, shown, joined, role>>
  /\ \/ UNCHANGED unsettled
     \/ asked[r].op = "register" /\ reply'[r].status = 500 /\ unsettled' = unsettled \cup {r}

\* Somebody joins, once, under a name nobody has, if need be after an error.
Join(r) ==
  /\ Pending(r) \/ r \in unsettled
  /\ asked[r].op = "register" /\ r \notin joined
  /\ \A p \in people : p.name # Claimed(asked[r]).name
  /\ people' = people \cup {Claimed(asked[r])}
  /\ joined' = joined \cup {r}
  /\ unsettled' = unsettled \ {r}
  /\ UNCHANGED <<owner, spent, asked, shown, role, reply>>

\* Who has joined and gets no session is told of an error.
JoinedOnly(r) ==
  /\ Pending(r) /\ r \in joined
  /\ Tell(r, 500, Nil)
  /\ UNCHANGED <<people, owner, spent, asked, shown, joined, role, unsettled>>

\* A session for the person who has just joined, or who is known by name and
\* password; the reply, with the id, may be lost.
Grant(r, s) ==
  /\ Pending(r)
  /\ r \in joined \/ asked[r].op = "login"
  /\ Claimed(asked[r]) \in people
  /\ s \notin spent
  /\ owner' = [owner EXCEPT ![s] = Claimed(asked[r])]
  /\ spent' = spent \cup {s}
  /\ Tell(r, OkStatus(asked[r]), s) \/ Tell(r, 500, Nil)
  /\ UNCHANGED <<people, asked, shown, joined, role, unsettled>>

SignOut(r) ==
  /\ Pending(r) /\ asked[r].op = "logout" /\ shown[r] # Nil
  /\ owner' = [owner EXCEPT ![shown[r]] = Nil]
  /\ Tell(r, 204, Nil)
  /\ UNCHANGED <<people, spent, asked, shown, joined, role, unsettled>>

\* RequireSession lets r through as the owner of the session, for good.
Admit(r) ==
  /\ Pending(r) /\ asked[r].op = "todo" /\ role[r] = Nil
  /\ shown[r] # Nil /\ owner[shown[r]] # Nil
  /\ role' = [role EXCEPT ![r] = owner[shown[r]]]
  /\ UNCHANGED <<people, owner, spent, asked, shown, joined, reply, unsettled>>

Serve(r) ==
  /\ Pending(r) /\ role[r] # Nil
  /\ Tell(r, 200, Nil)
  /\ UNCHANGED <<people, owner, spent, asked, shown, joined, role, unsettled>>

Lapse(s) ==
  /\ owner' = [owner EXCEPT ![s] = Nil]
  /\ UNCHANGED <<people, spent, asked, shown, joined, role, reply, unsettled>>

Next ==
  \/ \E r \in Request, c \in Calls, s \in Sid \cup {Nil} : Accept(r, c, s) \/ RefuseAtOnce(r, c, s)
  \/ \E r \in Request : Join(r) \/ JoinedOnly(r) \/ SignOut(r) \/ Admit(r) \/ Serve(r) \/ Refuse(r)
  \/ \E r \in Request, s \in Sid : Grant(r, s)
  \/ \E s \in Sid : Lapse(s)

Spec == Init /\ [][Next]_vars
=============================================================================

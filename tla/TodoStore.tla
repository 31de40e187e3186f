------------------------------ MODULE TodoStore ------------------------------
(***************************************************************************)
(* What the todo API promises its clients, without cache, flights, keys or   *)
(* steps: one table, on which an accepted write takes effect in one step, at *)
(* most once and not before it was asked for, and whose lists are states the *)
(* table has been in.  A write that is told of its success has had its       *)
(* effect, one that is told that there is no such row never has one; one     *)
(* that is told of an error may have had it, or have it later, or never.     *)
(***************************************************************************)
EXTENDS TodoTable

CONSTANTS Request, Calls, Trim, InitialTodos

VARIABLES
  table,     \* the todos
  clock,
  past,      \* every moment so far: the table and the clock
  window,    \* per request, the moments since it was asked, up to its reply
  asked,     \* per request, what it was asked, or Nil
  acted,     \* per request, whether it has had its effect
  result,    \* per request, the rows its effect returned
  reply,     \* per request, its status and rows, or Nil
  unsettled  \* the requests told of an error whose effect may still come

vars == <<table, clock, past, window, asked, acted, result, reply, unsettled>>

Moment == [t |-> table, n |-> clock]

Init ==
  /\ table = InitialTodos
  /\ clock = 0
  /\ past = {Moment}
  /\ window = [r \in Request |-> {Moment}]
  /\ asked = [r \in Request |-> Nil]
  /\ acted = [r \in Request |-> FALSE]
  /\ result = [r \in Request |-> {}]
  /\ reply = [r \in Request |-> Nil]
  /\ unsettled = {}

Found(t, c) == Hits(t, c.user, c.id)

Late(c, n) == c.due # Nil /\ c.due < n

Unacceptable(c) ==
  \/ c.op \in {"get", "update", "complete", "delete"} /\ c.id <= 0
  \/ c.op \in {"create", "update"} /\ c.text = EmptyText
  \/ c.op = "create" /\ Late(c, clock)

OkStatus(c) == CASE c.op = "create" -> 201 [] c.op = "delete" -> 204 [] OTHER -> 200
ErrStatus(c) == IF c.op = "create" THEN 400 ELSE 500

Msg(status, rows) == [status |-> status, rows |-> rows]

Item1(t, i) == {[id |-> i, row |-> t[i]]}

Accept(r, c) ==
  /\ asked[r] = Nil /\ ~Unacceptable(c)
  /\ asked' = [asked EXCEPT ![r] = c]
  /\ UNCHANGED <<table, clock, acted, result, reply, unsettled>>

Refuse(r, c) ==
  /\ asked[r] = Nil /\ Unacceptable(c)
  /\ asked' = [asked EXCEPT ![r] = c]
  /\ reply' = [reply EXCEPT ![r] = Msg(400, {})]
  /\ UNCHANGED <<table, clock, acted, result, unsettled>>

\* The fields c carries over those of a row that was there while c was under way.
Merged(row, c) ==
  [row EXCEPT !.text = IF c.text = Nil THEN @ ELSE Trim[c.text],
              !.due  = IF c.due = Nil THEN @ ELSE c.due,
              !.done = IF c.done = Nil THEN @ ELSE c.done]

\* The effect of r, and the rows it returns.
Effect(r) ==
  LET c == asked[r] IN
  \/ c.op = "create" /\ table' = InsertRow(table, c.user, Trim[c.text], c.due)
  \/ /\ Found(table, c)
     /\ \/ /\ c.op = "update"
           /\ \E m \in window[r] : /\ Found(m.t, c) /\ ~Late(c, m.n)
                                   /\ table' = UpdateRow(table, c.id, Merged(m.t[c.id], c))
        \/ c.op = "complete" /\ table' = MarkDone(table, c.id)
        \/ c.op = "delete" /\ table' = SoftDelete(table, c.id)

Returned(t, c) ==
  CASE c.op = "create" -> Item1(t, Len(t)) [] c.op = "delete" -> {} [] OTHER -> Item1(t, c.id)

Pending(r) == asked[r] # Nil /\ reply[r] = Nil

Act(r) ==
  /\ ~acted[r]
  /\ Pending(r) \/ r \in unsettled
  /\ Effect(r)
  /\ acted' = [acted EXCEPT ![r] = TRUE]
  /\ result' = [result EXCEPT ![r] = Returned(table', asked[r])]
  /\ unsettled' = unsettled \ {r}
  /\ UNCHANGED <<clock, asked, reply>>

Failure(r) == Msg(ErrStatus(asked[r]), {})

\* What r may be told now.
Truthful(r, msg) ==
  LET c == asked[r] IN
  \/ acted[r] /\ msg \in {Msg(OkStatus(c), result[r]), Failure(r)}
  \/ /\ ~acted[r]
     /\ \/ msg = Failure(r)
        \/ /\ c.op \in {"list", "search", "overdue"}
           /\ \E m \in past : msg = Msg(200, Rows(m.t, m.n, c.op, c.user, c.q))
        \/ c.op = "get" /\ Found(table, c) /\ msg = Msg(200, Item1(table, c.id))
        \/ c.op \in {"get", "update", "complete"} /\ ~Found(table, c) /\ msg = Msg(404, {})
        \/ c.op = "update" /\ Found(table, c) /\ Late(c, clock) /\ msg = Msg(400, {})
        \/ c.op = "delete" /\ (\E m \in window[r] : ~Found(m.t, c)) /\ msg = Msg(204, {})

\* A set of requests is answered, several at once when they shared a query.
\* An error need not be the end of it.
Tell(S) ==
  /\ \A r \in S : Pending(r) /\ Truthful(r, reply'[r])
  /\ reply' = [r \in Request |-> IF r \in S THEN reply'[r] ELSE reply[r]]
  /\ \E U \in SUBSET {r \in S : ~acted[r] /\ reply'[r] = Failure(r)} : unsettled' = unsettled \cup U
  /\ UNCHANGED <<table, clock, asked, acted, result>>

Tick == clock' = clock + 1 /\ UNCHANGED <<table, asked, acted, result, reply, unsettled>>

\* Every step is a moment, for all requests under way.
Remember ==
  /\ past' = past \cup {Moment'}
  /\ window' = [r \in Request |-> IF asked[r] = Nil THEN {Moment'}
                                  ELSE IF reply[r] = Nil THEN window[r] \cup {Moment'}
                                  ELSE window[r]]

Next ==
  /\ \/ \E r \in Request, c \in Calls : Accept(r, c) \/ Refuse(r, c)
     \/ \E r \in Request : Act(r)
     \/ \E S \in SUBSET Request : Tell(S)
     \/ Tick
  /\ Remember

Spec == Init /\ [][Next]_vars
=============================================================================

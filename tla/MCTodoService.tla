---------------------------- MODULE MCTodoService ----------------------------
EXTENDS TodoService, TLC

MCTexts == {"", " ", "milk", "tea"}
MCQueries == {"milk", " milk", "MILK", " MILK"}
MCTrimQuery == [q \in MCQueries |-> CASE q = " milk" -> "milk" [] q = " MILK" -> "MILK" [] OTHER -> q]
MCLowerCase == [q \in MCQueries |-> CASE q = "MILK" -> "milk" [] q = " MILK" -> " milk" [] OTHER -> q]
MCContains == {<<"milk", "milk">>}
MCTrim == [t \in MCTexts |-> IF t = " " THEN "" ELSE t]

\* "1" is a prefix of "10".
MCUsers == {1, 10}

\* A todo of each user; the first is overdue at 1, the second is not.
MCTodos == <<[owner |-> 1, text |-> "milk", done |-> FALSE, due |-> 0, deleted |-> FALSE],
             [owner |-> 10, text |-> "milk", done |-> FALSE, due |-> 1, deleted |-> FALSE]>>

MCWarm == {k \in Key : k.user = 10 \/ k.view = "list"}

MCCall(op, u, id, text, due, done, q) ==
  [op |-> op, user |-> u, id |-> id, text |-> text, due |-> due, done |-> done, q |-> q]

Ask(view, u) == MCCall(view, u, 0, Nil, Nil, Nil, Nil)
Search(u, q) == MCCall("search", u, 0, Nil, Nil, Nil, q)
OnRow(op, u, id) == MCCall(op, u, id, Nil, Nil, Nil, Nil)

ReadCalls == {Ask("list", 1), Ask("overdue", 1), Search(1, "milk"), Search(1, " MILK"), Search(10, "milk")}

\* Every operation, those of user 10 on the row of user 1 included.
RaceCalls == ReadCalls \cup
  {MCCall("create", 1, 0, "milk", 1, Nil, Nil),
   MCCall("update", 1, 1, "tea", Nil, Nil, Nil),
   OnRow("complete", 1, 1), OnRow("complete", 10, 1), OnRow("delete", 1, 1)}

LivenessCalls ==
  {Ask("list", 1), Ask("overdue", 1), Search(10, "milk"),
   MCCall("update", 1, 1, "tea", Nil, Nil, Nil), OnRow("delete", 10, 2),
   OnRow("get", 1, 1), OnRow("get", 1, 0)}

\* A PATCH of the title beside a completion.
PatchCalls == {MCCall("update", 1, 1, "tea", Nil, Nil, Nil), OnRow("complete", 1, 1)}

WriteCalls == {MCCall("create", 1, 0, " ", Nil, Nil, Nil), OnRow("delete", 1, 1)}

Symmetry == Permutations(Request)
=============================================================================

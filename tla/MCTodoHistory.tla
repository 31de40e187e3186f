--------------------------- MODULE MCTodoHistory ---------------------------
EXTENDS TodoHistory, MCTodoService

\* Each kind of write, and the reads it meets; a due date that has passed, ids
\* that are no ids or those of others.
FailureCalls ==
  {Ask("list", 1), Ask("overdue", 1), Search(1, " MILK"),
   MCCall("create", 1, 0, " ", 0, Nil, Nil),
   MCCall("update", 1, 1, "tea", 0, Nil, Nil), MCCall("update", 1, 1, "milk", Nil, TRUE, Nil),
   OnRow("get", 1, 1), OnRow("get", 1, 0), OnRow("complete", 10, 1),
   OnRow("complete", 1, 1), OnRow("delete", 1, 1)}
=============================================================================

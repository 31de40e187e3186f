------------------------------- MODULE MCAuth -------------------------------
EXTENDS Auth

CONSTANTS s1, s2, s3, s4

MCSid == {s1, s2, s3, s4}

\* " bob" is "bob" with a space, "x121" is too long.
MCNames == {"", " ", "bob", " bob", "admin", "x121"}
MCTrim == [n \in MCNames |-> IF n = " " THEN "" ELSE IF n = " bob" THEN "bob" ELSE n]

\* "q73" is "q72" with one more byte, which bcrypt does not compare.
MCPasswords == {"", "p", "q72", "q73"}
MCHash == [p \in MCPasswords |-> IF p = "q73" THEN "q72" ELSE p]

\* What migration 00002 leaves, with a session from before the start.
MCUsers == <<[name |-> "admin", hash |-> "p", by |-> Nil]>>
MCSessions == [s \in MCSid |-> IF s = s1 THEN 1 ELSE Nil]

MCCall(op, n, p) == [op |-> op, name |-> n, pass |-> p]

\* Logout and the todo routes have no body.
Bare(op) == MCCall(op, "", "")

\* Every operation, with what Register and Login refuse at each of their checks.
MCCalls ==
  {Bare("logout"), Bare("todo"),
   MCCall("register", "bob", "p"), MCCall("register", " bob", "q72"), MCCall("register", "bob", "q73"),
   MCCall("register", " ", "p"), MCCall("register", "x121", "p"), MCCall("register", "bob", ""),
   MCCall("login", "admin", "p"), MCCall("login", "admin", "q72"), MCCall("login", " bob", "p"),
   MCCall("login", "bob", "q73"),
   MCCall("login", " ", "p")}
=============================================================================

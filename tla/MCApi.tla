-------------------------------- MODULE MCApi --------------------------------
EXTENDS Api, TLC

CONSTANTS s1, s2, s3

MCUsers == {1, 2, 3}
MCTexts == {"", "milk", "tea"}
MCTodos == <<[owner |-> 1, text |-> "milk", done |-> FALSE, due |-> Nil, deleted |-> FALSE]>>
MCTrimQuery == [q \in {} |-> q]
MCLowerCase == [q \in {} |-> q]
MCTrim == [x \in MCTexts |-> x]

MCCall(op, u, id, text) ==
  [op |-> op, user |-> u, id |-> id, text |-> text, due |-> Nil, done |-> Nil, q |-> Nil]

\* Whom RequireSession may let in, and what they do to the row of the first.
MCCalls == {MCCall("list", 1, 0, Nil), MCCall("list", 2, 0, Nil), MCCall("create", 2, 0, "tea"),
            MCCall("create", 3, 0, "tea"), MCCall("delete", 1, 1, Nil), MCCall("delete", 2, 1, Nil)}

MCSid == {s1, s2, s3}
MCNames == {"", "ann", "bob", "cid"}
MCPasswords == {"", "p", "q"}
MCTrimName == [n \in MCNames |-> n]
MCHash == [p \in MCPasswords |-> p]
MCAccounts == <<[name |-> "ann", hash |-> "p", by |-> Nil], [name |-> "bob", hash |-> "p", by |-> Nil]>>
MCSessions == [s \in MCSid |-> IF s = s1 THEN 1 ELSE IF s = s2 THEN 2 ELSE Nil]

AuthCall(op, n, p) == [op |-> op, name |-> n, pass |-> p]

MCAuthCalls == {AuthCall("todo", "", ""), AuthCall("logout", "", ""),
                AuthCall("register", "cid", "q")}

Symmetry == Permutations(Request)
=============================================================================

------------------------------ MODULE MCConfig ------------------------------
(***************************************************************************)
(* The environments TLC checks.  A duration is a word of 8 bits, in which a  *)
(* second is 10: 12 seconds fit, 13 do not, nor does database 200.           *)
(***************************************************************************)
EXTENDS Config

MCAmounts == {-1, 0, 5, 12, 13, 26}

Urls == [kind: {"url"}, scheme: {"redis", "other"}, host: {"h", Nil}, password: {"p", Nil},
         db: {2, 200, Nil, Junk}]

Addresses == Urls \cup [kind: {"plain"}, host: {"g"}, spaces: BOOLEAN] \cup {[kind |-> "blank"], Nil}

Texts == [body: {"number", "unit"}, n: MCAmounts, quoted: {FALSE}, spaces: BOOLEAN]
           \cup [body: {"number", "unit", "junk"}, n: {5}, quoted: {TRUE}, spaces: BOOLEAN]
           \cup {Nil}

Good == [body |-> "unit", n |-> 12, quoted |-> FALSE, spaces |-> FALSE]

\* One duration varies, the others are good.
DurationChoices == {[d \in Durations |-> IF d = v THEN t ELSE Good] : v \in Durations, t \in Texts}

\* Every combination of the Redis variables, then every duration.
MCEnvs ==
  [dsn: BOOLEAN, url: Addresses, addr: Addresses, password: {"q", Nil}, db: {0, 1, 200, Junk},
   durations: {[d \in Durations |-> Good]}]
  \cup [dsn: {TRUE}, url: {Nil}, addr: {[kind |-> "plain", host |-> "g", spaces |-> FALSE]},
        password: {Nil}, db: {0}, durations: DurationChoices]
=============================================================================

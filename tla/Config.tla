------------------------------- MODULE Config -------------------------------
(***************************************************************************)
(* config.Load: from the environment of the process to the addresses,        *)
(* passwords and durations the rest of the program is built with.  A value   *)
(* of the environment is a record of what Load can tell of it; a duration is *)
(* a two's complement number of Word values, in which a second is Second.    *)
(***************************************************************************)
EXTENDS Integers

CONSTANTS
  Hosts,     \* what stands for host:port
  Passwords, \* what may stand in REDIS_PASSWORD or in a URL
  Amounts,   \* the numbers a duration may be written with
  Word,      \* 2^64 in Go
  Second,    \* 10^9 in Go
  Envs,      \* the environments of a behaviour
  Junk,      \* what stands for a text that Atoi finds no number in
  Nil        \* nothing: the empty string, a part a URL does not have

\* An address variable: empty, host:port (with or without spaces), a URL, or
\* a text that is neither.
Url == [kind: {"url"}, scheme: {"redis", "rediss", "other"}, host: Hosts \cup {Nil},
        password: Passwords \cup {Nil}, db: Int \cup {Nil, Junk}]
Plain == [kind: {"plain"}, host: Hosts, spaces: BOOLEAN]
Blank == [kind: {"blank"}]
AddressText == Url \cup Plain \cup Blank \cup {Nil}

\* A duration variable: a number, a number with the unit s, or something else;
\* in quotes or not, with spaces (inside the quotes, if there are any) or not.
\* A variable that is not set has its default, a number or a number of seconds.
DurationText == [body: {"number", "unit", "junk"}, n: Amounts, quoted: BOOLEAN, spaces: BOOLEAN]
                  \cup {Nil}

Durations == {"read", "write", "idle", "ttl"}

Env == [dsn: BOOLEAN, url: AddressText, addr: AddressText, password: Passwords \cup {Nil},
        db: Int \cup {Junk}, durations: [Durations -> DurationText]]

\* What Go's int64 arithmetic leaves of x, and the numbers it can hold.
Wrap(x) == ((x + Word \div 2) % Word) - Word \div 2

Least == -(Word \div 2)
Greatest == Word - Word \div 2 - 1

Fits(x) == Least <= x /\ x <= Greatest

ASSUME ConfigAssumption ==
  /\ Envs \subseteq Env
  /\ Word \in Nat \ 0..2 /\ Second \in Nat \ {0}
  /\ Amounts \subseteq {n \in Int : Fits(n)}
  /\ Nil \notin Hosts /\ Nil \notin Passwords /\ Nil \notin Int /\ Junk \notin Int
  /\ Nil # Junk

VARIABLES
  env, \* the environment
  pc,  \* how far Load has come
  cfg  \* what it has filled in

vars == <<env, pc, cfg>>

Empty == [redis |-> Nil, durations |-> [d \in Durations |-> 0]]

Init == env \in Envs /\ pc = "readEnv" /\ cfg = Empty

Error == pc' = "error" /\ cfg' = Empty /\ UNCHANGED env

\* cleanenv: PG_DSN has to be set, REDIS_DB has to be a number that fits an int.
EnvReadable == env.dsn /\ env.db # Junk /\ Fits(env.db)

ReadEnv ==
  /\ pc = "readEnv"
  /\ \/ EnvReadable /\ pc' = "redis" /\ UNCHANGED <<env, cfg>>
     \/ ~EnvReadable /\ Error

-----------------------------------------------------------------------------
(***************************************************************************)
(* Redis.                                                                   *)
(***************************************************************************)

RedisUrl(a) == a.kind = "url" /\ a.scheme \in {"redis", "rediss"}

Parses(a) == RedisUrl(a) /\ a.host # Nil

\* What Atoi returns for a number, also beside the error that it is out of range.
Atoi(n) == IF Fits(n) THEN n ELSE IF n < 0 THEN Least ELSE Greatest

\* The error of Atoi is dropped.
ParseRedisURL(a) == [addr |-> [kind |-> "plain", host |-> a.host, spaces |-> FALSE],
                     password |-> a.password,
                     db |-> IF a.db \in Int THEN Atoi(a.db) ELSE 0]

\* Mutant of FromUrl: the password of the environment stays.
FromUrlWithPassword(a) == [ParseRedisURL(a) EXCEPT !.password = env.password]

FromUrl(a) == ParseRedisURL(a)

FromVariables == [addr |-> env.addr, password |-> env.password, db |-> env.db]

\* The variable that is read as a URL, or Nil.  REDIS_URL is one whatever it holds.
UrlVariable ==
  IF env.url # Nil THEN env.url
  ELSE IF env.addr # Nil /\ RedisUrl(env.addr) THEN env.addr
  ELSE Nil

ResolveRedis ==
  /\ pc = "redis"
  /\ \/ /\ UrlVariable # Nil /\ Parses(UrlVariable)
        /\ cfg' = [cfg EXCEPT !.redis = FromUrl(UrlVariable)]
        /\ pc' = "durations" /\ UNCHANGED env
     \/ /\ UrlVariable = Nil /\ env.addr # Nil
        /\ cfg' = [cfg EXCEPT !.redis = FromVariables]
        /\ pc' = "durations" /\ UNCHANGED env
     \/ /\ IF UrlVariable = Nil THEN env.addr = Nil ELSE ~Parses(UrlVariable)
        /\ Error

-----------------------------------------------------------------------------
(***************************************************************************)
(* Durations.                                                               *)
(***************************************************************************)

\* Quotes are stripped after the spaces around them: those inside stay.
Malformed(d) == d = Nil \/ d.body = "junk" \/ (d.quoted /\ d.spaces)

\* time.ParseDuration finds its own overflows, the product of a bare number has
\* none to find.
Accepts(d) == ~Malformed(d) /\ (d.body = "unit" => Fits(d.n * Second))

\* Mutant of ParseDurationEnv: a bare number counts nanoseconds.
BareNanoseconds(d) == IF d.body = "number" THEN Wrap(d.n) ELSE Wrap(d.n * Second)

ParseDurationEnv(d) == Wrap(d.n * Second)

ParseDurations ==
  /\ pc = "durations"
  /\ \/ /\ \A d \in Durations : Accepts(env.durations[d])
        /\ cfg' = [cfg EXCEPT !.durations = [d \in Durations |-> ParseDurationEnv(env.durations[d])]]
        /\ pc' = "loaded" /\ UNCHANGED env
     \/ (\E d \in Durations : ~Accepts(env.durations[d])) /\ Error

\* Load has returned.
Done == pc \in {"loaded", "error"} /\ UNCHANGED vars

Next == ReadEnv \/ ResolveRedis \/ ParseDurations \/ Done

Spec == Init /\ [][Next]_vars

-----------------------------------------------------------------------------
(***************************************************************************)
(* Properties.                                                              *)
(***************************************************************************)

\* Redis is taken from the URL a: its host, its password if it has one, and its
\* database, which is 0 if it names none; a number out of range, whose error is
\* dropped, becomes no other number that a URL could name.
FromThisUrl(a) ==
  /\ a # Nil /\ a.kind = "url"
  /\ cfg.redis.addr.host = a.host
  /\ a.password # Nil => cfg.redis.password = a.password
  /\ IF a.db \in Int /\ Fits(a.db) THEN cfg.redis.db = a.db
     ELSE cfg.redis.db \in {0, Least, Greatest} /\ (cfg.redis.db = 0 <=> a.db \notin Int)

OneSource ==
  \/ env.url = Nil /\ cfg.redis = FromVariables /\ ~RedisUrl(env.addr)
  \/ env.url # Nil /\ FromThisUrl(env.url)
  \/ env.url = Nil /\ FromThisUrl(env.addr)

\* A URL, in REDIS_URL or failing that in REDIS_ADDR, overrides the variables:
\* REDIS_DB never selects a database of its server, nor REDIS_PASSWORD replace
\* its password, and nothing of REDIS_ADDR is used beside REDIS_URL.  Without a
\* URL the three variables are used as they are.
RedisFromOneSource == pc = "loaded" => OneSource

\* Every duration that fits the word is the number of seconds its variable
\* says, with or without unit and quotes, below zero and up to the bound; of
\* those that do not fit, only a bare number gets through.
SecondsMeant ==
  pc = "loaded" =>
    \A d \in Durations :
      LET t == env.durations[d]
          x == t.n * Second
      IN IF Fits(x) THEN cfg.durations[d] = x ELSE t.body = "number"

-----------------------------------------------------------------------------
(***************************************************************************)
(* What the repository says of Load, and the code does not keep.            *)
(***************************************************************************)

\* README.md offers REDIS_PASSWORD as the password of Redis "if it is not given
\* in the URL".
PasswordBesideUrl ==
  pc = "loaded" /\ UrlVariable # Nil /\ UrlVariable.password = Nil
    => cfg.redis.password = env.password
=============================================================================

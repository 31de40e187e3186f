---------------------------- MODULE ConfigProofs ----------------------------
(***************************************************************************)
(* What Load makes of any environment, in a word of any size.               *)
(***************************************************************************)
EXTENDS Config, TLAPS

\* What is filled in once Load has come past Redis, and past the durations.
ConfigInv ==
  /\ env \in Envs
  /\ cfg = [redis |-> cfg.redis, durations |-> cfg.durations]
  /\ pc \in {"durations", "loaded"} => OneSource
  /\ pc = "loaded" => \A d \in Durations : /\ Accepts(env.durations[d])
                                           /\ cfg.durations[d] = ParseDurationEnv(env.durations[d])

\* Numbers the word can hold stay what they are.
LEMMA WrapKeepsWords ==
  ASSUME NEW x \in Int, Fits(x)
  PROVE  Wrap(x) = x
<1> DEFINE h == Word \div 2
<1>1. h \in Int
  BY ConfigAssumption
<1>2. x + h \in 0..(Word - 1)
  BY <1>1, ConfigAssumption DEF Fits, Least, Greatest
<1>3. (x + h) % Word = x + h
  BY <1>2, ConfigAssumption
<1> QED
  BY <1>1, <1>3 DEF Wrap

\* Beside the bounds, Atoi returns only the number it was given, and 0 only for 0.
LEMMA AtoiMeans ==
  ASSUME NEW n \in Int
  PROVE  /\ Fits(n) => Atoi(n) = n
         /\ ~Fits(n) => Atoi(n) \in {Least, Greatest} \ {0}
<1>1. Least \in Int /\ Greatest \in Int /\ Least < 0 /\ 0 < Greatest
  BY ConfigAssumption DEF Least, Greatest
<1> QED
  BY <1>1 DEF Atoi, Fits

\* Whichever variable ResolveRedis reads as a URL, nothing comes from another.
LEMMA ResolveStep ==
  ASSUME ConfigInv, ResolveRedis
  PROVE  ConfigInv'
<1>1. CASE UrlVariable # Nil /\ Parses(UrlVariable) /\ cfg' = [cfg EXCEPT !.redis = FromUrl(UrlVariable)]
           /\ pc' = "durations" /\ UNCHANGED env
  <2> DEFINE a == UrlVariable
  <2>1. a # Nil /\ a.kind = "url" /\ a = IF env.url # Nil THEN env.url ELSE env.addr
    BY <1>1 DEF UrlVariable, Parses, RedisUrl
  <2>2. /\ cfg' = [redis |-> FromUrl(a), durations |-> cfg.durations]
        /\ cfg'.redis = FromUrl(a)
    BY <1>1 DEF ConfigInv
  <2>3. /\ cfg'.redis.addr.host = a.host /\ cfg'.redis.password = a.password
        /\ cfg'.redis.db = IF a.db \in Int THEN Atoi(a.db) ELSE 0
    BY <2>2 DEF FromUrl, ParseRedisURL
  <2>4. IF a.db \in Int /\ Fits(a.db) THEN cfg'.redis.db = a.db
        ELSE cfg'.redis.db \in {0, Least, Greatest} /\ (cfg'.redis.db = 0 <=> a.db \notin Int)
    BY <2>3, AtoiMeans
  <2>5. FromThisUrl(a)'
    BY <1>1, <2>1, <2>3, <2>4 DEF FromThisUrl, UrlVariable
  <2>6. OneSource'
    BY <1>1, <2>1, <2>5 DEF OneSource, UrlVariable
  <2> QED
    BY <1>1, <2>2, <2>6 DEF ConfigInv
<1>2. CASE UrlVariable = Nil /\ env.addr # Nil /\ cfg' = [cfg EXCEPT !.redis = FromVariables]
           /\ pc' = "durations" /\ UNCHANGED env
  <2>1. env.url = Nil /\ ~RedisUrl(env.addr)
    BY <1>2 DEF UrlVariable
  <2>2. /\ cfg' = [redis |-> FromVariables, durations |-> cfg.durations]
        /\ cfg'.redis = FromVariables
    BY <1>2 DEF ConfigInv
  <2>3. OneSource'
    BY <1>2, <2>1, <2>2 DEF OneSource, FromVariables
  <2> QED
    BY <1>2, <2>2, <2>3 DEF ConfigInv
<1>3. CASE Error
  BY <1>3 DEF Error, Empty, ConfigInv
<1> QED
  BY <1>1, <1>2, <1>3 DEF ResolveRedis

\* The invariant holds at the start and after every step of Load.
THEOREM ConfigCorrect == Spec => []ConfigInv
<1>1. Init => ConfigInv
  BY DEF Init, Empty, ConfigInv
<1>2. ConfigInv /\ [Next]_vars => ConfigInv'
  <2> SUFFICES ASSUME ConfigInv, [Next]_vars PROVE ConfigInv'
    OBVIOUS
  <2>1. CASE ReadEnv
    BY <2>1 DEF ReadEnv, Error, Empty, ConfigInv
  <2>2. CASE ParseDurations
    <3>1. CASE Error
      BY <3>1 DEF Error, Empty, ConfigInv
    <3>2. CASE ~Error
      <4> DEFINE ds == [d \in Durations |-> ParseDurationEnv(env.durations[d])]
      <4>1. /\ \A d \in Durations : Accepts(env.durations[d])
            /\ cfg' = [redis |-> cfg.redis, durations |-> ds] /\ env' = env
            /\ cfg'.redis = cfg.redis /\ cfg'.durations = ds /\ pc = "durations"
        BY <2>2, <3>2 DEF ParseDurations, ConfigInv
      <4>2. OneSource'
        BY <4>1 DEF ConfigInv, OneSource, FromThisUrl, FromVariables
      <4>3. \A d \in Durations : cfg'.durations[d] = ParseDurationEnv(env'.durations[d])
        BY <4>1
      <4>4. \A d \in Durations : Accepts(env'.durations[d])
        BY <4>1
      <4>5. cfg' = [redis |-> cfg'.redis, durations |-> cfg'.durations] /\ env' \in Envs
        BY <4>1 DEF ConfigInv
      <4> QED
        BY <4>2, <4>3, <4>4, <4>5 DEF ConfigInv, Accepts, ParseDurationEnv
    <3> QED
      BY <3>1, <3>2
  <2>3. CASE UNCHANGED vars
    BY <2>3 DEF vars, ConfigInv, OneSource, FromThisUrl, FromVariables, Accepts, ParseDurationEnv
  <2> QED
    BY <2>1, <2>2, <2>3, ResolveStep DEF Next, Done
<1> QED
  BY <1>1, <1>2, PTL DEF Spec

\* For any environment, host, database and a password of the URL come from that
\* URL, or all three from the variables, never from both.
THEOREM RedisHasOneSource == Spec => []RedisFromOneSource
<1>1. ConfigInv => RedisFromOneSource
  BY DEF ConfigInv, RedisFromOneSource
<1> QED
  BY <1>1, ConfigCorrect, PTL

\* For any word and any environment, a duration that fits the word is loaded as
\* it is meant, and one that does not fit is refused if it has a unit.
THEOREM DurationsAreSeconds == Spec => []SecondsMeant
<1>1. ConfigInv => SecondsMeant
  <2> SUFFICES ASSUME ConfigInv, pc = "loaded", NEW d \in Durations
               PROVE  LET t == env.durations[d]
                          x == t.n * Second
                      IN IF Fits(x) THEN cfg.durations[d] = x ELSE t.body = "number"
    BY DEF SecondsMeant
  <2> DEFINE t == env.durations[d]
             x == t.n * Second
  <2>1. Accepts(t) /\ cfg.durations[d] = Wrap(x)
    BY DEF ConfigInv, ParseDurationEnv
  <2>2. t \in [body: {"number", "unit", "junk"}, n: Amounts, quoted: BOOLEAN, spaces: BOOLEAN]
    BY <2>1, ConfigAssumption DEF ConfigInv, Env, DurationText, Accepts, Malformed
  <2>3. x \in Int
    <3>1. t.n \in Amounts
      BY <2>2
    <3>2. \A n \in Amounts : n \in Int
      BY ConfigAssumption DEF Fits
    <3>3. Second \in Int
      BY ConfigAssumption
    <3> QED
      BY <3>1, <3>2, <3>3
  <2>4. Fits(x) => cfg.durations[d] = x
    BY <2>1, <2>3, WrapKeepsWords
  <2>5. ~Fits(x) => t.body = "number"
    BY <2>1, <2>2 DEF Accepts, Malformed
  <2> QED
    BY <2>4, <2>5
<1> QED
  BY <1>1, ConfigCorrect, PTL
=============================================================================

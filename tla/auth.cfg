SPECIFICATION Spec
CONSTANTS
  Request = {r1, r2}
  Nil = Nil
  s1 = s1
  s2 = s2
  s3 = s3
  s4 = s4
  Sid <- MCSid
  Names <- MCNames
  EmptyName = ""
  LongNames = {"x121"}
  TrimName <- MCTrim
  Passwords <- MCPasswords
  EmptyPassword = ""
  LongPasswords = {"q73"}
  Hash <- MCHash
  InitialUsers <- MCUsers
  InitialSessions <- MCSessions
  Calls <- MCCalls
  TTL = 0
  DefaultTTL = 24
  MaxFaults = 2
INVARIANTS
  TypeOK
  NamesUnique
  ActsAsOwner
  LateRequestsRefused
  RegisterAnswerTrue
PROPERTIES
  ImplementsAccounts

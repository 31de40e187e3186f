SPECIFICATION ApiSpec
CONSTANTS
  Request = {r1, r2, r3}
  Nil = Nil
  s1 = s1
  s2 = s2
  s3 = s3
  Users <- MCUsers
  Texts <- MCTexts
  EmptyText = ""
  Queries = {}
  TrimQuery <- MCTrimQuery
  LowerCase <- MCLowerCase
  Contains = {}
  Trim <- MCTrim
  Calls <- MCCalls
  InitialTodos <- MCTodos
  WarmKeys = {}
  TTL = 60
  MaxNow = 0
  MaxFaults = 1
  AuthCalls <- MCAuthCalls
  Names <- MCNames
  EmptyName = ""
  LongNames = {}
  TrimName <- MCTrimName
  Passwords <- MCPasswords
  EmptyPassword = ""
  LongPasswords = {}
  Hash <- MCHash
  Sid <- MCSid
  InitialUsers <- MCAccounts
  InitialSessions <- MCSessions
  SessionTTL = 24
  DefaultTTL = 24
SYMMETRY Symmetry
INVARIANTS
  AnswersAreOwn
  OwnersExist
PROPERTIES
  RowsChangeForOwner

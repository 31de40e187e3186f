SPECIFICATION Spec
CONSTANTS
  Request = {r1}
  Nil = Nil
  Users <- MCUsers
  Texts <- MCTexts
  EmptyText = ""
  Queries <- MCQueries
  TrimQuery <- MCTrimQuery
  LowerCase <- MCLowerCase
  Contains <- MCContains
  Trim <- MCTrim
  Calls <- WriteCalls
  InitialTodos <- MCTodos
  WarmKeys <- MCWarm
  TTL = 0
  MaxNow = 0
  MaxFaults = 1
PROPERTY EveryWriteInvalidates

SPECIFICATION HSpec
CONSTANTS
  Request = {r1, r2}
  Nil = Nil
  Users <- MCUsers
  Texts <- MCTexts
  EmptyText = ""
  Queries <- MCQueries
  TrimQuery <- MCTrimQuery
  LowerCase <- MCLowerCase
  Contains <- MCContains
  Trim <- MCTrim
  Calls <- FailureCalls
  InitialTodos <- MCTodos
  WarmKeys <- MCWarm
  TTL = 60
  MaxNow = 1
  MaxFaults = 1
SYMMETRY Symmetry
INVARIANTS
  StaleEntryExplained
  WaitersHaveLeader
PROPERTIES
  ImplementsStore

SPECIFICATION Spec
CONSTANTS
  Request = {r1, r2}
  Nil = Nil
  Users <- MCUsers
  Texts <- MCTexts
  EmptyText = ""
  Queries <- MCQueries
  TrimQuery <- MCTrimQuery
  LowerCase <- MCLowerCase
  Contains <- MCContains
  Trim <- MCTrim
  Calls <- PatchCalls
  InitialTodos <- MCTodos
  WarmKeys <- MCWarm
  TTL = 0
  MaxNow = 0
  MaxFaults = 0
SYMMETRY Symmetry
PROPERTY OmittedDoneKept

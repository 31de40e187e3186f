SPECIFICATION Spec
CONSTANTS
  Request = {r1, r2, r3}
  Nil = Nil
  Users <- MCUsers
  Texts <- MCTexts
  EmptyText = ""
  Queries <- MCQueries
  TrimQuery <- MCTrimQuery
  LowerCase <- MCLowerCase
  Contains <- MCContains
  Trim <- MCTrim
  Calls <- RaceCalls
  InitialTodos <- MCTodos
  WarmKeys <- MCWarm
  TTL = 0
  MaxNow = 1
  MaxFaults = 0
SYMMETRY Symmetry
INVARIANTS
  TypeOK
  AnswerFitsCall
  StaleEntryExplained
  OneFillPerKey
  EmptyAnswersAreCurrent
  StaleAnswerExplained
PROPERTIES
  DeletedIsFinal
  RowChangesOnlyByOwner

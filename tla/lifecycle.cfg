SPECIFICATION FairSpec
CONSTANTS
  Proc = {p1, p2}
  Request = {a, b}
  Last = 3
  OneShot <- OneShotMigrations
  MaxFaults = 2
  MaxSignals = 1
INVARIANTS
  TypeOK
  FailedStartClosesAll
  HandlesOutliveRequests
  ServesMigrated
PROPERTIES
  CleanExit
  OnlyRacesDesync
  SignalEnds
  ServesUnlessRaced

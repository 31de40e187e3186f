SPECIFICATION FairSpec
CONSTANTS
  Proc = {p1, p2}
  Request = {a}
  Last = 3
  OneShot <- OneShotMigrations
  MaxFaults = 0
  MaxSignals = 0
PROPERTIES
  StartsServe

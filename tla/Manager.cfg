SPECIFICATION ManagerFairSpec
CONSTANTS
  None = None
  Handler = {g, h}
  Id = {main, other}
  MaxStations = 1
  MaxRunners = 2
CHECK_DEADLOCK FALSE
INVARIANTS
  NoOrphanLoop
  OneReaderOfDone
  ConfigsAgree
PROPERTIES
  DeleteReturns


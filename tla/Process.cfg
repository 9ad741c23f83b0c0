SPECIFICATION FairSpec
CONSTANTS
  None = None
  Handler = {h}
  Id = {main}
  MaxStations = 1
  MaxRunners = 1
  MaxRequests = 2
INVARIANTS
  OnlyUnawaitedPanics
  LastWordHeard
  QueueTellsLife
  CompleteMeansStopped
PROPERTY ProcessEnds
CHECK_DEADLOCK FALSE

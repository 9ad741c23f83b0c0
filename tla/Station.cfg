SPECIFICATION FairSpec
CONSTANTS
  None = None
  Failed = Failed
  Dropped = Dropped
  MaxQueueTracks = 2
  CommandCap = 1
  MaxRevision = 1
  BlockFrames = 2
  TrackFrames <- MCTrackFrames
  Transitions <- MCTransitions
  CommandId = {a}
  AnnouncementCap = 1
  AnnBlocks <- MCAnnBlocks
  MaxLosses = 1
INVARIANT
  NoHalfSleeps
PROPERTIES
  StopDoesNotBlock
  QueueMovesOn
CHECK_DEADLOCK FALSE

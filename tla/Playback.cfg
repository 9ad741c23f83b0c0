SPECIFICATION Spec
CONSTANTS
  None = None
  Failed = Failed
  Dropped = Dropped
  MaxQueueTracks = 2
  CommandCap = 1
  MaxRevision = 2
  BlockFrames = 2
  MaxLosses = 1
  TrackFrames <- MCTrackFrames
  Transitions <- MCTransitions
INVARIANTS
  ReportedTrackSounds
  OvertakenAtMostOnce
  FadeEndsWithTrack
  FilesAccounted
  IdleUntilLoss
  TrackWakeupPending
PROPERTY
  StartsInOrder
CHECK_DEADLOCK FALSE

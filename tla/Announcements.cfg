SPECIFICATION FairSpec
CONSTANTS
  None = None
  Failed = Failed
  Dropped = Dropped
  CommandId = {a, b, c}
  AnnouncementCap = 2
  AnnBlocks <- MCAnnBlocks
  MaxLosses = 2
INVARIANTS
  PlayedAtMostOnce
  OneAtATime
  OneLostPerExit
PROPERTIES
  AnnouncementsEnd
  FifoSpec
  CancelEnds
CHECK_DEADLOCK FALSE

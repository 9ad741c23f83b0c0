SPECIFICATION Spec
CONSTANTS
  Sources <- MCSources
  Duration = 2
  Lead = 3
  MaxTime = 7
  MaxFrames = 6
  MaxTracks = 2
INVARIANTS
  AheadBounded
  CleanTrackInOrder
CHECK_DEADLOCK FALSE

SPECIFICATION EncoderFairSpec
CONSTANTS
  InCap = 3
  OutCap = 3
CHECK_DEADLOCK FALSE
INVARIANTS
  NothingLeftBehind
PROPERTIES
  CancelEndsEncoder
  DeathIsNoticed
  CloseEnds

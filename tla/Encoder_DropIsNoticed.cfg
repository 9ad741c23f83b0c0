SPECIFICATION EncoderFairSpec
CONSTANTS
  InCap = 1
  OutCap = 1
CHECK_DEADLOCK FALSE
PROPERTY DropIsNoticed

SPECIFICATION FairSpec
CONSTANTS
  None = None
  small = small
  large = large
  Caller = {a, b}
  Key = {small, large}
  Size <- MCSize
  MaxBytes = 2
  Retries = 2
  MaxCrashes = 2
CHECK_DEADLOCK FALSE
INVARIANTS
  OneDownloadPerKey
  BoundedByLeaders
PROPERTY CallersReturn

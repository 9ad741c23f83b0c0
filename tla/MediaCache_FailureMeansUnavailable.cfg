SPECIFICATION Spec
CONSTANTS
  None = None
  small = small
  large = large
  Caller = {a, b}
  Key = {small, large}
  Size <- MCSize
  MaxBytes = 2
  Retries = 1
  MaxCrashes = 0
CHECK_DEADLOCK FALSE
INVARIANT FailureMeansUnavailable

SPECIFICATION FairSpec
CONSTANTS
  Publisher = {render, handler}
  Recovered = {handler}
  Capacity = 2
  MaxEvents = 4
  MaxCopies = 2
INVARIANTS
  DrainedMeansDelivered
PROPERTIES
  LogSpec
  AcceptedIsDelivered
CHECK_DEADLOCK FALSE

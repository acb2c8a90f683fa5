SPECIFICATION Spec
CONSTANTS
  N = 2
  None = None
  UnsignedErrors = TRUE
  MaxExternal = 0
  MaxDrops = 0
  Hosts <- OneHost
  Depth = 1
  Simulate = TRUE
  Refused <- NoRequest
  Reverting <- NoRequest
  LostReplies = FALSE
  Outages = FALSE
  MaxSignings = 2
  MaxFaults = 0
  SlowWorkers = FALSE
  MaxAge = 0
  Mixed = TRUE
  MaxCrashes = 0
  h1 = h1
  h2 = h2
INVARIANTS AtMostOnce
CHECK_DEADLOCK FALSE

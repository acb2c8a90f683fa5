SPECIFICATION FairSpec
CONSTANTS
  N = 1
  None = None
  UnsignedErrors = TRUE
  MaxExternal = 0
  MaxDrops = 0
  Hosts <- OneHost
  Depth = 1
  Simulate = TRUE
  Refused <- NoRequest
  Reverting <- NoRequest
  LostReplies = FALSE
  Outages = FALSE
  MaxSignings = 2
  MaxFaults = 0
  SlowWorkers = FALSE
  MaxAge = 2
  Mixed = TRUE
  MaxCrashes = 1
  h1 = h1
  h2 = h2
PROPERTIES Settles
CHECK_DEADLOCK FALSE

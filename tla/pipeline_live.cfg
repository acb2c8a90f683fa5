SPECIFICATION FairSpec
CONSTANTS
  N = 1
  None = None
  UnsignedErrors = FALSE
  MaxExternal = 0
  MaxDrops = 0
  Hosts <- OneHost
  Depth = 1
  Simulate = FALSE
  Refused <- NoRequest
  Reverting <- NoRequest
  LostReplies = TRUE
  Outages = TRUE
  MaxSignings = 1
  MaxFaults = 1
  SlowWorkers = FALSE
  MaxAge = 2
  Mixed = TRUE
  MaxCrashes = 1
  h1 = h1
  h2 = h2
INVARIANTS TypeOK Inv NumberedInFlight AnnouncedIsOnChain StatusOnChain
PROPERTIES Settles StoresAgree ImplementsService
CHECK_DEADLOCK FALSE

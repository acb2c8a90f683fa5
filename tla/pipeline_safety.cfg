SPECIFICATION Spec
CONSTANTS
  N = 2
  None = None
  UnsignedErrors = TRUE
  MaxExternal = 1
  MaxDrops = 1
  Hosts <- OneHost
  Depth = 1
  Simulate = FALSE
  Refused <- LastRequest
  Reverting <- LastRequest
  LostReplies = FALSE
  Outages = FALSE
  MaxSignings = 2
  MaxFaults = 0
  SlowWorkers = FALSE
  MaxAge = 0
  Mixed = FALSE
  MaxCrashes = 1
  h1 = h1
  h2 = h2
INVARIANTS ConfirmedIsOnChain SubmittedWasAccepted AtMostOnce FifoOnChain
  OneVerdict NoOrphans
PROPERTIES StoresAgree ImplementsExactly
CHECK_DEADLOCK FALSE

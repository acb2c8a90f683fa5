SPECIFICATION FairSpec
CONSTANTS
  Deliveries <- TwoDeliveries
  Hosts <- OneHost
  Nobody = Nobody
  MaxRetries = 2
  Batch = 2
  Backlog = TRUE
  MaxFaults = 1
  MaxCrashes = 1
  h1 = h1
  h2 = h2
  d1 = d1
  d2 = d2
INVARIANTS SettledRightly BoundedPosts Inv HandsFit
PROPERTIES SettledStays AttemptedSettles
CHECK_DEADLOCK FALSE

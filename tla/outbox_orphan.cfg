SPECIFICATION FairSpec
CONSTANTS
  Deliveries <- TwoDeliveries
  Hosts <- OneHost
  Nobody = Nobody
  MaxRetries = 2
  Batch = 1
  Backlog = FALSE
  MaxFaults = 0
  MaxCrashes = 1
  h1 = h1
  h2 = h2
  d1 = d1
  d2 = d2
PROPERTIES EverySettles
CHECK_DEADLOCK FALSE

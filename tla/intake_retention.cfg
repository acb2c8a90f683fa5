SPECIFICATION Spec
CONSTANTS
  Clients <- ThreeClients
  KeyOf <- SharedKey
  None = None
  Hosts <- OneHost
  MaxRows = 1
  IdempotencyRetention = 1
  Retention = 2
  Batch = 1
  MaxFaults = 0
  c1 = c1
  c2 = c2
  c3 = c3
  h1 = h1
  k1 = k1
PROPERTIES PurgedOnTime
CHECK_DEADLOCK FALSE

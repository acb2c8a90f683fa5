SPECIFICATION FairSpec
CONSTANTS
  Clients <- ThreeClients
  KeyOf <- SharedKey
  None = None
  Hosts <- OneHost
  MaxRows = 2
  IdempotencyRetention = 1
  Retention = 2
  Batch = 1
  MaxFaults = 1
  c1 = c1
  c2 = c2
  c3 = c3
  h1 = h1
  k1 = k1
INVARIANTS Inv OneUnfinished AnswersAgree
PROPERTIES Archived
CHECK_DEADLOCK FALSE

SPECIFICATION FairSpec
CONSTANTS
  N = 2
  s1 = s1
  s2 = s2
  Senders <- TwoSenders
  SenderOf <- LastForAnother
  MaxStamp = 2
  MaxWorkers = 1
  PageSize = 1
  MaxErrors = 1
  MaxRetries = 2
INVARIANTS TypeOK WorkersBounded Inv
PROPERTIES Served SweepComplete NeverRelisted LookedUp

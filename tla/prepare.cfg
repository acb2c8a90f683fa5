SPECIFICATION FairSpec

CONSTANTS
  s1 = s1
  s2 = s2
  w1 = w1
  w2 = w2
  m1 = m1
  m2 = m2
  Senders <- TwoSenders
  Wallets <- TwoWallets
  MaxKeys = 1
  Modules <- TwoModules
  MaxAbis = 1
  Ttl = 1
  MaxDelay = 1
  Upgradable <- SharedModule
  MaxUpgrades = 1
  NoEntry = NoEntry
  WalletOf <- OwnWallets
  PayerOf <- OnePayer
  ModulesOf <- Calls
  None = None
  MaxFaults = 1

INVARIANTS TypeOK CachesConsistent OneFlight AbiRecent Inv
PROPERTIES FailsForCause PrepareEnds

CONSTANTS
  t1 = t1
  t2 = t2
  t3 = t3
  c1 = c1
  c2 = c2
  NoClient = NoClient
  Thread <- ThreeThreads
  Client <- TwoClients
  MinSize = 0
  MaxSize = 2
SPECIFICATION FairSpec
INVARIANTS Accounting Exclusive NoLostWakeup
PROPERTIES PopReturns LeasesUntilRace

CONSTANTS
  t1 = t1
  t2 = t2
  t3 = t3
  t4 = t4
  c1 = c1
  c2 = c2
  c3 = c3
  NoClient = NoClient
  Thread <- FourThreads
  Client <- ThreeClients
  MinSize = 1
  MaxSize = 2
SPECIFICATION FairSpec
INVARIANTS Accounting NoLostWakeup
PROPERTIES PopReturns ImplementsLease

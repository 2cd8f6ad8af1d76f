CONSTANTS
  c1 = c1
  c2 = c2
  q1 = q1
  q2 = q2
  n1 = n1
  p1 = p1
  p2 = p2
  s1 = s1
  NoDoc = NoDoc
  NoId = NoId
  Registration <- TwoRegistrations
  Lookup <- TwoLookups
  Name <- OneName
  Password <- TwoPasswords
  NameOf <- SameName
  PasswordOf <- Passwords
  HostOf <- OneHost
  Server <- OneServer
  HashSize = 1
  TimeSize = 2
  CounterSize = 1
  MaxTime = 1
  MaxSetBacks = 1
  MaxFailures = 1
  MaxIssued = 3
SYMMETRY Symmetry
SPECIFICATION Spec
INVARIANTS NoClash NamesUnique NoHalfUserUnseen OneIdentity TokenIsOwners OwnersGetIn
CHECK_DEADLOCK FALSE

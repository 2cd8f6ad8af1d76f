CONSTANTS
  alice = alice
  bob = bob
  carol = carol
  c1 = c1
  c2 = c2
  c3 = c3
  d1 = d1
  User <- TwoUsers
  Registered <- OnlyBob
  Followed <- None
  Call <- ThreeCalls
  Kind <- FollowAgain
  EdgeOf <- OneEdgeAgain
  Reader <- None
  MaxFailures = 1
  MaxLosses = 1
SPECIFICATION Spec
INVARIANTS ListedOnce CopiesAgree
CHECK_DEADLOCK FALSE

CONSTANTS
  alice = alice
  bob = bob
  carol = carol
  c1 = c1
  c2 = c2
  c3 = c3
  d1 = d1
  User <- ThreeUsers
  Registered <- BobAndCarol
  Followed <- CarolBob
  Call <- TwoCalls
  Kind <- FollowUnfollow
  EdgeOf <- OneEdge
  Reader <- OneReader
  MaxFailures = 1
  MaxLosses = 1
SPECIFICATION Spec
INVARIANTS AnswersRight CopiesAgree
CHECK_DEADLOCK FALSE

CONSTANTS
  d1 = d1
  Review <- ThreeReviews
  Reader <- OneReader
  Page <- TwoPages
  MaxFailures = 1
SPECIFICATION ListSpec
INVARIANTS ListTypeOK NoGap PageRight OkAreListed
CHECK_DEADLOCK FALSE

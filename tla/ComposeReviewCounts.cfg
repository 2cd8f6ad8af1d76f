CONSTANTS
  r1 = r1
  movie = movie
  user = user
  text = text
  u1 = u1
  u2 = u2
  u3 = u3
  u4 = u4
  None = None
  Request <- OneRequest
  Component <- ThreeParts
  Upload <- FourUploads
  Req <- OneReview
  Part <- TextTwice
  MaxFailures = 1
  MaxLosses = 0
SPECIFICATION Spec
INVARIANTS ReturnedAreCounted
CHECK_DEADLOCK FALSE

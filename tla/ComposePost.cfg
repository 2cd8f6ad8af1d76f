CONSTANTS
  r1 = r1
  r2 = r2
  alice = alice
  bob = bob
  carol = carol
  i1 = i1
  i2 = i2
  d1 = d1
  NoId = NoId
  Request <- TwoRequests
  User <- Users
  PostId <- TwoIds
  Author <- TheAuthor
  Followers <- TheFollowers
  Changing <- TheChanging
  Mentions <- TheMentions
  Veteran <- OnlyAlice
  Reader <- OneReader
SPECIFICATION Spec
PROPERTIES ImplementsVisibility
CHECK_DEADLOCK FALSE
INVARIANTS NeverIncomplete RightReaders SuccessIsComplete

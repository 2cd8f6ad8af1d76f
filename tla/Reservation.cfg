CONSTANTS
  c1 = c1
  c2 = c2
  c3 = c3
  c4 = c4
  Call <- FourCalls
  First <- FirstOf
  Last <- LastOf
  Rooms <- RoomsAsked
  LastNight = 2
  Capacity = 2
  Query <- Queries
  Missing = Missing
  MaxFailures = 2
  MaxLosses = 2
SPECIFICATION Spec
INVARIANTS NoPhantomRooms RefusedForWant NotOverbooked WholeStays
CHECK_DEADLOCK FALSE

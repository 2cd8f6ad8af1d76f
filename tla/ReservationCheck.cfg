CONSTANTS
  c1 = c1
  c2 = c2
  c3 = c3
  c4 = c4
  Call <- FourCalls
  First <- FirstOf
  Last <- LastOf
  Rooms <- RoomsAsked
  LastNight = 2
  Capacity = 2
  Query <- Queries
  Missing = Missing
  MaxFailures = 0
  MaxLosses = 0
SPECIFICATION Spec
INVARIANTS VacantIsListed
CHECK_DEADLOCK FALSE

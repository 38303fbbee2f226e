CONSTANTS
  u1 = u1
  u2 = u2
  u3 = u3
  N = 2
  Users <- Roster2
  SeatOf <- Seats13
  StartingStackBB = 2
  Moves <- FoldCall
  Roaming <- Nobody
  MaxRequests = 1
  MaxVersion = 4
SPECIFICATION Spec
CHECK_DEADLOCK FALSE
INVARIANTS
  TurnIsOnTheRoster

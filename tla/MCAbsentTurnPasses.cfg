CONSTANTS
  u1 = u1
  u2 = u2
  u3 = u3
  N = 2
  Users <- Roster2
  SeatOf <- Seats12
  StartingStackBB = 1
  Moves <- JustCall
  Roaming <- Nobody
  MaxRequests = 1
  MaxVersion = 4
SPECIFICATION FairSpec
CHECK_DEADLOCK FALSE
PROPERTIES
  AbsentTurnPasses

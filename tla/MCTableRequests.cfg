CONSTANTS
  u1 = u1
  u2 = u2
  u3 = u3
  N = 2
  Users <- Roster2
  SeatOf <- Seats12
  StartingStackBB = 2
  Moves <- JustAllIn
  Roaming <- OnlyU1
  MaxRequests = 3
  MaxVersion = 5
SPECIFICATION FairSpec
CHECK_DEADLOCK FALSE
INVARIANTS
  TypeOK
  OneActionPerVersion
  ActsOnTheStateSeen
  RowsAreUnique
PROPERTIES
  ImplementsCommandLog
  ExpiredTurnPasses

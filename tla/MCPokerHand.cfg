CONSTANTS
  u1 = u1
  u2 = u2
  u3 = u3
  N = 3
  MaxStack = 4
  Subjects <- HandAndTable
  Users <- Roster
  SeatOf <- Seats123
  StartingStackBB = 1
  Moves <- JustAllIn
  Roaming <- Nobody
  MaxRequests = 3
  MaxVersion = 4
SPECIFICATION MCSpec
CHECK_DEADLOCK FALSE
INVARIANTS
  HandTypeOK
  StakesAccountedFor
  AllChipsPaid
  TurnIsOwed
  SomebodyToAct
  CurrentBetIsLargest
  StreetsAreSeenAtOnePrice
  SidePotCap
  BeatenHandsWinNothing
  TiesSplitEvenly
  VersionsInStep
  TurnBelongsToMember
  OpenWhileTwoPlay
PROPERTIES
  BettingTerminates
  ChipsNeverAppear
  EliminatedStayOut

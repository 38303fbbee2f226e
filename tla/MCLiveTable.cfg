CONSTANTS
  alice = alice
  bob = bob
  tab1 = tab1
  tab2 = tab2
  Users <- AliceAndBob
  Pages <- TwoTabs
  UserOf <- BothHers
  MaxEvents = 1
SPECIFICATION FairSpec
CHECK_DEADLOCK FALSE
INVARIANTS
  RoomIsCounted
PROPERTIES
  ViewsNeverGoBack
  StayingIsSeen
  BroadcastsReach

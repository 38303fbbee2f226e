CONSTANTS
  alice = alice
  bob = bob
  tab1 = tab1
  tab2 = tab2
  Users <- AliceAndBob
  Pages <- OneTab
  UserOf <- OneHers
  MaxEvents = 1
SPECIFICATION FairSpec
CHECK_DEADLOCK FALSE
PROPERTIES
  EveryChangeReaches

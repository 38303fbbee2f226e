CONSTANTS
  u1 = u1
  u2 = u2
  u3 = u3
  Handlers = {h1, h2}
  Subjects <- JustHands
  NoUser = NoUser
  Users <- Everyone
  Acquainted <- Pair
  MaxRooms = 2
  Private <- TheFirst
  Lively <- TheFirst
  SeatLimit = 2
  MinPlayers = 2
  MaxRequests = 1
  MaxMembers = 3
  Contexts <- SixAndOne
  TooSmall <- OneSeated
  RowSets <- OneRowSet
  MaxVersions = 2
  MaxRevision = 2
  MaxSessions = 2
  MaxScenarios = 4
  N = 6
  Amounts = {0, 1, 2, 3, 198, 199, 200, 201}
  Browsers <- Pair
  Emails = {e1, e2}
  Names <- TwoNames
  MaxAccounts = 2
  Trainees <- Everyone
  Capacity = 2
  Taken = 1
  MaxActions = 2
  Sources <- OneHand
  Authors <- Everyone
  MaxNumber = 4
  RelatedLimit = 1
  Sevens <- SevensOfLowDeck
  Deck <- SmallDeck
  Requests <- SmallRequests
SPECIFICATION Spec
CHECK_DEADLOCK FALSE
INVARIANT DecisionsAreLegal

CONSTANTS
  u1 = u1
  u2 = u2
  u3 = u3
  NoUser = NoUser
  Users <- Everyone
  Acquainted <- Pair
  MaxRooms = 1
  Private <- NoRooms
  Lively <- TheFirst
  Handlers = {h1, h2}
  SeatLimit = 2
  MinPlayers = 2
  MaxRequests = 1
  MaxMembers = 3
SPECIFICATION LobbySpec
SYMMETRY Symmetry
CHECK_DEADLOCK FALSE
PROPERTIES
  StartedRoomsStay

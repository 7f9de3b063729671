SPECIFICATION FairSpec
CONSTANTS
  Conns = {c1, c2, c3}
  Channels = {r1}
  Silent = {c1}
  NoRoom = NoRoom
  MaxConnections = 2
  MaxRooms = 1
  MaxPerRoom = 2
PROPERTIES
  CascadesEnd
  GoneIsReleased

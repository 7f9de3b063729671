SPECIFICATION Spec
CONSTANTS
  Conns = {c1, c2, c3, c4}
  Channels = {r1, r2}
  Silent = {}
  NoRoom = NoRoom
  MaxConnections = 4
  MaxRooms = 1
  MaxPerRoom = 3
SYMMETRY ConnSymmetry
INVARIANTS
  RoomsSound
  ViewsConverge
  SceneNotSkipped
PROPERTY DrainAttributed

SPECIFICATION Spec
CONSTANTS
  Users = {owner, u1}
  Owner = owner
  Keys = {k1}
  Conns = {c1}
  AllMembers = AllMembers
  NoKeyCheck = NoKeyCheck
  NoSession = NoSession
  TokenTTL = 1
  MaxTokenTTL = 2
  ControlTTL = 1
  Skew = 1
  MaxLead = 0
  MaxLag = 0
  GrantedRoles = {"editor"}
  LinkRoles = {"editor"}
  RoomTTLs = {1, 2}
  MaxRoomTTL = 2
  RetentionGrace = 5
  MaxTime = 4
  MaxRevision = 1
  MaxTokens = 1
  MaxPushes = 0
  MaxRestarts = 0
INVARIANT SessionWithinRoomLifetime

SPECIFICATION Spec
CONSTANTS
  Users = {owner, u1}
  Owner = owner
  Keys = {k1}
  Conns = {c1}
  AllMembers = AllMembers
  NoKeyCheck = NoKeyCheck
  NoSession = NoSession
  TokenTTL = 1
  MaxTokenTTL = 1
  ControlTTL = 1
  Skew = 1
  MaxLead = 0
  MaxLag = 0
  GrantedRoles = {"editor"}
  LinkRoles = {"editor"}
  RoomTTLs = {2}
  MaxRoomTTL = 2
  RetentionGrace = 3
  MaxTime = 2
  MaxRevision = 2
  MaxTokens = 1
  MaxPushes = 1
  MaxRestarts = 1
INVARIANT RevocationIsRemembered

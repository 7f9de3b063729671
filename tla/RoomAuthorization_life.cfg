SPECIFICATION FairSpec
CONSTANTS
  Users = {owner, u1}
  Owner = owner
  Keys = {k1}
  Conns = {c1}
  AllMembers = AllMembers
  NoKeyCheck = NoKeyCheck
  NoSession = NoSession
  TokenTTL = 1
  MaxTokenTTL = 2
  ControlTTL = 1
  Skew = 1
  MaxLead = 1
  MaxLag = 0
  GrantedRoles = {"editor"}
  LinkRoles = {"editor"}
  RoomTTLs = {1, 2}
  MaxRoomTTL = 2
  RetentionGrace = 4
  MaxTime = 5
  MaxRevision = 2
  MaxTokens = 1
  MaxPushes = 1
  MaxRestarts = 0
PROPERTIES SilentEndIsLate EverySessionEnds

SPECIFICATION Spec
CONSTANTS
  Users = {owner, u1}
  Owner = owner
  Keys = {k1,k2}
  Conns = {c1}
  AllMembers = AllMembers
  NoKeyCheck = NoKeyCheck
  NoSession = NoSession
  TokenTTL = 1
  MaxTokenTTL = 1
  ControlTTL = 1
  Skew = 1
  MaxLead = 0
  MaxLag = 0
  GrantedRoles = {"viewer"}
  LinkRoles = {"none","viewer"}
  RoomTTLs = {3}
  MaxRoomTTL = 3
  RetentionGrace = 3
  MaxTime = 3
  MaxRevision = 3
  MaxTokens = 2
  MaxPushes = 2
  MaxRestarts = 1
SYMMETRY KeySymmetry
INVARIANTS
  TypeOK
  EnforcedRevocationHolds
  FreshTokenAdmitted
  StaleJoinBounded
  DivergenceIsOwed
  OneVerifierPerGeneration

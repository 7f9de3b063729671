SPECIFICATION ComponentsSpec
CONSTANTS
    Scene = {"A", "B"}
    MaxEdits = 2
    MaxRev = 3
    MaxMishaps = 1
    MaxFlights = 2
    Key = {1, 2}
    File = {"f"}
    Saver = {1, 2}
    MaxGen = 2
    Asset = {"f", "g"}
    MaxDownloads = 2
    MaxUploads = 2
    MaxFetches = 2
    MaxTurns = 3
    Room = {"A", "B"}
    MaxMoves = 4
    Subject = {"s", "t"}
    Channel = {"r"}
    Burst = 2
    MaxTracked = 1
    MaxTime = 4
    MaxBacks = 1
    MaxRestarts = 1
    MaxEpoch = 4
    Tab = {"a", "b"}
    Image = {"f", "g"}
    MaxSecrets = 2
    MaxRevision = 2
    MaxRelease = 2
    MaxFrames = 1
    Operator = {"a", "b"}
    Bootstrap = {1, 2}
    MaxRequests = 4
    MaxHostMoves = 3
INVARIANTS
    TypesOK StorageSound NothingStranded RoomGetsItsOwn BudgetHolds KeysSound LinksOpen
    LibrarySound OperatorsSound FollowsSettle TransportSound FormatsSound
PROPERTIES EditsSurvive UnreadableIsProved EpochsRise
CHECK_DEADLOCK FALSE

SPECIFICATION Spec
CONSTANTS
    u1 = u1  gov = gov  k1 = k1  k2 = k2  plain = plain
    Nil = Nil
    Authority = gov
    Address <- MCAddress
    Propagate = {}
    Checksum = {plain}
    HasIBC <- MCHasIBC
    MigrateVersion <- MCMigrateVersion
    Salt = {}
    Label = {"label"}
    ClassicAddress <- MCClassic
    PredictableAddress <- MCNoPredictable
    MaxCodes = 2
    MaxInstances = 2
    MaxPos = 1
    Users = {u1}
    KeyOrder <- MCKeyOrder
    StateKeys = {1, 2, 4}
    Limits <- MCLimits
    MaxResultEntries = 1
    DefaultLimit = 1
    MaxHistory = 2
    MaxItems = 6
    InitStore <- MCInitStore
    ByteCode = {c1, c2}
    MaxHeight = 3
    MaxStored = 3
    None = None
INVARIANTS
    
    SnapshotExact
    RestoredRunnable
PROPERTY
    ListingEnds

SPECIFICATION GenesisSpec
CONSTANTS
    u1 = u1  u2 = u2  gov = gov
    k11 = k11  k12 = k12  k21 = k21  k22 = k22  p1 = p1
    plain = plain  ibc = ibc  salt = salt
    Nil = Nil
    Authority = gov
    Address <- MCAddress
    Users <- MCOneUser
    Propagate = {"Instantiate"}
    Checksum = {plain, ibc}
    HasIBC <- MCHasIBC
    MigrateVersion <- MCNoVersion
    Salt = {salt}
    Label = {"label"}
    ClassicAddress <- MCClassic
    PredictableAddress <- MCPredictable
    MaxCodes = 2
    MaxInstances = 2
    MaxPos = 1
    Configs = {}
    Admins = {u1}
    MsgTypes = {"StoreCode", "InstantiateContract", "MigrateContract", "PinCodes"}
    Modes = {"deliver"}
    ReplyModes = {"never"}
    GasLimited = {FALSE}
    Funds = {0}
    InitParams <- MCEverybody
    InitAccounts <- MCAccounts
    InitBank <- MCNoFunds
    MaxMsgs = 0
    MaxCallDepth = 1
    MaxHistory = 2
    Docs <- MCDocs
    StateKey = {}
    MaxRelaunch = 0
PROPERTY
    NextClassicUnused

SPECIFICATION FairSpec
CONSTANTS
    u1 = u1  u2 = u2  gov = gov
    k11 = k11  k12 = k12  k21 = k21  k22 = k22  p1 = p1
    plain = plain  ibc = ibc  salt = salt
    Nil = Nil
    Authority = gov
    Address <- MCAddress
    Users <- MCOneUser
    Propagate = {"Instantiate"}
    Checksum = {plain}
    HasIBC <- MCHasIBC
    MigrateVersion <- MCNoVersion
    Salt = {salt}
    Label = {"label"}
    ClassicAddress <- MCClassic
    PredictableAddress <- MCPredictable
    MaxCodes = 1
    MaxInstances = 1
    MaxPos = 0
    Configs = {}
    Admins = {Nil}
    MsgTypes = {"StoreAndInstantiateContract", "SudoContract", "ExecuteContract"}
    Modes = {"deliver"}
    ReplyModes = {"never", "error", "success", "always"}
    GasLimited = {TRUE, FALSE}
    Funds = {0}
    InitParams <- MCEverybody
    InitAccounts <- MCAccounts
    InitBank <- MCNoFunds
    MaxMsgs = 2
    MaxCallDepth = 3
    MaxHistory = 2

    
PROPERTIES
    TxEnds

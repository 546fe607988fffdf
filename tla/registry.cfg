SPECIFICATION Spec
CONSTANTS
    u1 = u1  u2 = u2  gov = gov
    k11 = k11  k12 = k12  k21 = k21  k22 = k22  p1 = p1
    plain = plain  ibc = ibc  salt = salt
    Nil = Nil
    Authority = gov
    Address <- MCAddress
    Users <- MCOneUser
    Propagate = {"Instantiate"}
    Checksum = {plain, ibc}
    HasIBC <- MCHasIBC
    MigrateVersion <- MCNoVersion
    Salt = {salt}
    Label = {"label"}
    ClassicAddress <- MCClassic
    PredictableAddress <- MCPredictable
    MaxCodes = 2
    MaxInstances = 1
    MaxPos = 1
    Configs = {}
    Admins = {k11, k21}
    MsgTypes = {"StoreAndInstantiateContract", "MigrateContract", "StoreAndMigrateContract", "SendIBCPacket"}
    Modes = {"deliver", "simulate"}
    ReplyModes = {"never", "always"}
    GasLimited = {TRUE}
    Funds = {0, 1}
    InitParams <- MCEverybody
    InitAccounts <- MCAccounts
    InitBank <- MCNoFunds
    MaxMsgs = 2
    MaxCallDepth = 2
    MaxHistory = 3
INVARIANTS
    IndexInv
    HistoryInv
    SequenceInv
    PortInv
    PolicyContainment

    

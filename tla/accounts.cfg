SPECIFICATION Spec
CONSTANTS
    u1 = u1  u2 = u2  gov = gov
    k11 = k11  k12 = k12  k21 = k21  k22 = k22  p1 = p1
    plain = plain  ibc = ibc  salt = salt
    Nil = Nil
    Authority = gov
    Address <- MCFewAddresses
    Users <- MCOneUser
    Propagate = {"Instantiate"}
    Checksum = {plain}
    HasIBC <- MCHasIBC
    MigrateVersion <- MCNoVersion
    Salt = {salt}
    Label = {"label", "renamed"}
    ClassicAddress <- MCClassic
    PredictableAddress <- MCPredictable
    MaxCodes = 1
    MaxInstances = 1
    MaxPos = 0
    Configs = {}
    Admins = {u1}
    MsgTypes = {"StoreCode", "InstantiateContract", "InstantiateContract2",
                "StoreAndInstantiateContract", "UpdateAdmin", "ClearAdmin",
                "UpdateContractLabel", "AddCodeUploadParamsAddresses",
                "RemoveCodeUploadParamsAddresses", "PinCodes", "UnpinCodes",
                "OpenAccount"}
    Modes = {"deliver", "simulate"}
    ReplyModes = {"always"}
    GasLimited = {FALSE}
    Funds = {0, 1}
    InitParams <- MCRestricted
    InitAccounts <- MCAccounts
    InitBank <- MCOneCoin
    MaxMsgs = 1
    MaxCallDepth = 2
    MaxHistory = 1
INVARIANTS
    BlobInv
    ClaimedKept
    LiquidInv

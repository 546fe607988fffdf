SPECIFICATION Spec
CONSTANTS
    Width = 1000
    Config <- MCConfig
    Panic = Panic
    MaxLen = 2
    MaxCount = 2
    Entries = {"execute"}
    MeterLimits = {2, 4, 10}
    Work = {1, 2, 5}
    StorageCosts = {1, 2}
    MaxQueryStackSize = 2
    Nil = Nil
    Codes = {k1, k2}
    Pinned = {}
    TxLimits = {10}
    GasLimits = {2, 5}
    RunGas = {0, 2}
    MaxMsgs = 2
    MaxDepth = 3
    MaxCalls = 4
    Contracts <- MCContracts
    Denoms <- MCDenoms
    Keys <- MCKeys
    Payloads <- MCPayloads
    TopKey <- MCTopKey
    Positions = {1, 2}
    Authorizations <- MCAuthorizations
    Transfers <- MCTransfers
    MaxNesting = 2
    MaxUses = 3
    Nodes = {n1, n2}
    Chain <- MCChain
    CounterRange = 4
    None = None
    Messages <- MCMessages
    MaxVariants = 1
SYMMETRY MCSymmetry
INVARIANTS
    CostsExact
    VMLimitSound
    AllPaid
    GasAccounted
    EffectsMatchStore
    FullPriceOnce
    GrantedCallAccepted
    LimitsBalance
    CounterExact
    DecodedValue
    SizeEqualExact
CHECK_DEADLOCK FALSE

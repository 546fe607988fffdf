SPECIFICATION Spec
CONSTANTS
    c1 = c1  c2 = c2  u1 = u1  ch1 = ch1  cl1 = cl1
    Nil = Nil
    Contracts = {c1, c2}
    IBCContracts = {c1}
    Users = {u1}
    Channels = {ch1}
    PortOf <- MCPortOf
    Clients = {cl1}
    InPackets <- MCInPackets
    Responses <- MCResponses
    MaxSent = 1
    Unknown = Unknown
    Chains = {a, b}
    Versions = {v1, v2}
    MaxChannelSeq = 1
    MaxChannels = 3
    NoCallback = NoCallback
    TransferChains <- MCTransferChains
    Home = "A"
    TransferChannels <- MCTransferChannels
    Peer <- MCPeer
    MaxPackets = 3
INVARIANTS
    AckOrPending
    ErrorAckLeavesNoTrace
    SettledOnce
    ConnectAgreement
    CallbackTruth
CHECK_DEADLOCK FALSE

---------------------------- MODULE IBCChannels -----------------------------
(***************************************************************************)
(* The channel handshake between two chains that both run x/wasm: the      *)
(* callbacks OnChanOpenInit, Try, Ack, Confirm, CloseInit and CloseConfirm *)
(* of x/wasm/ibc.go with OnOpenChannel, OnConnectChannel and               *)
(* OnCloseChannel of keeper/relay.go.  ibc-go's part (channel records,     *)
(* proofs of the other end's record) is external.                          *)
(*                                                                         *)
(* Relayers may run any number of handshakes at once, repeat messages and  *)
(* answer one INIT with several TRYs.  A contract may refuse any callback, *)
(* which fails the relayer's transaction.  There is one contract per chain.*)
(***************************************************************************)
EXTENDS Integers, FiniteSets

CONSTANTS
    Unknown,        \* not known yet, or not told
    Chains,         \* the two chains
    Versions,       \* channel versions
    MaxChannelSeq,  \* math.MaxUint32: the last channel sequence a contract accepts
    MaxChannels     \* bound on the channels of a chain, above MaxChannelSeq

Empty == ""

ASSUME ChannelAssumption ==
    /\ Cardinality(Chains) = 2
    /\ Empty \notin Versions
    /\ MaxChannelSeq \in Nat /\ MaxChannels \in Nat

ChannelID == 0..(MaxChannels - 1)

State == {"INIT", "TRYOPEN", "OPEN", "CLOSED"}

VARIABLES
    chan,   \* ibc-go: chan[x] maps the channel ids of chain x to their records
    next,   \* ibc-go: next channel sequence of each chain
    told    \* contract storage: what the contract was told about each channel

channelsVars == <<chan, next, told>>

Channel == [state : State, counterparty : ChannelID \cup {Unknown}, version : Versions]

\* What a connect callback says: the channel as toWasmVMChannel builds it and the
\* version of the other side.
Connected == [counterparty : ChannelID \cup {Unknown}, version : Versions,
              counterpartyVersion : Versions \cup {Unknown}]

Other(x) == CHOOSE y \in Chains : y # x

Has(x, id) == id \in DOMAIN chan[x]

ChannelsInit ==
    /\ chan = [x \in Chains |-> << >>]
    /\ next = [x \in Chains |-> 0]
    /\ told = [x \in Chains |-> [id \in ChannelID |->
                  [connect |-> {}, closed |-> FALSE]]]

-----------------------------------------------------------------------------
\* The channel sequence fits in 32 bits.
ValidateChannelParams(id) == id <= MaxChannelSeq

\* OnOpenChannel: the contract's version, Empty for "as proposed"; the contract may
\* refuse instead.
OnOpenChannel == Versions \cup {Empty}

SetChannel(x, id, c) ==
    chan' = [chan EXCEPT ![x] = [i \in DOMAIN chan[x] \cup {id} |->
                                    IF i = id THEN c ELSE chan[x][i]]]

NewChannel(x, state, counterparty, version) ==
    /\ next[x] < MaxChannels
    /\ SetChannel(x, next[x], [state |-> state, counterparty |-> counterparty,
                               version |-> version])
    /\ next' = [next EXCEPT ![x] = @ + 1]
    /\ UNCHANGED told

\* The proposed version may be empty; then the contract has to name one.
OnChanOpenInit(x, proposed, answer) ==
    /\ ValidateChannelParams(next[x])
    /\ answer \in OnOpenChannel
    /\ answer # Empty \/ proposed # Empty
    /\ NewChannel(x, "INIT", Unknown, IF answer = Empty THEN proposed ELSE answer)

\* ibc-go has verified that the other chain has id in state INIT.  Several channels may
\* be opened in answer to one INIT.
OnChanOpenTry(x, id, answer) ==
    /\ Has(Other(x), id) /\ chan[Other(x)][id].state = "INIT"
    /\ ValidateChannelParams(next[x])
    /\ answer \in OnOpenChannel
    /\ NewChannel(x, "TRYOPEN", id,
                  IF answer = Empty THEN chan[Other(x)][id].version ELSE answer)

\* toWasmVMChannel, as far as the two ends can disagree about it.
ToWasmVMChannel(c) == [counterparty |-> c.counterparty, version |-> c.version]

\* OnConnectChannel of the keeper: the contract is told, or refuses and everything is
\* rolled back.
OnConnectChannel(x, id, msg) ==
    told' = [told EXCEPT ![x][id].connect = @ \cup {msg}]

\* ibc-go calls back before it stores the other end's id and version, so the handler
\* fills in the id by hand.
AckChannel(c, counterpartyID) == [c EXCEPT !.counterparty = counterpartyID]

\* Mutant: the version that GetAppVersion returns, which is the proposed one.
AckVersionAsStored(c, end) == c.version

\* The version the other end has answered with.
AckVersion(c, end) == end.version

\* ibc-go has verified that the other end is a TRYOPEN answer to this channel.
OnChanOpenAck(x, id, counterpartyID) ==
    /\ Has(x, id) /\ chan[x][id].state = "INIT"
    /\ Has(Other(x), counterpartyID)
    /\ LET end == chan[Other(x)][counterpartyID]
           info == ToWasmVMChannel(AckChannel(chan[x][id], counterpartyID))
       IN  /\ end.state = "TRYOPEN" /\ end.counterparty = id
           /\ OnConnectChannel(x, id, [counterparty |-> info.counterparty,
                                       version |-> info.version,
                                       counterpartyVersion |-> AckVersion(chan[x][id], end)])
           /\ SetChannel(x, id, [state |-> "OPEN", counterparty |-> counterpartyID,
                                 version |-> end.version])
    /\ UNCHANGED next

\* ibc-go has verified that the other end is OPEN and points here.
ConfirmProof(x, id) ==
    LET end == chan[Other(x)][chan[x][id].counterparty]
    IN  end.state = "OPEN" /\ end.counterparty = id

\* The channel record is complete when the confirm callback runs.
OnChanOpenConfirm(x, id) ==
    /\ Has(x, id) /\ chan[x][id].state = "TRYOPEN"
    /\ ConfirmProof(x, id)
    /\ LET info == ToWasmVMChannel(chan[x][id])
       IN  OnConnectChannel(x, id, [counterparty |-> info.counterparty,
                                    version |-> info.version,
                                    counterpartyVersion |-> Unknown])
    /\ SetChannel(x, id, [chan[x][id] EXCEPT !.state = "OPEN"])
    /\ UNCHANGED next

\* OnCloseChannel of the keeper, then ibc-go closes the end.
OnCloseChannel(x, id) ==
    /\ told' = [told EXCEPT ![x][id].closed = TRUE]
    /\ SetChannel(x, id, [chan[x][id] EXCEPT !.state = "CLOSED"])
    /\ UNCHANGED next

OnChanCloseInit(x, id) ==
    /\ Has(x, id) /\ chan[x][id].state # "CLOSED"
    /\ OnCloseChannel(x, id)

\* ibc-go has verified that the other end is CLOSED.
OnChanCloseConfirm(x, id) ==
    /\ Has(x, id) /\ chan[x][id].state # "CLOSED"
    /\ chan[x][id].counterparty # Unknown
    /\ chan[Other(x)][chan[x][id].counterparty].state = "CLOSED"
    /\ OnCloseChannel(x, id)

ChannelsNext ==
    \E x \in Chains :
        \/ \E v \in Versions \cup {Empty}, a \in OnOpenChannel : OnChanOpenInit(x, v, a)
        \/ \E id \in ChannelID, a \in OnOpenChannel : OnChanOpenTry(x, id, a)
        \/ \E id, cp \in ChannelID : OnChanOpenAck(x, id, cp)
        \/ \E id \in ChannelID : \/ OnChanOpenConfirm(x, id)
                                 \/ OnChanCloseInit(x, id)
                                 \/ OnChanCloseConfirm(x, id)

ChannelsSpec == ChannelsInit /\ [][ChannelsNext]_channelsVars

-----------------------------------------------------------------------------
\* A contract is told of a connection once per channel, and what it is told is true: the
\* named channel exists on the other chain and points back here, although ibc-go has not
\* stored the name yet when the initiator's callback runs.  When both contracts have been
\* told, they have been told of each other and of the same version: the initiator's is the
\* counterparty version, which may differ from the one it proposed.  Of several answers to
\* one INIT, at most one gets there.
ConnectAgreement ==
    \A x \in Chains, id \in ChannelID :
        /\ Cardinality(told[x][id].connect) <= 1
        /\ \A m \in told[x][id].connect :
            /\ m.counterparty \in DOMAIN chan[Other(x)]
            /\ chan[Other(x)][m.counterparty].counterparty = id
            /\ m.counterpartyVersion = Unknown =>
                \E n \in told[Other(x)][m.counterparty].connect :
                    n.counterparty = id /\ n.counterpartyVersion = m.version

\* The comment of OnConnectChannel: the counterparty channel id is empty on the
\* initiating chain.
InitiatorToldEmpty ==
    \A x \in Chains, id \in ChannelID : \A m \in told[x][id].connect :
        m.counterpartyVersion # Unknown => m.counterparty = Unknown
=============================================================================

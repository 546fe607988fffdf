---------------------------- MODULE IBCCallbacks ----------------------------
(***************************************************************************)
(* The IBC callbacks of contracts on token transfers: the ContractKeeper   *)
(* methods of x/wasm/ibc.go with IBCSourceCallback and                     *)
(* IBCDestinationCallback of keeper/relay.go, on two chains that both run  *)
(* them.  The transfer module, the callbacks middleware and the packet     *)
(* life cycle of ibc-go are external.                                      *)
(*                                                                         *)
(* Each chain has one contract and one user.  The contract keeps a ledger  *)
(* of what the callbacks tell it; it spends from the ledger only.          *)
(* A callback may fail (the contract refuses or is out of gas): for a      *)
(* source callback the middleware drops its writes and goes on; for a      *)
(* destination callback the model allows this and an error                 *)
(* acknowledgement that rolls the transfer back.                           *)
(***************************************************************************)
EXTENDS Integers, SequencesExt, BagsExt

CONSTANTS
    NoCallback,         \* no callback is asked for
    TransferChains,     \* the two chains
    Home,               \* the chain of the native token
    TransferChannels,   \* channel names, used on both chains
    Peer,               \* channel of one chain -> the channel at the other end
    MaxPackets          \* bound on the packets sent

Accounts == {"contract", "user"}

ASSUME CallbackAssumption ==
    /\ Cardinality(TransferChains) = 2 /\ Home \in TransferChains
    /\ Peer \in [TransferChains -> [TransferChannels -> TransferChannels]]
    /\ \A x, y \in TransferChains, ch \in TransferChannels :
        x # y => Peer[y][Peer[x][ch]] = ch
    /\ MaxPackets \in Nat

VARIABLES
    \* A denomination is the trace of the one base token: the channels it came
    \* through, the last hop first.
    bank,      \* bag of <<chain, owner, denom>>, one per coin; escrow owners are channels
    ledger,    \* contract storage: coins the contract believes it owns, per chain
    packets,   \* packets sent, with where they are in their life
    outcomes   \* contract storage: source callbacks seen, as a bag of <<chain, seq>>

callbacksVars == <<bank, ledger, packets, outcomes>>

OtherChain(x) == CHOOSE y \in TransferChains : y # x

Coins(b, x, who, d) == CopiesIn(<<x, who, d>>, b)

Pay(b, x, who, d) == BagAdd(b, <<x, who, d>>)

Take(b, x, who, d) == BagRemove(b, <<x, who, d>>)

CallbacksInit ==
    /\ bank = SetToBag({<<Home, "contract", << >> >>})
    /\ ledger = [x \in TransferChains |-> IF x = Home THEN SetToBag({<< >>}) ELSE EmptyBag]
    /\ packets = {}
    /\ outcomes = EmptyBag

-----------------------------------------------------------------------------
(* External: the transfer module.                                           *)

HasPrefix(trace, ch) == trace # << >> /\ Head(trace) = ch

\* Vouchers of the channel are burnt, other coins go to its escrow account.
TransferSend(b, x, who, ch, d) ==
    IF HasPrefix(d, ch) THEN Take(b, x, who, d)
    ELSE Pay(Take(b, x, who, d), x, ch, d)

\* A coin that comes back leaves the escrow account of the channel, another one is
\* minted as a voucher.
TransferReceive(b, p) ==
    LET x == OtherChain(p.from)
    IN  IF HasPrefix(p.trace, p.src)
        THEN Pay(Take(b, x, p.dst, Tail(p.trace)), x, p.receiver, Tail(p.trace))
        ELSE Pay(b, x, p.receiver, <<p.dst>> \o p.trace)

TransferRefund(b, p) ==
    IF HasPrefix(p.trace, p.src) THEN Pay(b, p.from, p.sender, p.trace)
    ELSE Pay(Take(b, p.from, p.src, p.trace), p.from, p.sender, p.trace)

-----------------------------------------------------------------------------
\* validateSender: only the contract that sent the packet is called back.
ValidateSender(contract, sender) == contract = sender

\* IBCSendPacketCallback: nothing but the check; an error refuses the packet.
IBCSendPacketCallback(contract, sender) == ValidateSender(contract, sender)

\* Mutant: the hop is compared with, and built from, the wrong end of the packet.
TransferFundsSwapped(p) ==
    IF HasPrefix(p.trace, p.dst) THEN Tail(p.trace) ELSE <<p.src>> \o p.trace

\* IBCReceivePacketCallback: the denomination on this chain of the funds in the packet.
TransferFunds(p) ==
    IF HasPrefix(p.trace, p.src) THEN Tail(p.trace) ELSE <<p.dst>> \o p.trace

\* IBCDestinationCallback: the contract books what it is told if it is the receiver.
IBCDestinationCallback(p) ==
    LET x == OtherChain(p.from)
    IN  IF p.receiver = "contract"
        THEN [ledger EXCEPT ![x] = BagAdd(@, TransferFunds(p))] ELSE ledger

\* IBCOnAcknowledgementPacketCallback and IBCOnTimeoutPacketCallback, up to
\* IBCSourceCallback: there is a contract, and it books the refund of its own packet.
IBCSourceCallback(p, refunded) ==
    /\ p.srcCallback = "contract"
    /\ outcomes' = BagAdd(outcomes, <<p.from, p.seq>>)
    /\ ledger' = IF refunded THEN [ledger EXCEPT ![p.from] = BagAdd(@, p.trace)]
                 ELSE ledger

Advance(p, state) == packets' = (packets \ {p}) \cup {[p EXCEPT !.state = state]}

-----------------------------------------------------------------------------
SendTransfer(x, sender, receiver, ch, d, srcCallback, dstCallback) ==
    /\ Cardinality(packets) < MaxPackets
    /\ Coins(bank, x, sender, d) > 0
    /\ sender = "contract" => CopiesIn(d, ledger[x]) > 0
    /\ srcCallback # NoCallback => IBCSendPacketCallback(srcCallback, sender)
    /\ bank' = TransferSend(bank, x, sender, ch, d)
    /\ ledger' = IF sender = "contract" THEN [ledger EXCEPT ![x] = BagRemove(@, d)]
                 ELSE ledger
    /\ packets' = packets \cup
           {[seq |-> Cardinality(packets) + 1, from |-> x, src |-> ch,
             dst |-> Peer[x][ch], trace |-> d, sender |-> sender,
             receiver |-> receiver, srcCallback |-> srcCallback,
             dstCallback |-> dstCallback, state |-> "sent"]}
    /\ UNCHANGED outcomes

\* The packet arrives.  The transfer may fail, and so may the callback.
ReceiveTransfer(p) ==
    /\ p.state = "sent"
    /\ \/ /\ Advance(p, "refused")
          /\ UNCHANGED <<bank, ledger>>
       \/ /\ Advance(p, "received")
          /\ bank' = TransferReceive(bank, p)
          /\ ledger' \in IF p.dstCallback = NoCallback THEN {ledger}
                         ELSE {ledger, IBCDestinationCallback(p)}
    /\ UNCHANGED outcomes

\* Acknowledgement or timeout at the source, refunding what was refused or never
\* received.  The callback checks the sender again.
SettleTransfer(p) ==
    LET refunded == p.state # "received"
    IN  /\ p.state # "settled"
        /\ Advance(p, "settled")
        /\ bank' = IF refunded THEN TransferRefund(bank, p) ELSE bank
        /\ \/ /\ p.srcCallback # NoCallback /\ ValidateSender(p.srcCallback, p.sender)
              /\ IBCSourceCallback(p, refunded)
           \/ UNCHANGED <<ledger, outcomes>>

CallbacksNext ==
    \/ \E x \in TransferChains, sender, receiver \in Accounts, ch \in TransferChannels :
        \E d \in {c[3] : c \in BagToSet(bank)}, sc \in Accounts \cup {NoCallback} :
            \E dc \in {"contract", NoCallback} :
                SendTransfer(x, sender, receiver, ch, d, sc, dc)
    \/ \E p \in packets : ReceiveTransfer(p) \/ SettleTransfer(p)

CallbacksSpec == CallbacksInit /\ [][CallbacksNext]_callbacksVars

-----------------------------------------------------------------------------
\* What the callbacks tell a contract is true.  It hears of the outcome of its own packets
\* only, and of each once.  It never lacks coins that it was told of: the denomination
\* that IBCReceivePacketCallback computes is the one the transfer module credited, for
\* tokens that travel along one channel and come back along another.
CallbackTruth ==
    /\ \A t \in BagToSet(outcomes) :
        /\ CopiesIn(t, outcomes) = 1
        /\ \E p \in packets : p.seq = t[2] /\ p.from = t[1] /\ p.sender = "contract"
                              /\ p.state = "settled"
    /\ \A x \in TransferChains : \A d \in BagToSet(ledger[x]) :
        CopiesIn(d, ledger[x]) <= Coins(bank, x, "contract", d)

=============================================================================

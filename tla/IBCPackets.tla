----------------------------- MODULE IBCPackets -----------------------------
(***************************************************************************)
(* IBC packets of contracts, for both IBC versions: the callbacks of       *)
(* x/wasm/ibc.go, keeper/relay.go and keeper/ibc2.go, the raw packet       *)
(* handlers of keeper/handler_plugin.go and the store of packets that are  *)
(* acknowledged later (keeper.go).  ibc-go's receipts, acknowledgements    *)
(* and commitments are external: they are modelled from how the callbacks  *)
(* are used.                                                               *)
(*                                                                         *)
(* A transaction runs on one goroutine, so a relayed message or an         *)
(* execution is one step; inside of it the contract's messages run in      *)
(* cache contexts that are committed or dropped one by one.  Relayers and  *)
(* contracts are the environment: a packet may be relayed any number of    *)
(* times, in any order, and a contract answers with any of Responses.      *)
(***************************************************************************)
EXTENDS Integers, SequencesExt, BagsExt

CONSTANTS
    Nil,
    Contracts,      \* addresses with a contract
    IBCContracts,   \* contracts with IBC v1 entry points, hence a v1 port
    Users,          \* accounts without a contract
    Channels,       \* v1 channels
    PortOf,         \* v1 channel -> the contract whose port it is bound to
    Clients,        \* v2 clients
    InPackets,      \* packets the counterparty sends
    Responses,      \* what a contract may answer to a call
    MaxSent         \* bound on the packets sent from here

\* A port id holds the address of its contract; v1 and v2 differ in the prefix.
PortID == Contracts \cup Users

Packet == [ver : {1, 2}, port : PortID, chan : Channels \cup Clients, seq : Nat]

ASSUME PacketAssumption ==
    /\ IBCContracts \subseteq Contracts
    /\ Contracts \cap Users = {}
    /\ PortOf \in [Channels -> IBCContracts]
    /\ Channels \cap Clients = {}
    /\ InPackets \subseteq Packet
    /\ \A p \in InPackets :
        IF p.ver = 1 THEN p.chan \in Channels /\ p.port = PortOf[p.chan]
                     ELSE p.chan \in Clients
    /\ \A p, q \in InPackets : p.chan = q.chan /\ p.seq = q.seq => p = q
    /\ MaxSent \in Nat

VARIABLE st   \* the committed state

\* The data of an error acknowledgement.
ErrorAck == "error"

Ack == [packet : InPackets, data : {ErrorAck, "contract", "reply", "later"},
        by : PortID \cup {Nil}]

\* What a contract is called for; emitted counts the calls whose events reach the
\* transaction.
Call == {"recv", "ack", "timeout", "send", "close"} \X Packet

PacketsInit ==
    st = [open     |-> Channels,   \* ibc-go: channels in state OPEN
          receipts |-> {},         \* ibc-go: packets received
          acks     |-> {},         \* ibc-go: acknowledgements written
          async    |-> {},         \* wasm: packets stored for a later acknowledgement
          async2   |-> {},         \* ibc-go v2: packets with status Async
          sent     |-> {},         \* ghost: packets sent from here, with the signer
          commits  |-> {},         \* ibc-go: commitments of packets sent from here
          calls    |-> EmptyBag,   \* contract storage: the calls contracts have seen
          emitted  |-> EmptyBag]   \* events of receive calls that left the callback

Ok(s) == [ok |-> TRUE, st |-> s]

Failed(s) == [ok |-> FALSE, st |-> s]

-----------------------------------------------------------------------------
(* The store of packets to acknowledge later, keyed by destination port,    *)
(* destination channel and sequence.                                        *)

StoreAsyncAckPacket(s, p) == [s EXCEPT !.async = @ \cup {p}]

LoadAsyncAckPacket(s, port, ch, n) ==
    {p \in s.async : p.port = port /\ p.chan = ch /\ p.seq = n}

DeleteAsyncAckPacket(s, port, ch, n) ==
    [s EXCEPT !.async = @ \ LoadAsyncAckPacket(s, port, ch, n)]

(* ibc-go, as far as the callbacks rely on it.                              *)

\* ICS-4 WriteAcknowledgement: the channel is open and nothing was written yet.
CanAcknowledge(s, p) ==
    /\ p.ver = 1 => p.chan \in s.open
    /\ \A a \in s.acks : a.packet # p

Acknowledge(s, p, data, by) ==
    [s EXCEPT !.acks = @ \cup {[packet |-> p, data |-> data, by |-> by]}]

\* A packet leaves a port: the next sequence of the channel or client.
Send(s, ver, port, ch, signer) ==
    LET n == Cardinality({x \in s.sent : x.packet.chan = ch}) + 1
        p == [ver |-> ver, port |-> port, chan |-> ch, seq |-> n]
    IN  [s EXCEPT !.sent = @ \cup {[packet |-> p, signer |-> signer]},
                  !.commits = @ \cup {p}]

-----------------------------------------------------------------------------
(* Messages of a contract.                                                  *)

\* IBCRawPacketHandler, SendPacket: the port is the one handed down by the
\* dispatcher, empty for a contract without IBC entry points.
SendPacket(s, c, ch) ==
    IF /\ c \in IBCContracts
       /\ ch \in s.open /\ PortOf[ch] = c
       /\ Cardinality(s.sent) < MaxSent
    THEN Ok(Send(s, 1, c, ch, c)) ELSE Failed(s)

\* Mutant: the packet stays in the store after its acknowledgement.
WriteAcknowledgementKeeps(s, c, ch, n, data) ==
    LET found == LoadAsyncAckPacket(s, c, ch, n)
    IN  IF c \in IBCContracts /\ \E p \in found : CanAcknowledge(s, p)
        THEN Ok(Acknowledge(s, CHOOSE p \in found : TRUE, data, c)) ELSE Failed(s)

\* IBCRawPacketHandler, WriteAcknowledgement: load, write, delete.
WriteAcknowledgement(s, c, ch, n, data) ==
    LET found == LoadAsyncAckPacket(s, c, ch, n)
    IN  IF c \in IBCContracts /\ \E p \in found : CanAcknowledge(s, p)
        THEN Ok(DeleteAsyncAckPacket(
                    Acknowledge(s, CHOOSE p \in found : TRUE, data, c), c, ch, n))
        ELSE Failed(s)

\* IBC2RawPacketHandler: the pending packet is addressed to this contract's port.
\* A packet has one payload.  ibc-go removes the pending packet.
WriteAcknowledgement2(s, c, cl, n, data) ==
    LET found == {p \in s.async2 : p.chan = cl /\ p.seq = n}
    IN  IF \E p \in found : p.port = c /\ CanAcknowledge(s, p)
        THEN Ok([Acknowledge(s, CHOOSE p \in found : TRUE, data, c)
                    EXCEPT !.async2 = @ \ found])
        ELSE Failed(s)

\* A contract is called: it exists, and what it writes is in its storage.
Called(s, kind, p) == [s EXCEPT !.calls = BagAdd(@, <<kind, p>>)]

\* A v2 packet is sent by a message of ibc-go that any account may sign; ibc-go calls
\* IBC2Handler.OnSendPacket of the source port, which requires that the contract
\* signed and then asks the contract.
OnSendPacket2(s, signer, port, cl, ok) ==
    LET t == Send(s, 2, port, cl, signer)
        p == CHOOSE p \in t.commits : p \notin s.commits
    IN  IF /\ signer = port
           /\ port \in Contracts
           /\ Cardinality(s.sent) < MaxSent /\ ok
        THEN Ok(Called(t, "send", p)) ELSE Failed(s)

\* MessageHandlerChain.DispatchMsg: the handler that knows the message runs it.
DispatchMsg(s, c, m) ==
    CASE m.kind = "send"   -> SendPacket(s, c, m.chan)
      [] m.kind = "ack"    -> WriteAcknowledgement(s, c, m.chan, m.seq, "later")
      [] m.kind = "send2"  -> OnSendPacket2(s, c, m.port, m.chan, TRUE)
      [] m.kind = "ack2"   -> WriteAcknowledgement2(s, c, m.chan, m.seq, "later")
      [] m.kind = "other"  -> [ok |-> m.ok, st |-> s]

\* One iteration of DispatchSubmessages: the message's state is committed or dropped,
\* then the reply, if one is asked for, may replace the data or fail everything.
DispatchSubmessage(acc, sub, c) ==
    LET r == DispatchMsg(acc.st, c, sub.msg)
        s == IF r.ok THEN r.st ELSE acc.st
        reply == sub.mode \in {"always", IF r.ok THEN "success" ELSE "error"}
    IN  CASE ~acc.ok -> acc
          [] acc.ok /\ reply ->
                [ok |-> sub.reply # "fails", st |-> s,
                 data |-> IF sub.reply = "data" THEN "reply" ELSE acc.data]
          [] acc.ok /\ ~reply -> [acc EXCEPT !.ok = r.ok, !.st = s]

\* handleContractResponse: all messages of the response, in order.
HandleContractResponse(s, c, rsp) ==
    FoldLeft(LAMBDA acc, sub : DispatchSubmessage(acc, sub, c),
             [ok |-> TRUE, st |-> s, data |-> rsp.data], rsp.msgs)

\* The shape of every callback of the keeper: find the contract, run it, and handle
\* its response unless it returned an error.  Runs in the caller's context, so the
\* contract's own writes are in it even if the callback fails.
Callback(s, c, kind, p, rsp) ==
    IF c \notin Contracts THEN [ok |-> FALSE, st |-> s, data |-> Nil]
    ELSE IF rsp.res # "ok" THEN [ok |-> FALSE, st |-> Called(s, kind, p), data |-> Nil]
    ELSE HandleContractResponse(Called(s, kind, p), c, rsp)

\* Keeper.OnAckPacket, OnTimeoutPacket, OnCloseChannel and their v2 forms: basic
\* responses without data.
OnAckPacket(s, p, rsp) == Callback(s, p.port, "ack", p, [rsp EXCEPT !.data = Nil])

OnTimeoutPacket(s, p, rsp) == Callback(s, p.port, "timeout", p, [rsp EXCEPT !.data = Nil])

OnAckIBC2Packet(s, p, rsp) == Callback(s, p.port, "ack", p, [rsp EXCEPT !.data = Nil])

OnTimeoutIBC2Packet(s, p, rsp) ==
    Callback(s, p.port, "timeout", p, [rsp EXCEPT !.data = Nil])

\* Keeper.OnRecvPacket: an error of the contract or of a message is an error
\* acknowledgement; no data means an acknowledgement later, and the packet is stored.
OnRecvPacket(s, p, rsp) ==
    LET out == Callback(s, p.port, "recv", p, rsp)
    IN  IF ~out.ok THEN [ack |-> ErrorAck, st |-> out.st]
        ELSE IF out.data = Nil THEN [ack |-> Nil, st |-> StoreAsyncAckPacket(out.st, p)]
        ELSE [ack |-> out.data, st |-> out.st]

\* Keeper.OnRecvIBC2Packet: status Failure, Async or Success.
OnRecvIBC2Packet(s, p, rsp) ==
    LET out == Callback(s, p.port, "recv", p, rsp)
    IN  IF ~out.ok THEN [status |-> "Failure", ack |-> ErrorAck, st |-> out.st]
        ELSE IF out.data = Nil THEN [status |-> "Async", ack |-> Nil, st |-> out.st]
        ELSE [status |-> "Success", ack |-> out.data, st |-> out.st]

-----------------------------------------------------------------------------
(* Relayed messages and executions.                                         *)

\* IBCHandler.OnRecvPacket: events are emitted when the state is going to be committed,
\* which includes the nil acknowledgement.
Emits(ack) == ack = Nil \/ ack # ErrorAck

\* ibc-go commits the callback's state unless the acknowledgement is an error, and
\* writes the acknowledgement unless it is nil.  A packet seen before is a no-op.  A
\* contract that panics aborts the transaction (panic(execErr)): nothing is written
\* and the packet can be relayed again.
RecvPacket(p, rsp) ==
    /\ p.ver = 1
    /\ p \notin st.receipts /\ p.chan \in st.open
    /\ rsp.res # "abort"
    /\ LET s   == [st EXCEPT !.receipts = @ \cup {p}]
           out == OnRecvPacket(s, p, rsp)
           t   == IF out.ack = ErrorAck THEN s ELSE out.st
           u   == IF out.ack = Nil THEN t ELSE Acknowledge(t, p, out.ack, Nil)
       IN  st' = IF Emits(out.ack) THEN [u EXCEPT !.emitted = BagAdd(@, <<"recv", p>>)]
                                   ELSE u

\* Mutant: the state of a failed callback is kept with its error acknowledgement.
RecvPacket2KeepsState(p, rsp) ==
    /\ p.ver = 2
    /\ p \notin st.receipts
    /\ rsp.res # "abort"
    /\ LET s   == [st EXCEPT !.receipts = @ \cup {p}]
           out == OnRecvIBC2Packet(s, p, rsp)
           t   == out.st
           u   == IF out.status = "Success"
                  THEN [t EXCEPT !.emitted = BagAdd(@, <<"recv", p>>)] ELSE t
       IN  st' = IF out.status = "Async" THEN [u EXCEPT !.async2 = @ \cup {p}]
                 ELSE Acknowledge(u, p, out.ack, Nil)

\* The v2 form: ibc-go keeps the packet for status Async.  Events are emitted for
\* status Success only.
RecvPacket2(p, rsp) ==
    /\ p.ver = 2
    /\ p \notin st.receipts
    /\ rsp.res # "abort"
    /\ LET s   == [st EXCEPT !.receipts = @ \cup {p}]
           out == OnRecvIBC2Packet(s, p, rsp)
           t   == IF out.status = "Failure" THEN s ELSE out.st
           u   == IF out.status = "Success"
                  THEN [t EXCEPT !.emitted = BagAdd(@, <<"recv", p>>)] ELSE t
       IN  st' = IF out.status = "Async" THEN [u EXCEPT !.async2 = @ \cup {p}]
                 ELSE Acknowledge(u, p, out.ack, Nil)

\* Mutant: an error of the contract is dropped and the packet counts as settled.
OnAcknowledgementPacketDropsError(p, rsp) ==
    /\ p \in st.commits
    /\ LET s   == [st EXCEPT !.commits = @ \ {p}]
           out == IF p.ver = 1 THEN OnAckPacket(s, p, rsp) ELSE OnAckIBC2Packet(s, p, rsp)
       IN  st' = IF out.ok THEN out.st ELSE s

\* OnAcknowledgementPacket, v1 and v2: an error of the contract fails the relayer's
\* transaction, so the commitment is still there and the message can be sent again.
OnAcknowledgementPacket(p, rsp) ==
    /\ p \in st.commits
    /\ LET s   == [st EXCEPT !.commits = @ \ {p}]
           out == IF p.ver = 1 THEN OnAckPacket(s, p, rsp) ELSE OnAckIBC2Packet(s, p, rsp)
       IN  out.ok /\ st' = out.st

\* OnTimeoutPacket, v1 and v2, for unordered channels.
OnTimeout(p, rsp) ==
    /\ p \in st.commits
    /\ LET s   == [st EXCEPT !.commits = @ \ {p}]
           out == IF p.ver = 1 THEN OnTimeoutPacket(s, p, rsp)
                  ELSE OnTimeoutIBC2Packet(s, p, rsp)
       IN  out.ok /\ st' = out.st

\* A channel is closed, from here or by the counterparty; the contract may refuse.
OnChanClose(ch, rsp) ==
    /\ ch \in st.open
    /\ LET p   == [ver |-> 1, port |-> PortOf[ch], chan |-> ch, seq |-> 0]
           out == Callback(st, PortOf[ch], "close", p, [rsp EXCEPT !.data = Nil])
       IN  out.ok /\ st' = [out.st EXCEPT !.open = @ \ {ch}]

\* A transaction executes a contract.  Its own call is not of interest here.
Execute(c, rsp) ==
    /\ rsp.res = "ok"
    /\ LET out == HandleContractResponse(st, c, rsp)
       IN  out.ok /\ st' = out.st

\* A user sends ibc-go's v2 send message with some contract's port as the source.
UserSendsPacket2(u, port, cl, ok) ==
    LET out == OnSendPacket2(st, u, port, cl, ok)
    IN  out.ok /\ st' = out.st

PacketsNext ==
    \/ \E p \in InPackets, rsp \in Responses : RecvPacket(p, rsp) \/ RecvPacket2(p, rsp)
    \/ \E p \in st.commits, rsp \in Responses :
        OnAcknowledgementPacket(p, rsp) \/ OnTimeout(p, rsp)
    \/ \E ch \in Channels, rsp \in Responses : OnChanClose(ch, rsp)
    \/ \E c \in Contracts, rsp \in Responses : Execute(c, rsp)
    \/ \E u \in Users \cup Contracts, port \in PortID, cl \in Clients, ok \in BOOLEAN :
        UserSendsPacket2(u, port, cl, ok)

PacketsSpec == PacketsInit /\ [][PacketsNext]_st

-----------------------------------------------------------------------------
\* A received packet has been acknowledged once or waits for it, never both: what
\* OnRecvPacket stores, WriteAcknowledgement removes, and a later execution can neither
\* answer a packet twice nor find that its packet was dropped.  Only the contract that
\* the packet is addressed to answers later: v1 by the port in the storage key, v2 by the
\* comparison in the raw packet handler.
AckOrPending ==
    \A p \in InPackets :
        LET acked == {a \in st.acks : a.packet = p}
            pending == p \in st.async \cup st.async2
        IN  /\ \A a \in acked : a.by \in {Nil, p.port}
            /\ IF p \in st.receipts
               THEN Cardinality(acked) = (IF pending THEN 0 ELSE 1)
               ELSE acked = {} /\ ~pending

\* The storage of the receiver agrees with the acknowledgement: a packet answered with
\* an error left no trace, any other one was seen exactly once.  The events of a v1
\* receive call are kept exactly when its state is, also without an acknowledgement yet.
ErrorAckLeavesNoTrace ==
    \A p \in InPackets :
        LET seen == CopiesIn(<<"recv", p>>, st.calls)
        IN  /\ p \in st.receipts =>
                    seen = IF \E a \in st.acks : a.packet = p /\ a.data = ErrorAck THEN 0 ELSE 1
            /\ p.ver = 1 => CopiesIn(<<"recv", p>>, st.emitted) = seen

\* Packets leave a port only when its contract signed, also the v2 packets that any
\* account can ask ibc-go to send, and this contract learns the fate of each exactly once:
\* the commitment is gone if and only if one acknowledgement or timeout call of the
\* contract was committed.
SettledOnce ==
    \A x \in st.sent :
        LET p == x.packet
        IN  /\ x.signer = p.port
            /\ CopiesIn(<<"ack", p>>, st.calls) + CopiesIn(<<"timeout", p>>, st.calls)
                = IF p \in st.commits THEN 0 ELSE 1

=============================================================================

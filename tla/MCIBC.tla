-------------------------------- MODULE MCIBC --------------------------------
(***************************************************************************)
(* The three IBC models side by side.  They share no state; a behaviour is *)
(* one of the part chosen in the initial state, and the others stay as     *)
(* they began.                                                             *)
(*                                                                         *)
(* Packets: an IBC contract c1 and a contract c2 without v1 entry points,  *)
(* one v1 channel and one v2 client, two packets on each.                  *)
(* Callbacks: two chains joined by two channels whose names are crossed,   *)
(* so that the ends of a packet are told apart and a token can return      *)
(* another way.                                                            *)
(***************************************************************************)
EXTENDS IBCPackets, IBCChannels, IBCCallbacks

CONSTANTS c1, c2, u1, ch1, cl1

VARIABLE part   \* the model this behaviour is about

MCPortOf == [x \in Channels |-> c1]

MCInPackets ==
    {[ver |-> 1, port |-> c1, chan |-> ch1, seq |-> n] : n \in 1..2} \cup
    {[ver |-> 2, port |-> c1, chan |-> cl1, seq |-> 1],
     [ver |-> 2, port |-> c2, chan |-> cl1, seq |-> 2]}

Messages ==
    {[kind |-> "send", chan |-> ch1], [kind |-> "send2", port |-> c1, chan |-> cl1]} \cup
    {[kind |-> "ack", chan |-> ch1, seq |-> n] : n \in 1..2} \cup
    {[kind |-> "ack2", chan |-> cl1, seq |-> n] : n \in 1..2} \cup
    {[kind |-> "other", ok |-> FALSE]}

\* Messages whose failure ends the call, and ones whose reply sees the failure.
MCSubMsgs ==
    [msg : Messages, mode : {"never"}, reply : {"none"}] \cup
    [msg : {[kind |-> "ack", chan |-> ch1, seq |-> 1],
            [kind |-> "ack2", chan |-> cl1, seq |-> 1],
            [kind |-> "other", ok |-> FALSE]},
     mode : {"always"}, reply : {"none", "data", "fails"}]

MCResponses ==
    [res : {"ok"}, data : {Nil, "contract"}, msgs : SeqOf(MCSubMsgs, 1)] \cup
    [res : {"ok"}, data : {Nil},
     msgs : {<<[msg |-> [kind |-> "ack", chan |-> ch1, seq |-> 1], mode |-> "never",
                reply |-> "none"], s>> : s \in MCSubMsgs}] \cup
    [res : {"err", "abort"}, data : {Nil}, msgs : {<<>>}]

MCTransferChains == {"A", "B"}

MCTransferChannels == {"ch0", "ch1"}

MCPeer ==
    [x \in MCTransferChains |->
        [y \in MCTransferChannels |-> IF y = "ch0" THEN "ch1" ELSE "ch0"]]

Init ==
    /\ part \in {"packets", "channels", "callbacks"}
    /\ PacketsInit /\ ChannelsInit /\ CallbacksInit

Next ==
    \/ part = "packets" /\ PacketsNext /\ UNCHANGED <<part, channelsVars, callbacksVars>>
    \/ part = "channels" /\ ChannelsNext /\ UNCHANGED <<part, st, callbacksVars>>
    \/ part = "callbacks" /\ CallbacksNext /\ UNCHANGED <<part, st, channelsVars>>

Spec == Init /\ [][Next]_<<part, st, channelsVars, callbacksVars>>
=============================================================================

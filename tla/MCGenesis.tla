----------------------------- MODULE MCGenesis -----------------------------
(***************************************************************************)
(* Instances of Genesis for TLC: chains that start empty and are           *)
(* relaunched, and all small documents an operator could write.            *)
(***************************************************************************)
EXTENDS MCWasmTx, Genesis

EmptyDoc ==
    [params |-> InitParams, codes |-> <<>>, contracts |-> <<>>, sequences |-> <<>>]

UpTo2(S) == {<<>>} \cup {<<x>> : x \in S} \cup {<<x, y>> : x, y \in S}

\* The bytes may be those of another code.
MCDocCodes ==
    [id : CodeID, bytes : Checksum, pinned : BOOLEAN,
     info : {[checksum |-> plain, creator |-> u1, config |-> AllowEverybody]}]

MCHistory(id) == <<[operation |-> "Init", codeID |-> id, updated |-> 0]>>

MCDocContract(id, a, history, state) ==
    [address |-> a, history |-> history, state |-> state,
     info |-> [codeID |-> id, creator |-> u1, admin |-> Nil, label |-> "label",
               created |-> 0, port |-> FALSE]]

MCDocContracts ==
    {MCDocContract(1, k11, MCHistory(1), <<"x">>),
     MCDocContract(1, k12, MCHistory(1), <<>>),
     MCDocContract(2, k22, MCHistory(2), <<"x", "x">>),
     MCDocContract(2, k22, <<>>, <<>>),
     MCDocContract(2, k11, MCHistory(2), <<>>)}

MCDocSequences == [key : {"code", "instance"}, value : 1..3]

MCDocs ==
    [params : {InitParams}, codes : UpTo2(MCDocCodes), contracts : UpTo2(MCDocContracts),
     sequences : UpTo2(MCDocSequences)]
=============================================================================

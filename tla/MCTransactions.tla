--------------------------- MODULE MCTransactions ---------------------------
(***************************************************************************)
(* What surrounds the state of x/wasm in a transaction, side by side: the  *)
(* gas register, the gas of a call into the VM, sub-messages with their    *)
(* gas limits, events and data, grants, the transaction counter and the    *)
(* encoding of messages and records.  The parts share the gas register and *)
(* no state; a behaviour is one of the part chosen in the initial state,   *)
(* and the others stay as they began.                                      *)
(***************************************************************************)
EXTENDS GasCosts, VMCalls, Dispatcher, ContractGrants, TxCounter,
        WireTx, WireQuery, WireProposal, WireAuthz, WireLegacy, WireCodec, TLC

VARIABLE part   \* the model this behaviour is about

\* Loading a code costs 3, or 1 with the discount; 3 units of VM gas are one of SDK gas.
MCConfig == [InstanceCost |-> 3, InstanceCostDiscount |-> 1, CompileCost |-> 3,
             GasMultiplier |-> 3, EventPerAttributeCost |-> 2,
             EventAttributeDataCost |-> 3, EventAttributeDataFreeTier |-> 3,
             ContractMessageDataCost |-> 1, CustomEventCost |-> 2,
             UncompressNumerator |-> 3, UncompressDenominator |-> 20]

-----------------------------------------------------------------------------
(* Authorizations with two grants: the same contract under two limits, and  *)
(* filters that overlap.                                                    *)

MCContracts == {"c1", "c2"}

MCDenoms == {"a", "b"}

MCKeys == {"k1", "k2"}

MCPayloads == {"p1", "p2", "list"}

MCTopKey == [p \in MCPayloads |-> IF p = "p1" THEN "k1" ELSE IF p = "p2" THEN "k2" ELSE "none"]

Coins(a, b) == [d \in MCDenoms |-> IF d = "a" THEN a ELSE b]

MCTransfers == {Coins(0, 0), Coins(1, 0), Coins(1, 1)}

All == [type |-> "AllowAll", keys |-> {}, messages |-> {}]

OnlyK1 == [type |-> "Keys", keys |-> {"k1"}, messages |-> {}]

OnlyP2 == [type |-> "Messages", keys |-> {}, messages |-> {"p2"}]

MaxCalls2 == [type |-> "MaxCalls", calls |-> 2, amounts |-> Coins(0, 0)]

Limits == {MaxCalls2,
           [type |-> "MaxFunds", calls |-> 0, amounts |-> Coins(2, 1)],
           [type |-> "Combined", calls |-> 2, amounts |-> Coins(1, 1)]}

MCAuthorizations ==
    {<<[contract |-> "c1", limit |-> l, filter |-> OnlyK1],
       [contract |-> "c1", limit |-> k, filter |-> All]>> : l \in Limits, k \in Limits} \cup
    {<<[contract |-> "c1", limit |-> l, filter |-> OnlyP2],
       [contract |-> c, limit |-> MaxCalls2, filter |-> All]>> : l \in Limits, c \in MCContracts}

-----------------------------------------------------------------------------
(* Two nodes, three blocks: failing transactions of both kinds, an empty    *)
(* block, and a block as long as the range of the counter.                  *)

MCChain == <<<<"ok", "anteFails", "msgFails", "ok">>, << >>, <<"ok">>>>

-----------------------------------------------------------------------------
(* Nodes are alike, and so are the codes of the dispatcher.                 *)

MCSymmetry == Permutations(Nodes) \cup Permutations(Codes)

-----------------------------------------------------------------------------
(* All message types of x/wasm, and the bytes of older versions: Migrate-   *)
(* 3to4 reads what Migrate2to3 wrote; a binary of this version reads code   *)
(* infos when it starts, before it migrates them.                           *)

Upgraded ==
  << ReadAs(Message(V2Params, V2ParamsUnmarshal, V2ParamsMarshal, V2ParamsSize),
            V3Params, V3ParamsUnmarshal),
     ReadAs(Message(V3CodeInfo, V3CodeInfoUnmarshal, V3CodeInfoMarshal,
                    V3CodeInfoSize),
            CodeInfo, CodeInfoUnmarshal) >>

MCMessages ==
  StateMessages \o TxMessages \o QueryMessages \o ProposalMessages
    \o AuthzMessages \o LegacyMessages \o Upgraded

-----------------------------------------------------------------------------
\* A part that the behaviour is not about: no grants, and one value to encode.
IdleGrants ==
    /\ given = << >> /\ auth = << >>
    /\ usage = Unused /\ execs = << >>

IdleCodec ==
    /\ type = Len(Messages)
    /\ value = Uniform(Messages[Len(Messages)].fields, 0)
    /\ CodecInit

Init ==
    /\ part \in {"costs", "vm", "dispatch", "grants", "counter", "codec"}
    /\ CostsInit /\ VMCallsInit /\ CounterInit /\ DispatchInit
    /\ IF part = "grants" THEN GrantsInit ELSE IdleGrants
    /\ IF part = "codec" THEN CodecInit ELSE IdleCodec

Next ==
    /\ UNCHANGED part
    /\ \/ /\ part = "costs" /\ CostsNext
          /\ UNCHANGED <<vmCallsVars, dispatchVars, grantsVars, counterVars, codecVars>>
       \/ /\ part = "vm" /\ VMCallsNext
          /\ UNCHANGED <<in, dispatchVars, grantsVars, counterVars, codecVars>>
       \/ /\ part = "dispatch" /\ DispatchNext
          /\ UNCHANGED <<in, vmCallsVars, grantsVars, counterVars, codecVars>>
       \/ /\ part = "grants" /\ GrantsNext
          /\ UNCHANGED <<in, vmCallsVars, dispatchVars, counterVars, codecVars>>
       \/ /\ part = "counter" /\ CounterNext
          /\ UNCHANGED <<in, vmCallsVars, dispatchVars, grantsVars, codecVars>>
       \/ /\ part = "codec" /\ CodecNext
          /\ UNCHANGED <<in, vmCallsVars, dispatchVars, grantsVars, counterVars>>

Spec ==
    Init /\ [][Next]_<<part, in, vmCallsVars, dispatchVars, grantsVars, counterVars, codecVars>>
=============================================================================

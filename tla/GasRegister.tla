---------------------------- MODULE GasRegister -----------------------------
(***************************************************************************)
(* Gas costs of contract calls: x/wasm/types/gas_register.go and the       *)
(* conversions around a call into the VM in x/wasm/keeper/keeper.go.       *)
(*                                                                         *)
(* Gas is a uint64; Width stands for 2^64 and the operators wrap around    *)
(* where the code does.  Panic is the value of a computation that panics.  *)
(* An attribute is its length (key and value), an event is the length of   *)
(* its type and its attributes.                                            *)
(***************************************************************************)
EXTENDS Integers, SequencesExt

CONSTANTS
    Width,    \* 2^64
    Config,   \* WasmGasRegisterConfig
    Panic     \* neither a number

Uint == 0..(Width - 1)

ASSUME GasAssumption ==
    /\ Width \in Nat \ {0}
    /\ Panic \notin Int
    /\ Config \in [InstanceCost : Uint, InstanceCostDiscount : Uint, CompileCost : Uint,
                   GasMultiplier : Uint \ {0}, EventPerAttributeCost : Uint,
                   EventAttributeDataCost : Uint, EventAttributeDataFreeTier : Uint,
                   ContractMessageDataCost : Uint, CustomEventCost : Uint,
                   UncompressNumerator : Uint, UncompressDenominator : Uint \ {0}]

Wrap(n) == n % Width

\* UFraction.Mul wraps, Floor divides.
UncompressCosts(byteLength) ==
    Wrap(Config.UncompressNumerator * byteLength) \div Config.UncompressDenominator

SetupContractCost(discount, msgLen) ==
    Wrap((IF discount THEN Config.InstanceCostDiscount ELSE Config.InstanceCost)
         + Wrap(msgLen * Config.ContractMessageDataCost))

\* Mutant: the free tier is used up by whatever comes first.
CalcWithFreeTierOnce(storedBytes, freeTier) ==
    IF storedBytes <= freeTier THEN <<0, 0>> ELSE <<storedBytes - freeTier, 0>>

\* What is left to pay, and what is left of the free tier.
CalcWithFreeTier(storedBytes, freeTier) ==
    IF storedBytes <= freeTier THEN <<0, freeTier - storedBytes>>
    ELSE <<storedBytes - freeTier, 0>>

\* The cost of some attributes and the free tier that is left; a cost above 64 bits is
\* out of gas.
EventAttributeCosts(attrs, freeTier) ==
    LET bytes == CalcWithFreeTier(Wrap(FoldLeft(LAMBDA a, b : a + b, 0, attrs)), freeTier)
        r == Config.EventAttributeDataCost * bytes[1]
             + Config.EventPerAttributeCost * Len(attrs)
    IN  IF attrs = << >> THEN <<0, freeTier>>
        ELSE <<IF r \in Uint THEN r ELSE Panic, bytes[2]>>

EventCosts(attrs, events) ==
    LET AddEvent(acc, e) ==
            LET c == EventAttributeCosts(e.attrs, acc[2])
            IN  IF Panic \in {acc[1], c[1]} THEN <<Panic, c[2]>>
                ELSE <<Wrap(acc[1] + Config.CustomEventCost
                            + e.type * Config.EventAttributeDataCost + c[1]), c[2]>>
    IN  FoldLeft(AddEvent, EventAttributeCosts(attrs, Config.EventAttributeDataFreeTier),
                 events)[1]

\* The free tier applies to the attributes of all events of a reply together, and an event
\* costs nothing by itself.
ReplyCosts(discount, dataLen, events) ==
    LET types == FoldLeft(LAMBDA a, e : a + e.type, 0, events)
        attrs == FoldLeft(LAMBDA a, e : a \o e.attrs, << >>, events)
        cost == EventCosts(attrs, << >>)
    IN  IF cost = Panic THEN Panic
        ELSE Wrap(types * Config.EventAttributeDataCost + cost
                  + SetupContractCost(discount, dataLen))

\* A product that has wrapped around below its argument panics.
ToWasmVMGas(source) ==
    LET x == Wrap(source * Config.GasMultiplier)
    IN  IF x < source THEN Panic ELSE x

FromWasmVMGas(source) == source \div Config.GasMultiplier
=============================================================================

----------------------------- MODULE GasCosts -------------------------------
(***************************************************************************)
(* The gas register on all small inputs, with 64 bits scaled down to       *)
(* Width.  A behaviour walks through the inputs; each state checks the     *)
(* operators against definitions that do not go through the code's steps.  *)
(***************************************************************************)
EXTENDS GasRegister, FiniteSetsExt

CONSTANTS
    MaxLen,   \* bound on lengths
    MaxCount  \* bound on the attributes and on the events

VARIABLE in

Attributes == SeqOf(0..MaxLen, MaxCount)

Event == [type : 0..1, attrs : SeqOf(0..MaxLen, 1)]

CostsInit == in = [gas |-> 0, attrs |-> << >>, events |-> << >>]

NoEvents == in.attrs = << >> /\ in.events = << >>

NextGas == NoEvents /\ in.gas < Width - 1 /\ in' = [in EXCEPT !.gas = @ + 1]

NextEvents ==
    /\ NoEvents /\ in.gas = 0
    /\ in' \in {[gas |-> 0, attrs |-> a, events |-> e] :
                   a \in Attributes, e \in SeqOf(Event, MaxCount)}

CostsNext == NextGas \/ NextEvents

CostsSpec == CostsInit /\ [][CostsNext]_in

Bytes(attrs) == FoldLeft(LAMBDA a, b : a + b, 0, attrs)

AllAttributes == FoldLeft(LAMBDA a, e : a \o e.attrs, in.attrs, in.events)

TypeBytes == FoldLeft(LAMBDA a, e : a + e.type, 0, in.events)

\* The free tier is granted once for a response, over its attributes and those of all of
\* its events together, although EventCosts hands it from one to the next.
FreeTierOnce ==
    LET free == Config.EventAttributeDataFreeTier
        paid == Max({0, Bytes(AllAttributes) - free})
        cost == Config.EventAttributeDataCost * (paid + TypeBytes)
                + Config.EventPerAttributeCost * Len(AllAttributes)
                + Config.CustomEventCost * Len(in.events)
    IN  cost \in Uint => EventCosts(in.attrs, in.events) = cost

\* The test "overflow" of TestToWasmVMGasConversion: a product that does not fit panics.
OverflowPanics ==
    in.gas * Config.GasMultiplier \notin Uint => ToWasmVMGas(in.gas) = Panic

\* A reply pays the same for the bytes that its events carry, and the events themselves
\* are free, having been paid for when they were emitted.
ReplyCheaper ==
    LET reply == ReplyCosts(TRUE, 0, in.events)
    IN  reply # Panic /\ EventCosts(<< >>, in.events) # Panic =>
        reply + Config.CustomEventCost * Len(in.events)
            = EventCosts(<< >>, in.events) + SetupContractCost(TRUE, 0)

\* A contract that uses up the gas it is given is charged what is left on the meter, and
\* one that uses less is charged for what it used, rounded down to a unit: no conversion
\* goes beyond the meter, and less than one unit per call is lost.  The gas is low enough
\* for the product to fit.
RuntimeGasWithinMeter ==
    in.gas * Config.GasMultiplier \in Uint =>
        /\ ToWasmVMGas(in.gas) # Panic
        /\ FromWasmVMGas(ToWasmVMGas(in.gas)) = in.gas
        /\ \A used \in 0..ToWasmVMGas(in.gas) :
            /\ FromWasmVMGas(used) <= in.gas
            /\ used - FromWasmVMGas(used) * Config.GasMultiplier
                \in 0..(Config.GasMultiplier - 1)

\* The gas register computes what its reference definitions say, for every response with
\* attributes and events, the reply to it, and every amount of gas (gas_register.go).
CostsExact == FreeTierOnce /\ ReplyCheaper /\ RuntimeGasWithinMeter
=============================================================================

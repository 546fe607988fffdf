------------------------------ MODULE VMCalls -------------------------------
(***************************************************************************)
(* Gas during one call into the VM and the smart queries below it: what    *)
(* the VM is told of the SDK's meter and what the SDK's meter is charged   *)
(* for the VM (keeper.go, relay.go, ibc2.go, query_plugins.go).            *)
(*                                                                         *)
(* wasmvm is external.  It runs with the gas it is given, counts its own   *)
(* instructions, and adds the increments that it reads from the gas meter  *)
(* or the querier around each call back into Go.  It recovers panics of    *)
(* these calls and stops when its sum exceeds its limit.                   *)
(***************************************************************************)
EXTENDS GasRegister

CONSTANTS
    Entries,             \* entry points that are called
    MeterLimits,         \* gas on the meter of the message
    Work,                \* VM gas of a stretch of instructions
    StorageCosts,        \* SDK gas of a storage access
    MaxQueryStackSize

VARIABLES
    vmStack,  \* the call and the queries below it
    status,   \* "running", "returned", "vmOutOfGas", "outOfGas"
    paid      \* ghost: SDK gas that was really used so far

vmCallsVars == <<vmStack, status, paid>>

\* limit, consumed: the SDK's gas meter.  given: the gas handed to the VM; internal and
\* external: what the VM has counted.  entry tells which meter the VM reads.
VMFrame == [entry : Entries \cup {"query"}, limit : Nat, consumed : Nat, given : Nat,
          internal : Nat, external : Nat]

Running == vmStack[Len(vmStack)]

SetRunning(f) == vmStack' = ReplaceAt(vmStack, Len(vmStack), f)

VMRemaining(f) == f.given - f.internal - f.external

VMCallsInit ==
    /\ vmStack = << >>
    /\ status = "running"
    /\ paid = 0

-----------------------------------------------------------------------------
\* runtimeGasForContract
RuntimeGasForContract(limit, consumed) ==
    IF consumed >= limit THEN 0 ELSE ToWasmVMGas(limit - consumed)

\* Setup of a call on a meter: costs, and the gas for the VM.  Out of gas when the costs
\* exceed the meter.
Load(entry, discount, limit) ==
    LET cost == SetupContractCost(discount, 0)
    IN  IF cost > limit THEN status' = "outOfGas" /\ UNCHANGED <<vmStack, paid>>
        ELSE /\ vmStack' = Append(vmStack,
                    [entry |-> entry, limit |-> limit, consumed |-> cost,
                     given |-> RuntimeGasForContract(limit, cost),
                     internal |-> 0, external |-> 0])
             /\ paid' = paid + cost
             /\ UNCHANGED status

Begin(entry, discount, limit) ==
    /\ vmStack = << >> /\ status = "running"
    /\ Load(entry, discount, limit)

\* Instructions of the contract.
Compute(w) ==
    /\ status = "running" /\ vmStack # << >>
    /\ VMRemaining(Running) >= w
    /\ SetRunning([Running EXCEPT !.internal = @ + w])
    /\ UNCHANGED <<status, paid>>

\* Mutant: the VM reads the SDK's meter as it is.
VMGasMeterPlain(entry, consumed) == consumed

\* What the VM reads: MultipliedGasMeter or QueryHandler.GasConsumed.  The IBC entry points
\* hand over ctx.GasMeter() itself.
VMGasMeter(entry, consumed) ==
    IF entry = "ibc" THEN consumed ELSE ToWasmVMGas(consumed)

\* An access to the contract's storage through the gas meter of the context.  The VM
\* stops when it has gone beyond its gas.
Storage(g) ==
    LET f == Running
        read == VMGasMeter(f.entry, f.consumed + g) - VMGasMeter(f.entry, f.consumed)
        new == [f EXCEPT !.consumed = @ + g, !.external = @ + read]
    IN  /\ status = "running" /\ vmStack # << >>
        /\ IF new.consumed > f.limit
           THEN status' = "outOfGas" /\ UNCHANGED <<vmStack, paid>>
           ELSE /\ SetRunning(new)
                /\ status' = IF VMRemaining(new) < 0 THEN "vmOutOfGas" ELSE status
                /\ paid' = paid + g

\* QueryHandler.Query and QuerySmart: a meter of its own, for the gas the VM has left.
\* Beyond the stack size the contract gets an error and goes on.
Query(discount) ==
    /\ status = "running" /\ vmStack # << >>
    /\ Len(vmStack) <= MaxQueryStackSize
    /\ Load("query", discount, FromWasmVMGas(VMRemaining(Running)))

\* Mutant: the instructions of the contract are not charged.
ConsumeRuntimeGasNone(f) == f.consumed

\* consumeRuntimeGas: the meter after the call.
ConsumeRuntimeGas(f) == f.consumed + FromWasmVMGas(f.internal)

\* The innermost query returns.  The caller's meter is charged in a defer, and the
\* caller's VM reads the increment from its querier.
ReturnQuery ==
    LET q == Running
        spent == ConsumeRuntimeGas(q)
        f == vmStack[Len(vmStack) - 1]
        read == ToWasmVMGas(f.consumed + spent) - ToWasmVMGas(f.consumed)
        caller == [f EXCEPT !.consumed = @ + spent, !.external = @ + read]
    IN  /\ status = "running" /\ Len(vmStack) > 1
        /\ paid' = paid + FromWasmVMGas(q.internal)
        /\ IF spent >= q.limit THEN status' = "outOfGas" /\ UNCHANGED vmStack
           ELSE /\ status' = IF VMRemaining(caller) < 0 THEN "vmOutOfGas" ELSE status
                /\ vmStack' = Append(SubSeq(vmStack, 1, Len(vmStack) - 2), caller)

\* The call returns to the keeper; a meter that is used up is out of gas.
ReturnCall ==
    LET spent == ConsumeRuntimeGas(Running)
    IN  /\ status = "running" /\ Len(vmStack) = 1
        /\ SetRunning([Running EXCEPT !.consumed = spent])
        /\ status' = IF spent >= Running.limit THEN "outOfGas" ELSE "returned"
        /\ paid' = paid + FromWasmVMGas(Running.internal)

VMCallsNext ==
    \/ \E e \in Entries, d \in BOOLEAN, l \in MeterLimits : Begin(e, d, l)
    \/ \E w \in Work : Compute(w)
    \/ \E g \in StorageCosts : Storage(g)
    \/ \E d \in BOOLEAN : Query(d)
    \/ ReturnQuery
    \/ ReturnCall

VMCallsSpec == VMCallsInit /\ [][VMCallsNext]_vmCallsVars

-----------------------------------------------------------------------------
\* The gas multiplier's comment, "all gas prices returned to wasmvm should have this
\* multiplied", and its purpose: a contract that stays within the gas it was given is
\* within the gas of the meter, whatever mix of instructions, storage accesses and nested
\* queries it ran.  Charging it afterwards never overdraws the meter.
VMLimitSound ==
    status = "running" =>
        \A i \in 1..Len(vmStack) : ConsumeRuntimeGas(vmStack[i]) <= vmStack[i].limit

\* The meters of the calls in progress hold everything that was used, also for queries
\* that go on: nothing is free but the fractions of a unit.
AllPaid ==
    status = "running" =>
        FoldLeft(LAMBDA sum, f : sum + f.consumed, 0, vmStack) >= paid
=============================================================================

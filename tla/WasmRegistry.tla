---------------------------- MODULE WasmRegistry ----------------------------
(***************************************************************************)
(* WasmTx implements Registry: the registry is what the committed store    *)
(* says of codes and contracts.  Everything a transaction does in its      *)
(* cache contexts stutters; only its end takes a step.                     *)
(***************************************************************************)
EXTENDS WasmTx

CodeRecord(info) ==
    IF info = Nil THEN Nil ELSE [checksum |-> info.checksum, creator |-> info.creator]

ContractRecord(info) ==
    IF info = Nil THEN Nil
    ELSE [creator |-> info.creator, created |-> info.created, codeID |-> info.codeID]

\* No record of a code or of a contract is the absent one.
ASSUME RecordAssumption ==
    /\ Nil \notin [checksum : Checksum, creator : Address]
    /\ Nil \notin [creator : Address, created : Position, codeID : CodeID]

RegistryOf(s) ==
    [codes     |-> [id \in CodeID |-> CodeRecord(s.codes[id])],
     contracts |-> [a \in Address |-> ContractRecord(s.contracts[a])],
     history   |-> s.history]

Ledger == INSTANCE Registry WITH registry <- RegistryOf(Committed)

\* The committed store only ever grows by whole transactions: whatever failed,
\* was simulated, ran out of gas or was interrupted by a restart leaves no trace
\* in it, and what succeeded rewrites no code, creator or history entry.
Implements == Ledger!Spec
=============================================================================

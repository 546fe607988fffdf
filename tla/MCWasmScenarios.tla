-------------------------- MODULE MCWasmScenarios ---------------------------
(***************************************************************************)
(* Instances of WasmTx with different messages, permissions and accounts,  *)
(* one per question.  All of them are about the same variables; a          *)
(* behaviour is one of the scenario chosen in the initial state.           *)
(***************************************************************************)
EXTENDS AccessControl, Integers

CONSTANTS
    u1, u2, k11, k12, k21, k22, p1, plain, ibc, salt,
    Scenarios   \* the scenarios of the run

VARIABLES store, vm, stack, failing, pos, mode

VARIABLE scenario

MCUsers == {u1, u2}

MCAddress == {u1, u2, Authority, k11, k12, k21, k22, p1}

Classic(codes, instances) ==
    [k \in (1..codes) \X (1..instances) |->
        CASE k = <<1, 1>> -> k11 [] k = <<1, 2>> -> k12
          [] k = <<2, 1>> -> k21 [] k = <<2, 2>> -> k22]

Predictable == [k \in {<<plain, u1, salt>>} |-> p1]

AllChecksums == {plain, ibc}

IBCOf(checksums) == [c \in checksums |-> c = ibc]

Everybody == [upload |-> AllowEverybody, instantiate |-> "Everybody"]

\* Only u1 uploads, and its codes are for itself.
Restricted ==
    [upload |-> With("AnyOfAddresses", {u1}), instantiate |-> "AnyOfAddresses"]

InitialAccounts ==
    [a \in Address |-> IF a \in MCUsers THEN "claimed"
                       ELSE IF a = Authority THEN "other" ELSE "none"]

NoFunds == [a \in Address |-> 0]

-----------------------------------------------------------------------------
(* Permissions: the admins of contracts, the permissions of codes, and the  *)
(* permission to upload.                                                    *)

Consent == INSTANCE WasmTx WITH
    Users <- MCUsers, Checksum <- {plain}, HasIBC <- IBCOf({plain}),
    MigrateVersion <- [c \in {plain} |-> 0], Salt <- {salt}, Label <- {"label", "renamed"},
    ClassicAddress <- Classic(1, 2), PredictableAddress <- Predictable,
    MaxCodes <- 1, MaxInstances <- 2, MaxPos <- 0, Configs <- {}, Admins <- {u1, k11},
    MsgTypes <- {"StoreCode", "InstantiateContract", "MigrateContract", "UpdateAdmin",
                 "ClearAdmin", "UpdateContractLabel"},
    Modes <- {"deliver"}, ReplyModes <- {"always"}, GasLimited <- {FALSE},
    Funds <- {0}, InitParams <- Everybody, InitAccounts <- InitialAccounts,
    InitBank <- NoFunds, MaxMsgs <- 1, MaxCallDepth <- 2, MaxHistory <- 2

\* The codes have the same migrate version, so migrate calls no contract.
CodeAccess == INSTANCE WasmTx WITH
    Users <- MCUsers, Checksum <- {plain}, HasIBC <- IBCOf({plain}),
    MigrateVersion <- [c \in {plain} |-> 1], Salt <- {salt}, Label <- {"label"},
    ClassicAddress <- Classic(2, 1), PredictableAddress <- Predictable,
    MaxCodes <- 2, MaxInstances <- 1, MaxPos <- 0,
    Configs <- {AllowNobody, AllowEverybody}, Admins <- {u1},
    MsgTypes <- {"StoreCode", "InstantiateContract", "ExecuteContract", "MigrateContract",
                 "UpdateInstantiateConfig"},
    Modes <- {"deliver"}, ReplyModes <- {"never", "always"}, GasLimited <- {FALSE},
    Funds <- {0}, InitParams <- Everybody, InitAccounts <- InitialAccounts,
    InitBank <- NoFunds, MaxMsgs <- 1, MaxCallDepth <- 2, MaxHistory <- 2

Upload == INSTANCE WasmTx WITH
    Users <- MCUsers, Checksum <- {plain}, HasIBC <- IBCOf({plain}),
    MigrateVersion <- [c \in {plain} |-> 0], Salt <- {salt}, Label <- {"label"},
    ClassicAddress <- Classic(2, 1), PredictableAddress <- Predictable,
    MaxCodes <- 2, MaxInstances <- 1, MaxPos <- 0,
    Configs <- {AllowNobody, With("AnyOfAddresses", {u1})}, Admins <- {k21},
    MsgTypes <- {"StoreCode", "UpdateParams", "AddCodeUploadParamsAddresses",
                 "RemoveCodeUploadParamsAddresses", "UpdateInstantiateConfig"},
    Modes <- {"deliver"}, ReplyModes <- {"never", "always"}, GasLimited <- {FALSE},
    Funds <- {0}, InitParams <- Restricted, InitAccounts <- InitialAccounts,
    InitBank <- NoFunds, MaxMsgs <- 1, MaxCallDepth <- 2, MaxHistory <- 2

-----------------------------------------------------------------------------
(* Pins.                                                                    *)

Pins == INSTANCE WasmTx WITH
    Users <- MCUsers, Checksum <- AllChecksums, HasIBC <- IBCOf(AllChecksums),
    MigrateVersion <- [c \in AllChecksums |-> 0], Salt <- {salt}, Label <- {"label"},
    ClassicAddress <- Classic(2, 1), PredictableAddress <- Predictable,
    MaxCodes <- 2, MaxInstances <- 1, MaxPos <- 0, Configs <- {}, Admins <- {k21},
    MsgTypes <- {"StoreCode", "StoreAndInstantiateContract", "PinCodes", "UnpinCodes"},
    Modes <- {"deliver", "simulate"}, ReplyModes <- {"always"},
    GasLimited <- {FALSE}, Funds <- {0}, InitParams <- Everybody,
    InitAccounts <- InitialAccounts, InitBank <- NoFunds,
    MaxMsgs <- 2, MaxCallDepth <- 1, MaxHistory <- 2

-----------------------------------------------------------------------------
Init ==
    /\ scenario \in Scenarios
    /\ \/ scenario = "consent" /\ Consent!Init
       \/ scenario = "codeaccess" /\ CodeAccess!Init
       \/ scenario = "upload" /\ Upload!Init
       \/ scenario = "pins" /\ Pins!Init

Next ==
    \/ scenario = "consent" /\ Consent!Next /\ UNCHANGED scenario
    \/ scenario = "codeaccess" /\ CodeAccess!Next /\ UNCHANGED scenario
    \/ scenario = "upload" /\ Upload!Next /\ UNCHANGED scenario
    \/ scenario = "pins" /\ Pins!Next /\ UNCHANGED scenario

vars == <<scenario, store, vm, stack, failing, pos, mode>>

Spec == Init /\ [][Next]_vars

-----------------------------------------------------------------------------
\* In a user's transaction a contract whose admin is neither the signer nor a
\* contract keeps its ContractInfo and its history, through any nesting of messages
\* and replies (CanModifyContract in migrate, setContractAdmin, setContractLabel).
AdminConsent == scenario = "consent" => Consent!AdminConsent

\* In a user's transaction a code that neither the signer nor a contract may
\* instantiate or reconfigure gets no contract, new or migrated
\* (CanInstantiateContract in instantiate and migrate).
CodeConsent == scenario = "codeaccess" => CodeAccess!CodeConsent

\* A user's transaction leaves the params alone, and stores codes only for actors
\* the upload permission names, with an instantiate permission no wider than the
\* chain's default (create, setAccessConfig).
UploadConsent == scenario = "upload" => Upload!UploadConsent

\* Whenever the pinned cache of the VM changes in a step that does not fail, it
\* is in step with the index, also when two code ids share a checksum (pinCode,
\* unpinCode, InitializePinnedCodes).
PinSync ==
    [][vm'.pinned # vm.pinned /\ ~ failing' =>
            vm'.pinned = Pins!Checksums(store', store'.pinned)]_vars
=============================================================================

------------------------------ MODULE MCWasmTx ------------------------------
(***************************************************************************)
(* Instances of WasmTx for TLC: two users, governance, contract addresses  *)
(* for two codes and two instance ids, and one predictable address.        *)
(***************************************************************************)
EXTENDS WasmTx, FiniteSetsExt

CONSTANTS u1, u2, gov, k11, k12, k21, k22, p1, plain, ibc, salt

MCUsers == {u1, u2}

MCOneUser == {u1}

MCAddress == {u1, u2, gov, k11, k12, k21, k22, p1}

\* One contract address of each kind.
MCFewAddresses == {u1, gov, k11, p1}

MCClassic ==
    [k \in (1..MaxCodes) \X (1..MaxInstances) |->
        CASE k = <<1, 1>> -> k11 [] k = <<1, 2>> -> k12
          [] k = <<2, 1>> -> k21 [] k = <<2, 2>> -> k22]

MCPredictable == [k \in {<<plain, u1, salt>>} |-> p1]

MCHasIBC == [c \in Checksum |-> c = ibc]

\* No migrate version: every migration calls the contract.
MCNoVersion == [c \in Checksum |-> 0]

MCEverybody == [upload |-> AllowEverybody, instantiate |-> "Everybody"]

\* Only u1 uploads, and its codes are for itself.
MCRestricted ==
    [upload |-> With("AnyOfAddresses", {u1}), instantiate |-> "AnyOfAddresses"]

MCAccounts == [a \in Address |-> IF a \in Users THEN "claimed"
                                 ELSE IF a = gov THEN "other" ELSE "none"]

MCNoFunds == [a \in Address |-> 0]

MCOneCoin == [a \in Address |-> IF a \in Users THEN 1 ELSE 0]

-----------------------------------------------------------------------------
\* Coins outside vesting accounts.
Liquid(s) ==
    MapThenSumSet(LAMBDA a : s.bank[a], {a \in Address : s.accounts[a] # "vesting"})

\* Vesting coins at a future contract address never become liquid: instantiate
\* burns them when it replaces the account (VestingCoinBurner), so no transaction
\* leaves more liquid coins than it found.
LiquidInv == Liquid(store) <= Liquid(Committed)
=============================================================================

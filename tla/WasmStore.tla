----------------------------- MODULE WasmStore -----------------------------
(***************************************************************************)
(* The key-value state of the x/wasm keeper and the functions of           *)
(* x/wasm/keeper/keeper.go that change it.  A store is a record; a keeper  *)
(* function that succeeds is an operator from store to store, and its      *)
(* conditions and early returns are a predicate of their own.  A keeper    *)
(* function that fails changes nothing: the caller's cache context is      *)
(* dropped, which module WasmTx models.                                    *)
(***************************************************************************)
EXTENDS AccessControl, Integers, Sequences

CONSTANTS
    Checksum,            \* wasm byte codes, by their hash
    HasIBC,              \* AnalyzeCode(checksum).HasIBCEntryPoints
    MigrateVersion,      \* AnalyzeCode(checksum).ContractMigrateVersion, 0 for nil
    Salt,                \* salt (and fixed init message) of Instantiate2
    Label,               \* contract labels
    ClassicAddress,      \* BuildContractAddressClassic
    PredictableAddress,  \* BuildContractAddressPredictable
    MaxCodes,            \* bound on the code sequence
    MaxInstances,        \* bound on the instance sequence
    MaxPos               \* bound on the block position

CodeID == 1..MaxCodes

InstanceID == 1..MaxInstances

\* types.AbsoluteTxPosition: height and gas consumed in the block, as one number.
Position == 0..MaxPos

ClassicRange == {ClassicAddress[k] : k \in CodeID \X InstanceID}

PredictableRange == {PredictableAddress[k] : k \in DOMAIN PredictableAddress}

\* The addresses the two generators can return.
ContractAddress == ClassicRange \cup PredictableRange

\* The address hashes do not collide: two instance ids never share an address,
\* the two schemes never meet, and neither hits the authority.
ASSUME StoreAssumption ==
    /\ MaxCodes \in Nat /\ MaxInstances \in Nat /\ MaxPos \in Nat
    /\ HasIBC \in [Checksum -> BOOLEAN]
    /\ MigrateVersion \in [Checksum -> Nat]
    /\ ClassicAddress \in [CodeID \X InstanceID -> Address]
    /\ DOMAIN PredictableAddress \subseteq Checksum \X Address \X Salt
    /\ PredictableRange \subseteq Address
    /\ \A c, d \in CodeID, i, j \in InstanceID :
            ClassicAddress[<<c, i>>] = ClassicAddress[<<d, j>>] => i = j
    /\ ClassicRange \cap PredictableRange = {}
    /\ Authority \notin ContractAddress

CodeInfo == [checksum : Checksum, creator : Address, config : AccessConfig]

\* types.ContractInfo; port says whether IBCPortID is set.  IBC2PortID is
\* always PortIDForContractV2(address) and holds no information.
ContractInfo ==
    [codeID : CodeID, creator : Address, admin : Address \cup {Nil},
     label : Label, created : Position, port : BOOLEAN]

ASSUME NilAssumption == Nil \notin CodeInfo \cup ContractInfo

\* types.ContractCodeHistoryEntry
HistoryEntry ==
    [operation : {"Init", "Migrate"}, codeID : CodeID, updated : Position]

\* Accounts of x/auth as instantiate tells them apart: "claimed" has a sequence
\* or a public key, "other" is neither an accepted nor a vesting type.
AccountKind == {"none", "base", "claimed", "vesting", "other"}

\* types.Params
Params == [upload : AccessConfig, instantiate : AccessType]

Store ==
    [params       : Params,
     codes        : [CodeID -> CodeInfo \cup {Nil}],
     nextCode     : 1..MaxCodes + 1,
     nextInstance : 1..MaxInstances + 1,
     contracts    : [Address -> ContractInfo \cup {Nil}],
     history      : [Address -> Seq(HistoryEntry)],
     byCode       : SUBSET (CodeID \X Position \X Address),
     byCreator    : SUBSET (Address \X Position \X Address),
     pinned       : SUBSET CodeID,
     accounts     : [Address -> AccountKind],
     bank         : [Address -> Nat]]

EmptyStore(params, accounts, bank) ==
    [params |-> params, codes |-> [c \in CodeID |-> Nil],
     nextCode |-> 1, nextInstance |-> 1,
     contracts |-> [a \in Address |-> Nil],
     history |-> [a \in Address |-> <<>>],
     byCode |-> {}, byCreator |-> {}, pinned |-> {},
     accounts |-> accounts, bank |-> bank]

\* containsCodeInfo and HasContractInfo
HasCode(s, id) == id \in CodeID /\ s.codes[id] # Nil

HasContract(s, a) == a \in Address /\ s.contracts[a] # Nil

ChecksumOf(s, id) == s.codes[id].checksum

Last(h) == h[Len(h)]
-----------------------------------------------------------------------------
(***************************************************************************)
(* Codes                                                                   *)
(***************************************************************************)

\* The instantiate permission create stores; access is Nil when the message
\* carries none.
CreateAccess(s, creator, access) ==
    IF access = Nil THEN With(s.params.instantiate, {creator}) ELSE access

\* The conditions of create.
CreateOK(s, creator, access, policy) ==
    /\ s.nextCode \in CodeID
    /\ CanCreateCode(policy,
                     [upload |-> s.params.upload,
                      instantiate |-> With(s.params.instantiate, {creator})],
                     creator, CreateAccess(s, creator, access))

\* create: the next code id and its CodeInfo.
Create(s, creator, checksum, access) ==
    [s EXCEPT !.nextCode = @ + 1,
              !.codes[s.nextCode] = [checksum |-> checksum, creator |-> creator,
                                     config |-> CreateAccess(s, creator, access)]]

\* setAccessConfig: the new permission's type is compared with the chain's
\* default type.
SetAccessConfigOK(s, id, caller, config, policy) ==
    /\ HasCode(s, id)
    /\ CanModifyCodeAccessConfig(policy, s.codes[id].creator, caller,
                                 TypeIsSubset(config.permission, s.params.instantiate))

SetAccessConfig(s, id, config) == [s EXCEPT !.codes[id].config = config]

SetParams(s, params) == [s EXCEPT !.params = params]

Checksums(s, ids) == {ChecksumOf(s, id) : id \in ids}

\* Mutant: the excluded code's checksum is dropped, not its index entry.
CollectPinnedChecksumsByHash(s, exclude) ==
    Checksums(s, s.pinned) \ Checksums(s, exclude)

\* collectPinnedChecksums, without the code ids in exclude
CollectPinnedChecksums(s, exclude) == Checksums(s, s.pinned \ exclude)

\* pinCode and unpinCode, for the code ids of one message
Pin(s, ids) == [s EXCEPT !.pinned = @ \cup ids]

Unpin(s, ids) == [s EXCEPT !.pinned = @ \ ids]

-----------------------------------------------------------------------------
(***************************************************************************)
(* Accounts and funds (x/auth and x/bank as instantiate and execute use    *)
(* them)                                                                   *)
(***************************************************************************)

\* Mutant: accounts of unknown types are pruned too.
AccountOKUnknown(s, a) == s.accounts[a] # "claimed"

\* The account check of instantiate: an accepted account is kept, a vesting
\* account is replaced, one that signed or of another type is refused.
AccountOK(s, a) == s.accounts[a] \in {"none", "base", "vesting"}

\* Mutant: the balance of a vesting account stays.
ClaimAccountKeepsBalance(s, a) == [s EXCEPT !.accounts[a] = "base"]

\* The new base account, and the burnt balance of a vesting account
\* (VestingCoinBurner.CleanupExistingAccount).
ClaimAccount(s, a) ==
    [s EXCEPT !.accounts[a] = "base",
              !.bank[a] = IF s.accounts[a] = "vesting" THEN 0 ELSE @]

\* Another module creates an account.
NewAccount(s, a, kind) == [s EXCEPT !.accounts[a] = kind]

\* BankCoinTransferrer.TransferCoins; an empty amount is not sent at all.
TransferOK(s, from, amount) == amount <= s.bank[from]

Transfer(s, from, to, amount) ==
    [s EXCEPT !.bank = [a \in Address |->
        s.bank[a] + (IF a = to THEN amount ELSE 0) - (IF a = from THEN amount ELSE 0)]]

-----------------------------------------------------------------------------
(***************************************************************************)
(* Contracts                                                               *)
(***************************************************************************)

\* addToContractCodeSecondaryIndex / removeFromContractCodeSecondaryIndex
CodeIndexKey(a, entry) == <<entry.codeID, entry.updated, a>>

\* addToContractCreatorSecondaryIndex
CreatorIndexKey(creator, pos, a) == <<creator, pos, a>>

\* Mutant: the position is not advanced, so the last entry is overwritten.
AppendHistoryInPlace(s, a, entry) ==
    [s EXCEPT !.history[a] = IF @ = <<>> THEN <<entry>> ELSE [@ EXCEPT ![Len(@)] = entry]]

\* Mutant: the position is derived from the first entry instead of the last.
AppendHistoryAfterFirst(s, a, entry) ==
    [s EXCEPT !.history[a] = IF @ = <<>> THEN <<entry>> ELSE <<@[1], entry>>]

\* appendToContractHistory
AppendHistory(s, a, entry) == [s EXCEPT !.history[a] = Append(@, entry)]

\* The conditions of instantiate before the contract runs, for address a.
InstantiateOK(s, id, creator, a, amount, policy) ==
    /\ HasCode(s, id)
    /\ CanInstantiateContract(policy, s.codes[id].config, creator)
    /\ ~ HasContract(s, a)
    /\ AccountOK(s, a)
    /\ TransferOK(ClaimAccount(s, a), creator, amount)

\* What instantiate writes once the contract has run, before its messages are
\* dispatched: the two indexes, the history and the ContractInfo.
PersistContract(s, id, creator, admin, a, label, pos) ==
    LET entry == [operation |-> "Init", codeID |-> id, updated |-> pos]
        info  == [codeID |-> id, creator |-> creator, admin |-> admin, label |-> label,
                  created |-> pos, port |-> HasIBC[ChecksumOf(s, id)]]
    IN  [AppendHistory(s, a, entry) EXCEPT
            !.byCode = @ \cup {CodeIndexKey(a, entry)},
            !.byCreator = @ \cup {CreatorIndexKey(creator, pos, a)},
            !.contracts[a] = info]

\* instantiate
Instantiate(s, id, creator, admin, a, label, amount, pos) ==
    PersistContract(Transfer(ClaimAccount(s, a), creator, a, amount),
                    id, creator, admin, a, label, pos)

\* ClassicAddressGenerator: the instance id is taken from a sequence.
NextClassicAddress(s, id) == ClassicAddress[<<id, s.nextInstance>>]

\* Mutant: the sequence is read and not written.
PeekInstanceID(s) == s

TakeInstanceID(s) == [s EXCEPT !.nextInstance = @ + 1]

\* Mutant: the permission of the new code is not asked for.
MigrateOKAnyCode(s, a, caller, id, policy) ==
    /\ HasContract(s, a)
    /\ CanModifyContract(policy, s.contracts[a].admin, caller)
    /\ HasCode(s, id)
    /\ s.contracts[a].port => HasIBC[ChecksumOf(s, id)]

\* Mutant: a contract may lose its IBC entry points.
MigrateOKLosesIBC(s, a, caller, id, policy) ==
    /\ HasContract(s, a)
    /\ CanModifyContract(policy, s.contracts[a].admin, caller)
    /\ HasCode(s, id)
    /\ CanInstantiateContract(policy, s.codes[id].config, caller)

\* The conditions of migrate.
MigrateOK(s, a, caller, id, policy) ==
    /\ HasContract(s, a)
    /\ CanModifyContract(policy, s.contracts[a].admin, caller)
    /\ HasCode(s, id)
    /\ CanInstantiateContract(policy, s.codes[id].config, caller)
    /\ s.contracts[a].port => HasIBC[ChecksumOf(s, id)]

\* Whether migrate calls the contract's migrate entry point.
CallsMigrate(s, a, id) ==
    LET old == MigrateVersion[ChecksumOf(s, s.contracts[a].codeID)]
        new == MigrateVersion[ChecksumOf(s, id)]
    IN  new = 0 \/ old = 0 \/ new # old

\* Mutant: the new index entry is added before the old one is removed.
MigrateAddsFirst(s, a, id, pos) ==
    LET entry == [operation |-> "Migrate", codeID |-> id, updated |-> pos]
    IN  [AppendHistory(s, a, entry) EXCEPT
            !.byCode = (@ \cup {CodeIndexKey(a, entry)})
                            \ {CodeIndexKey(a, Last(s.history[a]))},
            !.contracts[a].codeID = id,
            !.contracts[a].port = @ \/ HasIBC[ChecksumOf(s, id)]]

\* migrate: the index entry of the last history entry goes, the new history
\* entry and its index entry come, and the ContractInfo is stored.
Migrate(s, a, id, pos) ==
    LET entry == [operation |-> "Migrate", codeID |-> id, updated |-> pos]
    IN  [AppendHistory(s, a, entry) EXCEPT
            !.byCode = (@ \ {CodeIndexKey(a, Last(s.history[a]))})
                            \cup {CodeIndexKey(a, entry)},
            !.contracts[a].codeID = id,
            !.contracts[a].port = @ \/ HasIBC[ChecksumOf(s, id)]]

\* setContractAdmin and setContractLabel
SetContractOK(s, a, caller, policy) ==
    HasContract(s, a) /\ CanModifyContract(policy, s.contracts[a].admin, caller)

SetContractAdmin(s, a, admin) == [s EXCEPT !.contracts[a].admin = admin]

SetContractLabel(s, a, label) == [s EXCEPT !.contracts[a].label = label]

-----------------------------------------------------------------------------
(***************************************************************************)
(* What makes a store consistent.                                          *)
(***************************************************************************)

Contracts(s) == {a \in Address : s.contracts[a] # Nil}

\* Every contract is in the code index once, under its last history entry, and
\* in the creator index once, under its first; nothing else is in the indexes.
IndexOK(s) ==
    /\ s.byCode = {CodeIndexKey(a, Last(s.history[a])) : a \in Contracts(s)}
    /\ s.byCreator = {CreatorIndexKey(s.contracts[a].creator, s.contracts[a].created, a)
                            : a \in Contracts(s)}

\* A contract has a history: it starts with its creation, ends with its current
\* code and never goes back in time; an address without contract has none.
HistoryOf(info, h) ==
    IF info = Nil THEN h = <<>>
    ELSE /\ h # <<>>
         /\ \A i \in 1..Len(h) : h[i].operation = "Init" <=> i = 1
         /\ h[1].updated = info.created
         /\ Last(h).codeID = info.codeID
         /\ \A i \in 1..Len(h) - 1 : h[i].updated <= h[i + 1].updated

HistoryOK(s) == \A a \in Address : HistoryOf(s.contracts[a], s.history[a])

\* The sequences are ahead of everything they numbered, and nothing refers to a
\* code that does not exist.
SequenceOK(s) ==
    /\ \A id \in CodeID : s.codes[id] # Nil <=> id < s.nextCode
    /\ \A a \in Contracts(s) : \A i \in 1..Len(s.history[a]) :
            s.codes[s.history[a][i].codeID] # Nil
    /\ \A id \in s.pinned : s.codes[id] # Nil
    /\ \A id \in CodeID, i \in InstanceID :
            i >= s.nextInstance => ClassicAddress[<<id, i>>] \notin Contracts(s)

\* A contract has an IBC port exactly when its current code has IBC entry points.
PortOK(s) ==
    \A a \in Contracts(s) :
        s.contracts[a].port <=> HasIBC[ChecksumOf(s, s.contracts[a].codeID)]

\* Contracts live at generated addresses.
AddressOK(s) == Contracts(s) \subseteq ContractAddress

\* No history entry is younger than the position p.
NotAfter(s, p) ==
    \A a \in Address : \A i \in 1..Len(s.history[a]) : s.history[a][i].updated <= p

StoreInv(s, p) ==
    /\ s \in Store
    /\ IndexOK(s) /\ HistoryOK(s) /\ SequenceOK(s) /\ PortOK(s)
    /\ AddressOK(s) /\ NotAfter(s, p)
=============================================================================

------------------------------- MODULE WasmTx -------------------------------
(***************************************************************************)
(* Transactions against the x/wasm keeper: the handlers of                 *)
(* x/wasm/keeper/msg_server.go, and the contract calls, sub-messages and   *)
(* replies they set off (handleContractResponse, DispatchSubmessages).     *)
(*                                                                         *)
(* The Go call stack is the variable stack.  Its first frame is the        *)
(* transaction (or the gov proposal), every other one a message being      *)
(* handled, or the reply to one.  A message frame keeps the store it       *)
(* started from: dropping the cache context restores it.  The VM of the    *)
(* node (its code files and its pinned-module cache) is not part of the    *)
(* store and is never rolled back.                                         *)
(*                                                                         *)
(* Contracts are the environment: a call returns any number of messages    *)
(* up to MaxMsgs, each of any type with any reply mode, or fails.          *)
(***************************************************************************)
EXTENDS WasmStore

CONSTANTS
    Users,         \* accounts that sign transactions
    Configs,       \* access configurations found in messages
    Admins,        \* admins found in messages, Nil for none
    MsgTypes,      \* message types the environment sends
    Modes,         \* "deliver", "simulate"
    ReplyModes,    \* reply_on values contracts use
    GasLimited,    \* whether a sub-message has its own gas limit, subset of BOOLEAN
    Funds,         \* amounts sent along
    InitParams, InitAccounts, InitBank,
    MaxMsgs,       \* bound on the messages of a transaction or a response
    MaxCallDepth,  \* the keeper's maxCallDepth
    MaxHistory     \* bound on migrations of one contract

ReplyOn == {"never", "error", "success", "always"}

ASSUME TxAssumption ==
    /\ Users \subseteq Address
    /\ Authority \notin Users
    /\ Users \cap ContractAddress = {}
    /\ Configs \subseteq AccessConfig
    /\ \A c \in Configs : ValidConfig(c)
    /\ Admins \subseteq Address \cup {Nil}
    /\ Modes \subseteq {"deliver", "simulate"}
    /\ ReplyModes \subseteq ReplyOn
    /\ GasLimited \subseteq BOOLEAN
    /\ Funds \subseteq Nat
    /\ InitParams \in Params
    /\ InitAccounts \in [Address -> AccountKind]
    /\ InitBank \in [Address -> Nat]
    /\ MaxMsgs \in Nat /\ MaxCallDepth \in Nat /\ MaxHistory \in Nat

VARIABLES
    store,    \* the store the innermost context sees
    vm,       \* wasmvm: blobs (code files) and pinned (cached modules)
    stack,    \* frames, the innermost last
    failing,  \* an error is travelling up the stack
    pos,      \* types.NewAbsoluteTxPosition of the running block
    mode      \* execution mode of the running transaction

vars == <<store, vm, stack, failing, pos, mode>>

Frame ==
    [kind     : {"tx", "msg", "reply"},
     phase    : {"msg", "body"},       \* still to be handled, or dispatching
     actor    : Address \cup {Nil},    \* sender of the messages it dispatches
     policy   : Policy,                \* SubMsgAuthzPolicy of its context
     port     : BOOLEAN,               \* the IBC port handed to the dispatcher
     left     : 0..MaxMsgs,            \* messages still to be dispatched
     replyOn  : ReplyOn,
     limited  : BOOLEAN,               \* dispatchMsgWithGasLimit
     snapshot : Store]                 \* the store under its cache context

VM == [blobs : SUBSET Checksum, pinned : SUBSET Checksum]

\* Every variable has its type; a store has a record for every address and code id.
TypeOK ==
    /\ store \in Store
    /\ vm \in VM
    /\ stack \in Seq(Frame)
    /\ failing \in BOOLEAN
    /\ pos \in Position
    /\ mode \in {"deliver", "simulate"}

Init ==
    /\ store = EmptyStore(InitParams, InitAccounts, InitBank)
    /\ vm = [blobs |-> {}, pinned |-> {}]
    /\ stack = <<>>
    /\ failing = FALSE
    /\ pos = 0
    /\ mode = "deliver"

-----------------------------------------------------------------------------
Depth == Len(stack)

Top == stack[Depth]

Parent == stack[Depth - 1]

\* A message waits for its handler.
Handling == Depth > 1 /\ ~ failing /\ Top.phase = "msg"

Sender == Parent.actor

\* msgServer.selectAuthorizationPolicy
SelectPolicy ==
    IF Sender = Authority THEN GovPolicy ELSE Parent.policy

\* The handler is done and has no messages of its own.
Finish(s) ==
    /\ store' = s
    /\ stack' = [stack EXCEPT ![Depth].phase = "body"]
    /\ UNCHANGED <<failing, pos, mode>>

\* The handler returns an error.
Fail == failing' = TRUE /\ UNCHANGED <<store, stack, pos, mode>>

\* Mutant: the depth is compared before it is increased.
CallDepthOKOneMore == Depth - 2 <= MaxCallDepth

\* checkAndIncreaseCallDepth in handleContractResponse: frame i runs at depth i - 1.
CallDepthOK == Depth - 1 <= MaxCallDepth

\* handleContractResponse: contract a has run and returned some messages, which
\* are dispatched in a context with the given policy.
Respond(s, a, policy) ==
    /\ CallDepthOK
    /\ store' = s
    /\ \E n \in 0..MaxMsgs :
            stack' = [stack EXCEPT ![Depth].phase  = "body",
                                   ![Depth].actor  = a,
                                   ![Depth].policy = policy,
                                   ![Depth].port   = s.contracts[a].port,
                                   ![Depth].left   = n]
    /\ UNCHANGED <<failing, pos, mode>>

\* The VM runs or analyzes a code only when it has its file.
Runnable(machine, checksum) == checksum \in machine.blobs

\* Mutant: the two modes are mixed up.
StoreBlobSwapped(checksum) ==
    vm' = IF mode = "deliver" THEN vm
                              ELSE [vm EXCEPT !.blobs = @ \cup {checksum}]

\* StoreCode of the VM writes the file; SimulateStoreCode does not.
StoreBlob(checksum) ==
    vm' = IF mode = "simulate" THEN vm
                               ELSE [vm EXCEPT !.blobs = @ \cup {checksum}]

-----------------------------------------------------------------------------
(***************************************************************************)
(* The message handlers (msg_server.go).                                   *)
(***************************************************************************)

StoreCode(checksum, access) ==
    /\ "StoreCode" \in MsgTypes /\ Handling
    /\ CreateOK(store, Sender, access, SelectPolicy)
    /\ StoreBlob(checksum)
    /\ Finish(Create(store, Sender, checksum, access))

\* instantiate with address a, on a store that the address generator left.
InstantiateAt(s, id, admin, a, label, amount, policy) ==
    /\ InstantiateOK(s, id, Sender, a, amount, policy)
    /\ Runnable(vm', ChecksumOf(s, id))
    /\ Respond(Instantiate(s, id, Sender, admin, a, label, amount, pos), a,
               SubMessageAuthorizationPolicy(policy, "Instantiate"))

\* instantiate with ClassicAddressGenerator
InstantiateClassic(s, id, admin, label, amount, policy) ==
    /\ s.nextInstance \in InstanceID
    /\ InstantiateAt(TakeInstanceID(s), id, admin, NextClassicAddress(s, id),
                     label, amount, policy)

InstantiateContract(id, admin, label, amount) ==
    /\ "InstantiateContract" \in MsgTypes /\ Handling
    /\ UNCHANGED vm
    /\ InstantiateClassic(store, id, admin, label, amount, SelectPolicy)

InstantiateContract2(id, admin, label, amount, salt) ==
    /\ "InstantiateContract2" \in MsgTypes /\ Handling
    /\ UNCHANGED vm
    /\ HasCode(store, id)
    /\ LET key == <<ChecksumOf(store, id), Sender, salt>>
       IN  /\ key \in DOMAIN PredictableAddress
           /\ InstantiateAt(store, id, admin, PredictableAddress[key], label, amount,
                            SelectPolicy)

\* execute: the sub-messages inherit the policy of the context.
ExecuteContract(a, amount) ==
    /\ "ExecuteContract" \in MsgTypes /\ Handling
    /\ HasContract(store, a)
    /\ TransferOK(store, Sender, amount)
    /\ Runnable(vm, ChecksumOf(store, store.contracts[a].codeID))
    /\ UNCHANGED vm
    /\ Respond(Transfer(store, Sender, a, amount), a, Parent.policy)

\* migrate on the store s; without a migrate call there is no response.
MigrateTo(s, a, id, policy) ==
    /\ MigrateOK(s, a, Sender, id, policy)
    /\ Len(s.history[a]) < MaxHistory
    /\ Runnable(vm', ChecksumOf(s, id))
    /\ Runnable(vm', ChecksumOf(s, s.contracts[a].codeID))
    /\ \/ /\ CallsMigrate(s, a, id)
          /\ Respond(Migrate(s, a, id, pos), a,
                     SubMessageAuthorizationPolicy(policy, "Migrate"))
       \/ /\ ~ CallsMigrate(s, a, id)
          /\ Finish(Migrate(s, a, id, pos))

MigrateContract(a, id) ==
    /\ "MigrateContract" \in MsgTypes /\ Handling
    /\ UNCHANGED vm
    /\ MigrateTo(store, a, id, SelectPolicy)

UpdateAdmin(a, admin) ==
    /\ "UpdateAdmin" \in MsgTypes /\ Handling
    /\ SetContractOK(store, a, Sender, SelectPolicy)
    /\ UNCHANGED vm
    /\ Finish(SetContractAdmin(store, a, admin))

ClearAdmin(a) ==
    /\ "ClearAdmin" \in MsgTypes /\ Handling
    /\ SetContractOK(store, a, Sender, SelectPolicy)
    /\ UNCHANGED vm
    /\ Finish(SetContractAdmin(store, a, Nil))

UpdateContractLabel(a, label) ==
    /\ "UpdateContractLabel" \in MsgTypes /\ Handling
    /\ SetContractOK(store, a, Sender, SelectPolicy)
    /\ UNCHANGED vm
    /\ Finish(SetContractLabel(store, a, label))

UpdateInstantiateConfig(id, config) ==
    /\ "UpdateInstantiateConfig" \in MsgTypes /\ Handling
    /\ SetAccessConfigOK(store, id, Sender, config, SelectPolicy)
    /\ UNCHANGED vm
    /\ Finish(SetAccessConfig(store, id, config))

UpdateParams(upload, instantiate) ==
    /\ "UpdateParams" \in MsgTypes /\ Handling
    /\ Sender = Authority
    /\ UNCHANGED vm
    /\ Finish(SetParams(store, [upload |-> upload, instantiate |-> instantiate]))

AddCodeUploadParamsAddresses(addrs) ==
    /\ "AddCodeUploadParamsAddresses" \in MsgTypes /\ Handling
    /\ Sender = Authority
    /\ store.params.upload.permission = "AnyOfAddresses"
    /\ UNCHANGED vm
    /\ Finish(SetParams(store, [store.params EXCEPT !.upload.addresses = @ \cup addrs]))

RemoveCodeUploadParamsAddresses(addrs) ==
    /\ "RemoveCodeUploadParamsAddresses" \in MsgTypes /\ Handling
    /\ Sender = Authority
    /\ store.params.upload.permission = "AnyOfAddresses"
    /\ UNCHANGED vm
    /\ Finish(SetParams(store, [store.params EXCEPT !.upload.addresses = @ \ addrs]))

\* SudoContract: like execute, the policy of the context is kept.
SudoContract(a) ==
    /\ "SudoContract" \in MsgTypes /\ Handling
    /\ Sender = Authority
    /\ HasContract(store, a)
    /\ Runnable(vm, ChecksumOf(store, store.contracts[a].codeID))
    /\ UNCHANGED vm
    /\ Respond(store, a, Parent.policy)

StoreAndInstantiateContract(checksum, access, admin, label, amount) ==
    /\ "StoreAndInstantiateContract" \in MsgTypes /\ Handling
    /\ CreateOK(store, Sender, access, SelectPolicy)
    /\ StoreBlob(checksum)
    /\ InstantiateClassic(Create(store, Sender, checksum, access), store.nextCode,
                          admin, label, amount, SelectPolicy)

StoreAndMigrateContract(checksum, access, a) ==
    /\ "StoreAndMigrateContract" \in MsgTypes /\ Handling
    /\ CreateOK(store, Sender, access, SelectPolicy)
    /\ StoreBlob(checksum)
    /\ MigrateTo(Create(store, Sender, checksum, access), a, store.nextCode, SelectPolicy)

\* SyncPinnedCodes of the VM
SyncPinnedCodes(checksums) == vm' = [vm EXCEPT !.pinned = checksums]

\* The code ids of a pin message are handled one by one, each with a sync of the
\* VM; done are the ones handled when the loop stops.  It stops early at an
\* unknown id, an error of the VM or the end of the gas: the message fails.
PinCodes(ids, done) ==
    /\ "PinCodes" \in MsgTypes /\ Handling
    /\ Sender = Authority
    /\ \A id \in done : HasCode(store, id)
    /\ IF done = {} THEN UNCHANGED vm
       ELSE SyncPinnedCodes(CollectPinnedChecksums(store, {}) \cup Checksums(store, done))
    /\ IF done = ids THEN Finish(Pin(store, ids)) ELSE Fail

UnpinCodes(ids, done) ==
    /\ "UnpinCodes" \in MsgTypes /\ Handling
    /\ Sender = Authority
    /\ \A id \in done : HasCode(store, id)
    /\ IF done = {} THEN UNCHANGED vm
       ELSE SyncPinnedCodes(CollectPinnedChecksums(store, done))
    /\ IF done = ids THEN Finish(Unpin(store, ids)) ELSE Fail

\* A store message whose file was written before it failed.
StoreFails(checksum) ==
    /\ MsgTypes \cap {"StoreCode", "StoreAndInstantiateContract", "StoreAndMigrateContract"} # {}
    /\ Handling
    /\ \E access \in Configs \cup {Nil} : CreateOK(store, Sender, access, SelectPolicy)
    /\ StoreBlob(checksum)
    /\ Fail

\* IBCRawPacketHandler: a packet leaves through the port the dispatcher was given.
SendIBCPacket ==
    /\ "SendIBCPacket" \in MsgTypes /\ Handling
    /\ Parent.port
    /\ UNCHANGED vm
    /\ Finish(store)

\* A message of another module that opens an account at a fresh address: a
\* transfer, the creation of a vesting account, or a custom account type.
OpenAccount(a, kind, amount) ==
    /\ "OpenAccount" \in MsgTypes /\ Handling
    /\ store.accounts[a] = "none"
    /\ TransferOK(store, Sender, amount)
    /\ UNCHANGED vm
    /\ Finish(NewAccount(Transfer(store, Sender, a, amount), a, kind))

\* Any handler or contract may fail.
HandlerFails == Handling /\ UNCHANGED vm /\ Fail

Handle ==
    \/ \E c \in Checksum, access \in Configs \cup {Nil} : StoreCode(c, access)
    \/ \E id \in CodeID, admin \in Admins, l \in Label, m \in Funds :
            \/ InstantiateContract(id, admin, l, m)
            \/ \E salt \in Salt : InstantiateContract2(id, admin, l, m, salt)
    \/ \E a \in Address, m \in Funds : ExecuteContract(a, m)
    \/ \E a \in Address, id \in CodeID : MigrateContract(a, id)
    \/ \E a \in Address, admin \in Admins \ {Nil} : UpdateAdmin(a, admin)
    \/ \E a \in Address : ClearAdmin(a)
    \/ \E a \in Address, l \in Label : UpdateContractLabel(a, l)
    \/ \E id \in CodeID, c \in Configs : UpdateInstantiateConfig(id, c)
    \/ \E c \in Configs, t \in AccessType : UpdateParams(c, t)
    \/ \E addrs \in SUBSET Users \ {{}} : AddCodeUploadParamsAddresses(addrs)
    \/ \E addrs \in SUBSET Users \ {{}} : RemoveCodeUploadParamsAddresses(addrs)
    \/ \E a \in Address : SudoContract(a)
    \/ \E c \in Checksum, access \in Configs \cup {Nil} :
            \/ \E admin \in Admins, l \in Label, m \in Funds :
                    StoreAndInstantiateContract(c, access, admin, l, m)
            \/ \E a \in Address : StoreAndMigrateContract(c, access, a)
    \/ \E ids \in SUBSET CodeID \ {{}} : \E done \in SUBSET ids :
            PinCodes(ids, done) \/ UnpinCodes(ids, done)
    \/ \E c \in Checksum : StoreFails(c)
    \/ SendIBCPacket
    \/ \E a \in Address, kind \in {"base", "vesting", "other"}, m \in Funds :
            OpenAccount(a, kind, m)
    \/ HandlerFails

-----------------------------------------------------------------------------
(***************************************************************************)
(* Transactions, sub-messages and replies (msg_dispatcher.go).             *)
(***************************************************************************)

\* A transaction of a user, or a proposal run by x/gov.  The position is the
\* height and the gas of the block so far: the messages of a transaction share
\* it, and so do the proposals of one block.
BeginTx(signer, n, m) ==
    /\ stack = <<>>
    /\ pos' \in {pos, pos + 1} \cap Position
    /\ mode' = m
    /\ stack' = <<[kind |-> "tx", phase |-> "body", actor |-> signer,
                   policy |-> DefaultPolicy, port |-> FALSE, left |-> n,
                   replyOn |-> "never", limited |-> FALSE, snapshot |-> store]>>
    /\ UNCHANGED <<store, vm, failing>>

\* The frame of a message that waits for its handler.
MsgFrame(replyOn, limited) ==
    [kind |-> "msg", phase |-> "msg", actor |-> Nil, policy |-> DefaultPolicy,
     port |-> FALSE, left |-> 0, replyOn |-> replyOn, limited |-> limited,
     snapshot |-> store]

\* Mutant: the message stays in the list.
PushMsgAgain(replyOn, limited) ==
    /\ stack # <<>> /\ ~ failing
    /\ Top.phase = "body" /\ Top.left > 0
    /\ stack' = Append(stack, MsgFrame(replyOn, limited))
    /\ UNCHANGED <<store, vm, failing, pos, mode>>

\* The next message of the list gets a frame.
PushMsg(replyOn, limited) ==
    /\ stack # <<>> /\ ~ failing
    /\ Top.phase = "body" /\ Top.left > 0
    /\ stack' = Append([stack EXCEPT ![Depth].left = @ - 1], MsgFrame(replyOn, limited))
    /\ UNCHANGED <<store, vm, failing, pos, mode>>

\* The router takes the next message of the transaction.
RunMsg == PushMsg("never", FALSE) /\ Top.kind = "tx"

\* DispatchSubmessages takes its next message: a cache context, and a gas meter
\* of its own when the message has a limit.
DispatchMsg(replyOn, limited) == PushMsg(replyOn, limited) /\ Top.kind # "tx"

Returning == Depth > 1 /\ ~ failing /\ Top.phase = "body" /\ Top.left = 0

Pop == stack' = SubSeq(stack, 1, Depth - 1)

\* keeper.reply to the dispatching contract, in the parent's context s: the
\* contract is loaded again, and its messages go out under the parent's policy.
Reply(s) ==
    /\ HasContract(s, Parent.actor)
    /\ Runnable(vm, ChecksumOf(s, s.contracts[Parent.actor].codeID))
    /\ CallDepthOK
    /\ store' = s
    /\ failing' = FALSE
    /\ \E n \in 0..MaxMsgs :
            stack' = [stack EXCEPT ![Depth] =
                [kind |-> "reply", phase |-> "body", actor |-> Parent.actor,
                 policy |-> Parent.policy, port |-> s.contracts[Parent.actor].port,
                 left |-> n, replyOn |-> "never", limited |-> FALSE, snapshot |-> s]]
    /\ UNCHANGED <<vm, pos, mode>>

\* The reply fails, and with it the dispatching contract.
ReplyFails(s) ==
    /\ store' = s
    /\ failing' = TRUE
    /\ Pop
    /\ UNCHANGED <<vm, pos, mode>>

\* The message succeeded: its context is committed.
Return ==
    /\ Returning
    /\ Top.replyOn \in {"never", "error"}
    /\ Pop
    /\ UNCHANGED <<store, vm, failing, pos, mode>>

ReturnReply ==
    /\ Returning
    /\ Top.replyOn \in {"success", "always"}
    /\ Reply(store) \/ ReplyFails(store)

\* The message failed: its context is dropped.  A reply has no context of its own.
Rollback == IF Top.kind = "reply" THEN store ELSE Top.snapshot

PropagateError ==
    /\ Depth > 1 /\ failing
    /\ Top.replyOn \in {"never", "success"}
    /\ store' = Rollback
    /\ Pop
    /\ UNCHANGED <<vm, failing, pos, mode>>

CatchReply ==
    /\ Depth > 1 /\ failing
    /\ Top.replyOn \in {"error", "always"}
    /\ Reply(Rollback) \/ ReplyFails(Rollback)

\* The gas limit of a sub-message is hit somewhere below it: the innermost
\* dispatchMsgWithGasLimit recovers, and the frames above are gone.
OutOfGas ==
    \E i \in 2..Depth :
        /\ ~ failing
        /\ stack[i].limited
        /\ \A j \in i + 1..Depth : ~ stack[j].limited
        /\ stack' = SubSeq(stack, 1, i)
        /\ failing' = TRUE
        /\ UNCHANGED <<store, vm, pos, mode>>

\* A panic nobody recovers below the transaction.
TxPanics ==
    /\ stack # <<>>
    /\ store' = stack[1].snapshot
    /\ stack' = <<>>
    /\ failing' = FALSE
    /\ mode' = "deliver"
    /\ UNCHANGED <<vm, pos>>

EndTx ==
    /\ Depth = 1 /\ ~ failing /\ Top.left = 0
    /\ store' = IF mode = "simulate" THEN Top.snapshot ELSE store
    /\ stack' = <<>>
    /\ mode' = "deliver"
    /\ UNCHANGED <<vm, failing, pos>>

AbortTx ==
    /\ Depth = 1 /\ failing
    /\ store' = Top.snapshot
    /\ stack' = <<>>
    /\ failing' = FALSE
    /\ mode' = "deliver"
    /\ UNCHANGED <<vm, pos>>

\* The node stops and starts again: the committed store and the code files are
\* there, the cache is empty, and InitializePinnedCodes syncs it (when the index
\* is not empty).
Restart ==
    LET s == IF stack = <<>> THEN store ELSE stack[1].snapshot
    IN  /\ store' = s
        /\ vm' = [vm EXCEPT !.pinned = CollectPinnedChecksums(s, {})]
        /\ stack' = <<>>
        /\ failing' = FALSE
        /\ mode' = "deliver"
        /\ UNCHANGED pos

\* The steps of a running transaction.
TxStep ==
    \/ RunMsg
    \/ \E on \in ReplyModes, l \in GasLimited : DispatchMsg(on, l)
    \/ Handle
    \/ Return \/ ReturnReply \/ PropagateError \/ CatchReply
    \/ OutOfGas \/ TxPanics \/ EndTx \/ AbortTx

Next ==
    \/ \E signer \in Users \cup {Authority}, n \in 1..MaxMsgs, m \in Modes : BeginTx(signer, n, m)
    \/ TxStep
    \/ Restart

Spec == Init /\ [][Next]_vars

\* A transaction runs on one goroutine that nothing blocks: it keeps taking steps.
FairSpec == Spec /\ WF_vars(TxStep)

-----------------------------------------------------------------------------
(***************************************************************************)
(* Properties                                                              *)
(***************************************************************************)

\* The store the running transaction started from.
Committed == IF stack = <<>> THEN store ELSE stack[1].snapshot

\* The contracts-by-code and contracts-by-creator indexes list every contract
\* exactly once and nothing else, whatever mixture of migrations, sub-messages
\* and rollbacks produced the store (instantiate, migrate in keeper.go).
IndexInv == IndexOK(store)

\* Every contract has a history that starts at its creation and ends at its
\* current code, so mustGetLastContractHistoryEntry never panics.
HistoryInv == HistoryOK(store) /\ \A a \in Contracts(store) : Last(store.history[a]).updated <= pos

\* Code and instance ids are never handed out twice, so instantiate cannot meet
\* an existing contract at a classic address ("This case must only happen for
\* instantiate2", keeper.go), and no contract, history entry or pin refers to a
\* missing code.
SequenceInv == SequenceOK(store)

\* migrate adds the port with the first IBC code and refuses to lose it; a port
\* that the dispatcher still holds from before a nested migration is valid.
PortInv ==
    /\ PortOK(store)
    /\ \A i \in 1..Depth : stack[i].port =>
            HasContract(store, stack[i].actor) /\ store.contracts[stack[i].actor].port

\* Extended permissions reach sub-messages only in a transaction of the authority,
\* only for a propagated action, and never as the full gov policy
\* (SubMessageAuthorizationPolicy, selectAuthorizationPolicy).
PolicyContainment ==
    \A i \in 1..Depth : stack[i].policy # DefaultPolicy =>
        /\ stack[1].actor = Authority
        /\ \E action \in Propagate : stack[i].policy = PartialPolicy(action)

\* Who can act in the running transaction: its signer and the contracts.
Actors == {stack[1].actor} \cup Contracts(store)

UserTx == stack # <<>> /\ stack[1].actor # Authority

\* In a user's transaction a contract whose admin is neither the signer nor a
\* contract keeps its ContractInfo and its history, through any nesting of messages and replies
\* (CanModifyContract in migrate, setContractAdmin, setContractLabel).
AdminConsent ==
    UserTx => \A a \in Contracts(Committed) :
        Committed.contracts[a].admin \notin Actors =>
            /\ store.contracts[a] = Committed.contracts[a]
            /\ store.history[a] = Committed.history[a]

\* In a user's transaction a code that neither the signer nor a contract may
\* instantiate or reconfigure gets no contract, new or migrated
\* (CanInstantiateContract in instantiate and migrate).
CodeConsent ==
    UserTx => \A id \in CodeID :
        ( /\ HasCode(Committed, id)
          /\ Committed.codes[id].creator \notin Actors
          /\ \A p \in Actors : ~ Allowed(Committed.codes[id].config, p) )
        => \A a \in Contracts(store) : store.contracts[a].codeID = id =>
                HasContract(Committed, a) /\ Committed.contracts[a].codeID = id

\* A user's transaction leaves the params alone, and stores codes only for actors
\* the upload permission names, with an instantiate permission no wider than the
\* chain's default (create, setAccessConfig).
UploadConsent ==
    UserTx =>
        /\ store.params = Committed.params
        /\ \A id \in CodeID : HasCode(store, id) /\ ~ HasCode(Committed, id) =>
            /\ Allowed(store.params.upload, store.codes[id].creator)
            /\ TypeIsSubset(store.codes[id].config.permission, store.params.instantiate)

\* Contract calls nest at most MaxCallDepth deep, replies included; one more
\* frame is a message that calls no contract (checkAndIncreaseCallDepth).
CallDepthInv ==
    \A i \in 2..Depth : stack[i].actor # Nil => i - 1 <= MaxCallDepth

\* No transaction takes over an account that has signed or is of a type
\* instantiate does not know ("address is claimed by external account").
ClaimedKept ==
    \A a \in Address : Committed.accounts[a] \in {"claimed", "other"} =>
        store.accounts[a] = Committed.accounts[a]

\* Every code of the committed store has its file on the node, so no later call
\* fails for a missing file: simulations write no file, but commit no code either.
BlobInv ==
    \A id \in CodeID : HasCode(Committed, id) => ChecksumOf(Committed, id) \in vm.blobs

\* Whenever the pinned cache of the VM changes in a step that does not fail, it
\* is in step with the index, also when two code ids share a checksum (pinCode,
\* unpinCode, InitializePinnedCodes).
PinSync ==
    [][vm'.pinned # vm.pinned /\ ~ failing' =>
            vm'.pinned = Checksums(store', store'.pinned)]_vars

\* Every transaction ends: messages, replies and nested calls are used up, as the
\* dispatcher takes each message of a response once and the call depth is bounded.
TxEnds == stack # <<>> ~> stack = <<>>

-----------------------------------------------------------------------------
(***************************************************************************)
(* What the documentation says and the code does not do.                   *)
(***************************************************************************)

\* The upload permission always passes Params.ValidateBasic, which export and
\* import of the genesis state rely on ("ensures the list is not empty").
ParamsValid == ValidConfig(store.params.upload)

\* Between transactions IsPinnedCode "returns true when codeID is pinned in
\* wasmvm cache".
IsPinnedCodeInCache ==
    stack = <<>> => Checksums(store, store.pinned) \subseteq vm.pinned

\* A step that stores a code and instantiates it pins the code ("As default the
\* uploaded contract is pinned to cache.", MsgStoreAndInstantiateContract).
StoredAndInstantiatedPinned ==
    [][ store'.nextCode > store.nextCode /\ Contracts(store) # Contracts(store')
            => store.nextCode \in store'.pinned ]_vars
=============================================================================

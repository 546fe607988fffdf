---------------------------- MODULE WasmTxProofs ----------------------------
(***************************************************************************)
(* The properties of WasmTx for every value of its constants: type         *)
(* correctness, the consistency of the store (indexes, histories,          *)
(* sequences), the containment of extended permissions and the bound on    *)
(* the call depth.                                                         *)
(*                                                                         *)
(* The invariant IInv is about the stack as much as the store: a rollback  *)
(* puts an old store back, so every snapshot on the stack must be          *)
(* consistent too.                                                         *)
(***************************************************************************)
EXTENDS WasmTx, WasmStoreProofs

\* A policy that a context of a transaction with this signer may carry.
PolicyOK(policy, signer) ==
    policy # DefaultPolicy =>
        /\ signer = Authority
        /\ \E action \in Propagate : policy = PartialPolicy(action)

\* Frame f at place i of a stack; only the last frame may have no sender, and only
\* when it has no messages left.
FrameOK(f, i, last, signer, p) ==
    /\ StoreInv(f.snapshot, p)
    /\ i < last \/ f.left > 0 => f.actor # Nil
    /\ i > 1 => f.actor \in ContractAddress \cup {Nil}
    /\ i > 1 /\ f.actor # Nil => i - 1 <= MaxCallDepth
    /\ PolicyOK(f.policy, signer)

StackOK(st, p) ==
    /\ st \in Seq(Frame)
    /\ \A i \in 1..Len(st) : FrameOK(st[i], i, Len(st), st[1].actor, p)

IInv ==
    /\ StoreInv(store, pos)
    /\ vm \in VM
    /\ StackOK(stack, pos)
    /\ failing \in BOOLEAN
    /\ pos \in Position
    /\ mode \in {"deliver", "simulate"}

-----------------------------------------------------------------------------
(***************************************************************************)
(* The stack                                                               *)
(***************************************************************************)

\* The frame on top is replaced, or changed by its handler (Finish, Respond, Reply).
LEMMA SetTop ==
    ASSUME NEW st, NEW p, StackOK(st, p), NEW f \in Frame, Len(st) > 1,
           FrameOK(f, Len(st), Len(st), st[1].actor, p)
    PROVE  StackOK([st EXCEPT ![Len(st)] = f], p)
<1> DEFINE n == Len(st)
           u == [st EXCEPT ![n] = f]
<1>1. st \in Seq(Frame) /\ n \in Nat /\ n \in 1..n /\ 1 \in 1..n /\ 1 # n
  BY LenProperties DEF StackOK
<1>2. u \in Seq(Frame) /\ Len(u) = n /\ u[n] = f /\ \A i \in 1..n : i # n => u[i] = st[i]
  BY <1>1, ExceptSeq
<1> HIDE DEF u
<1>3. \A i \in 1..n : FrameOK(st[i], i, n, st[1].actor, p)
  BY DEF StackOK
<1>4. \A i \in 1..n : FrameOK(u[i], i, n, u[1].actor, p)
  BY <1>1, <1>2, <1>3
<1> QED
  BY ZenonT(30), <1>2, <1>4 DEF StackOK, u

\* The next message gets a frame (PushMsg).
LEMMA PushFrame ==
    ASSUME NEW st, NEW p, StackOK(st, p), st # <<>>, st[Len(st)].left > 0,
           NEW f \in Frame, f.actor = Nil, f.left = 0, f.policy = DefaultPolicy,
           StoreInv(f.snapshot, p)
    PROVE  StackOK(Append([st EXCEPT ![Len(st)].left = @ - 1], f), p)
<1> DEFINE n == Len(st)
           g == [st[n] EXCEPT !.left = @ - 1]
           u == [st EXCEPT ![n] = g]
           v == Append(u, f)
<1>1. st \in Seq(Frame) /\ n \in Nat /\ n \in 1..n /\ 1 \in 1..n
  BY LenProperties, EmptySeq DEF StackOK
<1>2. st[n] \in Frame
  BY <1>1, ElementOfSeq
<1>3. st[n].left - 1 \in 0..MaxMsgs
  BY <1>2, TxAssumption DEF Frame
<1>4. g \in Frame /\ g.actor = st[n].actor /\ g.snapshot = st[n].snapshot /\ g.policy = st[n].policy
  BY <1>2, <1>3 DEF Frame
<1> HIDE DEF g
<1>5. u \in Seq(Frame) /\ Len(u) = n /\ u[n] = g /\ \A i \in 1..n : i # n => u[i] = st[i]
  BY <1>1, <1>4, ExceptSeq
<1> HIDE DEF u
<1>6. v \in Seq(Frame) /\ Len(v) = n + 1 /\ v[n + 1] = f /\ \A i \in 1..n : v[i] = u[i]
  BY <1>5, AppendProperties
<1> HIDE DEF v
<1>7. \A i \in 1..n : FrameOK(st[i], i, n, st[1].actor, p)
  BY DEF StackOK
<1>8. v[1].actor = st[1].actor
  BY <1>1, <1>4, <1>5, <1>6
<1>9. \A i \in 1..n : st[i].actor # Nil
  BY <1>1, <1>7 DEF FrameOK
<1>10. \A i \in 1..n : /\ v[i].actor = st[i].actor /\ v[i].snapshot = st[i].snapshot
                       /\ v[i].policy = st[i].policy
  BY <1>4, <1>5, <1>6
<1>11. \A i \in 1..n : FrameOK(v[i], i, n + 1, v[1].actor, p)
  BY <1>7, <1>8, <1>9, <1>10 DEF FrameOK
<1>12. FrameOK(v[n + 1], n + 1, n + 1, v[1].actor, p)
  BY <1>1, <1>6 DEF FrameOK, PolicyOK
<1>13. \A i \in 1..n + 1 : FrameOK(v[i], i, n + 1, v[1].actor, p)
  BY <1>1, <1>11, <1>12
<1>14. StackOK(v, p)
  BY <1>6, <1>13 DEF StackOK
<1> QED
  BY <1>14 DEF u, v, g

\* Frames are dropped from the top (Pop, OutOfGas).
LEMMA Prefix ==
    ASSUME NEW st, NEW p, StackOK(st, p), NEW m \in 1..Len(st)
    PROVE  StackOK(SubSeq(st, 1, m), p)
<1> DEFINE u == SubSeq(st, 1, m)
<1>1. st \in Seq(Frame) /\ Len(st) \in Nat /\ m \in Nat
  BY LenProperties DEF StackOK
<1>2. u \in Seq(Frame) /\ Len(u) = m /\ \A i \in 1..m : u[i] = st[i]
  BY <1>1, SubSeqProperties
<1> HIDE DEF u
<1>3. \A i \in 1..m : i \in 1..Len(st) /\ (i < m => i < Len(st))
  BY <1>1
<1>4. u[1] = st[1]
  BY <1>1, <1>2
<1>5. \A i \in 1..m : FrameOK(u[i], i, m, u[1].actor, p)
  BY ZenonT(30), <1>2, <1>3, <1>4 DEF StackOK, FrameOK
<1> QED
  BY <1>2, <1>5 DEF StackOK, u

-----------------------------------------------------------------------------
(***************************************************************************)
(* The ways a handler ends                                                 *)
(***************************************************************************)

\* While a message is handled it has a sender, and the policy the handler selects is
\* the context's, or the gov policy in a transaction of the authority.
LEMMA HandlingFacts ==
    ASSUME IInv, Depth > 1
    PROVE  /\ stack \in Seq(Frame) /\ Depth \in Nat /\ Top \in Frame /\ Parent \in Frame
           /\ FrameOK(Top, Depth, Depth, stack[1].actor, pos)
           /\ FrameOK(Parent, Depth - 1, Depth, stack[1].actor, pos)
           /\ Sender \in Address
           /\ Sender = Authority => stack[1].actor = Authority
           /\ PolicyOK(Parent.policy, stack[1].actor)
<1>1. stack \in Seq(Frame) /\ Depth \in Nat
  BY LenProperties DEF IInv, StackOK, Depth
<1>2. Depth \in 1..Len(stack) /\ Depth - 1 \in 1..Len(stack) /\ Depth = Len(stack) /\ Depth - 1 < Depth
  BY <1>1 DEF Depth
<1>3. Top \in Frame /\ Parent \in Frame
  BY <1>1, <1>2, ElementOfSeq DEF Top, Parent
<1>4. /\ FrameOK(Top, Depth, Depth, stack[1].actor, pos)
      /\ FrameOK(Parent, Depth - 1, Depth, stack[1].actor, pos)
  BY <1>2 DEF IInv, StackOK, Top, Parent
<1>5. Sender \in Address
  BY <1>2, <1>3, <1>4 DEF Sender, FrameOK, Frame
<1>6. Sender = Authority => stack[1].actor = Authority
  <2>1. CASE Depth - 1 = 1
    BY <2>1 DEF Sender, Parent
  <2>2. CASE Depth - 1 > 1
    BY <1>4, <1>5, <2>2, StoreAssumption, AccessAssumption DEF Sender, FrameOK
  <2> QED
    BY <1>1, <2>1, <2>2
<1> QED
  BY <1>1, <1>3, <1>4, <1>5, <1>6 DEF FrameOK

\* What SubMessageAuthorizationPolicy hands on is contained.
LEMMA SubMessagePolicyOK ==
    ASSUME IInv, Depth > 1, NEW action \in Action
    PROVE  /\ SubMessageAuthorizationPolicy(SelectPolicy, action) \in Policy
           /\ PolicyOK(SubMessageAuthorizationPolicy(SelectPolicy, action), stack[1].actor)
<1>1. Parent.policy \in Policy /\ PolicyOK(Parent.policy, stack[1].actor)
  BY HandlingFacts DEF Frame
<1>2. CASE Sender = Authority
  <2>1. SelectPolicy = GovPolicy /\ stack[1].actor = Authority
    BY <1>2, HandlingFacts DEF SelectPolicy
  <2>2. SubMessageAuthorizationPolicy(GovPolicy, action) =
            IF action \in Propagate THEN PartialPolicy(action) ELSE DefaultPolicy
    BY DEF SubMessageAuthorizationPolicy, GovPolicy
  <2>3. PartialPolicy(action) \in Policy /\ DefaultPolicy \in Policy
    BY DEF PartialPolicy, DefaultPolicy, Policy
  <2> QED
    BY <2>1, <2>2, <2>3 DEF PolicyOK
<1>3. CASE Sender # Authority
  <2>1. SelectPolicy = Parent.policy
    BY <1>3 DEF SelectPolicy
  <2>2. CASE Parent.policy = DefaultPolicy
    BY <2>1, <2>2 DEF SubMessageAuthorizationPolicy, DefaultPolicy, PolicyOK, Policy
  <2>3. CASE Parent.policy # DefaultPolicy
    <3>1. PICK act \in Propagate : Parent.policy = PartialPolicy(act)
      BY <1>1, <2>3 DEF PolicyOK
    <3>2. Parent.policy.type = "Partial"
      BY <3>1 DEF PartialPolicy
    <3> QED
      BY <1>1, <2>1, <3>2 DEF SubMessageAuthorizationPolicy
  <2> QED
    BY <2>2, <2>3
<1> QED
  BY <1>2, <1>3

\* The handler is done (Finish).
LEMMA FinishInv ==
    ASSUME IInv, Handling, NEW s, StoreInv(s, pos), vm' \in VM, Finish(s)
    PROVE  IInv'
<1> DEFINE f == [Top EXCEPT !.phase = "body"]
<1>1. Depth > 1
  BY DEF Handling
<1>2. Top \in Frame /\ FrameOK(Top, Depth, Depth, stack[1].actor, pos)
  BY <1>1, HandlingFacts
<1>3. f \in Frame /\ f.actor = Top.actor /\ f.left = Top.left /\ f.policy = Top.policy
      /\ f.snapshot = Top.snapshot
  BY <1>2 DEF Frame
<1>4. stack' = [stack EXCEPT ![Len(stack)] = f]
  BY DEF Finish, Top, Depth
<1> HIDE DEF f
<1>5. FrameOK(f, Len(stack), Len(stack), stack[1].actor, pos)
  BY <1>2, <1>3 DEF FrameOK, Depth
<1>6. StackOK(stack', pos)
  BY ZenonT(30), <1>1, <1>3, <1>4, <1>5, SetTop DEF IInv, Depth
<1> QED
  BY <1>6 DEF IInv, Finish

\* The handler fails.
LEMMA FailInv ==
    ASSUME IInv, vm' \in VM, Fail
    PROVE  IInv'
BY DEF IInv, Fail

\* A contract has run and returned messages (Respond).
LEMMA RespondInv ==
    ASSUME IInv, Handling, NEW s, StoreInv(s, pos), NEW a, HasContract(s, a),
           NEW policy \in Policy, PolicyOK(policy, stack[1].actor), vm' \in VM,
           Respond(s, a, policy)
    PROVE  IInv'
<1>1. Depth > 1
  BY DEF Handling
<1>2. Top \in Frame /\ FrameOK(Top, Depth, Depth, stack[1].actor, pos)
  BY <1>1, HandlingFacts
<1>3. a \in Address /\ a \in ContractAddress /\ a # Nil /\ s.contracts[a].port \in BOOLEAN
  <2>1. a \in Contracts(s)
    BY DEF HasContract, Contracts
  <2> QED
    BY <2>1, ContractFacts, AccessAssumption DEF StoreInv, AddressOK, ContractInfo
<1>4. PICK n \in 0..MaxMsgs :
            stack' = [stack EXCEPT ![Depth].phase  = "body",
                                   ![Depth].actor  = a,
                                   ![Depth].policy = policy,
                                   ![Depth].port   = s.contracts[a].port,
                                   ![Depth].left   = n]
  BY ZenonT(30) DEF Respond
<1> DEFINE f == [Top EXCEPT !.phase = "body", !.actor = a, !.policy = policy,
                            !.port = s.contracts[a].port, !.left = n]
<1>5. /\ f \in Frame /\ f.actor = a /\ f.policy = policy /\ f.snapshot = Top.snapshot
  BY ZenonT(30), <1>2, <1>3 DEF Frame
<1>6. stack' = [stack EXCEPT ![Len(stack)] = f]
  <2>1. stack \in Seq(Frame) /\ Depth \in 1..Len(stack)
    BY <1>1, HandlingFacts DEF Depth
  <2> QED
    BY ZenonT(30), <1>4, <2>1 DEF Top, Depth
<1> HIDE DEF f
<1>7. FrameOK(f, Len(stack), Len(stack), stack[1].actor, pos)
  BY <1>1, <1>2, <1>3, <1>5 DEF FrameOK, Depth, Respond, CallDepthOK
<1>8. StackOK(stack', pos)
  BY ZenonT(30), <1>1, <1>5, <1>6, <1>7, SetTop DEF IInv, Depth
<1> QED
  BY <1>8 DEF IInv, Respond

-----------------------------------------------------------------------------
(***************************************************************************)
(* The handlers                                                            *)
(***************************************************************************)

\* The VM stays a VM (StoreBlob, SyncPinnedCodes).
LEMMA VMType ==
    ASSUME IInv, NEW checksum \in Checksum, NEW checksums \in SUBSET Checksum
    PROVE  /\ UNCHANGED vm => vm' \in VM
           /\ StoreBlob(checksum) => vm' \in VM
           /\ SyncPinnedCodes(checksums) => vm' \in VM
BY DEF IInv, VM, StoreBlob, SyncPinnedCodes

\* StoreCode
LEMMA StoreCodeInv ==
    ASSUME IInv, NEW c \in Checksum, NEW access \in Configs \cup {Nil}, StoreCode(c, access)
    PROVE  IInv'
<1>1. Handling /\ Depth > 1 /\ vm' \in VM
  BY VMType DEF StoreCode, Handling
<1>2. Sender \in Address
  BY <1>1, HandlingFacts
<1>3. StoreInv(Create(store, Sender, c, access), pos)
  BY <1>2, CreateInv, TxAssumption DEF StoreCode, CreateOK, IInv
<1> QED
  BY <1>1, <1>3, FinishInv DEF StoreCode

\* instantiate, at an address that the classic generator makes no more
LEMMA InstantiateAtInv ==
    ASSUME IInv, Handling, vm' \in VM, NEW s, StoreInv(s, pos), NEW id,
           NEW admin \in Admins, NEW a \in Address, a \in ContractAddress,
           NEW label \in Label, NEW amount \in Funds,
           \A c \in CodeID, i \in InstanceID :
                i >= s.nextInstance => ClassicAddress[<<c, i>>] # a,
           InstantiateAt(s, id, admin, a, label, amount, SelectPolicy)
    PROVE  IInv'
<1> DEFINE t == Instantiate(s, id, Sender, admin, a, label, amount, pos)
           policy == SubMessageAuthorizationPolicy(SelectPolicy, "Instantiate")
<1>1. Depth > 1
  BY DEF Handling
<1>2. Sender \in Address /\ pos \in Position /\ admin \in Address \cup {Nil} /\ amount \in Nat
  BY <1>1, HandlingFacts, TxAssumption DEF IInv
<1>3. StoreInv(t, pos) /\ HasContract(t, a)
  BY <1>2, InstantiateInv DEF InstantiateAt
<1>4. policy \in Policy /\ PolicyOK(policy, stack[1].actor)
  BY <1>1, SubMessagePolicyOK DEF Action
<1>5. Respond(t, a, policy)
  BY DEF InstantiateAt
<1> HIDE DEF t, policy
<1> QED
  BY <1>3, <1>4, <1>5, RespondInv

\* instantiate with ClassicAddressGenerator
LEMMA InstantiateClassicInv ==
    ASSUME IInv, Handling, vm' \in VM, NEW s, StoreInv(s, pos), NEW id \in CodeID,
           NEW admin \in Admins, NEW label \in Label, NEW amount \in Funds,
           InstantiateClassic(s, id, admin, label, amount, SelectPolicy)
    PROVE  IInv'
<1>1. /\ s.nextInstance \in InstanceID
      /\ InstantiateAt(TakeInstanceID(s), id, admin, NextClassicAddress(s, id),
                       label, amount, SelectPolicy)
  BY DEF InstantiateClassic
<1>2. StoreInv(TakeInstanceID(s), pos)
  BY <1>1, TakeInstanceIDInv
<1>3. /\ NextClassicAddress(s, id) \in Address
      /\ NextClassicAddress(s, id) \in ContractAddress
      /\ \A c \in CodeID, i \in InstanceID :
                i >= TakeInstanceID(s).nextInstance =>
                    ClassicAddress[<<c, i>>] # NextClassicAddress(s, id)
  BY <1>1, ClassicAddressFresh
<1> QED
  BY <1>1, <1>2, <1>3, InstantiateAtInv

\* InstantiateContract
LEMMA InstantiateContractInv ==
    ASSUME IInv, NEW id \in CodeID, NEW admin \in Admins, NEW l \in Label, NEW m \in Funds,
           InstantiateContract(id, admin, l, m)
    PROVE  IInv'
<1>1. Handling /\ vm' \in VM /\ StoreInv(store, pos)
  BY DEF InstantiateContract, IInv
<1> QED
  BY <1>1, InstantiateClassicInv DEF InstantiateContract

\* InstantiateContract2
LEMMA InstantiateContract2Inv ==
    ASSUME IInv, NEW id \in CodeID, NEW admin \in Admins, NEW l \in Label, NEW m \in Funds,
           NEW salt \in Salt, InstantiateContract2(id, admin, l, m, salt)
    PROVE  IInv'
<1> DEFINE key == <<ChecksumOf(store, id), Sender, salt>>
<1>1. Handling /\ vm' \in VM /\ StoreInv(store, pos)
  BY DEF InstantiateContract2, IInv
<1>2. /\ key \in DOMAIN PredictableAddress
      /\ InstantiateAt(store, id, admin, PredictableAddress[key], l, m, SelectPolicy)
  BY DEF InstantiateContract2
<1> HIDE DEF key
<1>3. /\ PredictableAddress[key] \in Address /\ PredictableAddress[key] \in ContractAddress
      /\ \A c \in CodeID, i \in InstanceID : ClassicAddress[<<c, i>>] # PredictableAddress[key]
  BY <1>2, PredictableAddressFresh
<1> QED
  BY <1>1, <1>2, <1>3, InstantiateAtInv

\* ExecuteContract
LEMMA ExecuteContractInv ==
    ASSUME IInv, NEW a \in Address, NEW m \in Funds, ExecuteContract(a, m)
    PROVE  IInv'
<1> DEFINE t == Transfer(store, Sender, a, m)
<1>1. Handling /\ Depth > 1 /\ vm' \in VM /\ StoreInv(store, pos) /\ HasContract(store, a)
  BY DEF ExecuteContract, IInv, Handling
<1>2. Sender \in Address /\ Parent.policy \in Policy /\ PolicyOK(Parent.policy, stack[1].actor)
  BY <1>1, HandlingFacts DEF Frame
<1>3. StoreInv(t, pos) /\ t.contracts = store.contracts
  BY <1>1, <1>2, TransferInv, TxAssumption DEF ExecuteContract
<1>4. HasContract(t, a) /\ Respond(t, a, Parent.policy)
  BY <1>1, <1>3 DEF HasContract, ExecuteContract
<1> HIDE DEF t
<1> QED
  BY <1>1, <1>2, <1>3, <1>4, RespondInv

\* SudoContract
LEMMA SudoContractInv ==
    ASSUME IInv, NEW a \in Address, SudoContract(a)
    PROVE  IInv'
<1>1. Handling /\ Depth > 1 /\ vm' \in VM /\ StoreInv(store, pos) /\ HasContract(store, a)
  BY DEF SudoContract, IInv, Handling
<1>2. Parent.policy \in Policy /\ PolicyOK(Parent.policy, stack[1].actor)
  BY <1>1, HandlingFacts DEF Frame
<1> QED
  BY <1>1, <1>2, RespondInv DEF SudoContract

\* migrate, on the store s
LEMMA MigrateToInv ==
    ASSUME IInv, Handling, vm' \in VM, NEW s, StoreInv(s, pos), NEW a, NEW id,
           MigrateTo(s, a, id, SelectPolicy)
    PROVE  IInv'
<1> DEFINE t == Migrate(s, a, id, pos)
           policy == SubMessageAuthorizationPolicy(SelectPolicy, "Migrate")
<1>1. Depth > 1 /\ pos \in Position
  BY DEF Handling, IInv
<1>2. StoreInv(t, pos) /\ HasContract(t, a)
  BY <1>1, MigrateInv DEF MigrateTo
<1>3. policy \in Policy /\ PolicyOK(policy, stack[1].actor)
  BY <1>1, SubMessagePolicyOK DEF Action
<1>4. Respond(t, a, policy) \/ Finish(t)
  BY DEF MigrateTo
<1> HIDE DEF t, policy
<1> QED
  BY <1>2, <1>3, <1>4, RespondInv, FinishInv

\* MigrateContract
LEMMA MigrateContractInv ==
    ASSUME IInv, NEW a \in Address, NEW id \in CodeID, MigrateContract(a, id)
    PROVE  IInv'
<1>1. Handling /\ vm' \in VM /\ StoreInv(store, pos)
  BY DEF MigrateContract, IInv
<1> QED
  BY <1>1, MigrateToInv DEF MigrateContract

\* UpdateAdmin, ClearAdmin and UpdateContractLabel
LEMMA SetContractInv ==
    ASSUME IInv, NEW a \in Address,
           \/ \E admin \in Admins : UpdateAdmin(a, admin)
           \/ ClearAdmin(a)
           \/ \E l \in Label : UpdateContractLabel(a, l)
    PROVE  IInv'
<1>1. Handling /\ vm' \in VM /\ StoreInv(store, pos) /\ HasContract(store, a)
  BY DEF UpdateAdmin, ClearAdmin, UpdateContractLabel, SetContractOK, IInv
<1>2. /\ \A admin \in Address \cup {Nil} : StoreInv(SetContractAdmin(store, a, admin), pos)
      /\ \A l \in Label : StoreInv(SetContractLabel(store, a, l), pos)
  BY <1>1, SetContractAdminInv, SetContractLabelInv
<1>3. \/ \E admin \in Address \cup {Nil} : Finish(SetContractAdmin(store, a, admin))
      \/ \E l \in Label : Finish(SetContractLabel(store, a, l))
  BY TxAssumption DEF UpdateAdmin, ClearAdmin, UpdateContractLabel
<1> QED
  BY <1>1, <1>2, <1>3, FinishInv

\* UpdateInstantiateConfig
LEMMA UpdateInstantiateConfigInv ==
    ASSUME IInv, NEW id \in CodeID, NEW c \in Configs, UpdateInstantiateConfig(id, c)
    PROVE  IInv'
<1>1. Handling /\ vm' \in VM /\ StoreInv(store, pos) /\ HasCode(store, id) /\ c \in AccessConfig
  BY TxAssumption DEF UpdateInstantiateConfig, SetAccessConfigOK, IInv
<1>2. StoreInv(SetAccessConfig(store, id, c), pos)
  BY <1>1, SetAccessConfigInv
<1> QED
  BY <1>1, <1>2, FinishInv DEF UpdateInstantiateConfig

\* UpdateParams
LEMMA UpdateParamsInv ==
    ASSUME IInv, NEW c \in Configs, NEW type \in AccessType, UpdateParams(c, type)
    PROVE  IInv'
<1>1. Handling /\ vm' \in VM /\ StoreInv(store, pos)
  BY DEF UpdateParams, IInv
<1>2. [upload |-> c, instantiate |-> type] \in Params
  BY TxAssumption DEF Params
<1>3. StoreInv(SetParams(store, [upload |-> c, instantiate |-> type]), pos)
  BY <1>1, <1>2, SetParamsInv
<1> QED
  BY <1>1, <1>3, FinishInv DEF UpdateParams

\* AddCodeUploadParamsAddresses and RemoveCodeUploadParamsAddresses
LEMMA UploadParamsInv ==
    ASSUME IInv, NEW addrs \in SUBSET Users,
           AddCodeUploadParamsAddresses(addrs) \/ RemoveCodeUploadParamsAddresses(addrs)
    PROVE  IInv'
<1> DEFINE added == [store.params EXCEPT !.upload.addresses = @ \cup addrs]
           removed == [store.params EXCEPT !.upload.addresses = @ \ addrs]
<1>1. Handling /\ vm' \in VM /\ StoreInv(store, pos)
  BY DEF AddCodeUploadParamsAddresses, RemoveCodeUploadParamsAddresses, IInv
<1>2. store.params \in Params /\ addrs \subseteq Address
  BY <1>1, TxAssumption DEF StoreInv, Store
<1>3. added \in Params /\ removed \in Params
  BY <1>2 DEF Params, AccessConfig
<1>4. Finish(SetParams(store, added)) \/ Finish(SetParams(store, removed))
  BY DEF AddCodeUploadParamsAddresses, RemoveCodeUploadParamsAddresses
<1> HIDE DEF added, removed
<1>5. StoreInv(SetParams(store, added), pos) /\ StoreInv(SetParams(store, removed), pos)
  BY <1>1, <1>3, SetParamsInv
<1> QED
  BY <1>1, <1>4, <1>5, FinishInv

\* StoreAndInstantiateContract
LEMMA StoreAndInstantiateContractInv ==
    ASSUME IInv, NEW c \in Checksum, NEW access \in Configs \cup {Nil}, NEW admin \in Admins,
           NEW l \in Label, NEW m \in Funds,
           StoreAndInstantiateContract(c, access, admin, l, m)
    PROVE  IInv'
<1> DEFINE s == Create(store, Sender, c, access)
<1>1. Handling /\ Depth > 1 /\ vm' \in VM /\ store.nextCode \in CodeID
  BY VMType DEF StoreAndInstantiateContract, Handling, CreateOK
<1>2. StoreInv(s, pos)
  BY <1>1, HandlingFacts, CreateInv, TxAssumption DEF IInv
<1>3. InstantiateClassic(s, store.nextCode, admin, l, m, SelectPolicy)
  BY DEF StoreAndInstantiateContract
<1> HIDE DEF s
<1> QED
  BY <1>1, <1>2, <1>3, InstantiateClassicInv

\* StoreAndMigrateContract
LEMMA StoreAndMigrateContractInv ==
    ASSUME IInv, NEW c \in Checksum, NEW access \in Configs \cup {Nil}, NEW a \in Address,
           StoreAndMigrateContract(c, access, a)
    PROVE  IInv'
<1> DEFINE s == Create(store, Sender, c, access)
<1>1. Handling /\ Depth > 1 /\ vm' \in VM /\ store.nextCode \in CodeID
  BY VMType DEF StoreAndMigrateContract, Handling, CreateOK
<1>2. StoreInv(s, pos)
  BY <1>1, HandlingFacts, CreateInv, TxAssumption DEF IInv
<1>3. MigrateTo(s, a, store.nextCode, SelectPolicy)
  BY DEF StoreAndMigrateContract
<1> HIDE DEF s
<1> QED
  BY <1>1, <1>2, <1>3, MigrateToInv

\* PinCodes and UnpinCodes, stopped early or not
LEMMA PinCodesInv ==
    ASSUME IInv, NEW ids \in SUBSET CodeID, NEW done \in SUBSET ids,
           PinCodes(ids, done) \/ UnpinCodes(ids, done)
    PROVE  IInv'
<1>1. Handling /\ StoreInv(store, pos) /\ \A id \in done : HasCode(store, id)
  BY DEF PinCodes, UnpinCodes, IInv
<1>2. \A id \in CodeID : HasCode(store, id) => ChecksumOf(store, id) \in Checksum
  BY <1>1 DEF StoreInv, Store, HasCode, ChecksumOf, CodeInfo
<1>3. \A id \in store.pinned : HasCode(store, id)
  BY ZenonT(30), <1>1 DEF StoreInv, Store, SequenceOK, HasCode
<1>4. /\ CollectPinnedChecksums(store, {}) \cup Checksums(store, done) \in SUBSET Checksum
      /\ CollectPinnedChecksums(store, done) \in SUBSET Checksum
  BY <1>1, <1>2, <1>3 DEF CollectPinnedChecksums, Checksums, HasCode
<1>5. vm' \in VM
  BY <1>4 DEF IInv, VM, PinCodes, UnpinCodes, SyncPinnedCodes
<1>6. CASE Fail
  BY <1>5, <1>6, FailInv
<1>7. CASE done = ids /\ (Finish(Pin(store, ids)) \/ Finish(Unpin(store, ids)))
  BY <1>1, <1>5, <1>7, PinInv, UnpinInv, FinishInv
<1> QED
  BY <1>6, <1>7 DEF PinCodes, UnpinCodes

\* The messages that change nothing in the registry, and the failures.
LEMMA OtherHandlersInv ==
    ASSUME IInv,
           \/ \E c \in Checksum : StoreFails(c)
           \/ SendIBCPacket
           \/ \E a \in Address, kind \in {"base", "vesting", "other"}, m \in Funds :
                    OpenAccount(a, kind, m)
           \/ HandlerFails
    PROVE  IInv'
<1>1. CASE \E c \in Checksum : StoreFails(c)
  BY <1>1, VMType, FailInv DEF StoreFails
<1>2. CASE SendIBCPacket
  BY <1>2, FinishInv DEF SendIBCPacket, IInv
<1>3. ASSUME NEW a \in Address, NEW kind \in {"base", "vesting", "other"}, NEW m \in Funds,
             OpenAccount(a, kind, m)
      PROVE  IInv'
  <2>1. Handling /\ Depth > 1 /\ vm' \in VM /\ StoreInv(store, pos)
    BY SMTT(30), <1>3 DEF OpenAccount, IInv, Handling
  <2>2. StoreInv(Transfer(store, Sender, a, m), pos)
    BY <1>3, <2>1, HandlingFacts, TransferInv, TxAssumption DEF OpenAccount
  <2>3. StoreInv(NewAccount(Transfer(store, Sender, a, m), a, kind), pos)
    BY <2>2, NewAccountInv DEF AccountKind
  <2> QED
    BY <1>3, <2>1, <2>3, FinishInv DEF OpenAccount
<1>4. CASE HandlerFails
  BY <1>4, FailInv DEF HandlerFails, IInv
<1> QED
  BY <1>1, <1>2, <1>3, <1>4

\* Every handler keeps the invariant.
LEMMA HandleInv ==
    ASSUME IInv, Handle
    PROVE  IInv'
<1>1. CASE \E c \in Checksum, access \in Configs \cup {Nil} : StoreCode(c, access)
  BY <1>1, StoreCodeInv
<1>2. CASE \E id \in CodeID, admin \in Admins, l \in Label, m \in Funds :
                \/ InstantiateContract(id, admin, l, m)
                \/ \E salt \in Salt : InstantiateContract2(id, admin, l, m, salt)
  BY <1>2, InstantiateContractInv, InstantiateContract2Inv
<1>3. CASE \E a \in Address, m \in Funds : ExecuteContract(a, m)
  BY <1>3, ExecuteContractInv
<1>4. CASE \E a \in Address, id \in CodeID : MigrateContract(a, id)
  BY <1>4, MigrateContractInv
<1>5. CASE \/ \E a \in Address, admin \in Admins \ {Nil} : UpdateAdmin(a, admin)
           \/ \E a \in Address : ClearAdmin(a)
           \/ \E a \in Address, l \in Label : UpdateContractLabel(a, l)
  BY <1>5, SetContractInv
<1>6. CASE \E id \in CodeID, c \in Configs : UpdateInstantiateConfig(id, c)
  BY <1>6, UpdateInstantiateConfigInv
<1>7. CASE \E c \in Configs, t \in AccessType : UpdateParams(c, t)
  BY <1>7, UpdateParamsInv
<1>8. CASE \/ \E addrs \in SUBSET Users \ {{}} : AddCodeUploadParamsAddresses(addrs)
           \/ \E addrs \in SUBSET Users \ {{}} : RemoveCodeUploadParamsAddresses(addrs)
  BY <1>8, UploadParamsInv
<1>9. CASE \E a \in Address : SudoContract(a)
  BY <1>9, SudoContractInv
<1>10. CASE \E c \in Checksum, access \in Configs \cup {Nil} :
                \/ \E admin \in Admins, l \in Label, m \in Funds :
                        StoreAndInstantiateContract(c, access, admin, l, m)
                \/ \E a \in Address : StoreAndMigrateContract(c, access, a)
  BY <1>10, StoreAndInstantiateContractInv, StoreAndMigrateContractInv
<1>11. CASE \E ids \in SUBSET CodeID \ {{}} : \E done \in SUBSET ids :
                PinCodes(ids, done) \/ UnpinCodes(ids, done)
  BY <1>11, PinCodesInv
<1>12. CASE \/ \E c \in Checksum : StoreFails(c)
            \/ SendIBCPacket
            \/ \E a \in Address, kind \in {"base", "vesting", "other"}, m \in Funds :
                    OpenAccount(a, kind, m)
            \/ HandlerFails
  BY <1>12, OtherHandlersInv
<1> QED
  BY ZenonT(30), <1>1, <1>2, <1>3, <1>4, <1>5, <1>6, <1>7, <1>8, <1>9, <1>10, <1>11, <1>12 DEF Handle

-----------------------------------------------------------------------------
(***************************************************************************)
(* The dispatcher                                                          *)
(***************************************************************************)

\* The next message gets its frame, with the store as its snapshot.
LEMMA PushMsgInv ==
    ASSUME IInv, NEW on \in ReplyOn, NEW limited \in BOOLEAN, PushMsg(on, limited)
    PROVE  IInv'
<1> DEFINE f == MsgFrame(on, limited)
<1>1. store \in Store /\ StoreInv(store, pos)
  BY DEF IInv, StoreInv
<1>2. DefaultPolicy \in Policy
  BY DEF DefaultPolicy, Policy
<1>3. /\ f \in Frame /\ f.actor = Nil /\ f.left = 0 /\ f.policy = DefaultPolicy
      /\ f.snapshot = store
  BY <1>1, <1>2, TxAssumption DEF MsgFrame, Frame
<1>4. stack' = Append([stack EXCEPT ![Len(stack)].left = @ - 1], f)
  BY DEF PushMsg, Depth
<1> HIDE DEF f
<1>5. StackOK(stack', pos)
  BY <1>1, <1>3, <1>4, PushFrame DEF IInv, PushMsg, Top, Depth
<1> QED
  BY <1>5 DEF IInv, PushMsg

\* A frame goes (Pop) and leaves the store s.
LEMMA PopInv ==
    ASSUME IInv, Depth > 1, Pop, StoreInv(store', pos), UNCHANGED <<vm, pos, mode>>,
           failing' \in BOOLEAN
    PROVE  IInv'
<1>1. Len(stack) \in Nat /\ Len(stack) - 1 \in 1..Len(stack)
  BY HandlingFacts DEF Depth
<1>2. StackOK(stack', pos)
  BY <1>1, Prefix DEF IInv, Pop, Depth
<1> QED
  BY <1>2 DEF IInv

\* keeper.reply, or its failure, on the store s
LEMMA ReplyInv ==
    ASSUME IInv, Depth > 1, NEW s, StoreInv(s, pos), Reply(s) \/ ReplyFails(s)
    PROVE  IInv'
<1>1. CASE ReplyFails(s)
  BY <1>1, PopInv DEF ReplyFails
<1>2. CASE Reply(s)
  <2>1. PICK n \in 0..MaxMsgs :
            stack' = [stack EXCEPT ![Depth] =
                [kind |-> "reply", phase |-> "body", actor |-> Parent.actor,
                 policy |-> Parent.policy, port |-> s.contracts[Parent.actor].port,
                 left |-> n, replyOn |-> "never", limited |-> FALSE, snapshot |-> s]]
    BY ZenonT(30), <1>2 DEF Reply
  <2> DEFINE f == [kind |-> "reply", phase |-> "body", actor |-> Parent.actor,
                   policy |-> Parent.policy, port |-> s.contracts[Parent.actor].port,
                   left |-> n, replyOn |-> "never", limited |-> FALSE, snapshot |-> s]
  <2>2. /\ Parent.actor \in Address /\ Parent.actor \in ContractAddress
        /\ s.contracts[Parent.actor].port \in BOOLEAN /\ s \in Store
    <3>1. Parent.actor \in Contracts(s)
      BY <1>2 DEF Reply, HasContract, Contracts
    <3> QED
      BY ZenonT(30), <3>1, ContractFacts DEF StoreInv, AddressOK, ContractInfo
  <2>3. Parent.policy \in Policy /\ PolicyOK(Parent.policy, stack[1].actor)
    BY SMTT(30), HandlingFacts DEF Frame
  <2>4. /\ f \in Frame /\ f.actor = Parent.actor /\ f.policy = Parent.policy
        /\ f.snapshot = s
    BY SMTT(30), <2>2, <2>3 DEF Frame, ReplyOn
  <2>5. stack' = [stack EXCEPT ![Len(stack)] = f]
    BY <2>1 DEF Depth
  <2> HIDE DEF f
  <2>6. FrameOK(f, Len(stack), Len(stack), stack[1].actor, pos)
    BY ZenonT(30), <1>2, <2>2, <2>3, <2>4, AccessAssumption DEF FrameOK, Reply, CallDepthOK, Depth
  <2>7. StackOK(stack', pos)
    BY ZenonT(30), <2>4, <2>5, <2>6, SetTop DEF IInv, Depth
  <2> QED
    BY ZenonT(30), <1>2, <2>7 DEF IInv, Reply
<1> QED
  BY <1>1, <1>2

\* The first frame's snapshot, to which a transaction goes back, is consistent.
LEMMA FirstSnapshot ==
    ASSUME IInv, stack # <<>>
    PROVE  /\ Depth \in Nat \ {0} /\ StoreInv(stack[1].snapshot, pos)
           /\ StoreInv(Top.snapshot, pos)
<1>1. stack \in Seq(Frame) /\ Depth \in Nat \ {0}
  BY LenProperties, EmptySeq DEF IInv, StackOK, Depth
<1>2. 1 \in 1..Len(stack) /\ Depth \in 1..Len(stack)
  BY <1>1 DEF Depth
<1> QED
  BY <1>1, <1>2 DEF IInv, StackOK, FrameOK, Top

\* The empty stack.
LEMMA EmptyStack ==
    ASSUME NEW p
    PROVE  StackOK(<<>>, p)
BY SMTT(30), EmptySeq DEF StackOK

\* A transaction or a proposal begins, at the same or a later position.
LEMMA BeginTxInv ==
    ASSUME IInv, NEW signer \in Users \cup {Authority}, NEW n \in 1..MaxMsgs, NEW m \in Modes,
           BeginTx(signer, n, m)
    PROVE  IInv'
<1> DEFINE f == [kind |-> "tx", phase |-> "body", actor |-> signer,
                 policy |-> DefaultPolicy, port |-> FALSE, left |-> n,
                 replyOn |-> "never", limited |-> FALSE, snapshot |-> store]
<1>0. pos \in Position /\ pos' \in {pos, pos + 1} \cap Position
  BY Zenon DEF BeginTx, IInv
<1>1. pos \in Position /\ pos' \in Position /\ pos <= pos'
  BY ONLY <1>0, StoreAssumption DEF Position
<1>2. StoreInv(store, pos') /\ store \in Store
  BY <1>1, LaterPosition DEF IInv, StoreInv
<1>3. signer \in Address /\ signer # Nil
  BY TxAssumption, AccessAssumption
<1>4. /\ f \in Frame /\ f.actor = signer /\ f.policy = DefaultPolicy /\ f.snapshot = store
  <2>1. n \in 0..MaxMsgs
    BY TxAssumption
  <2>2. DefaultPolicy \in Policy
    BY DEF Policy, DefaultPolicy
  <2> QED
    BY ONLY <1>2, <1>3, <2>1, <2>2, SMTT(30) DEF Frame, ReplyOn
<1>5. stack' = <<f>>
  BY DEF BeginTx
<1> HIDE DEF f
<1>6. StackOK(<<f>>, pos')
  <2>1. <<f>> \in Seq(Frame) /\ Len(<<f>>) = 1 /\ <<f>>[1] = f
    BY <1>4
  <2>2. FrameOK(f, 1, 1, signer, pos')
    BY <1>2, <1>3, <1>4 DEF FrameOK, PolicyOK
  <2> QED
    BY <1>4, <2>1, <2>2 DEF StackOK
<1>7. StackOK(stack', pos')
  BY <1>5, <1>6
<1> QED
  BY <1>1, <1>2, <1>7, TxAssumption DEF IInv, BeginTx

\* The node restarts with the committed store.
LEMMA RestartInv ==
    ASSUME IInv, Restart
    PROVE  IInv'
<1> DEFINE s == IF stack = <<>> THEN store ELSE stack[1].snapshot
<1>1. StoreInv(s, pos)
  BY FirstSnapshot DEF IInv
<1>2. /\ store' = s /\ vm' = [vm EXCEPT !.pinned = CollectPinnedChecksums(s, {})]
      /\ stack' = <<>> /\ failing' = FALSE /\ mode' = "deliver" /\ pos' = pos
  BY DEF Restart
<1> HIDE DEF s
<1>3. CollectPinnedChecksums(s, {}) \in SUBSET Checksum
  BY <1>1 DEF StoreInv, Store, SequenceOK, CollectPinnedChecksums, Checksums, ChecksumOf, CodeInfo
<1>4. vm' \in VM
  BY <1>2, <1>3 DEF IInv, VM
<1>5. StackOK(stack', pos')
  BY <1>2, EmptyStack
<1> QED
  BY ZenonT(30), <1>1, <1>2, <1>4, <1>5 DEF IInv

\* Every step of a transaction keeps the invariant.
LEMMA TxStepInv ==
    ASSUME IInv, TxStep
    PROVE  IInv'
<1>1. CASE RunMsg \/ \E on \in ReplyModes, l \in GasLimited : DispatchMsg(on, l)
  BY ZenonT(30), <1>1, PushMsgInv, TxAssumption DEF RunMsg, DispatchMsg, ReplyOn
<1>2. CASE Handle
  BY <1>2, HandleInv
<1>3. CASE Return
  BY <1>3, PopInv DEF Return, Returning, IInv
<1>4. CASE ReturnReply
  BY <1>4, ReplyInv DEF ReturnReply, Returning, IInv
<1>5. ASSUME Depth > 1
      PROVE  StoreInv(Rollback, pos)
  BY <1>5, HandlingFacts DEF Rollback, FrameOK, IInv
<1>6. CASE PropagateError
  BY <1>5, <1>6, PopInv DEF PropagateError, IInv
<1>7. CASE CatchReply
  BY <1>5, <1>7, ReplyInv DEF CatchReply
<1>8. CASE OutOfGas
  <2>1. PICK i \in 2..Depth : /\ stack' = SubSeq(stack, 1, i) /\ failing' = TRUE
                              /\ UNCHANGED <<store, vm, pos, mode>>
    BY <1>8 DEF OutOfGas
  <2>2. Depth \in Nat
    BY LenProperties DEF IInv, StackOK, Depth
  <2>3. i \in 1..Len(stack)
    BY <2>2 DEF Depth
  <2>4. StackOK(stack', pos')
    BY <2>1, <2>3, Prefix DEF IInv
  <2> QED
    BY <2>1, <2>4 DEF IInv
<1>9. CASE TxPanics
  BY ZenonT(30), <1>9, FirstSnapshot, EmptyStack DEF TxPanics, IInv
<1>10. ASSUME Depth = 1
       PROVE  stack # <<>>
  BY <1>10 DEF Depth
<1>11. CASE EndTx
  BY <1>10, <1>11, FirstSnapshot, EmptyStack DEF EndTx, IInv
<1>12. CASE AbortTx
  BY ZenonT(30), <1>10, <1>12, FirstSnapshot, EmptyStack DEF AbortTx, IInv
<1> QED
  BY <1>1, <1>2, <1>3, <1>4, <1>6, <1>7, <1>8, <1>9, <1>11, <1>12 DEF TxStep

-----------------------------------------------------------------------------
(***************************************************************************)
(* The theorems                                                            *)
(***************************************************************************)

\* Every reachable state satisfies the inductive invariant: the store, and every
\* store that a rollback, an abort or a restart can put back, is consistent.
THEOREM Invariance == Spec => []IInv
<1>1. Init => IInv
  <2> SUFFICES ASSUME Init PROVE IInv
    OBVIOUS
  <2>1. StoreInv(store, pos)
    BY EmptyStoreInv, TxAssumption DEF Init
  <2>2. vm \in VM /\ failing \in BOOLEAN /\ pos \in Position /\ mode \in {"deliver", "simulate"}
    <3>1. vm \in VM
      BY DEF Init, VM
    <3>2. pos \in Position
      BY StoreAssumption DEF Init, Position
    <3> QED
      BY ZenonT(30), <3>1, <3>2 DEF Init
  <2>3. StackOK(stack, pos)
    BY EmptyStack DEF Init
  <2> QED
    BY <2>1, <2>2, <2>3 DEF IInv
<1>2. IInv /\ [Next]_vars => IInv'
  <2> SUFFICES ASSUME IInv, [Next]_vars PROVE IInv'
    OBVIOUS
  <2>1. CASE \E signer \in Users \cup {Authority}, n \in 1..MaxMsgs, m \in Modes :
                BeginTx(signer, n, m)
    BY <2>1, BeginTxInv
  <2>2. CASE TxStep
    BY <2>2, TxStepInv
  <2>3. CASE Restart
    BY <2>3, RestartInv
  <2>4. CASE UNCHANGED vars
    BY <2>4 DEF vars, IInv
  <2> QED
    BY <2>1, <2>2, <2>3, <2>4 DEF Next
<1> QED
  BY <1>1, <1>2, PTL DEF Spec

\* Type correctness of the whole specification (registry run).
THEOREM TypeCorrect == Spec => []TypeOK
<1>1. IInv => TypeOK
  BY DEF IInv, TypeOK, StoreInv, StackOK
<1> QED
  BY <1>1, Invariance, PTL

\* The two secondary indexes list every contract exactly once, whatever mixture of
\* instantiations, migrations, sub-messages and rollbacks has happened.
THEOREM IndexesExact == Spec => []IndexInv
<1>1. IInv => IndexInv
  BY DEF IInv, IndexInv, StoreInv
<1> QED
  BY <1>1, Invariance, PTL

\* Every contract has its history, from its creation to its current code, and none
\* of it lies in the future (appendToContractHistory).
THEOREM HistoriesComplete == Spec => []HistoryInv
<1>1. IInv => HistoryInv
  <2> SUFFICES ASSUME IInv PROVE HistoryInv
    OBVIOUS
  <2>1. StoreInv(store, pos)
    BY DEF IInv
  <2>2. \A a \in Contracts(store) : Len(store.history[a]) \in 1..Len(store.history[a])
    BY <2>1, ContractFacts
  <2>3. \A a \in Contracts(store) : Last(store.history[a]).updated <= pos
    BY ZenonT(30), <2>1, <2>2 DEF StoreInv, NotAfter, Last, Contracts
  <2> QED
    BY <2>1, <2>3 DEF HistoryInv, StoreInv
<1> QED
  BY <1>1, Invariance, PTL

\* No code id and no instance id is given out twice, and nothing refers to a code
\* that does not exist (mustAutoIncrementID).
THEOREM SequencesAhead == Spec => []SequenceInv
<1>1. IInv => SequenceInv
  BY SMTT(30) DEF IInv, SequenceInv, StoreInv
<1> QED
  BY <1>1, Invariance, PTL

\* Extended permissions stay in transactions of the authority and never exceed a
\* propagated action (SubMessageAuthorizationPolicy, selectAuthorizationPolicy).
THEOREM PoliciesContained == Spec => []PolicyContainment
<1>1. IInv => PolicyContainment
  BY DEF IInv, StackOK, FrameOK, PolicyOK, PolicyContainment, Depth
<1> QED
  BY <1>1, Invariance, PTL

\* Contract calls nest at most MaxCallDepth deep (checkAndIncreaseCallDepth).
THEOREM CallDepthBounded == Spec => []CallDepthInv
<1>1. IInv => CallDepthInv
  <2> SUFFICES ASSUME IInv, NEW i \in 2..Depth, stack[i].actor # Nil
               PROVE  i - 1 <= MaxCallDepth
    BY DEF CallDepthInv
  <2>1. Depth \in Nat
    BY LenProperties DEF IInv, StackOK, Depth
  <2>2. i \in 1..Len(stack) /\ i > 1
    BY <2>1 DEF Depth
  <2> QED
    BY <2>2 DEF IInv, StackOK, FrameOK
<1> QED
  BY <1>1, Invariance, PTL
=============================================================================

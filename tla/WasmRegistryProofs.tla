------------------------- MODULE WasmRegistryProofs -------------------------
(***************************************************************************)
(* WasmTx implements Registry, for every value of the constants.           *)
(*                                                                         *)
(* The invariant KInv: the store and the snapshot of every frame keep what *)
(* the committed store has.  No chain along the stack is needed: whichever *)
(* snapshot a rollback puts back, it keeps the committed store.            *)
(***************************************************************************)
EXTENDS WasmRegistry, WasmTxProofs

\* t has everything s has: codes, contracts, histories, and the accounts that
\* instantiate must not replace.
Keeps(s, t) ==
    /\ \A id \in CodeID : s.codes[id] # Nil =>
            /\ t.codes[id] # Nil
            /\ t.codes[id].checksum = s.codes[id].checksum
            /\ t.codes[id].creator = s.codes[id].creator
    /\ \A a \in Address : s.contracts[a] # Nil =>
            /\ t.contracts[a] # Nil
            /\ t.contracts[a].creator = s.contracts[a].creator
            /\ t.contracts[a].created = s.contracts[a].created
    /\ \A a \in Address :
            /\ Len(s.history[a]) <= Len(t.history[a])
            /\ \A i \in 1..Len(s.history[a]) : t.history[a][i] = s.history[a][i]
    /\ \A a \in Address : s.accounts[a] \in {"claimed", "other"} =>
            t.accounts[a] = s.accounts[a]

CommittedOK == StoreInv(Committed, pos)

KInv ==
    /\ Keeps(Committed, store)
    /\ \A i \in 1..Len(stack) : Keeps(Committed, stack[i].snapshot)

-----------------------------------------------------------------------------
(***************************************************************************)
(* What the store operators keep                                           *)
(***************************************************************************)

\* The length of a history is a number.
LEMMA HistoryLength ==
    ASSUME NEW s \in Store, NEW a \in Address
    PROVE  s.history[a] \in Seq(HistoryEntry) /\ Len(s.history[a]) \in Nat
<1>1. s.history[a] \in Seq(HistoryEntry)
  BY DEF Store
<1> QED
  BY <1>1, LenProperties

\* A store keeps what another one with the same registry and accounts has.
LEMMA SameKeeps ==
    ASSUME NEW s \in Store, NEW t, t.codes = s.codes, t.contracts = s.contracts,
           t.history = s.history, t.accounts = s.accounts
    PROVE  Keeps(s, t)
BY HistoryLength DEF Keeps

\* A chain of steps keeps what was there at its start.
LEMMA KeepsTransitive ==
    ASSUME NEW s \in Store, NEW t \in Store, NEW u \in Store, Keeps(s, t), Keeps(t, u)
    PROVE  Keeps(s, u)
<1>1. ASSUME NEW id \in CodeID, s.codes[id] # Nil
      PROVE  /\ u.codes[id] # Nil
             /\ u.codes[id].checksum = s.codes[id].checksum
             /\ u.codes[id].creator = s.codes[id].creator
  BY <1>1 DEF Keeps
<1>2. ASSUME NEW a \in Address, s.contracts[a] # Nil
      PROVE  /\ u.contracts[a] # Nil
             /\ u.contracts[a].creator = s.contracts[a].creator
             /\ u.contracts[a].created = s.contracts[a].created
  BY <1>2 DEF Keeps
<1>3. ASSUME NEW a \in Address
      PROVE  /\ Len(s.history[a]) <= Len(u.history[a])
             /\ \A i \in 1..Len(s.history[a]) : u.history[a][i] = s.history[a][i]
  <2>1. /\ Len(s.history[a]) \in Nat /\ Len(t.history[a]) \in Nat /\ Len(u.history[a]) \in Nat
    BY HistoryLength
  <2>2. /\ Len(s.history[a]) <= Len(t.history[a]) /\ Len(t.history[a]) <= Len(u.history[a])
        /\ \A i \in 1..Len(s.history[a]) : t.history[a][i] = s.history[a][i]
        /\ \A i \in 1..Len(t.history[a]) : u.history[a][i] = t.history[a][i]
    BY DEF Keeps
  <2>3. Len(s.history[a]) <= Len(u.history[a])
    BY <2>1, <2>2
  <2>4. ASSUME NEW i \in 1..Len(s.history[a])
        PROVE  u.history[a][i] = s.history[a][i]
    <3>1. i \in 1..Len(t.history[a])
      BY <2>1, <2>2
    <3> QED
      BY Zenon, <2>2, <3>1
  <2> QED
    BY <2>3, <2>4
<1>4. ASSUME NEW a \in Address, s.accounts[a] \in {"claimed", "other"}
      PROVE  u.accounts[a] = s.accounts[a]
  BY <1>4 DEF Keeps
<1> QED
  BY <1>1, <1>2, <1>3, <1>4 DEF Keeps

\* create writes an unused id.
LEMMA CreateKeeps ==
    ASSUME NEW s, NEW p, StoreInv(s, p), NEW creator, NEW checksum, NEW access,
           s.nextCode \in CodeID
    PROVE  Keeps(s, Create(s, creator, checksum, access))
<1> DEFINE t == Create(s, creator, checksum, access)
<1>1. s \in Store /\ s.codes[s.nextCode] = Nil
  BY StoreAssumption DEF StoreInv, SequenceOK, CodeID
<1>2. /\ t.contracts = s.contracts /\ t.history = s.history /\ t.accounts = s.accounts
      /\ \A id \in CodeID : id # s.nextCode => t.codes[id] = s.codes[id]
  BY <1>1 DEF Create, Store
<1> HIDE DEF t
<1>3. Keeps(s, t)
  BY <1>1, <1>2, HistoryLength DEF Keeps
<1> QED
  BY <1>3 DEF t

\* setAccessConfig changes the permission only.
LEMMA SetAccessConfigKeeps ==
    ASSUME NEW s, NEW p, StoreInv(s, p), NEW id, HasCode(s, id), NEW config \in AccessConfig
    PROVE  Keeps(s, SetAccessConfig(s, id, config))
<1> DEFINE t == SetAccessConfig(s, id, config)
           info == [s.codes[id] EXCEPT !.config = config]
<1>1. s \in Store /\ id \in CodeID /\ s.codes[id] \in CodeInfo
  BY DEF StoreInv, HasCode, Store
<1>2. /\ info \in CodeInfo /\ info.checksum = s.codes[id].checksum
      /\ info.creator = s.codes[id].creator
  BY <1>1 DEF CodeInfo
<1>3. info # Nil
  BY <1>2, NilAssumption
<1>4. /\ t.contracts = s.contracts /\ t.history = s.history /\ t.accounts = s.accounts
      /\ t.codes = [s.codes EXCEPT ![id] = info]
  BY <1>1 DEF SetAccessConfig, Store
<1> HIDE DEF info, t
<1>5. t.codes[id] = info /\ \A c \in CodeID : c # id => t.codes[c] = s.codes[c]
  BY <1>1, <1>4 DEF Store
<1>6. Keeps(s, t)
  BY <1>1, <1>2, <1>3, <1>4, <1>5, HistoryLength DEF Keeps
<1> QED
  BY <1>6 DEF t

\* Coins, sequences, parameters and pins are no part of what is kept.
LEMMA OtherFieldsKeep ==
    ASSUME NEW s, NEW p, StoreInv(s, p), NEW params, NEW ids, NEW from, NEW to, NEW amount
    PROVE  /\ Keeps(s, s) /\ Keeps(s, SetParams(s, params)) /\ Keeps(s, TakeInstanceID(s))
           /\ Keeps(s, Pin(s, ids)) /\ Keeps(s, Unpin(s, ids))
           /\ Keeps(s, Transfer(s, from, to, amount))
<1>1. s \in Store
  BY DEF StoreInv
<1>2. \A t \in {s, SetParams(s, params), TakeInstanceID(s), Pin(s, ids), Unpin(s, ids),
              Transfer(s, from, to, amount)} :
          /\ t.codes = s.codes /\ t.contracts = s.contracts
          /\ t.history = s.history /\ t.accounts = s.accounts
  BY <1>1 DEF SetParams, TakeInstanceID, Pin, Unpin, Transfer, Store
<1> QED
  BY <1>1, <1>2, SameKeeps

\* Only accounts that may be replaced are.
LEMMA AccountsKeep ==
    ASSUME NEW s, NEW p, StoreInv(s, p), NEW a \in Address, NEW kind
    PROVE  /\ AccountOK(s, a) => Keeps(s, ClaimAccount(s, a))
           /\ s.accounts[a] = "none" => Keeps(s, NewAccount(s, a, kind))
<1>1. s \in Store
  BY DEF StoreInv
<1> DEFINE Touches(t) ==
               /\ t.codes = s.codes /\ t.contracts = s.contracts /\ t.history = s.history
               /\ \A b \in Address : b # a => t.accounts[b] = s.accounts[b]
<1>2. Touches(ClaimAccount(s, a))
  BY <1>1 DEF ClaimAccount, Store
<1>3. Touches(NewAccount(s, a, kind))
  BY <1>1 DEF NewAccount, Store
<1>4. ASSUME NEW t, Touches(t), s.accounts[a] \notin {"claimed", "other"}
      PROVE  Keeps(s, t)
  BY <1>1, <1>4, HistoryLength DEF Keeps
<1> HIDE DEF Touches
<1>5. AccountOK(s, a) \/ s.accounts[a] = "none" => s.accounts[a] \notin {"claimed", "other"}
  BY DEF AccountOK
<1> QED
  BY <1>2, <1>3, <1>4, <1>5

\* A contract changes by one operation: its history has grown, its origin is the
\* same (or there was none), and everything else is untouched.
LEMMA ContractStepKeeps ==
    ASSUME NEW s, NEW p, StoreInv(s, p), NEW t, NEW a \in Address,
           t.codes = s.codes, t.accounts = s.accounts,
           \A b \in Address : b # a =>
                t.contracts[b] = s.contracts[b] /\ t.history[b] = s.history[b],
           t.history[a] = s.history[a] \/ \E e \in HistoryEntry : t.history[a] = Append(s.history[a], e),
           s.contracts[a] # Nil =>
                /\ t.contracts[a] # Nil
                /\ t.contracts[a].creator = s.contracts[a].creator
                /\ t.contracts[a].created = s.contracts[a].created
    PROVE  Keeps(s, t)
<1>1. s \in Store
  BY DEF StoreInv
<1>2. ASSUME NEW b \in Address
      PROVE  /\ Len(s.history[b]) <= Len(t.history[b])
             /\ \A i \in 1..Len(s.history[b]) : t.history[b][i] = s.history[b][i]
  <2>1. Len(s.history[b]) \in Nat
    BY <1>1, HistoryLength
  <2>2. CASE t.history[b] = s.history[b]
    BY <2>1, <2>2
  <2>3. CASE b = a /\ \E e \in HistoryEntry : t.history[a] = Append(s.history[a], e)
    BY <1>1, <2>1, <2>3, AppendHistoryFacts
  <2> QED
    BY <2>2, <2>3
<1>3. \A b \in Address : s.contracts[b] # Nil =>
            /\ t.contracts[b] # Nil
            /\ t.contracts[b].creator = s.contracts[b].creator
            /\ t.contracts[b].created = s.contracts[b].created
  BY Zenon
<1> QED
  BY <1>2, <1>3 DEF Keeps

\* instantiate writes at an address without contract.
LEMMA PersistContractKeeps ==
    ASSUME NEW s, NEW p \in Position, StoreInv(s, p), NEW id, HasCode(s, id), NEW creator,
           NEW admin, NEW a \in Address, ~ HasContract(s, a), NEW label
    PROVE  Keeps(s, PersistContract(s, id, creator, admin, a, label, p))
<1> DEFINE t == PersistContract(s, id, creator, admin, a, label, p)
           entry == [operation |-> "Init", codeID |-> id, updated |-> p]
<1>1. s \in Store /\ id \in CodeID /\ s.contracts[a] = Nil
  BY DEF StoreInv, HasCode, HasContract
<1>2. entry \in HistoryEntry
  BY <1>1 DEF HistoryEntry
<1>3. /\ t.codes = s.codes /\ t.accounts = s.accounts
      /\ t.history[a] = Append(s.history[a], entry)
      /\ \A b \in Address : b # a =>
                t.contracts[b] = s.contracts[b] /\ t.history[b] = s.history[b]
  BY <1>1 DEF PersistContract, AppendHistory, Store
<1> HIDE DEF t, entry
<1>4. Keeps(s, t)
  BY <1>1, <1>2, <1>3, ContractStepKeeps
<1> QED
  BY <1>4 DEF t

\* instantiate
LEMMA InstantiateKeeps ==
    ASSUME NEW s, NEW p \in Position, StoreInv(s, p), NEW id, NEW creator \in Address,
           NEW admin, NEW a \in Address, NEW label, NEW amount \in Nat, NEW policy,
           InstantiateOK(s, id, creator, a, amount, policy),
           Instantiate(s, id, creator, admin, a, label, amount, p) \in Store
    PROVE  Keeps(s, Instantiate(s, id, creator, admin, a, label, amount, p))
<1> DEFINE u == ClaimAccount(s, a)
           v == Transfer(u, creator, a, amount)
           t == PersistContract(v, id, creator, admin, a, label, p)
<1>1. AccountOK(s, a) /\ TransferOK(u, creator, amount) /\ HasCode(s, id) /\ ~ HasContract(s, a)
  BY DEF InstantiateOK
<1>2. StoreInv(u, p) /\ u.contracts = s.contracts /\ u.codes = s.codes
  BY ClaimAccountInv
<1>3. Keeps(s, u)
  BY <1>1, AccountsKeep
<1> HIDE DEF u
<1>4. StoreInv(v, p) /\ v.contracts = u.contracts /\ v.codes = u.codes
  BY <1>1, <1>2, TransferInv
<1>5. Keeps(u, v)
  BY <1>2, OtherFieldsKeep
<1> HIDE DEF v
<1>6. HasCode(v, id) /\ ~ HasContract(v, a)
  BY <1>1, <1>2, <1>4 DEF HasCode, HasContract
<1>7. Keeps(v, t)
  BY <1>4, <1>6, PersistContractKeeps
<1>8. t \in Store
  BY DEF Instantiate, u, v
<1>9. s \in Store /\ u \in Store /\ v \in Store
  BY <1>2, <1>4 DEF StoreInv
<1> HIDE DEF t
<1>10. Keeps(s, v)
  BY <1>3, <1>5, <1>9, KeepsTransitive
<1>11. Keeps(s, t)
  BY <1>7, <1>8, <1>9, <1>10, KeepsTransitive
<1> QED
  BY <1>11 DEF Instantiate, t, u, v

\* migrate appends to the history and keeps the origin of the contract.
LEMMA MigrateKeeps ==
    ASSUME NEW s, NEW p \in Position, StoreInv(s, p), NEW a, NEW caller, NEW id, NEW policy,
           MigrateOK(s, a, caller, id, policy)
    PROVE  Keeps(s, Migrate(s, a, id, p))
<1> DEFINE t == Migrate(s, a, id, p)
           entry == [operation |-> "Migrate", codeID |-> id, updated |-> p]
           info == [s.contracts[a] EXCEPT !.codeID = id,
                                          !.port = @ \/ HasIBC[ChecksumOf(s, id)]]
<1>1. s \in Store /\ id \in CodeID /\ a \in Address /\ s.contracts[a] \in ContractInfo
  BY DEF StoreInv, MigrateOK, HasCode, HasContract, Store
<1>2. entry \in HistoryEntry
  BY <1>1 DEF HistoryEntry
<1>3. t.contracts[a] # Nil
  BY MigrateInv DEF HasContract
<1>4. /\ t.codes = s.codes /\ t.accounts = s.accounts
      /\ t.history[a] = Append(s.history[a], entry)
      /\ t.contracts[a] = info
      /\ \A b \in Address : b # a =>
                t.contracts[b] = s.contracts[b] /\ t.history[b] = s.history[b]
  BY <1>1 DEF Migrate, AppendHistory, Store
<1>5. info.creator = s.contracts[a].creator /\ info.created = s.contracts[a].created
  BY <1>1 DEF ContractInfo
<1> HIDE DEF t, entry, info
<1>6. Keeps(s, t)
  BY <1>1, <1>2, <1>3, <1>4, <1>5, ContractStepKeeps
<1> QED
  BY <1>6 DEF t

\* setContractAdmin and setContractLabel keep the origin of the contract.
LEMMA SetContractKeeps ==
    ASSUME NEW s, NEW p, StoreInv(s, p), NEW a, HasContract(s, a),
           NEW admin \in Address \cup {Nil}, NEW label \in Label
    PROVE  /\ Keeps(s, SetContractAdmin(s, a, admin))
           /\ Keeps(s, SetContractLabel(s, a, label))
<1> DEFINE Same(t, info) ==
               /\ t.codes = s.codes /\ t.accounts = s.accounts /\ t.history = s.history
               /\ t.contracts = [s.contracts EXCEPT ![a] = info]
               /\ info \in ContractInfo /\ info.creator = s.contracts[a].creator
               /\ info.created = s.contracts[a].created
<1>1. s \in Store /\ a \in Address /\ s.contracts[a] \in ContractInfo
  BY DEF StoreInv, HasContract, Store
<1>2. Same(SetContractAdmin(s, a, admin), [s.contracts[a] EXCEPT !.admin = admin])
  BY <1>1 DEF SetContractAdmin, Store, ContractInfo
<1>3. Same(SetContractLabel(s, a, label), [s.contracts[a] EXCEPT !.label = label])
  BY <1>1 DEF SetContractLabel, Store, ContractInfo
<1>4. ASSUME NEW t, NEW info, Same(t, info)
      PROVE  Keeps(s, t)
  <2>1. info # Nil /\ t.contracts[a] = info
        /\ \A b \in Address : b # a => t.contracts[b] = s.contracts[b]
    BY <1>1, <1>4, NilAssumption DEF Store
  <2>2. /\ t.codes = s.codes /\ t.accounts = s.accounts /\ t.history = s.history
        /\ info.creator = s.contracts[a].creator /\ info.created = s.contracts[a].created
    BY <1>4
  <2> HIDE DEF Same
  <2> QED
    BY ONLY <1>1, <2>1, <2>2, StoreInv(s, p), ContractStepKeeps
<1> HIDE DEF Same
<1> QED
  BY <1>2, <1>3, <1>4

-----------------------------------------------------------------------------
(***************************************************************************)
(* The handlers                                                            *)
(***************************************************************************)

\* A handler works on a chain of stores that each keep the one before.
LEMMA ChainKeeps ==
    ASSUME NEW p, NEW q, NEW r, NEW s, NEW t, StoreInv(s, p), StoreInv(t, q), StoreInv(store, r),
           Keeps(store, s), Keeps(s, t)
    PROVE  Keeps(store, t)
BY KeepsTransitive DEF StoreInv

\* instantiate on a store that the handler has already changed
LEMMA InstantiateAtKeeps ==
    ASSUME IInv, Handling, StoreInv(store', pos), NEW s, StoreInv(s, pos), Keeps(store, s), NEW id,
           NEW admin, NEW a \in Address, NEW label, NEW amount \in Funds, NEW policy,
           InstantiateAt(s, id, admin, a, label, amount, policy)
    PROVE  Keeps(store, store')
<1>1. Sender \in Address /\ pos \in Position /\ amount \in Nat
  BY HandlingFacts, TxAssumption DEF IInv, Handling
<1>2. /\ InstantiateOK(s, id, Sender, a, amount, policy)
      /\ store' = Instantiate(s, id, Sender, admin, a, label, amount, pos)
  BY DEF InstantiateAt, Respond
<1>3. Keeps(s, store')
  BY <1>1, <1>2, InstantiateKeeps DEF StoreInv
<1> QED
  BY <1>3, ChainKeeps DEF IInv

\* instantiate with ClassicAddressGenerator
LEMMA InstantiateClassicKeeps ==
    ASSUME IInv, Handling, StoreInv(store', pos), NEW s, StoreInv(s, pos), Keeps(store, s),
           NEW id \in CodeID, NEW admin, NEW label, NEW amount \in Funds, NEW policy,
           InstantiateClassic(s, id, admin, label, amount, policy)
    PROVE  Keeps(store, store')
<1> DEFINE u == TakeInstanceID(s)
<1>1. /\ s.nextInstance \in InstanceID
      /\ InstantiateAt(u, id, admin, NextClassicAddress(s, id), label, amount, policy)
  BY DEF InstantiateClassic
<1>2. StoreInv(u, pos) /\ NextClassicAddress(s, id) \in Address
  BY <1>1, TakeInstanceIDInv, ClassicAddressFresh
<1>3. Keeps(s, u)
  BY OtherFieldsKeep
<1> HIDE DEF u
<1>4. Keeps(store, u)
  BY <1>2, <1>3, ChainKeeps DEF IInv
<1> QED
  BY <1>1, <1>2, <1>4, InstantiateAtKeeps

\* migrate on a store that the handler has already changed
LEMMA MigrateToKeeps ==
    ASSUME IInv, StoreInv(store', pos), NEW s, StoreInv(s, pos), Keeps(store, s), NEW a, NEW id,
           NEW policy, MigrateTo(s, a, id, policy)
    PROVE  Keeps(store, store')
<1>1. MigrateOK(s, a, Sender, id, policy) /\ store' = Migrate(s, a, id, pos) /\ pos \in Position
  BY DEF MigrateTo, Respond, Finish, IInv
<1>2. Keeps(s, store')
  BY <1>1, MigrateKeeps
<1> QED
  BY <1>2, ChainKeeps DEF IInv

\* Every handler ends in one of three ways: done, failed, or with a response.
LEMMA HandleOutcome ==
    ASSUME Handle
    PROVE  /\ Handling
           /\ Fail \/ (\E s : Finish(s)) \/ (\E s, a, policy : Respond(s, a, policy))
<1> DEFINE Ends == /\ Handling
                   /\ Fail \/ (\E s : Finish(s)) \/ (\E s, a, policy : Respond(s, a, policy))
<1>1. \A s, id, admin, a, l, m, policy :
        InstantiateAt(s, id, admin, a, l, m, policy) =>
            \E t : Respond(t, a, SubMessageAuthorizationPolicy(policy, "Instantiate"))
  BY DEF InstantiateAt
<1>2. \A s, id, admin, l, m, policy : Handling /\ InstantiateClassic(s, id, admin, l, m, policy) => Ends
  BY <1>1 DEF InstantiateClassic
<1>3. \A s, a, id, policy : Handling /\ MigrateTo(s, a, id, policy) => Ends
  BY DEF MigrateTo
<1>4. \A c \in Checksum, access \in Configs \cup {Nil} : StoreCode(c, access) => Ends
  BY DEF StoreCode
<1>5. \A id \in CodeID, admin \in Admins, l \in Label, m \in Funds :
        /\ InstantiateContract(id, admin, l, m) => Ends
        /\ \A salt \in Salt : InstantiateContract2(id, admin, l, m, salt) => Ends
  BY <1>1, <1>2 DEF InstantiateContract, InstantiateContract2
<1>6. \A a \in Address, m \in Funds : ExecuteContract(a, m) => Ends
  BY DEF ExecuteContract
<1>7. \A a \in Address, id \in CodeID : MigrateContract(a, id) => Ends
  BY <1>3 DEF MigrateContract
<1>8. \A a \in Address :
        /\ \A admin \in Admins : UpdateAdmin(a, admin) => Ends
        /\ ClearAdmin(a) => Ends
        /\ \A l \in Label : UpdateContractLabel(a, l) => Ends
        /\ SudoContract(a) => Ends
  BY DEF UpdateAdmin, ClearAdmin, UpdateContractLabel, SudoContract
<1>9. \A c \in Configs :
        /\ \A id \in CodeID : UpdateInstantiateConfig(id, c) => Ends
        /\ \A t \in AccessType : UpdateParams(c, t) => Ends
  BY DEF UpdateInstantiateConfig, UpdateParams
<1>10. \A addrs \in SUBSET Users :
        AddCodeUploadParamsAddresses(addrs) \/ RemoveCodeUploadParamsAddresses(addrs) => Ends
  BY DEF AddCodeUploadParamsAddresses, RemoveCodeUploadParamsAddresses
<1>11. \A c \in Checksum, access \in Configs \cup {Nil} :
        /\ \A admin \in Admins, l \in Label, m \in Funds :
                StoreAndInstantiateContract(c, access, admin, l, m) => Ends
        /\ \A a \in Address : StoreAndMigrateContract(c, access, a) => Ends
  BY <1>2, <1>3 DEF StoreAndInstantiateContract, StoreAndMigrateContract
<1>12. \A ids \in SUBSET CodeID : \A done \in SUBSET ids :
        PinCodes(ids, done) \/ UnpinCodes(ids, done) => Ends
  BY DEF PinCodes, UnpinCodes
<1>13. (\E c \in Checksum : StoreFails(c)) \/ SendIBCPacket \/ HandlerFails => Ends
  BY DEF StoreFails, SendIBCPacket, HandlerFails
<1>14. \A a \in Address, kind \in {"base", "vesting", "other"}, m \in Funds :
        OpenAccount(a, kind, m) => Ends
  BY DEF OpenAccount
<1> HIDE DEF Ends
<1>15. Ends
  BY ZenonT(60), <1>4, <1>5, <1>6, <1>7, <1>8, <1>9, <1>10, <1>11, <1>12, <1>13, <1>14 DEF Handle
<1> QED
  BY <1>15 DEF Ends

\* Every handler keeps what the store had.
LEMMA HandleKeeps ==
    ASSUME IInv, Handle
    PROVE  Keeps(store, store')
<1>1. StoreInv(store, pos) /\ Keeps(store, store)
  BY OtherFieldsKeep DEF IInv
<1>2. StoreInv(store', pos)
  <2>1. IInv' /\ pos' = pos
    BY HandleInv, HandleOutcome DEF Finish, Fail, Respond
  <2> QED
    BY <2>1 DEF IInv
<1>3. Handling => Sender \in Address
  BY HandlingFacts DEF Handling
<1>4. ASSUME NEW c \in Checksum, NEW access \in Configs \cup {Nil},
             CreateOK(store, Sender, access, SelectPolicy), Handling
      PROVE  /\ StoreInv(Create(store, Sender, c, access), pos)
             /\ Keeps(store, Create(store, Sender, c, access))
             /\ store.nextCode \in CodeID
  BY <1>1, <1>3, <1>4, CreateInv, CreateKeeps, TxAssumption DEF CreateOK
<1>5. ASSUME NEW c \in Checksum, NEW access \in Configs \cup {Nil}, StoreCode(c, access)
      PROVE  Keeps(store, store')
  BY <1>4, <1>5 DEF StoreCode, Finish
<1>6. ASSUME NEW id \in CodeID, NEW admin \in Admins, NEW l \in Label, NEW m \in Funds,
             InstantiateContract(id, admin, l, m)
      PROVE  Keeps(store, store')
  BY <1>1, <1>2, <1>6, InstantiateClassicKeeps DEF InstantiateContract
<1>7. ASSUME NEW id \in CodeID, NEW admin \in Admins, NEW l \in Label, NEW m \in Funds,
             NEW salt \in Salt, InstantiateContract2(id, admin, l, m, salt)
      PROVE  Keeps(store, store')
  <2> DEFINE key == <<ChecksumOf(store, id), Sender, salt>>
  <2>1. /\ key \in DOMAIN PredictableAddress /\ Handling
        /\ InstantiateAt(store, id, admin, PredictableAddress[key], l, m, SelectPolicy)
    BY <1>7 DEF InstantiateContract2
  <2> HIDE DEF key
  <2>2. PredictableAddress[key] \in Address
    BY <2>1, PredictableAddressFresh
  <2> QED
    BY <1>1, <1>2, <2>1, <2>2, InstantiateAtKeeps
<1>8. ASSUME NEW a \in Address, NEW m \in Funds, ExecuteContract(a, m)
      PROVE  Keeps(store, store')
  BY <1>1, <1>8, OtherFieldsKeep DEF ExecuteContract, Respond
<1>9. ASSUME NEW a \in Address, NEW id \in CodeID, MigrateContract(a, id)
      PROVE  Keeps(store, store')
  BY <1>1, <1>2, <1>9, MigrateToKeeps DEF MigrateContract
<1>10. ASSUME NEW a \in Address,
              \/ \E admin \in Admins : UpdateAdmin(a, admin)
              \/ ClearAdmin(a)
              \/ \E l \in Label : UpdateContractLabel(a, l)
       PROVE  Keeps(store, store')
  <2>1. HasContract(store, a)
    BY <1>10 DEF UpdateAdmin, ClearAdmin, UpdateContractLabel, SetContractOK
  <2>2. /\ \A admin \in Address \cup {Nil} : Keeps(store, SetContractAdmin(store, a, admin))
        /\ \A l \in Label : Keeps(store, SetContractLabel(store, a, l))
    <3>1. store.contracts[a] \in ContractInfo
      BY <1>1, <2>1 DEF HasContract, StoreInv, Store
    <3>2. store.contracts[a].label \in Label
      BY <3>1 DEF ContractInfo
    <3> QED
      BY <1>1, <2>1, <3>2, SetContractKeeps
  <2>3. \/ \E admin \in Address \cup {Nil} : store' = SetContractAdmin(store, a, admin)
        \/ \E l \in Label : store' = SetContractLabel(store, a, l)
    BY <1>10, TxAssumption DEF UpdateAdmin, ClearAdmin, UpdateContractLabel, Finish
  <2> QED
    BY <2>2, <2>3
<1>11. ASSUME NEW id \in CodeID, NEW c \in Configs, UpdateInstantiateConfig(id, c)
       PROVE  Keeps(store, store')
  BY <1>1, <1>11, SetAccessConfigKeeps, TxAssumption
     DEF UpdateInstantiateConfig, SetAccessConfigOK, Finish
<1>12. ASSUME \/ \E c \in Configs, t \in AccessType : UpdateParams(c, t)
              \/ \E addrs \in SUBSET Users \ {{}} : AddCodeUploadParamsAddresses(addrs)
              \/ \E addrs \in SUBSET Users \ {{}} : RemoveCodeUploadParamsAddresses(addrs)
       PROVE  Keeps(store, store')
  <2>1. \E params : store' = SetParams(store, params)
    BY <1>12 DEF UpdateParams, AddCodeUploadParamsAddresses, RemoveCodeUploadParamsAddresses, Finish
  <2> QED
    BY <1>1, <2>1, OtherFieldsKeep
<1>13. ASSUME NEW c \in Checksum, NEW access \in Configs \cup {Nil}, NEW admin \in Admins,
              NEW l \in Label, NEW m \in Funds, StoreAndInstantiateContract(c, access, admin, l, m)
       PROVE  Keeps(store, store')
  <2> DEFINE s == Create(store, Sender, c, access)
  <2>1. /\ CreateOK(store, Sender, access, SelectPolicy) /\ Handling
        /\ InstantiateClassic(s, store.nextCode, admin, l, m, SelectPolicy)
    BY <1>13 DEF StoreAndInstantiateContract
  <2>2. StoreInv(s, pos) /\ Keeps(store, s) /\ store.nextCode \in CodeID
    BY <1>4, <2>1
  <2> HIDE DEF s
  <2> QED
    BY <1>2, <2>1, <2>2, InstantiateClassicKeeps
<1>14. ASSUME NEW c \in Checksum, NEW access \in Configs \cup {Nil}, NEW a \in Address,
              StoreAndMigrateContract(c, access, a)
       PROVE  Keeps(store, store')
  <2> DEFINE s == Create(store, Sender, c, access)
  <2>1. /\ CreateOK(store, Sender, access, SelectPolicy) /\ Handling
        /\ MigrateTo(s, a, store.nextCode, SelectPolicy)
    BY <1>14 DEF StoreAndMigrateContract
  <2>2. StoreInv(s, pos) /\ Keeps(store, s)
    BY <1>4, <2>1
  <2> HIDE DEF s
  <2> QED
    BY <1>2, <2>1, <2>2, MigrateToKeeps
<1>15. ASSUME NEW ids \in SUBSET CodeID, NEW done \in SUBSET ids,
              PinCodes(ids, done) \/ UnpinCodes(ids, done)
       PROVE  Keeps(store, store')
  <2>1. store' \in {store, Pin(store, ids), Unpin(store, ids)}
    BY <1>15 DEF PinCodes, UnpinCodes, Finish, Fail
  <2> QED
    BY <1>1, <2>1, OtherFieldsKeep
<1>16. ASSUME (\E c \in Checksum : StoreFails(c)) \/ SendIBCPacket \/ HandlerFails
       PROVE  Keeps(store, store')
  <2>1. store' = store
    BY <1>16 DEF StoreFails, SendIBCPacket, HandlerFails, Finish, Fail
  <2> QED
    BY <1>1, <2>1
<1>17. ASSUME NEW a \in Address, NEW kind \in {"base", "vesting", "other"}, NEW m \in Funds,
              OpenAccount(a, kind, m)
       PROVE  Keeps(store, store')
  <2> DEFINE s == Transfer(store, Sender, a, m)
  <2>1. /\ Handling /\ store.accounts[a] = "none" /\ TransferOK(store, Sender, m)
        /\ store' = NewAccount(s, a, kind)
    BY <1>17 DEF OpenAccount, Finish
  <2>2. StoreInv(s, pos)
    BY <1>1, <1>3, <2>1, TransferInv, TxAssumption
  <2>3. Keeps(store, s)
    BY <1>1, OtherFieldsKeep
  <2>4. s.accounts = store.accounts
    BY <1>1 DEF Transfer, StoreInv, Store
  <2> HIDE DEF s
  <2>5. Keeps(s, store')
    BY <2>1, <2>2, <2>4, AccountsKeep
  <2> QED
    BY <1>1, <1>2, <2>2, <2>3, <2>5, ChainKeeps
<1>18. ASSUME NEW a \in Address, SudoContract(a)
       PROVE  Keeps(store, store')
  BY <1>1, <1>18 DEF SudoContract, Respond
<1>19. CASE \E id \in CodeID, admin \in Admins, l \in Label, m \in Funds :
                \/ InstantiateContract(id, admin, l, m)
                \/ \E salt \in Salt : InstantiateContract2(id, admin, l, m, salt)
  BY <1>6, <1>7, <1>19
<1>20. CASE \/ \E a \in Address, admin \in Admins \ {Nil} : UpdateAdmin(a, admin)
            \/ \E a \in Address : ClearAdmin(a)
            \/ \E a \in Address, l \in Label : UpdateContractLabel(a, l)
  BY <1>10, <1>20
<1>21. CASE \/ \E c \in Configs, t \in AccessType : UpdateParams(c, t)
            \/ \E addrs \in SUBSET Users \ {{}} : AddCodeUploadParamsAddresses(addrs)
            \/ \E addrs \in SUBSET Users \ {{}} : RemoveCodeUploadParamsAddresses(addrs)
  BY <1>12, <1>21
<1>22. CASE \E c \in Checksum, access \in Configs \cup {Nil} :
                \/ \E admin \in Admins, l \in Label, m \in Funds :
                        StoreAndInstantiateContract(c, access, admin, l, m)
                \/ \E a \in Address : StoreAndMigrateContract(c, access, a)
  BY <1>13, <1>14, <1>22
<1>23. CASE \E ids \in SUBSET CodeID \ {{}} : \E done \in SUBSET ids :
                PinCodes(ids, done) \/ UnpinCodes(ids, done)
  BY <1>15, <1>23
<1> QED
  BY <1>5, <1>8, <1>9, <1>11, <1>16, <1>17, <1>18, <1>19, <1>20, <1>21, <1>22, <1>23 DEF Handle

-----------------------------------------------------------------------------
(***************************************************************************)
(* The stack                                                               *)
(***************************************************************************)

\* A step inside a transaction puts no store on the stack but the running one.
LEMMA InnerStep ==
    ASSUME IInv, KInv, stack # <<>>, stack' # <<>>, stack'[1].snapshot = stack[1].snapshot,
           Keeps(Committed, store'),
           \A i \in 1..Len(stack') :
                \/ stack'[i].snapshot = store'
                \/ stack'[i].snapshot = store
                \/ \E j \in 1..Len(stack) : stack'[i].snapshot = stack[j].snapshot
    PROVE  KInv' /\ Committed' = Committed
<1>1. Committed' = Committed
  BY DEF Committed
<1>2. ASSUME NEW i \in 1..Len(stack')
      PROVE  Keeps(Committed, stack'[i].snapshot)
  BY <1>2 DEF KInv
<1> QED
  BY <1>1, <1>2 DEF KInv

\* The committed store is consistent, and all stores in use are stores.
LEMMA CommittedInv ==
    ASSUME IInv
    PROVE  /\ StoreInv(Committed, pos)
           /\ Committed \in Store /\ store \in Store
BY FirstSnapshot DEF IInv, Committed, StoreInv

\* Handlers leave the snapshots alone.
LEMMA HandleKInv ==
    ASSUME IInv, KInv, Handle
    PROVE  KInv' /\ Committed' = Committed
<1>1. Handling /\ Depth > 1 /\ stack # <<>>
  BY HandleOutcome DEF Handling, Depth
<1>2. stack \in Seq(Frame) /\ Depth \in Nat /\ Top \in Frame
  BY <1>1, HandlingFacts
<1>3. /\ Len(stack') = Len(stack)
      /\ \A i \in 1..Len(stack) : stack'[i].snapshot = stack[i].snapshot
  <2>1. ASSUME NEW f \in Frame, f.snapshot = Top.snapshot, stack' = [stack EXCEPT ![Depth] = f]
        PROVE  /\ Len(stack') = Len(stack)
               /\ \A i \in 1..Len(stack) : stack'[i].snapshot = stack[i].snapshot
    BY <1>1, <1>2, <2>1, ExceptSeq DEF Depth, Top
  <2>2. IInv'
    BY HandleInv
  <2>3. CASE Fail
    BY <2>3 DEF Fail
  <2>4. CASE \E s : Finish(s)
    <3> DEFINE f == [Top EXCEPT !.phase = "body"]
    <3>1. f \in Frame /\ f.snapshot = Top.snapshot
      BY <1>2 DEF Frame
    <3>2. stack' = [stack EXCEPT ![Depth] = f]
      BY <2>4 DEF Finish, Top
    <3> HIDE DEF f
    <3> QED
      BY <2>1, <3>1, <3>2
  <2>5. ASSUME NEW s, NEW a, NEW policy, Respond(s, a, policy)
        PROVE  /\ Len(stack') = Len(stack)
               /\ \A i \in 1..Len(stack) : stack'[i].snapshot = stack[i].snapshot
    <3>1. PICK n \in 0..MaxMsgs :
            stack' = [stack EXCEPT ![Depth].phase  = "body",
                                   ![Depth].actor  = a,
                                   ![Depth].policy = policy,
                                   ![Depth].port   = s.contracts[a].port,
                                   ![Depth].left   = n]
      BY <2>5 DEF Respond
    <3> DEFINE f == [Top EXCEPT !.phase = "body", !.actor = a, !.policy = policy,
                                !.port = s.contracts[a].port, !.left = n]
    <3>2. f.snapshot = Top.snapshot
      BY <1>2 DEF Frame
    <3>3. Depth \in 1..Len(stack) /\ DOMAIN stack = 1..Len(stack)
      BY <1>1, <1>2, LenProperties DEF Depth
    <3>4. stack' = [stack EXCEPT ![Depth] = f]
      BY <3>1, <3>3 DEF Top
    <3> HIDE DEF f
    <3>5. stack' \in Seq(Frame) /\ DOMAIN stack' = 1..Len(stack') /\ Len(stack') \in Nat
      BY <2>2, LenProperties DEF IInv, StackOK
    <3>6. DOMAIN stack' = DOMAIN stack /\ \A i \in DOMAIN stack : stack'[i].snapshot = stack[i].snapshot
      BY <3>2, <3>3, <3>4 DEF Top
    <3>7. Len(stack') = Len(stack)
      <4>1. Len(stack) \in Nat /\ Len(stack) > 0
        BY <1>1, <1>2 DEF Depth
      <4>2. \A i \in Int : i \in 1..Len(stack') <=> i \in 1..Len(stack)
        BY <3>3, <3>5, <3>6
      <4>3. Len(stack) <= Len(stack') /\ Len(stack') <= Len(stack)
        BY <3>5, <4>1, <4>2
      <4> QED
        BY <3>5, <4>1, <4>3
    <3> QED
      BY <3>3, <3>6, <3>7
  <2> QED
    BY <2>3, <2>4, <2>5, HandleOutcome
<1>4. stack' # <<>> /\ 1 \in 1..Len(stack)
  BY <1>1, <1>2, <1>3 DEF Depth
<1>5. Keeps(Committed, store')
  <2>1. store' \in Store
    BY HandleInv DEF IInv, StoreInv
  <2> QED
    BY <2>1, HandleKeeps, CommittedInv, KeepsTransitive DEF KInv
<1> QED
  BY <1>1, <1>3, <1>4, <1>5, InnerStep

\* The next message gets a frame, with the running store as its snapshot.
LEMMA PushMsgKInv ==
    ASSUME IInv, KInv, NEW on, NEW limited, PushMsg(on, limited)
    PROVE  KInv' /\ Committed' = Committed
<1> DEFINE f == MsgFrame(on, limited)
           g == [Top EXCEPT !.left = @ - 1]
           u == [stack EXCEPT ![Depth] = g]
<1>1. stack # <<>> /\ store' = store /\ stack' = Append(u, f) /\ f.snapshot = store
  BY DEF PushMsg, MsgFrame, Top
<1>2. stack \in Seq(Frame) /\ Depth \in Nat \ {0} /\ Depth \in 1..Len(stack) /\ Top \in Frame
  BY <1>1, FirstSnapshot, ElementOfSeq DEF IInv, StackOK, Depth, Top
<1>3. g \in Frame /\ g.snapshot = Top.snapshot
  <2>1. Top.left \in 0..MaxMsgs /\ Top.left > 0
    BY <1>2 DEF PushMsg, Frame
  <2>2. Top.left - 1 \in 0..MaxMsgs
    BY <2>1, TxAssumption
  <2> QED
    BY <1>2, <2>2 DEF Frame
<1> HIDE DEF g
<1>4. /\ u \in Seq(Frame) /\ Len(u) = Depth
      /\ \A i \in 1..Depth : u[i].snapshot = stack[i].snapshot
  <2>1. /\ u \in Seq(Frame) /\ Len(u) = Depth /\ u[Depth] = g
        /\ \A i \in 1..Depth : i # Depth => u[i] = stack[i]
    BY <1>2, <1>3, ExceptSeq DEF Depth
  <2> HIDE DEF u
  <2> QED
    BY <1>3, <2>1 DEF Top
<1> HIDE DEF u, f
<1>5. /\ Len(stack') = Depth + 1 /\ stack'[Depth + 1] = f
      /\ \A i \in 1..Depth : stack'[i] = u[i]
  BY <1>1, <1>2, <1>4
<1>6. \A i \in 1..Depth + 1 : i = Depth + 1 \/ i \in 1..Depth
  BY <1>2
<1>7. 1 \in 1..Depth /\ stack' # <<>>
  BY <1>2, <1>5
<1> QED
  BY <1>1, <1>4, <1>5, <1>6, <1>7, InnerStep DEF KInv, Depth

\* Frames are dropped from the top, and the running store keeps the committed one.
LEMMA DropKInv ==
    ASSUME IInv, KInv, NEW m \in 1..Len(stack), stack # <<>>, stack' = SubSeq(stack, 1, m),
           Keeps(Committed, store')
    PROVE  KInv' /\ Committed' = Committed
<1>1. stack \in Seq(Frame) /\ Len(stack) \in Nat /\ m \in Nat
  BY LenProperties DEF IInv, StackOK
<1>2. Len(stack') = m /\ \A i \in 1..m : stack'[i] = stack[i]
  BY <1>1, SubSeqProperties
<1>3. 1 \in 1..m /\ stack' # <<>> /\ \A i \in 1..m : i \in 1..Len(stack)
  BY <1>1, <1>2
<1> QED
  BY <1>2, <1>3, InnerStep

\* A reply, or its failure, in a context that keeps the committed store.
LEMMA ReplyKInv ==
    ASSUME IInv, KInv, Depth > 1, NEW s, Keeps(Committed, s), Reply(s) \/ ReplyFails(s)
    PROVE  KInv' /\ Committed' = Committed
<1>1. stack \in Seq(Frame) /\ Depth \in Nat /\ stack # <<>> /\ Depth - 1 \in 1..Len(stack)
  BY HandlingFacts DEF Depth
<1>2. CASE ReplyFails(s)
  BY <1>1, <1>2, DropKInv DEF ReplyFails, Pop, Depth
<1>3. CASE Reply(s)
  <2>1. PICK f : store' = s /\ f.snapshot = s /\ stack' = [stack EXCEPT ![Depth] = f]
    BY <1>3 DEF Reply
  <2>2. /\ Len(stack') = Depth /\ stack'[Depth] = f
        /\ \A i \in 1..Depth : i # Depth => stack'[i] = stack[i]
    BY <1>1, <2>1 DEF Depth
  <2>3. 1 \in 1..Depth /\ 1 # Depth /\ stack' # <<>>
    BY <1>1, <2>2
  <2> QED
    BY <1>1, <2>1, <2>2, <2>3, InnerStep DEF Depth
<1> QED
  BY <1>2, <1>3

\* The end of a transaction, in any way: the stack is gone.
LEMMA EndKInv ==
    ASSUME IInv, IInv', KInv, stack' = <<>>, store' = Committed \/ store' = store
    PROVE  KInv' /\ Keeps(Committed, Committed')
<1>1. Committed' = store' /\ 1..Len(stack') = {}
  BY DEF Committed
<1>2. Keeps(Committed, Committed) /\ Keeps(store', store')
  <2>1. store' \in Store
    BY DEF IInv, StoreInv
  <2> QED
    BY <2>1, CommittedInv, SameKeeps
<1> QED
  BY <1>1, <1>2 DEF KInv

\* Every step keeps what is committed, and so does every store it leaves behind.
LEMMA NextKInv ==
    ASSUME IInv, IInv', KInv, Next
    PROVE  KInv' /\ Keeps(Committed, Committed')
<1>1. Keeps(Committed, Committed)
  BY CommittedInv, SameKeeps
<1>2. CASE \E signer \in Users \cup {Authority}, n \in 1..MaxMsgs, m \in Modes :
                BeginTx(signer, n, m)
  <2>1. PICK f : stack = <<>> /\ f.snapshot = store /\ stack' = <<f>> /\ store' = store
    BY <1>2 DEF BeginTx
  <2>2. stack' # <<>> /\ Len(stack') = 1 /\ stack'[1] = f
    BY <2>1
  <2>3. Committed' = store /\ Committed = store
    BY <2>1, <2>2 DEF Committed
  <2> QED
    BY <1>1, <2>1, <2>2, <2>3 DEF KInv
<1>3. CASE RunMsg \/ \E on \in ReplyModes, l \in GasLimited : DispatchMsg(on, l)
  BY <1>1, <1>3, PushMsgKInv DEF RunMsg, DispatchMsg
<1>4. CASE Handle
  BY <1>1, <1>4, HandleKInv
<1>5. ASSUME Depth > 1
      PROVE  /\ stack # <<>> /\ Len(stack) - 1 \in 1..Len(stack)
             /\ Keeps(Committed, store) /\ Keeps(Committed, Rollback)
  <2>1. Depth \in Nat /\ stack # <<>> /\ Depth \in 1..Len(stack)
    BY <1>5, HandlingFacts DEF Depth
  <2> QED
    BY <1>5, <2>1 DEF Rollback, KInv, Top, Depth
<1>6. CASE Return
  BY <1>1, <1>5, <1>6, DropKInv DEF Return, Returning, Pop, Depth
<1>7. CASE ReturnReply
  BY <1>1, <1>5, <1>7, ReplyKInv DEF ReturnReply, Returning
<1>8. CASE PropagateError
  BY <1>1, <1>5, <1>8, DropKInv DEF PropagateError, Pop, Depth
<1>9. CASE CatchReply
  BY <1>1, <1>5, <1>9, ReplyKInv DEF CatchReply
<1>10. CASE OutOfGas
  <2>1. PICK i \in 2..Depth : stack' = SubSeq(stack, 1, i) /\ store' = store
    BY <1>10 DEF OutOfGas
  <2>2. Depth \in Nat
    BY LenProperties DEF IInv, StackOK, Depth
  <2>3. i \in 1..Len(stack) /\ Depth > 1
    BY <2>2 DEF Depth
  <2> QED
    BY <1>1, <1>5, <2>1, <2>3, DropKInv
<1>11. CASE TxPanics \/ EndTx \/ AbortTx \/ Restart
  <2>1. stack' = <<>> /\ (store' = Committed \/ store' = store)
    BY <1>11 DEF TxPanics, EndTx, AbortTx, Restart, Committed, Depth, Top
  <2> QED
    BY <2>1, EndKInv
<1> QED
  BY <1>2, <1>3, <1>4, <1>6, <1>7, <1>8, <1>9, <1>10, <1>11 DEF Next, TxStep
-----------------------------------------------------------------------------
(***************************************************************************)
(* The theorems                                                            *)
(***************************************************************************)

\* Whatever is running, its store and every store it can be rolled back to have
\* all that is committed.
THEOREM CommittedKept == Spec => [](IInv /\ KInv)
<1>1. Init => KInv
  <2> SUFFICES ASSUME Init PROVE KInv
    OBVIOUS
  <2>1. store \in Store
    BY EmptyStoreInv, TxAssumption DEF Init, StoreInv
  <2>2. Committed = store /\ 1..Len(stack) = {}
    BY DEF Init, Committed
  <2> QED
    BY <2>1, <2>2, SameKeeps DEF KInv
<1>2. IInv /\ IInv' /\ KInv /\ [Next]_vars => KInv'
  <2> SUFFICES ASSUME IInv, IInv', KInv, [Next]_vars PROVE KInv'
    OBVIOUS
  <2>1. CASE Next
    BY <2>1, NextKInv
  <2>2. CASE UNCHANGED vars
    BY <2>2 DEF vars, KInv, Committed
  <2> QED
    BY <2>1, <2>2
<1> QED
  BY <1>1, <1>2, Invariance, PTL DEF Spec

\* No transaction takes over an account that has signed or that instantiate does
\* not know (accounts run).
THEOREM ClaimedAccountsKept == Spec => []ClaimedKept
<1>1. IInv /\ KInv => ClaimedKept
  BY DEF KInv, Keeps, ClaimedKept
<1> QED
  BY <1>1, CommittedKept, PTL

\* What is in the registry of a store.
LEMMA RegistryFacts ==
    ASSUME NEW s \in Store
    PROVE  /\ \A id \in CodeID :
                /\ RegistryOf(s).codes[id] = CodeRecord(s.codes[id])
                /\ RegistryOf(s).codes[id] = Nil <=> s.codes[id] = Nil
           /\ \A a \in Address :
                /\ RegistryOf(s).contracts[a] = ContractRecord(s.contracts[a])
                /\ RegistryOf(s).contracts[a] = Nil <=> s.contracts[a] = Nil
                /\ RegistryOf(s).history[a] = s.history[a]
<1>1. ASSUME NEW id \in CodeID
      PROVE  /\ RegistryOf(s).codes[id] = CodeRecord(s.codes[id])
             /\ CodeRecord(s.codes[id]) = Nil <=> s.codes[id] = Nil
  <2>1. RegistryOf(s).codes[id] = CodeRecord(s.codes[id])
    BY DEF RegistryOf
  <2>2. CASE s.codes[id] # Nil
    <3>1. s.codes[id] \in CodeInfo
      BY <2>2 DEF Store
    <3>2. CodeRecord(s.codes[id]) \in [checksum : Checksum, creator : Address]
      BY <2>2, <3>1 DEF CodeInfo, CodeRecord
    <3> QED
      BY <2>1, <2>2, <3>2, RecordAssumption
  <2> QED
    BY <2>1, <2>2 DEF CodeRecord
<1>2. ASSUME NEW a \in Address
      PROVE  /\ RegistryOf(s).contracts[a] = ContractRecord(s.contracts[a])
             /\ ContractRecord(s.contracts[a]) = Nil <=> s.contracts[a] = Nil
             /\ RegistryOf(s).history[a] = s.history[a]
  <2>1. /\ RegistryOf(s).contracts[a] = ContractRecord(s.contracts[a])
        /\ RegistryOf(s).history[a] = s.history[a]
    BY DEF RegistryOf
  <2>2. CASE s.contracts[a] # Nil
    <3>1. s.contracts[a] \in ContractInfo
      BY <2>2 DEF Store
    <3>2. ContractRecord(s.contracts[a]) \in [creator : Address, created : Position, codeID : CodeID]
      BY <2>2, <3>1 DEF ContractInfo, ContractRecord
    <3> QED
      BY <2>1, <2>2, <3>2, RecordAssumption
  <2> QED
    BY <2>1, <2>2 DEF ContractRecord
<1> QED
  BY <1>1, <1>2

\* A consistent store has complete histories.
LEMMA RegistryComplete ==
    ASSUME NEW s, NEW p, StoreInv(s, p)
    PROVE  Ledger!Complete(RegistryOf(s))
<1>1. s \in Store /\ HistoryOK(s) /\ SequenceOK(s)
  BY DEF StoreInv
<1>2. ASSUME NEW a \in Address
      PROVE  IF s.contracts[a] = Nil THEN s.history[a] = <<>>
             ELSE /\ s.history[a] # <<>>
                  /\ s.history[a][Len(s.history[a])].codeID = ContractRecord(s.contracts[a]).codeID
                  /\ \A i \in 1..Len(s.history[a]) :
                        /\ s.history[a][i].codeID \in CodeID
                        /\ s.codes[s.history[a][i].codeID] # Nil
  <2>1. HistoryOf(s.contracts[a], s.history[a]) /\ s.history[a] \in Seq(HistoryEntry)
    BY <1>1, HistoryLength DEF HistoryOK
  <2>2. CASE s.contracts[a] = Nil
    BY <2>1, <2>2 DEF HistoryOf
  <2>3. CASE s.contracts[a] # Nil
    <3>1. \A i \in 1..Len(s.history[a]) : s.history[a][i] \in HistoryEntry
      BY <2>1, ElementOfSeq
    <3>2. \A i \in 1..Len(s.history[a]) :
                /\ s.history[a][i].codeID \in CodeID
                /\ s.codes[s.history[a][i].codeID] # Nil
      BY <1>1, <2>3, <3>1 DEF SequenceOK, Contracts, HistoryEntry
    <3>3. /\ s.history[a] # <<>>
          /\ s.history[a][Len(s.history[a])].codeID = ContractRecord(s.contracts[a]).codeID
      BY <2>1, <2>3 DEF HistoryOf, Last, ContractRecord
    <3> QED
      BY <2>3, <3>2, <3>3
  <2> QED
    BY <2>2, <2>3
<1> DEFINE r == RegistryOf(s)
<1>3. ASSUME NEW a \in Address
      PROVE  IF r.contracts[a] = Nil THEN r.history[a] = <<>>
             ELSE /\ r.history[a] # <<>>
                  /\ r.history[a][Len(r.history[a])].codeID = r.contracts[a].codeID
                  /\ \A i \in 1..Len(r.history[a]) : r.codes[r.history[a][i].codeID] # Nil
  <2> HIDE DEF r
  <2>1. r.contracts[a] = ContractRecord(s.contracts[a]) /\ r.history[a] = s.history[a]
        /\ (r.contracts[a] = Nil <=> s.contracts[a] = Nil)
        /\ \A id \in CodeID : r.codes[id] = Nil <=> s.codes[id] = Nil
    BY <1>1, RegistryFacts DEF r
  <2> QED
    BY <1>2, <2>1
<1> QED
  BY <1>3 DEF Ledger!Complete

\* The registry of a store that keeps another one extends that one's.
LEMMA RegistryExtends ==
    ASSUME NEW s \in Store, NEW t \in Store, Keeps(s, t)
    PROVE  Ledger!Extends(RegistryOf(s), RegistryOf(t))
<1>1. ASSUME NEW id \in CodeID, RegistryOf(s).codes[id] # Nil
      PROVE  RegistryOf(t).codes[id] = RegistryOf(s).codes[id]
  <2>1. s.codes[id] # Nil
    BY <1>1, RegistryFacts
  <2>2. /\ t.codes[id] # Nil
        /\ t.codes[id].checksum = s.codes[id].checksum
        /\ t.codes[id].creator = s.codes[id].creator
    BY <2>1 DEF Keeps
  <2>3. CodeRecord(t.codes[id]) = CodeRecord(s.codes[id])
    BY <2>1, <2>2 DEF CodeRecord
  <2> QED
    BY <2>3, RegistryFacts
<1>2. ASSUME NEW a \in Address, RegistryOf(s).contracts[a] # Nil
      PROVE  /\ RegistryOf(t).contracts[a] # Nil
             /\ RegistryOf(t).contracts[a].creator = RegistryOf(s).contracts[a].creator
             /\ RegistryOf(t).contracts[a].created = RegistryOf(s).contracts[a].created
  <2>1. s.contracts[a] # Nil
    BY <1>2, RegistryFacts
  <2>2. /\ t.contracts[a] # Nil
        /\ t.contracts[a].creator = s.contracts[a].creator
        /\ t.contracts[a].created = s.contracts[a].created
    BY <2>1 DEF Keeps
  <2>3. /\ ContractRecord(t.contracts[a]).creator = ContractRecord(s.contracts[a]).creator
        /\ ContractRecord(t.contracts[a]).created = ContractRecord(s.contracts[a]).created
    BY <2>1, <2>2 DEF ContractRecord
  <2> QED
    BY <2>2, <2>3, RegistryFacts
<1>3. ASSUME NEW a \in Address
      PROVE  /\ Len(RegistryOf(s).history[a]) <= Len(RegistryOf(t).history[a])
             /\ \A i \in 1..Len(RegistryOf(s).history[a]) :
                    RegistryOf(t).history[a][i] = RegistryOf(s).history[a][i]
  <2>1. RegistryOf(s).history[a] = s.history[a] /\ RegistryOf(t).history[a] = t.history[a]
    BY RegistryFacts
  <2> QED
    BY <2>1 DEF Keeps
<1> QED
  BY <1>1, <1>2, <1>3 DEF Ledger!Extends

\* Whatever mixture of messages, sub-messages, replies, rollbacks, simulations,
\* panics and restarts happens, the committed registry only grows by whole
\* transactions and rewrites nothing (ledger run).
THEOREM RegistryImplemented == Spec => Implements
<1>1. Init => Ledger!Init
  <2> SUFFICES ASSUME Init PROVE RegistryOf(Committed) = Ledger!Empty
    BY DEF Ledger!Init
  <2>1. Committed = EmptyStore(InitParams, InitAccounts, InitBank)
    BY DEF Init, Committed
  <2> QED
    BY <2>1 DEF EmptyStore, RegistryOf, CodeRecord, ContractRecord, Ledger!Empty
<1>2. IInv => CommittedOK
  BY CommittedInv DEF CommittedOK
<1>3. IInv /\ KInv /\ IInv' /\ CommittedOK' /\ [Next]_vars =>
        [Ledger!Transaction]_(RegistryOf(Committed))
  <2> SUFFICES ASSUME IInv, KInv, IInv', CommittedOK', [Next]_vars
               PROVE  [Ledger!Transaction]_(RegistryOf(Committed))
    OBVIOUS
  <2>1. CASE UNCHANGED vars
    BY <2>1 DEF vars, Committed
  <2>2. CASE Next
    <3>1. Keeps(Committed, Committed')
      BY <2>2, NextKInv
    <3>2. Committed \in Store /\ Committed' \in Store /\ StoreInv(Committed', pos')
      <4>1. StoreInv(Committed', pos')
        BY DEF CommittedOK
      <4> QED
        BY <4>1, CommittedInv DEF StoreInv
    <3>3. Ledger!Complete(RegistryOf(Committed'))
      BY <3>2, RegistryComplete
    <3>4. Ledger!Extends(RegistryOf(Committed), RegistryOf(Committed'))
      BY <3>1, <3>2, RegistryExtends
    <3> QED
      BY <3>3, <3>4 DEF Ledger!Transaction
  <2> QED
    BY <2>1, <2>2
<1> QED
  BY <1>1, <1>2, <1>3, CommittedKept, PTL DEF Spec, Implements, Ledger!Spec
=============================================================================

-------------------------- MODULE WasmStoreProofs --------------------------
(***************************************************************************)
(* Every keeper function that succeeds keeps the store consistent: one     *)
(* lemma per operator of WasmStore.                                        *)
(***************************************************************************)
EXTENDS WasmStore, SequenceTheorems, TLAPS

\* The store of a fresh chain (EmptyStore) is consistent at position 0.
LEMMA EmptyStoreInv ==
    ASSUME NEW params \in Params, NEW accounts \in [Address -> AccountKind],
           NEW bank \in [Address -> Nat]
    PROVE  StoreInv(EmptyStore(params, accounts, bank), 0)
<1> DEFINE s == EmptyStore(params, accounts, bank)
<1>1. s \in Store
  BY StoreAssumption DEF EmptyStore, Store, CodeID, Position
<1>2. Contracts(s) = {} /\ \A a \in Address : s.contracts[a] = Nil /\ s.history[a] = <<>>
  BY DEF EmptyStore, Contracts
<1>3. IndexOK(s)
  BY ZenonT(30), <1>2 DEF IndexOK, EmptyStore
<1>4. HistoryOK(s) /\ PortOK(s)
  BY <1>2 DEF HistoryOK, HistoryOf, PortOK
<1>5. SequenceOK(s)
  <2>1. s.nextCode = 1 /\ s.pinned = {} /\ \A id \in CodeID : s.codes[id] = Nil
    BY DEF EmptyStore
  <2>2. \A id \in CodeID : ~ (id < 1)
    BY StoreAssumption DEF CodeID
  <2> QED
    BY <1>2, <2>1, <2>2 DEF SequenceOK
<1>6. NotAfter(s, 0)
  BY <1>2 DEF NotAfter
<1>7. AddressOK(s)
  BY <1>2 DEF AddressOK
<1> QED
  BY <1>1, <1>3, <1>4, <1>5, <1>6, <1>7 DEF StoreInv

\* The entries of a history (appendToContractHistory).
LEMMA EntryType ==
    ASSUME NEW s \in Store, NEW a \in Address, NEW i \in 1..Len(s.history[a])
    PROVE  /\ s.history[a][i] \in HistoryEntry
           /\ s.history[a][i].codeID \in CodeID
           /\ s.history[a][i].updated \in Position
<1>1. s.history[a] \in Seq(HistoryEntry)
  BY DEF Store
<1>2. s.history[a][i] \in HistoryEntry
  BY <1>1, ElementOfSeq
<1> QED
  BY <1>2 DEF HistoryEntry

\* What a consistent store says of a contract: its info and history are there, and
\* its code exists.
LEMMA ContractFacts ==
    ASSUME NEW s, NEW p, StoreInv(s, p), NEW a \in Contracts(s)
    PROVE  /\ a \in Address
           /\ s.contracts[a] \in ContractInfo
           /\ s.history[a] \in Seq(HistoryEntry)
           /\ Len(s.history[a]) \in Nat \ {0}
           /\ Last(s.history[a]) \in HistoryEntry
           /\ Last(s.history[a]).codeID = s.contracts[a].codeID
           /\ s.contracts[a].codeID \in CodeID
           /\ s.codes[s.contracts[a].codeID] # Nil
           /\ s.codes[s.contracts[a].codeID] \in CodeInfo
<1>1. s \in Store /\ HistoryOK(s) /\ SequenceOK(s) /\ a \in Address /\ s.contracts[a] # Nil
  BY DEF StoreInv, Contracts
<1>2. s.contracts[a] \in ContractInfo /\ s.history[a] \in Seq(HistoryEntry)
  BY <1>1 DEF Store
<1>3. s.history[a] # <<>> /\ Last(s.history[a]).codeID = s.contracts[a].codeID
  BY <1>1 DEF HistoryOK, HistoryOf
<1>4. Len(s.history[a]) \in Nat \ {0}
  BY <1>2, <1>3, EmptySeq, LenProperties
<1>5. Last(s.history[a]) \in HistoryEntry
  BY <1>2, <1>4, ElementOfSeq DEF Last
<1>6. s.contracts[a].codeID \in CodeID
  BY <1>2 DEF ContractInfo
<1>7. s.codes[Last(s.history[a]).codeID] # Nil
  BY <1>1, <1>4 DEF SequenceOK, Last
<1>8. s.codes[s.contracts[a].codeID] \in CodeInfo
  BY <1>1, <1>3, <1>6, <1>7 DEF Store
<1> QED
  BY <1>1, <1>2, <1>3, <1>4, <1>5, <1>6, <1>7, <1>8

\* Consistency depends only on the sequences, the contracts, their histories,
\* the indexes, the pins and the checksums of the codes.
LEMMA SameRegistry ==
    ASSUME NEW s, NEW t, NEW p, StoreInv(s, p), t \in Store,
           t.nextCode = s.nextCode, t.nextInstance = s.nextInstance,
           t.contracts = s.contracts, t.history = s.history,
           t.byCode = s.byCode, t.byCreator = s.byCreator, t.pinned = s.pinned,
           \A id \in CodeID : /\ t.codes[id] = Nil <=> s.codes[id] = Nil
                              /\ s.codes[id] # Nil => ChecksumOf(t, id) = ChecksumOf(s, id)
    PROVE  StoreInv(t, p)
<1>1. Contracts(t) = Contracts(s)
  BY DEF Contracts
<1>2. IndexOK(t) /\ HistoryOK(t) /\ NotAfter(t, p) /\ AddressOK(t)
  BY <1>1 DEF StoreInv, IndexOK, HistoryOK, NotAfter, AddressOK
<1>3. SequenceOK(t)
  <2>1. s \in Store /\ SequenceOK(s)
    BY DEF StoreInv
  <2>2. \A a \in Contracts(s) : \A i \in 1..Len(s.history[a]) : s.history[a][i].codeID \in CodeID
    BY <2>1, EntryType DEF Contracts
  <2>3. \A id \in CodeID : t.codes[id] # Nil <=> s.codes[id] # Nil
    OBVIOUS
  <2>4. s.pinned \subseteq CodeID
    BY <2>1 DEF Store
  <2> QED
    BY <1>1, <2>1, <2>2, <2>3, <2>4 DEF SequenceOK
<1>4. PortOK(t)
  BY <1>1, ContractFacts DEF StoreInv, PortOK
<1> QED
  BY <1>2, <1>3, <1>4 DEF StoreInv

\* A later position is as good (BeginTx).
LEMMA LaterPosition ==
    ASSUME NEW s, NEW p \in Position, NEW q \in Position, p <= q, StoreInv(s, p)
    PROVE  StoreInv(s, q)
<1>1. ASSUME NEW a \in Address, NEW i \in 1..Len(s.history[a])
      PROVE  s.history[a][i].updated <= q
  <2>1. s.history[a][i].updated \in Position /\ s.history[a][i].updated <= p
    BY EntryType DEF StoreInv, NotAfter
  <2> QED
    BY <2>1, StoreAssumption DEF Position
<1> QED
  BY <1>1 DEF StoreInv, NotAfter

\* create keeps the store consistent: the new code gets the next id.
LEMMA CreateInv ==
    ASSUME NEW s, NEW p, StoreInv(s, p), NEW creator \in Address,
           NEW checksum \in Checksum, NEW access \in AccessConfig \cup {Nil},
           s.nextCode \in CodeID
    PROVE  /\ StoreInv(Create(s, creator, checksum, access), p)
           /\ HasCode(Create(s, creator, checksum, access), s.nextCode)
<1> DEFINE t == Create(s, creator, checksum, access)
           info == [checksum |-> checksum, creator |-> creator,
                    config |-> CreateAccess(s, creator, access)]
<1>1. s \in Store
  BY DEF StoreInv
<1>2. info \in CodeInfo /\ info # Nil
  <2>1. s.params.instantiate \in AccessType
    BY <1>1 DEF Store, Params
  <2>2. CreateAccess(s, creator, access) \in AccessConfig
    BY <2>1 DEF CreateAccess, With, AccessConfig
  <2>3. info \in CodeInfo
    BY <2>2 DEF CodeInfo
  <2> QED
    BY <2>3, NilAssumption
<1>3. t = [s EXCEPT !.nextCode = s.nextCode + 1, !.codes = [s.codes EXCEPT ![s.nextCode] = info]]
  BY <1>1 DEF Create, Store
<1> HIDE DEF info
<1>4. t \in Store
  <2>1. [s.codes EXCEPT ![s.nextCode] = info] \in [CodeID -> CodeInfo \cup {Nil}]
    BY <1>1, <1>2 DEF Store
  <2>2. s.nextCode + 1 \in 1..MaxCodes + 1
    BY StoreAssumption DEF CodeID
  <2> QED
    BY ZenonT(30), <1>1, <1>3, <2>1, <2>2 DEF Store
<1>5. /\ t.contracts = s.contracts /\ t.history = s.history
      /\ t.byCode = s.byCode /\ t.byCreator = s.byCreator /\ t.pinned = s.pinned
      /\ t.nextInstance = s.nextInstance /\ t.nextCode = s.nextCode + 1
      /\ t.codes = [s.codes EXCEPT ![s.nextCode] = info]
  BY <1>1, <1>3 DEF Store
<1> HIDE DEF t
<1>6. \A id \in CodeID : t.codes[id] = IF id = s.nextCode THEN info ELSE s.codes[id]
  BY <1>1, <1>5 DEF Store
<1>7. Contracts(t) = Contracts(s)
  BY <1>5 DEF Contracts
<1>8. IndexOK(t) /\ HistoryOK(t) /\ NotAfter(t, p) /\ AddressOK(t)
  BY <1>5, <1>7 DEF StoreInv, IndexOK, HistoryOK, NotAfter, AddressOK
<1>9. SequenceOK(t)
  <2>1. SequenceOK(s)
    BY DEF StoreInv
  <2>2. \A id \in CodeID : t.codes[id] # Nil <=> id < t.nextCode
    BY <1>1, <1>2, <1>5, <1>6, <2>1, StoreAssumption DEF SequenceOK, CodeID
  <2>3. \A id \in CodeID : s.codes[id] # Nil => t.codes[id] # Nil
    BY <1>2, <1>6
  <2>4. \A a \in Contracts(s) : \A i \in 1..Len(s.history[a]) : s.history[a][i].codeID \in CodeID
    BY <1>1, EntryType DEF Contracts
  <2>5. s.pinned \subseteq CodeID
    BY <1>1 DEF Store
  <2> QED
    BY <1>5, <1>7, <2>1, <2>2, <2>3, <2>4, <2>5 DEF SequenceOK
<1>10. PortOK(t)
  <2>1. SequenceOK(s) /\ PortOK(s)
    BY DEF StoreInv
  <2>2. s.codes[s.nextCode] = Nil
    BY <1>1, <2>1, StoreAssumption DEF SequenceOK, CodeID
  <2>3. \A a \in Contracts(s) : ChecksumOf(t, s.contracts[a].codeID) = ChecksumOf(s, s.contracts[a].codeID)
    BY <1>6, <2>2, ContractFacts DEF ChecksumOf
  <2> QED
    BY <1>5, <1>7, <2>1, <2>3 DEF PortOK
<1>11. HasCode(t, s.nextCode)
  BY <1>2, <1>6 DEF HasCode
<1> QED
  BY <1>4, <1>8, <1>9, <1>10, <1>11 DEF StoreInv, t

\* setAccessConfig changes the permission of a code and nothing else.
LEMMA SetAccessConfigInv ==
    ASSUME NEW s, NEW p, StoreInv(s, p), NEW id, HasCode(s, id),
           NEW config \in AccessConfig
    PROVE  StoreInv(SetAccessConfig(s, id, config), p)
<1> DEFINE t == SetAccessConfig(s, id, config)
           info == [s.codes[id] EXCEPT !.config = config]
<1>1. s \in Store /\ id \in CodeID /\ s.codes[id] \in CodeInfo
  BY DEF StoreInv, HasCode, Store
<1>2. info \in CodeInfo /\ info.checksum = s.codes[id].checksum
  BY <1>1 DEF CodeInfo
<1>3. info # Nil
  BY <1>2, NilAssumption
<1>4. t = [s EXCEPT !.codes = [s.codes EXCEPT ![id] = info]]
  BY <1>1 DEF SetAccessConfig, Store
<1> HIDE DEF info, t
<1>5. [s.codes EXCEPT ![id] = info] \in [CodeID -> CodeInfo \cup {Nil}]
  BY <1>1, <1>2 DEF Store
<1>6. t \in Store
  BY ZenonT(30), <1>1, <1>4, <1>5 DEF Store
<1>7. /\ t.nextCode = s.nextCode /\ t.nextInstance = s.nextInstance
      /\ t.contracts = s.contracts /\ t.history = s.history
      /\ t.byCode = s.byCode /\ t.byCreator = s.byCreator /\ t.pinned = s.pinned
  BY <1>1, <1>4 DEF Store
<1>8. \A c \in CodeID : t.codes[c] = IF c = id THEN info ELSE s.codes[c]
  BY <1>1, <1>4 DEF Store
<1>9. \A c \in CodeID : /\ t.codes[c] = Nil <=> s.codes[c] = Nil
                        /\ s.codes[c] # Nil => ChecksumOf(t, c) = ChecksumOf(s, c)
  BY <1>2, <1>3, <1>8 DEF ChecksumOf, HasCode
<1>10. StoreInv(t, p)
  BY ONLY StoreInv(s, p), <1>6, <1>7, <1>9, SameRegistry
<1> QED
  BY <1>10 DEF t

\* SetParams
LEMMA SetParamsInv ==
    ASSUME NEW s, NEW p, StoreInv(s, p), NEW params \in Params
    PROVE  StoreInv(SetParams(s, params), p)
<1> DEFINE t == SetParams(s, params)
<1>1. s \in Store
  BY DEF StoreInv
<1>2. /\ t \in Store
      /\ t.nextCode = s.nextCode /\ t.nextInstance = s.nextInstance
      /\ t.contracts = s.contracts /\ t.history = s.history /\ t.codes = s.codes
      /\ t.byCode = s.byCode /\ t.byCreator = s.byCreator /\ t.pinned = s.pinned
  BY ZenonT(30), <1>1 DEF SetParams, Store
<1> HIDE DEF t
<1>3. StoreInv(t, p)
  BY <1>2, SameRegistry DEF ChecksumOf
<1> QED
  BY <1>3 DEF t

\* NewAccount
LEMMA NewAccountInv ==
    ASSUME NEW s, NEW p, StoreInv(s, p), NEW a \in Address, NEW kind \in AccountKind
    PROVE  StoreInv(NewAccount(s, a, kind), p)
<1> DEFINE t == NewAccount(s, a, kind)
<1>1. s \in Store
  BY DEF StoreInv
<1>2. /\ t \in Store
      /\ t.nextCode = s.nextCode /\ t.nextInstance = s.nextInstance
      /\ t.contracts = s.contracts /\ t.history = s.history /\ t.codes = s.codes
      /\ t.byCode = s.byCode /\ t.byCreator = s.byCreator /\ t.pinned = s.pinned
  BY ZenonT(30), <1>1 DEF NewAccount, Store
<1> HIDE DEF t
<1>3. StoreInv(t, p)
  BY <1>2, SameRegistry DEF ChecksumOf
<1> QED
  BY <1>3 DEF t

\* TransferCoins moves coins the sender has.
LEMMA TransferInv ==
    ASSUME NEW s, NEW p, StoreInv(s, p), NEW from \in Address, NEW to \in Address,
           NEW amount \in Nat, TransferOK(s, from, amount)
    PROVE  /\ StoreInv(Transfer(s, from, to, amount), p)
           /\ Transfer(s, from, to, amount).contracts = s.contracts
           /\ Transfer(s, from, to, amount).codes = s.codes
           /\ Transfer(s, from, to, amount).nextInstance = s.nextInstance
<1> DEFINE bank == [a \in Address |-> s.bank[a] + (IF a = to THEN amount ELSE 0)
                                              - (IF a = from THEN amount ELSE 0)]
           t == Transfer(s, from, to, amount)
<1>1. s \in Store
  BY DEF StoreInv
<1>2. bank \in [Address -> Nat]
  <2>1. \A a \in Address : s.bank[a] \in Nat
    BY <1>1 DEF Store
  <2>2. amount <= s.bank[from]
    BY DEF TransferOK
  <2> QED
    BY <2>1, <2>2
<1>3. t = [s EXCEPT !.bank = bank]
  BY DEF Transfer
<1> HIDE DEF bank, t
<1>4. /\ t \in Store
      /\ t.nextCode = s.nextCode /\ t.nextInstance = s.nextInstance
      /\ t.contracts = s.contracts /\ t.history = s.history /\ t.codes = s.codes
      /\ t.byCode = s.byCode /\ t.byCreator = s.byCreator /\ t.pinned = s.pinned
  BY ZenonT(30), <1>1, <1>2, <1>3 DEF Store
<1>5. StoreInv(t, p)
  BY <1>4, SameRegistry DEF ChecksumOf
<1> QED
  BY <1>4, <1>5 DEF t

\* The account step of instantiate.
LEMMA ClaimAccountInv ==
    ASSUME NEW s, NEW p, StoreInv(s, p), NEW a \in Address
    PROVE  /\ StoreInv(ClaimAccount(s, a), p)
           /\ ClaimAccount(s, a).contracts = s.contracts
           /\ ClaimAccount(s, a).codes = s.codes
           /\ ClaimAccount(s, a).nextInstance = s.nextInstance
<1> DEFINE t == ClaimAccount(s, a)
           balance == IF s.accounts[a] = "vesting" THEN 0 ELSE s.bank[a]
<1>1. s \in Store
  BY DEF StoreInv
<1>2. t = [s EXCEPT !.accounts = [s.accounts EXCEPT ![a] = "base"],
                    !.bank = [s.bank EXCEPT ![a] = balance]]
  BY <1>1 DEF ClaimAccount, Store
<1>3. balance \in Nat
  BY <1>1 DEF Store
<1> HIDE DEF t, balance
<1>4. /\ [s.accounts EXCEPT ![a] = "base"] \in [Address -> AccountKind]
      /\ [s.bank EXCEPT ![a] = balance] \in [Address -> Nat]
  BY <1>1, <1>3 DEF Store, AccountKind
<1>5. /\ t \in Store
      /\ t.nextCode = s.nextCode /\ t.nextInstance = s.nextInstance
      /\ t.contracts = s.contracts /\ t.history = s.history /\ t.codes = s.codes
      /\ t.byCode = s.byCode /\ t.byCreator = s.byCreator /\ t.pinned = s.pinned
  BY ZenonT(30), <1>1, <1>2, <1>4 DEF Store
<1>6. StoreInv(t, p)
  BY <1>5, SameRegistry DEF ChecksumOf
<1> QED
  BY <1>5, <1>6 DEF t

\* pinCode and unpinCode change the index of pinned codes, which only lists codes
\* that exist.
LEMMA PinnedInv ==
    ASSUME NEW s, NEW p, StoreInv(s, p), NEW ids \in SUBSET CodeID,
           \A id \in ids : s.codes[id] # Nil
    PROVE  StoreInv([s EXCEPT !.pinned = ids], p)
<1> DEFINE t == [s EXCEPT !.pinned = ids]
<1>1. s \in Store
  BY DEF StoreInv
<1>2. /\ t \in Store /\ t.pinned = ids
      /\ t.nextCode = s.nextCode /\ t.nextInstance = s.nextInstance
      /\ t.contracts = s.contracts /\ t.history = s.history /\ t.codes = s.codes
      /\ t.byCode = s.byCode /\ t.byCreator = s.byCreator
  BY ZenonT(30), <1>1 DEF Store
<1> HIDE DEF t
<1>3. Contracts(t) = Contracts(s)
  BY <1>2 DEF Contracts
<1>4. IndexOK(t) /\ HistoryOK(t) /\ PortOK(t) /\ NotAfter(t, p) /\ AddressOK(t)
  BY <1>2, <1>3 DEF StoreInv, IndexOK, HistoryOK, PortOK, NotAfter, ChecksumOf, AddressOK
<1>5. SequenceOK(t)
  BY <1>2, <1>3 DEF StoreInv, SequenceOK
<1>6. StoreInv(t, p)
  BY <1>2, <1>4, <1>5 DEF StoreInv
<1> QED
  BY <1>6 DEF t

\* pinCode
LEMMA PinInv ==
    ASSUME NEW s, NEW p, StoreInv(s, p), NEW ids, \A id \in ids : HasCode(s, id)
    PROVE  StoreInv(Pin(s, ids), p)
<1>1. s \in Store /\ SequenceOK(s)
  BY DEF StoreInv
<1>2. s.pinned \cup ids \in SUBSET CodeID /\ \A id \in s.pinned \cup ids : s.codes[id] # Nil
  BY <1>1 DEF Store, SequenceOK, HasCode
<1> QED
  BY <1>2, PinnedInv DEF Pin

\* unpinCode
LEMMA UnpinInv ==
    ASSUME NEW s, NEW p, StoreInv(s, p), NEW ids
    PROVE  StoreInv(Unpin(s, ids), p)
<1>1. s \in Store /\ SequenceOK(s)
  BY DEF StoreInv
<1>2. s.pinned \ ids \in SUBSET CodeID /\ \A id \in s.pinned \ ids : s.codes[id] # Nil
  BY <1>1 DEF Store, SequenceOK
<1> QED
  BY ZenonT(30), <1>2, PinnedInv DEF Unpin

\* mustAutoIncrementID on the instance sequence
LEMMA TakeInstanceIDInv ==
    ASSUME NEW s, NEW p, StoreInv(s, p), s.nextInstance \in InstanceID
    PROVE  /\ StoreInv(TakeInstanceID(s), p)
           /\ TakeInstanceID(s).nextInstance = s.nextInstance + 1
           /\ TakeInstanceID(s).contracts = s.contracts
<1> DEFINE t == TakeInstanceID(s)
<1>1. s \in Store
  BY DEF StoreInv
<1>2. s.nextInstance + 1 \in 1..MaxInstances + 1
  BY StoreAssumption DEF InstanceID
<1>3. /\ t \in Store /\ t.nextInstance = s.nextInstance + 1
      /\ t.nextCode = s.nextCode /\ t.pinned = s.pinned
      /\ t.contracts = s.contracts /\ t.history = s.history /\ t.codes = s.codes
      /\ t.byCode = s.byCode /\ t.byCreator = s.byCreator
  BY ZenonT(30), <1>1, <1>2 DEF Store, TakeInstanceID
<1> HIDE DEF t
<1>4. Contracts(t) = Contracts(s)
  BY <1>3 DEF Contracts
<1>5. IndexOK(t) /\ HistoryOK(t) /\ PortOK(t) /\ NotAfter(t, p) /\ AddressOK(t)
  BY <1>3, <1>4 DEF StoreInv, IndexOK, HistoryOK, PortOK, NotAfter, ChecksumOf, AddressOK
<1>6. \A i \in InstanceID : i >= s.nextInstance + 1 => i >= s.nextInstance
  BY SMTT(30), StoreAssumption DEF InstanceID
<1>7. SequenceOK(t)
  BY <1>3, <1>4, <1>6 DEF StoreInv, SequenceOK
<1>8. StoreInv(t, p)
  BY <1>3, <1>5, <1>7 DEF StoreInv
<1> QED
  BY <1>3, <1>8 DEF t

\* A change of a ContractInfo that keeps its code, creator, creation and port
\* (setContractAdmin, setContractLabel).
LEMMA ContractInfoInv ==
    ASSUME NEW s, NEW p, StoreInv(s, p), NEW a \in Contracts(s), NEW info \in ContractInfo,
           info.codeID = s.contracts[a].codeID, info.creator = s.contracts[a].creator,
           info.created = s.contracts[a].created, info.port = s.contracts[a].port
    PROVE  StoreInv([s EXCEPT !.contracts[a] = info], p)
<1> DEFINE t == [s EXCEPT !.contracts[a] = info]
<1>1. s \in Store /\ a \in Address /\ info # Nil /\ s.contracts[a] # Nil
  BY NilAssumption DEF StoreInv, Contracts
<1>2. /\ t \in Store /\ t.contracts = [s.contracts EXCEPT ![a] = info]
      /\ t.nextCode = s.nextCode /\ t.nextInstance = s.nextInstance
      /\ t.history = s.history /\ t.codes = s.codes /\ t.pinned = s.pinned
      /\ t.byCode = s.byCode /\ t.byCreator = s.byCreator
  BY ZenonT(30), <1>1 DEF Store
<1> HIDE DEF t
<1>3. \A b \in Address :
         /\ t.contracts[b] = Nil <=> s.contracts[b] = Nil
         /\ t.contracts[b].codeID = s.contracts[b].codeID
         /\ t.contracts[b].creator = s.contracts[b].creator
         /\ t.contracts[b].created = s.contracts[b].created
         /\ t.contracts[b].port = s.contracts[b].port
  BY <1>1, <1>2 DEF Store
<1>4. Contracts(t) = Contracts(s) /\ Contracts(s) \subseteq Address
  BY <1>3 DEF Contracts
<1>5. IndexOK(t)
  BY <1>2, <1>3, <1>4 DEF StoreInv, IndexOK
<1>6. HistoryOK(t)
  BY SMTT(30), <1>2, <1>3 DEF StoreInv, HistoryOK, HistoryOf
<1>7. PortOK(t)
  BY SMTT(30), <1>2, <1>3, <1>4 DEF StoreInv, PortOK, ChecksumOf
<1>8. SequenceOK(t) /\ NotAfter(t, p) /\ AddressOK(t)
  BY <1>2, <1>4 DEF StoreInv, SequenceOK, NotAfter, AddressOK
<1>9. StoreInv(t, p)
  BY <1>2, <1>5, <1>6, <1>7, <1>8 DEF StoreInv
<1> QED
  BY <1>9 DEF t

\* setContractAdmin
LEMMA SetContractAdminInv ==
    ASSUME NEW s, NEW p, StoreInv(s, p), NEW a, HasContract(s, a),
           NEW admin \in Address \cup {Nil}
    PROVE  StoreInv(SetContractAdmin(s, a, admin), p)
<1> DEFINE info == [s.contracts[a] EXCEPT !.admin = admin]
<1>1. a \in Contracts(s) /\ s.contracts[a] \in ContractInfo
  BY DEF HasContract, Contracts, StoreInv, Store
<1>2. /\ info \in ContractInfo
      /\ info.codeID = s.contracts[a].codeID /\ info.creator = s.contracts[a].creator
      /\ info.created = s.contracts[a].created /\ info.port = s.contracts[a].port
  BY <1>1 DEF ContractInfo
<1>3. SetContractAdmin(s, a, admin) = [s EXCEPT !.contracts[a] = info]
  BY DEF SetContractAdmin
<1> HIDE DEF info
<1> QED
  BY <1>1, <1>2, <1>3, ContractInfoInv

\* setContractLabel
LEMMA SetContractLabelInv ==
    ASSUME NEW s, NEW p, StoreInv(s, p), NEW a, HasContract(s, a), NEW label \in Label
    PROVE  StoreInv(SetContractLabel(s, a, label), p)
<1> DEFINE info == [s.contracts[a] EXCEPT !.label = label]
<1>1. a \in Contracts(s) /\ s.contracts[a] \in ContractInfo
  BY DEF HasContract, Contracts, StoreInv, Store
<1>2. /\ info \in ContractInfo
      /\ info.codeID = s.contracts[a].codeID /\ info.creator = s.contracts[a].creator
      /\ info.created = s.contracts[a].created /\ info.port = s.contracts[a].port
  BY <1>1 DEF ContractInfo
<1>3. SetContractLabel(s, a, label) = [s EXCEPT !.contracts[a] = info]
  BY DEF SetContractLabel
<1> HIDE DEF info
<1> QED
  BY <1>1, <1>2, <1>3, ContractInfoInv

\* appendToContractHistory: the history of a grows by one entry at the end.
LEMMA AppendHistoryFacts ==
    ASSUME NEW s \in Store, NEW a \in Address, NEW entry \in HistoryEntry
    PROVE  LET h == Append(s.history[a], entry)
           IN  /\ h \in Seq(HistoryEntry) /\ h # <<>>
               /\ Len(h) = Len(s.history[a]) + 1 /\ Len(s.history[a]) \in Nat
               /\ Last(h) = entry /\ h[Len(s.history[a]) + 1] = entry
               /\ \A i \in 1..Len(s.history[a]) : h[i] = s.history[a][i]
<1>1. s.history[a] \in Seq(HistoryEntry)
  BY DEF Store
<1>2. Len(s.history[a]) \in Nat
  BY <1>1, LenProperties
<1> QED
  BY <1>1, <1>2, AppendProperties, EmptySeq DEF Last

\* The writes of instantiate, at a fresh address that the instance sequence will
\* not generate again.
LEMMA PersistContractInv ==
    ASSUME NEW s, NEW p \in Position, StoreInv(s, p), NEW id, HasCode(s, id),
           NEW creator \in Address, NEW admin \in Address \cup {Nil},
           NEW a \in Address, a \in ContractAddress, ~ HasContract(s, a), NEW label \in Label,
           \A c \in CodeID, i \in InstanceID :
                i >= s.nextInstance => ClassicAddress[<<c, i>>] # a
    PROVE  /\ StoreInv(PersistContract(s, id, creator, admin, a, label, p), p)
           /\ HasContract(PersistContract(s, id, creator, admin, a, label, p), a)
<1> DEFINE entry == [operation |-> "Init", codeID |-> id, updated |-> p]
           info == [codeID |-> id, creator |-> creator, admin |-> admin, label |-> label,
                    created |-> p, port |-> HasIBC[ChecksumOf(s, id)]]
           h == Append(s.history[a], entry)
           t == PersistContract(s, id, creator, admin, a, label, p)
<1>1. s \in Store /\ id \in CodeID /\ s.codes[id] # Nil /\ s.codes[id] \in CodeInfo
  BY SMTT(30) DEF StoreInv, HasCode, Store
<1>2. HasIBC[ChecksumOf(s, id)] \in BOOLEAN
  BY <1>1, StoreAssumption DEF ChecksumOf, CodeInfo
<1>3. entry \in HistoryEntry /\ info \in ContractInfo /\ info # Nil
  BY <1>1, <1>2, NilAssumption DEF HistoryEntry, ContractInfo
<1>4. s.contracts[a] = Nil /\ s.history[a] = <<>> /\ a \notin Contracts(s)
  BY DEF HasContract, StoreInv, HistoryOK, HistoryOf, Contracts
<1>5. h \in Seq(HistoryEntry) /\ Len(h) = 1 /\ h[1] = entry /\ Last(h) = entry /\ h # <<>>
  <2>1. Len(s.history[a]) = 0
    BY <1>4
  <2> QED
    BY <1>1, <1>3, <2>1, AppendHistoryFacts
<1>6. /\ CodeIndexKey(a, entry) = <<id, p, a>>
      /\ CreatorIndexKey(creator, p, a) = <<creator, p, a>>
  BY DEF CodeIndexKey, CreatorIndexKey
<1>7. t = [s EXCEPT !.history = [s.history EXCEPT ![a] = h],
                    !.byCode = s.byCode \cup {CodeIndexKey(a, entry)},
                    !.byCreator = s.byCreator \cup {CreatorIndexKey(creator, p, a)},
                    !.contracts = [s.contracts EXCEPT ![a] = info]]
  BY <1>1 DEF PersistContract, AppendHistory, Store
<1>8. /\ entry.codeID = id /\ entry.updated = p /\ entry.operation = "Init"
      /\ info.codeID = id /\ info.created = p /\ info.creator = creator
      /\ info.port = HasIBC[ChecksumOf(s, id)]
  OBVIOUS
<1> HIDE DEF entry, info, h, t
<1>9. /\ [s.history EXCEPT ![a] = h] \in [Address -> Seq(HistoryEntry)]
      /\ s.byCode \cup {CodeIndexKey(a, entry)} \in SUBSET (CodeID \X Position \X Address)
      /\ s.byCreator \cup {CreatorIndexKey(creator, p, a)} \in SUBSET (Address \X Position \X Address)
      /\ [s.contracts EXCEPT ![a] = info] \in [Address -> ContractInfo \cup {Nil}]
  BY <1>1, <1>3, <1>5, <1>6 DEF Store
<1>10. t \in Store
  BY ZenonT(30), <1>1, <1>7, <1>9 DEF Store
<1>11. /\ t.nextCode = s.nextCode /\ t.nextInstance = s.nextInstance
       /\ t.codes = s.codes /\ t.pinned = s.pinned
       /\ t.byCode = s.byCode \cup {CodeIndexKey(a, entry)}
       /\ t.byCreator = s.byCreator \cup {CreatorIndexKey(creator, p, a)}
  BY <1>1, <1>7 DEF Store
<1>12. /\ t.contracts[a] = info /\ t.history[a] = h
       /\ \A b \in Address : b # a => t.contracts[b] = s.contracts[b] /\ t.history[b] = s.history[b]
  BY <1>1, <1>7 DEF Store
<1>13. Contracts(t) = Contracts(s) \cup {a}
  BY <1>3, <1>12 DEF Contracts
<1>14. Contracts(s) \subseteq Address
  BY DEF Contracts
<1>15. IndexOK(t)
  <2>1. IndexOK(s)
    BY DEF StoreInv
  <2>2. t.byCode = {CodeIndexKey(b, Last(t.history[b])) : b \in Contracts(t)}
    BY <1>4, <1>5, <1>11, <1>12, <1>13, <1>14, <2>1 DEF IndexOK
  <2>3. t.byCreator = {CreatorIndexKey(t.contracts[b].creator, t.contracts[b].created, b)
                            : b \in Contracts(t)}
    BY <1>4, <1>8, <1>11, <1>12, <1>13, <1>14, <2>1 DEF IndexOK
  <2> QED
    BY <2>2, <2>3 DEF IndexOK
<1>16. HistoryOK(t)
  <2>1. HistoryOf(info, h)
    BY <1>3, <1>5, <1>8 DEF HistoryOf
  <2>2. \A b \in Address : HistoryOf(s.contracts[b], s.history[b])
    BY SMTT(30) DEF StoreInv, HistoryOK
  <2> QED
    BY <1>12, <2>1, <2>2 DEF HistoryOK
<1>17. SequenceOK(t)
  <2>1. SequenceOK(s)
    BY DEF StoreInv
  <2>2. \A i \in 1..Len(h) : t.codes[h[i].codeID] # Nil
    BY SMTT(30), <1>1, <1>5, <1>8, <1>11
  <2>3. \A b \in Contracts(t) : \A i \in 1..Len(t.history[b]) : t.codes[t.history[b][i].codeID] # Nil
    BY <1>11, <1>12, <1>13, <1>14, <2>1, <2>2 DEF SequenceOK
  <2> QED
    BY <1>11, <1>13, <2>1, <2>3 DEF SequenceOK
<1>18. PortOK(t)
  BY ZenonT(30), <1>4, <1>8, <1>11, <1>12, <1>13, <1>14 DEF StoreInv, PortOK, ChecksumOf
<1>19. NotAfter(t, p)
  <2>1. \A i \in 1..Len(h) : h[i].updated <= p
    BY <1>5, <1>8, StoreAssumption DEF Position
  <2> QED
    BY <1>12, <2>1 DEF StoreInv, NotAfter
<1>20. AddressOK(t)
  BY <1>13 DEF StoreInv, AddressOK
<1>21. StoreInv(t, p) /\ HasContract(t, a)
  BY SMTT(30), <1>3, <1>10, <1>12, <1>15, <1>16, <1>17, <1>18, <1>19, <1>20
  DEF StoreInv, HasContract
<1> QED
  BY <1>21 DEF t

\* instantiate
LEMMA InstantiateInv ==
    ASSUME NEW s, NEW p \in Position, StoreInv(s, p), NEW id, NEW creator \in Address,
           NEW admin \in Address \cup {Nil}, NEW a \in Address, a \in ContractAddress, NEW label \in Label,
           NEW amount \in Nat, NEW policy, InstantiateOK(s, id, creator, a, amount, policy),
           \A c \in CodeID, i \in InstanceID :
                i >= s.nextInstance => ClassicAddress[<<c, i>>] # a
    PROVE  /\ StoreInv(Instantiate(s, id, creator, admin, a, label, amount, p), p)
           /\ HasContract(Instantiate(s, id, creator, admin, a, label, amount, p), a)
<1> DEFINE u == ClaimAccount(s, a)
           v == Transfer(u, creator, a, amount)
<1>1. s \in Store /\ HasCode(s, id) /\ ~ HasContract(s, a) /\ TransferOK(u, creator, amount)
  BY DEF InstantiateOK, StoreInv
<1>2. /\ StoreInv(u, p) /\ u.contracts = s.contracts /\ u.codes = s.codes
      /\ u.nextInstance = s.nextInstance
  BY ClaimAccountInv
<1> HIDE DEF u
<1>3. /\ StoreInv(v, p) /\ v.contracts = s.contracts /\ v.codes = s.codes
      /\ v.nextInstance = s.nextInstance
  BY <1>1, <1>2, TransferInv
<1> HIDE DEF v
<1>4. HasCode(v, id) /\ ~ HasContract(v, a)
  BY <1>1, <1>3 DEF HasCode, HasContract
<1> QED
  BY SMTT(30), <1>3, <1>4, PersistContractInv DEF Instantiate, u, v

\* A migration at position p extends a well-formed history.
LEMMA MigratedHistory ==
    ASSUME NEW s, NEW p \in Position, StoreInv(s, p), NEW a \in Contracts(s),
           NEW id \in CodeID, NEW info \in ContractInfo, info.codeID = id,
           info.created = s.contracts[a].created
    PROVE  HistoryOf(info, Append(s.history[a],
                                  [operation |-> "Migrate", codeID |-> id, updated |-> p]))
<1> DEFINE entry == [operation |-> "Migrate", codeID |-> id, updated |-> p]
           g == s.history[a]
           h == Append(g, entry)
<1>1. s \in Store /\ a \in Address /\ Len(g) \in Nat \ {0} /\ s.contracts[a] # Nil
  BY ContractFacts DEF StoreInv, Contracts
<1>2. entry \in HistoryEntry
  BY DEF HistoryEntry
<1>3. entry.codeID = id /\ entry.updated = p /\ entry.operation # "Init"
  OBVIOUS
<1> HIDE DEF entry
<1>4. /\ h # <<>> /\ Len(h) = Len(g) + 1 /\ Last(h) = entry /\ h[Len(g) + 1] = entry
      /\ \A i \in 1..Len(g) : h[i] = g[i]
  BY <1>1, <1>2, AppendHistoryFacts
<1>5. HistoryOf(s.contracts[a], g) /\ \A i \in 1..Len(g) : g[i].updated <= p
  BY <1>1 DEF StoreInv, HistoryOK, NotAfter
<1> HIDE DEF g, h
<1>6. info # Nil
  BY NilAssumption
<1>7. \A i \in 1..Len(h) : h[i].operation = "Init" <=> i = 1
  <2>1. \A i \in 1..Len(g) : g[i].operation = "Init" <=> i = 1
    BY <1>1, <1>5 DEF HistoryOf
  <2> QED
    BY <1>1, <1>3, <1>4, <2>1
<1>8. h[1].updated = info.created
  BY <1>1, <1>4, <1>5 DEF HistoryOf
<1>9. \A i \in 1..Len(h) - 1 : h[i].updated <= h[i + 1].updated
  <2>1. \A i \in 1..Len(g) - 1 : g[i].updated <= g[i + 1].updated
    BY <1>1, <1>5 DEF HistoryOf
  <2> QED
    BY <1>1, <1>3, <1>4, <1>5, <2>1
<1>10. HistoryOf(info, h)
  BY <1>3, <1>4, <1>6, <1>7, <1>8, <1>9 DEF HistoryOf
<1> QED
  BY <1>10 DEF entry, g, h

\* migrate moves the contract from one entry of the code index to another; the two
\* are the same one when the position has not moved on.
LEMMA MigrateInv ==
    ASSUME NEW s, NEW p \in Position, StoreInv(s, p), NEW a, NEW caller, NEW id, NEW policy,
           MigrateOK(s, a, caller, id, policy)
    PROVE  /\ StoreInv(Migrate(s, a, id, p), p)
           /\ HasContract(Migrate(s, a, id, p), a)
<1> DEFINE entry == [operation |-> "Migrate", codeID |-> id, updated |-> p]
           info == [s.contracts[a] EXCEPT !.codeID = id,
                                          !.port = @ \/ HasIBC[ChecksumOf(s, id)]]
           h == Append(s.history[a], entry)
           t == Migrate(s, a, id, p)
           old == CodeIndexKey(a, Last(s.history[a]))
<1>1. /\ s \in Store /\ id \in CodeID /\ s.codes[id] # Nil /\ s.codes[id] \in CodeInfo
      /\ a \in Contracts(s) /\ a \in Address /\ s.contracts[a] \in ContractInfo
  BY ZenonT(30), ContractFacts DEF StoreInv, MigrateOK, HasCode, HasContract, Contracts, Store
<1>2. HasIBC[ChecksumOf(s, id)] \in BOOLEAN /\ s.contracts[a].port \in BOOLEAN
  BY <1>1, StoreAssumption DEF ChecksumOf, CodeInfo, ContractInfo
<1>3. entry \in HistoryEntry
  BY <1>1 DEF HistoryEntry
<1>4. /\ info \in ContractInfo /\ info.codeID = id
      /\ info.created = s.contracts[a].created /\ info.creator = s.contracts[a].creator
      /\ info.port = (s.contracts[a].port \/ HasIBC[ChecksumOf(s, id)])
  BY ZenonT(30), <1>1, <1>2 DEF ContractInfo
<1>5. info # Nil
  BY <1>4, NilAssumption
<1>6. /\ h \in Seq(HistoryEntry) /\ Last(h) = entry /\ Len(s.history[a]) \in Nat
      /\ Len(h) = Len(s.history[a]) + 1 /\ h[Len(h)] = entry
      /\ \A i \in 1..Len(s.history[a]) : h[i] = s.history[a][i]
  BY <1>1, <1>3, AppendHistoryFacts
<1>7. \A i \in 1..Len(h) :
            h[i] = entry \/ (i \in 1..Len(s.history[a]) /\ h[i] = s.history[a][i])
  BY <1>6
<1>8. HistoryOf(info, h)
  BY ZenonT(30), <1>1, <1>4, MigratedHistory
<1>9. CodeIndexKey(a, entry) = <<id, p, a>> /\ entry.codeID = id /\ entry.updated = p
  BY DEF CodeIndexKey
<1>10. t = [s EXCEPT !.history = [s.history EXCEPT ![a] = h],
                    !.byCode = (s.byCode \ {old}) \cup {CodeIndexKey(a, entry)},
                    !.contracts = [s.contracts EXCEPT ![a] = info]]
  <2> DEFINE ibc == HasIBC[ChecksumOf(s, id)]
             g == s.contracts
  <2>1. [g EXCEPT ![a].codeID = id, ![a].port = @ \/ ibc] = [g EXCEPT ![a] = info]
    <3>1. a \in DOMAIN g
      BY <1>1 DEF Store
    <3> QED
      BY ZenonT(30), <3>1
  <2>2. t = [s EXCEPT !.history = [s.history EXCEPT ![a] = h],
                      !.byCode = (s.byCode \ {old}) \cup {CodeIndexKey(a, entry)},
                      !.contracts = [g EXCEPT ![a].codeID = id, ![a].port = @ \/ ibc]]
    BY ZenonT(30), <1>1 DEF Migrate, AppendHistory, Store
  <2> QED
    BY ZenonT(30), <2>1, <2>2
<1> HIDE DEF entry, info, h, t, old
<1>11. /\ [s.history EXCEPT ![a] = h] \in [Address -> Seq(HistoryEntry)]
       /\ (s.byCode \ {old}) \cup {CodeIndexKey(a, entry)} \in SUBSET (CodeID \X Position \X Address)
       /\ [s.contracts EXCEPT ![a] = info] \in [Address -> ContractInfo \cup {Nil}]
  BY <1>1, <1>4, <1>6, <1>9 DEF Store
<1>12. t \in Store
  BY ZenonT(30), <1>1, <1>10, <1>11 DEF Store
<1>13. /\ t.nextCode = s.nextCode /\ t.nextInstance = s.nextInstance
       /\ t.codes = s.codes /\ t.pinned = s.pinned /\ t.byCreator = s.byCreator
       /\ t.byCode = (s.byCode \ {old}) \cup {CodeIndexKey(a, entry)}
  BY <1>1, <1>10 DEF Store
<1>14. /\ t.contracts[a] = info /\ t.history[a] = h
       /\ \A b \in Address : b # a => t.contracts[b] = s.contracts[b] /\ t.history[b] = s.history[b]
  BY <1>1, <1>10 DEF Store
<1>15. Contracts(t) = Contracts(s) /\ Contracts(s) \subseteq Address
  BY <1>1, <1>5, <1>14 DEF Contracts
<1>16. IndexOK(t)
  <2>1. IndexOK(s)
    BY DEF StoreInv
  <2>2. \A b \in Contracts(s) : b # a => CodeIndexKey(b, Last(s.history[b])) # old
    BY DEF CodeIndexKey, old
  <2>3. t.byCode = {CodeIndexKey(b, Last(t.history[b])) : b \in Contracts(t)}
    <3>1. s.byCode = {CodeIndexKey(b, Last(s.history[b])) : b \in Contracts(s)}
      BY <2>1 DEF IndexOK
    <3>2. s.byCode \ {old} = {CodeIndexKey(b, Last(s.history[b])) : b \in Contracts(s) \ {a}}
      BY <2>2, <3>1 DEF old
    <3>3. s.byCode \ {old} = {CodeIndexKey(b, Last(t.history[b])) : b \in Contracts(s) \ {a}}
      BY SMTT(30), <1>14, <1>15, <3>2
    <3> QED
      BY <1>1, <1>6, <1>13, <1>14, <1>15, <3>3
  <2>4. t.byCreator = {CreatorIndexKey(t.contracts[b].creator, t.contracts[b].created, b)
                            : b \in Contracts(t)}
    BY <1>4, <1>13, <1>14, <1>15, <2>1 DEF IndexOK
  <2> QED
    BY <2>3, <2>4 DEF IndexOK
<1>17. HistoryOK(t)
  BY SMTT(30), <1>8, <1>14 DEF StoreInv, HistoryOK
<1>18. SequenceOK(t)
  <2>1. SequenceOK(s)
    BY DEF StoreInv
  <2>2. \A i \in 1..Len(h) : t.codes[h[i].codeID] # Nil
    <3>1. \A i \in 1..Len(s.history[a]) : s.codes[s.history[a][i].codeID] # Nil
      BY SMTT(30), <1>1, <2>1 DEF SequenceOK
    <3> QED
      BY <1>1, <1>7, <1>9, <1>13, <3>1
  <2>3. \A b \in Contracts(t) : \A i \in 1..Len(t.history[b]) : t.codes[t.history[b][i].codeID] # Nil
    BY <1>13, <1>14, <1>15, <2>1, <2>2 DEF SequenceOK
  <2> QED
    BY <1>13, <1>15, <2>1, <2>3 DEF SequenceOK
<1>19. PortOK(t)
  <2>1. info.port <=> HasIBC[ChecksumOf(s, id)]
    BY SMTT(30), <1>2, <1>4 DEF MigrateOK
  <2> QED
    BY ZenonT(30), <1>4, <1>13, <1>14, <1>15, <2>1 DEF StoreInv, PortOK, ChecksumOf
<1>20. NotAfter(t, p)
  <2>1. \A i \in 1..Len(h) : h[i].updated <= p
    <3>1. \A i \in 1..Len(s.history[a]) : s.history[a][i].updated <= p
      BY <1>1 DEF StoreInv, NotAfter
    <3> QED
      BY <1>7, <1>9, <3>1, StoreAssumption DEF Position
  <2> QED
    BY <1>14, <2>1 DEF StoreInv, NotAfter
<1>21. AddressOK(t)
  BY SMTT(30), <1>15 DEF StoreInv, AddressOK
<1>22. StoreInv(t, p) /\ HasContract(t, a)
  BY <1>1, <1>5, <1>12, <1>14, <1>16, <1>17, <1>18, <1>19, <1>20, <1>21
  DEF StoreInv, HasContract
<1> QED
  BY <1>22 DEF t

\* ClassicAddressGenerator: an address made from the instance id just taken is not
\* made again, and is a contract address.
LEMMA ClassicAddressFresh ==
    ASSUME NEW s, NEW p, StoreInv(s, p), NEW id \in CodeID, s.nextInstance \in InstanceID
    PROVE  /\ NextClassicAddress(s, id) \in Address
           /\ NextClassicAddress(s, id) \in ContractAddress
           /\ \A c \in CodeID, i \in InstanceID :
                i >= TakeInstanceID(s).nextInstance =>
                    ClassicAddress[<<c, i>>] # NextClassicAddress(s, id)
<1>1. TakeInstanceID(s).nextInstance = s.nextInstance + 1
  BY TakeInstanceIDInv
<1>2. \A i \in InstanceID : i >= s.nextInstance + 1 => i # s.nextInstance
  BY StoreAssumption DEF InstanceID
<1>3. \A c \in CodeID, i \in InstanceID :
            ClassicAddress[<<c, i>>] = ClassicAddress[<<id, s.nextInstance>>] => i = s.nextInstance
  BY StoreAssumption
<1>4. NextClassicAddress(s, id) \in Address /\ NextClassicAddress(s, id) \in ContractAddress
  BY StoreAssumption DEF NextClassicAddress, ContractAddress, ClassicRange
<1> QED
  BY <1>1, <1>2, <1>3, <1>4 DEF NextClassicAddress

\* PredictableAddressGenerator: its addresses are never made by the classic one.
LEMMA PredictableAddressFresh ==
    ASSUME NEW key \in DOMAIN PredictableAddress
    PROVE  /\ PredictableAddress[key] \in Address
           /\ PredictableAddress[key] \in ContractAddress
           /\ \A c \in CodeID, i \in InstanceID :
                ClassicAddress[<<c, i>>] # PredictableAddress[key]
<1>1. PredictableAddress[key] \in PredictableRange
  BY DEF PredictableRange
<1>2. \A c \in CodeID, i \in InstanceID : ClassicAddress[<<c, i>>] \in ClassicRange
  BY DEF ClassicRange
<1> QED
  BY <1>1, <1>2, StoreAssumption DEF ContractAddress
=============================================================================

------------------------------ MODULE Genesis ------------------------------
(***************************************************************************)
(* Export and import of the x/wasm state (x/wasm/keeper/genesis.go), and   *)
(* the chain of WasmTx between an import and the next export.  A node      *)
(* starts on a genesis document: one from an operator, or the export of a  *)
(* chain that is relaunched on a fresh node, at height zero or later.      *)
(* The accounts and coins are in the documents of other modules and are    *)
(* there before InitGenesis runs.                                          *)
(***************************************************************************)
EXTENDS WasmTx

CONSTANTS
    Docs,         \* genesis documents written by operators
    StateKey,     \* keys of a contract's own store
    MaxRelaunch   \* bound on exports

Seqs == INSTANCE SequencesExt

VARIABLES
    doc,      \* the document to start from, Nil while the chain runs
    origin,   \* where doc is from: "operator" or "export"
    started,  \* InitGenesis has succeeded
    kv,       \* the contracts' own stores: the keys that are set
    exports,  \* number of exports
    before    \* what the exported chain held, Nil while a chain runs

gvars == <<doc, origin, started, kv, exports, before>>

allvars == <<vars, gvars>>

IndicesOf(seq) == 1..Len(seq)

\* The keys that the entries of a list are stored under are different.
NoDuplicate(keys) == \A i, j \in DOMAIN keys : keys[i] = keys[j] => i = j

EmptyState == [a \in Address |-> {}]

-----------------------------------------------------------------------------
(***************************************************************************)
(* ExportGenesis                                                           *)
(***************************************************************************)

\* IterateCodeInfos, GetByteCode and IsPinnedCode for one code.
ExportCode(s, id) ==
    [id |-> id, info |-> s.codes[id], bytes |-> ChecksumOf(s, id),
     pinned |-> id \in s.pinned]

\* IterateContractInfo, IterateContractState and GetContractHistory for one contract.
ExportContract(s, state, a) ==
    [address |-> a, info |-> s.contracts[a], history |-> s.history[a],
     state |-> Seqs!SetToSeq(state[a])]

\* PeekAutoIncrementID of the two sequences.
ExportSequences(s) ==
    <<[key |-> "code", value |-> s.nextCode],
      [key |-> "instance", value |-> s.nextInstance]>>

ExportGenesis(s, state) ==
    LET ids == Seqs!SetToSortSeq({id \in CodeID : HasCode(s, id)}, <)
        as  == Seqs!SetToSeq(Contracts(s))
    IN  [params    |-> s.params,
         codes     |-> [i \in IndicesOf(ids) |-> ExportCode(s, ids[i])],
         contracts |-> [i \in IndicesOf(as) |-> ExportContract(s, state, as[i])],
         sequences |-> ExportSequences(s)]

-----------------------------------------------------------------------------
(***************************************************************************)
(* InitGenesis                                                             *)
(***************************************************************************)

\* The value a sequence has after the import: 1 when the document has none.
SequenceValue(d, key) ==
    LET found == {i \in IndicesOf(d.sequences) : d.sequences[i].key = key}
    IN  IF found = {} THEN 1 ELSE d.sequences[CHOOSE i \in found : TRUE].value

\* Mutant: a later code replaces an earlier one with its id.
ImportCodesOKReplace(d) ==
    \A i \in IndicesOf(d.codes) : d.codes[i].bytes = d.codes[i].info.checksum

\* importCode: the hash of the bytes is the one in the CodeInfo, and the id is new.
ImportCodesOK(d) ==
    /\ \A i \in IndicesOf(d.codes) : d.codes[i].bytes = d.codes[i].info.checksum
    /\ NoDuplicate([i \in IndicesOf(d.codes) |-> d.codes[i].id])

\* importContract, importContractState
ImportContractsOK(d) ==
    /\ \A i \in IndicesOf(d.contracts) :
            LET c == d.contracts[i]
            IN  /\ \E j \in IndicesOf(d.codes) : d.codes[j].id = c.info.codeID
                /\ c.history # <<>>
                /\ NoDuplicate(c.state)
    /\ NoDuplicate([i \in IndicesOf(d.contracts) |-> d.contracts[i].address])

\* importAutoIncrementID
ImportSequencesOK(d) == NoDuplicate([i \in IndicesOf(d.sequences) |-> d.sequences[i].key])

\* The code sequence is greater than every code id.
CodeSequenceOK(d) ==
    \A i \in IndicesOf(d.codes) : SequenceValue(d, "code") > d.codes[i].id

\* Mutant: the id in use last is asked for.
InstanceSequenceOKLast(d) ==
    LET seqVal == SequenceValue(d, "instance") - 1
    IN  ~ \E i \in IndicesOf(d.contracts) :
            /\ <<seqVal, seqVal>> \in DOMAIN ClassicAddress
            /\ d.contracts[i].address = ClassicAddress[<<seqVal, seqVal>>]

\* The check of the instance sequence asks for the classic address of code id
\* seqVal: the sequence value is passed as the code id as well.
InstanceSequenceOK(d) ==
    LET seqVal == SequenceValue(d, "instance")
    IN  ~ \E i \in IndicesOf(d.contracts) :
            /\ <<seqVal, seqVal>> \in DOMAIN ClassicAddress
            /\ d.contracts[i].address = ClassicAddress[<<seqVal, seqVal>>]

ImportOK(d) ==
    /\ ImportCodesOK(d) /\ ImportContractsOK(d) /\ ImportSequencesOK(d)
    /\ CodeSequenceOK(d) /\ InstanceSequenceOK(d)

\* importCode, and PinCode when the code was pinned.
ImportCode(s, c) ==
    [s EXCEPT !.codes[c.id] = c.info,
              !.pinned = IF c.pinned THEN @ \cup {c.id} ELSE @]

\* importContract: the indexes are rebuilt from the last and the first entry of
\* the history.
ImportContract(s, c) ==
    [s EXCEPT !.history[c.address] = c.history,
              !.contracts[c.address] = c.info,
              !.byCode = @ \cup {CodeIndexKey(c.address, Last(c.history))},
              !.byCreator = @ \cup
                    {CreatorIndexKey(c.info.creator, c.history[1].updated, c.address)}]

\* Mutant: the exported instance id is taken for the last one that was given out.
ImportStoreNextInstance(s, d) ==
    LET codes     == Seqs!FoldLeft(ImportCode, [s EXCEPT !.params = d.params], d.codes)
        contracts == Seqs!FoldLeft(ImportContract, codes, d.contracts)
    IN  [contracts EXCEPT !.nextCode = SequenceValue(d, "code"),
                          !.nextInstance = SequenceValue(d, "instance") + 1]

\* InitGenesis, on the store s that holds only the accounts and coins.
ImportStore(s, d) ==
    LET codes     == Seqs!FoldLeft(ImportCode, [s EXCEPT !.params = d.params], d.codes)
        contracts == Seqs!FoldLeft(ImportContract, codes, d.contracts)
    IN  [contracts EXCEPT !.nextCode = SequenceValue(d, "code"),
                          !.nextInstance = SequenceValue(d, "instance")]

ImportState(d) ==
    [a \in Address |->
        UNION {Seqs!ToSet(d.contracts[i].state) :
                    i \in {j \in IndicesOf(d.contracts) : d.contracts[j].address = a}}]

\* StoreCodeUnchecked writes the files of all codes.
ImportBlobs(d) == {d.codes[i].bytes : i \in IndicesOf(d.codes)}

\* GenesisState.ValidateBasic, which the validate-genesis command runs and
\* InitGenesis does not.
ValidateGenesis(d) ==
    /\ ValidConfig(d.params.upload)
    /\ \A i \in IndicesOf(d.codes) : d.codes[i].id # 0
    /\ \A i \in IndicesOf(d.contracts) : d.contracts[i].history # <<>>

-----------------------------------------------------------------------------
GenesisInit ==
    /\ Init
    /\ doc \in Docs /\ origin = "operator" /\ started = FALSE
    /\ kv = EmptyState /\ exports = 0 /\ before = Nil

\* The store before InitGenesis of this module.
FreshStore == EmptyStore(InitParams, store.accounts, store.bank)

InitGenesis ==
    /\ ~ started /\ ImportOK(doc)
    /\ started' = TRUE
    /\ store' = ImportStore(FreshStore, doc)
    /\ kv' = ImportState(doc)
    /\ vm' = [blobs |-> vm.blobs \cup ImportBlobs(doc),
              pinned |-> CollectPinnedChecksums(store', {})]
    /\ doc' = Nil /\ before' = Nil
    /\ UNCHANGED <<stack, failing, pos, mode, origin, exports>>

\* InitGenesis returns an error: the node does not start.  The code files of the
\* attempt stay on disk.
RejectGenesis ==
    /\ ~ started /\ ~ ImportOK(doc)
    /\ vm' \in {[vm EXCEPT !.blobs = @ \cup b] : b \in SUBSET ImportBlobs(doc)}
    /\ UNCHANGED <<store, stack, failing, pos, mode, gvars>>

\* What a committed transaction leaves in the own store of contract a.
WriteState(a, keys) ==
    /\ started /\ stack = <<>> /\ HasContract(store, a)
    /\ kv' = [kv EXCEPT ![a] = keys]
    /\ UNCHANGED <<vars, doc, origin, started, exports, before>>

\* The chain runs.
RunChain == started /\ Next /\ UNCHANGED gvars

\* The chain is stopped, exported, and started again on a new machine.  The new
\* chain starts at height zero or continues.
Relaunch ==
    /\ started /\ stack = <<>> /\ exports < MaxRelaunch
    /\ doc' = ExportGenesis(store, kv)
    /\ origin' = "export"
    /\ started' = FALSE
    /\ exports' = exports + 1
    /\ before' = [store |-> store, kv |-> kv]
    /\ store' = FreshStore
    /\ kv' = EmptyState
    /\ vm' = [blobs |-> {}, pinned |-> {}]
    /\ pos' \in {0, pos}
    /\ UNCHANGED <<stack, failing, mode>>

GenesisNext ==
    \/ InitGenesis \/ RejectGenesis \/ RunChain \/ Relaunch
    \/ \E a \in Address, keys \in SUBSET StateKey : WriteState(a, keys)

GenesisSpec == GenesisInit /\ [][GenesisNext]_allvars

-----------------------------------------------------------------------------
(***************************************************************************)
(* Properties                                                              *)
(***************************************************************************)

\* InitGenesis accepts every document that ExportGenesis wrote, and so does
\* validate-genesis as long as the upload permission is valid: a chain can always
\* be relaunched from its own export.
ExportAccepted ==
    ~ started /\ origin = "export" =>
        /\ ImportOK(doc)
        /\ ValidConfig(doc.params.upload) => ValidateGenesis(doc)

\* The relaunched chain has the codes, contracts, histories, both indexes, the
\* sequences, the pins and the contract states of the exported one, although the
\* indexes are not exported and are rebuilt from the histories.
RelaunchSame ==
    [][ ~ started /\ started' /\ origin = "export" =>
            store' = before.store /\ kv' = before.kv ]_allvars

\* An accepted document is imported completely: what ExportGenesis would write
\* next has the same codes, contracts and states, none replaced by a later entry
\* with its id, address or key.
ImportLosesNothing ==
    [][ ~ started /\ started' =>
            LET out == ExportGenesis(store', kv')
                contract(c) == [c EXCEPT !.state = Seqs!ToSet(@)]
            IN  /\ Seqs!ToSet(out.codes) = Seqs!ToSet(doc.codes)
                /\ {contract(out.contracts[i]) : i \in IndicesOf(out.contracts)}
                     = {contract(doc.contracts[i]) : i \in IndicesOf(doc.contracts)} ]_allvars

\* "ensure next classic address is unused so that we know the sequence is good"
\* (InitGenesis): right after the import, no code's next classic address is taken.
NextClassicUnused ==
    [][ ~ started /\ started' =>
            \A id \in CodeID :
                HasCode(store', id) /\ store'.nextInstance \in InstanceID =>
                    ~ HasContract(store', NextClassicAddress(store', id)) ]_allvars
=============================================================================

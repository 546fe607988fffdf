------------------------------ MODULE Queries ------------------------------
(***************************************************************************)
(* The list queries of x/wasm (x/wasm/keeper/querier.go and QueryRawRange  *)
(* of x/wasm/keeper/keeper.go), read page by page while blocks change the  *)
(* lists.  A page of a gRPC query is answered from the store of the latest *)
(* block; a contract reads raw ranges within one call, from one store.     *)
(* The blocks are the effects of whole transactions: WasmTx has their      *)
(* steps, WasmStore what they write.  Pages in reverse order are left out. *)
(***************************************************************************)
EXTENDS WasmStore, FiniteSets

CONSTANTS
    Users,             \* creators of contracts
    KeyOrder,          \* order of the addresses' bytes
    StateKeys,         \* keys of the own store of a contract, as numbers
    Limits,            \* page limits found in requests, Nil for a missing request
    MaxResultEntries,  \* maxResultEntries
    DefaultLimit,      \* query.DefaultLimit
    MaxHistory,        \* bound on migrations of one contract
    MaxItems,          \* bound on the entries of one listing
    InitStore          \* the store at the first block

Seqs == INSTANCE SequencesExt

ASSUME QueriesAssumption ==
    /\ KeyOrder \in [Address -> Nat]
    /\ \A a, b \in Address : KeyOrder[a] = KeyOrder[b] => a = b
    /\ StateKeys \subseteq Nat
    /\ InitStore \in Store

VARIABLES
    store,   \* the latest committed store
    pos,     \* position of the next block
    reader   \* the listing in progress, or Nil

queriesVars == <<store, pos, reader>>

-----------------------------------------------------------------------------
(***************************************************************************)
(* The lists: prefixes of the store, with their entries.                   *)
(***************************************************************************)

\* A key below its prefix: position and address, or an id alone.
Entry(major, minor, item) == [key |-> <<major, minor>>, item |-> item]

KeyLess(k, l) == k[1] < l[1] \/ (k[1] = l[1] /\ k[2] < l[2])

InKeyOrder(entries) ==
    LET before(e) == {f \in entries : KeyLess(f.key, e.key)}
    IN  [i \in 1..Cardinality(entries) |->
            CHOOSE e \in entries : Cardinality(before(e)) = i - 1]

IndexEntries(keys) == {Entry(k[2], KeyOrder[k[3]], k[3]) : k \in keys}

ContractsByCode(s, id) == IndexEntries({k \in s.byCode : k[1] = id})

ContractsByCreator(s, creator) == IndexEntries({k \in s.byCreator : k[1] = creator})

ContractHistory(s, a) ==
    {Entry(i, 0, <<i, s.history[a][i].codeID>>) : i \in 1..Len(s.history[a])}

Codes(s) == {Entry(id, 0, id) : id \in {c \in CodeID : HasCode(s, c)}}

PinnedCodes(s) == {Entry(id, 0, id) : id \in s.pinned}

\* The own store of a contract, for AllContractState and QueryRawRange.
ContractState == {Entry(k, 0, k) : k \in StateKeys}

Lists ==
    [query : {"byCode"}, arg : CodeID] \cup [query : {"byCreator"}, arg : Users]
        \cup [query : {"history"}, arg : ContractAddress]
        \cup [query : {"codes", "pinned", "raw ascending", "raw descending"}, arg : {Nil}]

IsRaw(list) == list.query \in {"raw ascending", "raw descending"}

EntrySet(s, list) ==
    CASE list.query = "byCode" -> ContractsByCode(s, list.arg)
      [] list.query = "byCreator" -> ContractsByCreator(s, list.arg)
      [] list.query = "history" -> ContractHistory(s, list.arg)
      [] list.query = "codes" -> Codes(s)
      [] list.query = "pinned" -> PinnedCodes(s)
      [] IsRaw(list) -> ContractState

\* What the iterator of the list finds, in its order.
EntriesOf(s, list) ==
    LET ascending == InKeyOrder(EntrySet(s, list))
    IN  IF list.query = "raw descending" THEN Seqs!Reverse(ascending) ELSE ascending

ItemsOf(s, list) == {e.item : e \in EntrySet(s, list)}

-----------------------------------------------------------------------------
(***************************************************************************)
(* Pages                                                                   *)
(***************************************************************************)

\* ensurePaginationParams: the limit that is used.
EnsurePaginationParams(limit) ==
    IF limit = Nil THEN DefaultLimit
    ELSE IF limit > MaxResultEntries \/ limit <= 0 THEN MaxResultEntries ELSE limit

\* The entries from the cursor on; Nil is the beginning.
From(entries, cursor) ==
    SelectSeq(entries, LAMBDA e : cursor = Nil \/ ~ KeyLess(e.key, cursor))

\* Mutant: the entry after the next one.
NextKeySkips(entries, limit) ==
    IF limit + 1 < Len(entries) THEN entries[limit + 2].key ELSE Nil

\* Mutant: after the last entry, the end of the prefix instead of nil.
NextKeyPastEnd(entries, limit) ==
    IF limit < Len(entries) THEN entries[limit + 1].key
    ELSE <<MaxPos + MaxCodes + MaxItems, 0>>

\* query.FilteredPaginate: the key of the first entry that is not on the page.
NextKey(entries, limit) ==
    IF limit < Len(entries) THEN entries[limit + 1].key ELSE Nil

PageOf(entries, limit) == SubSeq(entries, 1, IF limit < Len(entries) THEN limit ELSE Len(entries))

\* QueryRawRange: count = limit ends its loop.  The end of a descending range is exclusive, so its reader goes
\* on from the key just behind the next one.
RawRange(entries, list, cursor, limit) ==
    LET rest == SelectSeq(entries, LAMBDA e :
                    \/ cursor = Nil
                    \/ list.query = "raw ascending" /\ ~ KeyLess(e.key, cursor)
                    \/ list.query = "raw descending" /\ KeyLess(e.key, <<cursor[1], cursor[2] + 1>>))
    IN  [page |-> PageOf(rest, limit), next |-> NextKey(rest, limit)]

Answer(s, list, cursor, limit) ==
    LET n == EnsurePaginationParams(limit)
        rest == From(EntriesOf(s, list), cursor)
    IN  IF IsRaw(list) THEN RawRange(EntriesOf(s, list), list, cursor, limit)
        ELSE [page |-> PageOf(rest, n), next |-> NextKey(rest, n)]

BeginListing(list, limit) ==
    /\ reader = Nil
    /\ IsRaw(list) => limit \notin {Nil, 0}
    /\ reader' = [list |-> list, limit |-> limit, cursor |-> Nil, items |-> <<>>,
                  stable |-> ItemsOf(store, list), done |-> FALSE, longest |-> 0]
    /\ UNCHANGED <<store, pos>>

\* The next page, from the store of the latest block.
Page ==
    /\ reader # Nil /\ ~ reader.done /\ Len(reader.items) < MaxItems
    /\ LET answer == Answer(store, reader.list, reader.cursor, reader.limit)
           size   == Len(answer.page)
       IN  reader' = [reader EXCEPT
                !.items = @ \o [i \in 1..size |-> answer.page[i].item],
                !.cursor = answer.next,
                !.done = answer.next = Nil,
                !.longest = IF size > @ THEN size ELSE @]
    /\ UNCHANGED <<store, pos>>

\* The client is done, or gives up.
EndListing ==
    /\ reader # Nil
    /\ reader' = Nil
    /\ UNCHANGED <<store, pos>>

-----------------------------------------------------------------------------
(***************************************************************************)
(* Blocks                                                                  *)
(***************************************************************************)

\* A block commits s; an entry that was ever missing is not stable.
CommitBlock(s) ==
    /\ pos < MaxPos
    /\ store' = s
    /\ pos' \in {pos, pos + 1}
    /\ reader' = IF reader = Nil THEN Nil
                 ELSE [reader EXCEPT !.stable = @ \cap ItemsOf(s, reader.list)]

StoreCode(creator, checksum) ==
    /\ CreateOK(store, creator, Nil, DefaultPolicy)
    /\ CommitBlock(Create(store, creator, checksum, Nil))

InstantiateContract(creator, id, label) ==
    /\ store.nextInstance \in InstanceID
    /\ LET a == NextClassicAddress(store, id)
       IN  /\ InstantiateOK(store, id, creator, a, 0, DefaultPolicy)
           /\ CommitBlock(Instantiate(TakeInstanceID(store), id, creator, creator, a, label,
                                      0, pos))

MigrateContract(a, caller, id) ==
    /\ MigrateOK(store, a, caller, id, DefaultPolicy)
    /\ Len(store.history[a]) < MaxHistory
    /\ CommitBlock(Migrate(store, a, id, pos))

PinCode(id) == HasCode(store, id) /\ CommitBlock(Pin(store, {id}))

UnpinCode(id) == HasCode(store, id) /\ CommitBlock(Unpin(store, {id}))

Block ==
    \/ \E u \in Users, c \in Checksum : StoreCode(u, c)
    \/ \E u \in Users, id \in CodeID, l \in Label : InstantiateContract(u, id, l)
    \/ \E a \in ContractAddress, u \in Users, id \in CodeID : MigrateContract(a, u, id)
    \/ \E id \in CodeID : PinCode(id) \/ UnpinCode(id)

QueriesInit == store = InitStore /\ pos = 0 /\ reader = Nil

QueriesNext ==
    \/ Block
    \/ \E list \in Lists, limit \in Limits : BeginListing(list, limit)
    \/ Page \/ EndListing

\* A client that lists keeps asking for the next page.
QueriesSpec ==
    QueriesInit /\ [][QueriesNext]_queriesVars /\ WF_queriesVars(Page)

-----------------------------------------------------------------------------
Done == reader # Nil /\ reader.done

Listed == {reader.items[i] : i \in 1..Len(reader.items)}

\* A listing that came to its end has every entry that was there all the time,
\* however many blocks stored, instantiated, migrated, pinned or unpinned between
\* two pages: also a contract whose index entry moved because it migrated.  No entry is
\* listed twice, except that such a contract may be found again behind the cursor of a
\* listing by code.  No page has more entries than the keeper allows, whatever the request
\* asks for (ensurePaginationParams), and a raw range no more than its limit.
ListingExact ==
    reader # Nil =>
        /\ Done => reader.stable \subseteq Listed
        /\ Done /\ reader.list.query # "byCode" => Seqs!IsInjective(reader.items)
        /\ reader.longest <= IF IsRaw(reader.list) THEN reader.limit ELSE MaxResultEntries

\* Every listing ends: the cursor moves on with each page.
ListingEnds == (reader # Nil /\ ~ reader.done) ~> (reader = Nil \/ reader.done)
=============================================================================

---------------------------- MODULE Snapshotter ----------------------------
(***************************************************************************)
(* State sync of the code files (x/wasm/keeper/snapshotter.go).  The       *)
(* multistore of a height travels in a snapshot of the SDK; the wasm byte  *)
(* codes are files of the VM and travel as the payloads of an extension.   *)
(* A serving node writes the extension while it keeps executing blocks; a  *)
(* new node restores the store, then one payload after the other, then     *)
(* fills the cache of pinned codes.  Either may stop at any step.          *)
(***************************************************************************)
EXTENDS Integers, Sequences

CONSTANTS
    ByteCode,   \* wasm byte codes, by their hash
    MaxHeight,  \* bound on the heights
    MaxStored,  \* bound on the code ids
    None

SeqOps == INSTANCE SequencesExt

ASSUME SnapshotAssumption ==
    MaxHeight \in Nat /\ MaxStored \in Nat /\ None \notin ByteCode

CodeIDs == 1..MaxStored

VARIABLES
    versions,  \* the committed versions of the serving node, by height plus one: the
               \* codes in the order of their ids, and the pin index
    files,     \* its code files
    snap,      \* the snapshot it is writing, with the next code id, or None
    offers,    \* the snapshots it has finished
    phase,     \* of the new node: "empty", "items", "running"
    source,    \* the snapshot it restores, with the payloads still to be read
    newFiles,  \* its code files
    newPinned  \* its cache of pinned codes

server == <<versions, files, snap, offers>>

client == <<phase, source, newFiles, newPinned>>

snapshotterVars == <<versions, files, snap, offers, phase, source, newFiles, newPinned>>

Height == Len(versions) - 1

Latest == versions[Height + 1]

SnapshotterInit ==
    /\ versions = <<[codes |-> <<>>, pinned |-> {}]>>
    /\ files = {} /\ snap = None /\ offers = {}
    /\ phase = "empty" /\ source = None /\ newFiles = {} /\ newPinned = {}

-----------------------------------------------------------------------------
(***************************************************************************)
(* The serving node                                                        *)
(***************************************************************************)

\* A block that stores codes, or pins and unpins some.
ServerBlock(codes, pinned) ==
    /\ Height < MaxHeight
    /\ Len(Latest.codes) + Len(codes) <= MaxStored
    /\ pinned \subseteq 1..Len(Latest.codes)
    /\ versions' = Append(versions, [codes |-> Latest.codes \o codes, pinned |-> pinned])
    /\ files' = files \cup SeqOps!ToSet(codes)
    /\ UNCHANGED <<snap, offers, client>>

\* Mutant: the codes are read from the latest version.
StoreAtLatest(height) == Latest

\* CacheMultiStoreWithVersion
StoreAt(height) == versions[height + 1]

\* The snapshot manager starts a snapshot of a committed height.
BeginSnapshot(height) ==
    /\ snap = None
    /\ snap' = [height |-> height, next |-> 1, seen |-> {}, items |-> <<>>]
    /\ UNCHANGED <<versions, files, offers, client>>

\* seenBefore
Seen(seen, checksum) == checksum \in seen

\* One call of the callback: a code hash is written once, from its file, and the
\* iteration goes on.
SnapshotItem ==
    /\ snap # None
    /\ LET codes == StoreAt(snap.height).codes
       IN  /\ snap.next <= Len(codes)
           /\ LET checksum == codes[snap.next]
              IN  \/ /\ Seen(snap.seen, checksum)
                     /\ snap' = [snap EXCEPT !.next = @ + 1]
                  \/ /\ ~ Seen(snap.seen, checksum)
                     /\ checksum \in files
                     /\ snap' = [snap EXCEPT !.next = @ + 1,
                                             !.seen = @ \cup {checksum},
                                             !.items = Append(@, checksum)]
    /\ UNCHANGED <<versions, files, offers, client>>

EndSnapshot ==
    /\ snap # None
    /\ snap.next > Len(StoreAt(snap.height).codes)
    /\ offers' = offers \cup {[height |-> snap.height, store |-> versions[snap.height + 1],
                               items |-> snap.items]}
    /\ snap' = None
    /\ UNCHANGED <<versions, files, client>>

\* An error of the iteration or a stop of the node: the snapshot is lost.
AbortSnapshot ==
    /\ snap # None
    /\ snap' = None
    /\ UNCHANGED <<versions, files, offers, client>>

-----------------------------------------------------------------------------
(***************************************************************************)
(* The new node                                                            *)
(***************************************************************************)

\* The SDK has restored the multistore and calls RestoreExtension.
BeginRestore(offer) ==
    /\ phase = "empty"
    /\ phase' = "items"
    /\ source' = offer
    /\ UNCHANGED <<newFiles, newPinned, server>>

\* restoreV1: one payload is stored in the VM.
RestoreItem ==
    /\ phase = "items" /\ source.items # <<>>
    /\ newFiles' = newFiles \cup {Head(source.items)}
    /\ source' = [source EXCEPT !.items = Tail(@)]
    /\ UNCHANGED <<phase, newPinned, server>>

PinnedChecksums(store) == {store.codes[id] : id \in store.pinned}

\* Mutant: the cache is filled with the files there are.
FinalizePinnedFiles(store) == newFiles

\* InitializePinnedCodes, in finalizeV1
FinalizePinned(store) == PinnedChecksums(store)

\* finalizeV1, after the last payload; the VM needs the files of the pinned codes.
Finalize ==
    /\ phase = "items" /\ source.items = <<>>
    /\ PinnedChecksums(source.store) \subseteq newFiles
    /\ newPinned' = FinalizePinned(source.store)
    /\ phase' = "running"
    /\ UNCHANGED <<source, newFiles, server>>

\* A read error, an error of the VM or a stop of the node: the node starts again
\* with an empty store.  The files it has written are still there.
AbortRestore ==
    /\ phase = "items"
    /\ phase' = "empty"
    /\ source' = None
    /\ UNCHANGED <<newFiles, newPinned, server>>

SnapshotterNext ==
    \/ \E codes \in {<<>>} \cup {<<c>> : c \in ByteCode}, pinned \in SUBSET CodeIDs :
            ServerBlock(codes, pinned)
    \/ \E height \in 0..Height : BeginSnapshot(height)
    \/ SnapshotItem \/ EndSnapshot \/ AbortSnapshot
    \/ \E offer \in offers : BeginRestore(offer)
    \/ RestoreItem \/ Finalize \/ AbortRestore

\* Reading a snapshot to its end is one loop that waits for nobody.
SnapshotterSpec == SnapshotterInit /\ [][SnapshotterNext]_snapshotterVars

-----------------------------------------------------------------------------
\* A snapshot holds the codes of its own height, each file once ("only sync it
\* once"), however many blocks stored further codes while it was written.
SnapshotExact ==
    \A offer \in offers :
        /\ SeqOps!IsInjective(offer.items)
        /\ SeqOps!ToSet(offer.items) = SeqOps!ToSet(offer.store.codes)

\* A node that was restored, perhaps after some attempts that stopped half way,
\* has the file of every code of its store and exactly the pinned codes in its
\* cache, although nothing checks that all codes came ("ensure all codes have been
\* uploaded?", finalizeV1).
RestoredRunnable ==
    phase = "running" =>
        /\ SeqOps!ToSet(source.store.codes) \subseteq newFiles
        /\ newPinned = PinnedChecksums(source.store)

=============================================================================

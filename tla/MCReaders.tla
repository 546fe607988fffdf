----------------------------- MODULE MCReaders ------------------------------
(***************************************************************************)
(* The readers of a chain that goes on meanwhile: a client that lists page *)
(* by page, and a node that joins by state sync.  They share no state; a   *)
(* behaviour is one of the part chosen in the initial state, and the other *)
(* stays as it began.                                                      *)
(*                                                                         *)
(* Listings: two codes, pages of one entry, raw ranges of two, and a chain *)
(* on which everybody may do everything.                                   *)
(***************************************************************************)
EXTENDS Queries, Snapshotter

CONSTANTS u1, gov, k1, k2, plain

VARIABLE part   \* the model this behaviour is about

MCAddress == {u1, gov, k1, k2}

MCKeyOrder == [a \in MCAddress |-> CASE a = k2 -> 0 [] a = k1 -> 1 [] a = u1 -> 2 [] a = gov -> 3]

\* An address for an instance id; the code id does not matter for the listings.
MCClassic == [k \in CodeID \X InstanceID |-> IF k[2] = 1 THEN k1 ELSE k2]

MCNoPredictable == [k \in {} |-> u1]

MCHasIBC == [c \in Checksum |-> FALSE]

MCMigrateVersion == [c \in Checksum |-> 0]

MCLimits == {Nil, 2}

MCCode == [checksum |-> plain, creator |-> u1, config |-> AllowEverybody]

\* One code is stored already.
MCInitStore ==
    [EmptyStore([upload |-> AllowEverybody, instantiate |-> "Everybody"],
                [a \in MCAddress |-> "none"], [a \in MCAddress |-> 0])
        EXCEPT !.codes[1] = MCCode, !.nextCode = 2]

-----------------------------------------------------------------------------
Init ==
    /\ part \in {"listing", "sync"}
    /\ QueriesInit /\ SnapshotterInit

Next ==
    \/ part = "listing" /\ QueriesNext /\ UNCHANGED <<part, snapshotterVars>>
    \/ part = "sync" /\ SnapshotterNext /\ UNCHANGED <<part, queriesVars>>

\* The fairness of the listings.
Spec ==
    /\ Init /\ [][Next]_<<part, queriesVars, snapshotterVars>>
    /\ WF_queriesVars(Page)
=============================================================================

----------------------------- MODULE Migrations -----------------------------
(***************************************************************************)
(* The in-place store migrations of x/wasm (x/wasm/keeper/migrations.go    *)
(* and x/wasm/migrations): version 1 to 2 builds the creator index, 2 to 3 *)
(* moves the params out of the x/params subspace, 3 to 4 replaces the      *)
(* access type OnlyAddress.  They run in the upgrade block; the node may   *)
(* stop at any step of it and runs the block again.                        *)
(***************************************************************************)
EXTENDS AccessControl, Integers

CONSTANTS
    LegacyCodeID, LegacyPosition,
    LegacyConfigs,  \* access configurations of a chain before version 4
    LegacyTypes     \* default permissions of such a chain

LegacyType == AccessType \cup {"OnlyAddress"}

\* AccessConfig of migrations/v2 and migrations/v3: one address, or a list.
LegacyConfig ==
    [permission : LegacyType, address : Address \cup {Nil}, addresses : SUBSET Address]

\* AccessConfig.ValidateBasic of migrations/v2
LegacyValid(c) ==
    CASE c.permission = "OnlyAddress" -> c.address # Nil
      [] c.permission = "AnyOfAddresses" -> c.addresses # {}
      [] OTHER -> TRUE

ASSUME MigrationsAssumption ==
    /\ LegacyTypes \subseteq LegacyType
    /\ \A c \in LegacyConfigs : c \in LegacyConfig /\ LegacyValid(c)

VARIABLES
    version,    \* ConsensusVersion of the stored data
    subspace,   \* params in x/params
    params,     \* params in the module's store, Nil before version 3
    codes,      \* instantiate configuration by code id, Nil for no code
    contracts,  \* creator and position of creation by address, Nil for none
    byCreator,  \* the creator index
    todo,       \* what the iterator of the running migration has still to visit
    committed,  \* the state before the upgrade block, Nil outside of it
    original    \* the permissions the chain had before

data == [version |-> version, params |-> params, codes |-> codes, byCreator |-> byCreator]

migrationsVars ==
    <<version, subspace, params, codes, contracts, byCreator, todo, committed, original>>

IndexKey(a) == <<contracts[a].creator, contracts[a].created, a>>

Existing(f) == {x \in DOMAIN f : f[x] # Nil}

\* A chain of an older version: without the index before version 2, without
\* params of its own before version 3.
MigrationsInit ==
    /\ version \in 1..3
    /\ subspace \in [upload : LegacyConfigs, instantiate : LegacyTypes]
    /\ params = IF version = 3 THEN subspace ELSE Nil
    /\ codes \in [LegacyCodeID -> LegacyConfigs \cup {Nil}]
    /\ contracts \in [Address -> [creator : Address, created : LegacyPosition] \cup {Nil}]
    /\ byCreator = IF version = 1 THEN {} ELSE {IndexKey(a) : a \in Existing(contracts)}
    /\ todo = {} /\ committed = Nil
    /\ original = [upload |-> subspace.upload, instantiate |-> subspace.instantiate,
                 codes |-> codes]

-----------------------------------------------------------------------------
Upgrading == committed # Nil

\* What the migration from version v visits, Nil for the params.
Visits(v) == IF v = 1 THEN Existing(contracts)
             ELSE IF v = 3 THEN {Nil} \cup Existing(codes) ELSE {}

\* The upgrade block begins: RunMigrations calls the migrations in order.
BeginUpgrade ==
    /\ ~ Upgrading /\ version < 4
    /\ committed' = data
    /\ todo' = Visits(version)
    /\ UNCHANGED <<version, subspace, params, codes, contracts, byCreator, original>>

\* One contract in Migrate1to2.
Migrate1to2(a) ==
    /\ Upgrading /\ version = 1 /\ a \in todo
    /\ byCreator' = byCreator \cup {IndexKey(a)}
    /\ todo' = todo \ {a}
    /\ UNCHANGED <<version, subspace, params, codes, contracts, committed, original>>

\* Migrate2to3: MigrateStore of migrations/v2
Migrate2to3 ==
    /\ Upgrading /\ version = 2 /\ params = Nil
    /\ params' = subspace
    /\ UNCHANGED <<version, subspace, codes, contracts, byCreator, todo, committed, original>>

\* Mutant: the list is taken over as it is.
UpdateAccessConfigList(c) ==
    [permission |-> IF c.permission = "OnlyAddress" THEN "AnyOfAddresses" ELSE c.permission,
     addresses |-> c.addresses]

\* updateAccessConfig
UpdateAccessConfig(c) ==
    IF c.permission = "OnlyAddress" THEN With("AnyOfAddresses", {c.address})
    ELSE [permission |-> c.permission, addresses |-> c.addresses]

\* The default permission in Migrate3to4.
UpdateAccessType(t) == IF t = "OnlyAddress" THEN "AnyOfAddresses" ELSE t

\* Migrate3to4, the params: chains without stored params are left alone.
Migrate3to4Params ==
    /\ Upgrading /\ version = 3 /\ Nil \in todo
    /\ params' = IF params = Nil THEN Nil
                 ELSE [upload |-> UpdateAccessConfig(params.upload),
                       instantiate |-> UpdateAccessType(params.instantiate)]
    /\ todo' = todo \ {Nil}
    /\ UNCHANGED <<version, subspace, codes, contracts, byCreator, committed, original>>

\* Migrate3to4, one code of the iteration; it is stored under its own key while
\* the iterator is open.
Migrate3to4Code(id) ==
    /\ Upgrading /\ version = 3 /\ Nil \notin todo /\ id \in todo
    /\ codes' = [codes EXCEPT ![id] = UpdateAccessConfig(@)]
    /\ todo' = todo \ {id}
    /\ UNCHANGED <<version, subspace, params, contracts, byCreator, committed, original>>

\* Mutant: a migration counts as done when it has begun.
MigrationDoneEarly == TRUE

\* The iteration of the running migration is over.
MigrationDone == todo = {} /\ (version = 2 => params # Nil)

NextVersion ==
    /\ Upgrading /\ version < 4 /\ MigrationDone
    /\ version' = version + 1
    /\ todo' = Visits(version + 1)
    /\ UNCHANGED <<subspace, params, codes, contracts, byCreator, committed, original>>

Commit ==
    /\ Upgrading /\ version = 4
    /\ committed' = Nil
    /\ UNCHANGED <<version, subspace, params, codes, contracts, byCreator, todo, original>>

\* The node stops in the upgrade block: the block's writes are gone.
Crash ==
    /\ Upgrading
    /\ version' = committed.version /\ params' = committed.params
    /\ codes' = committed.codes /\ byCreator' = committed.byCreator
    /\ todo' = {} /\ committed' = Nil
    /\ UNCHANGED <<subspace, contracts, original>>

UpgradeStep ==
    \/ \E a \in Address : Migrate1to2(a)
    \/ Migrate2to3 \/ Migrate3to4Params
    \/ \E id \in LegacyCodeID : Migrate3to4Code(id)
    \/ NextVersion \/ Commit

Done == ~ Upgrading /\ version = 4 /\ UNCHANGED migrationsVars

MigrationsNext == BeginUpgrade \/ UpgradeStep \/ Crash \/ Done

MigrationsSpec == MigrationsInit /\ [][MigrationsNext]_migrationsVars

-----------------------------------------------------------------------------
\* "OnlyAddress" allows its one address.
LegacyAllowed(c, actor) ==
    IF c.permission = "OnlyAddress" THEN actor = c.address
    ELSE Allowed([permission |-> c.permission, addresses |-> c.addresses], actor)

SameAccess(old, new) ==
    /\ ValidConfig(new)
    /\ \A actor \in Address : Allowed(new, actor) <=> LegacyAllowed(old, actor)

\* On a chain that has reached version 4, from any version and through any crash,
\* everybody may upload and instantiate exactly what they were allowed to before,
\* and a new code of creator a gets the same default (updateAccessConfig).
AccessKept ==
    ~ Upgrading /\ version = 4 =>
        /\ SameAccess(original.upload, params.upload)
        /\ \A id \in Existing(codes) : SameAccess(original.codes[id], codes[id])
        /\ \A creator \in Address :
                SameAccess([permission |-> original.instantiate, address |-> creator,
                            addresses |-> {creator}],
                           With(params.instantiate, {creator}))

\* From version 2 on the creator index has exactly one entry per contract, under
\* the position that instantiate would have used (Created).
CreatorIndexExact ==
    version > 1 => byCreator = {IndexKey(a) : a \in Existing(contracts)}
=============================================================================

---------------------------- MODULE MCLifecycle -----------------------------
(***************************************************************************)
(* The life of a chain's state between binaries, side by side: chains that *)
(* start empty, are exported and relaunched; all small documents that an   *)
(* operator could write; and the store migrations of chains of versions 1  *)
(* to 3, with two accounts that may have contracts, two codes and legacy   *)
(* permissions of every type.  Genesis and Migrations share no state; a    *)
(* behaviour is one of the part chosen in the initial state.               *)
(***************************************************************************)
EXTENDS MCGenesis, Migrations

VARIABLE part   \* the model this behaviour is about

MCLegacy(permission, address, addresses) ==
    [permission |-> permission, address |-> address, addresses |-> addresses]

MCLegacyConfigs ==
    {MCLegacy("Nobody", Nil, {}), MCLegacy("Everybody", Nil, {}),
     MCLegacy("OnlyAddress", u1, {}), MCLegacy("AnyOfAddresses", Nil, {u1, u2})}

\* Contracts at the addresses u1 and u2 only.
MCLegacyContracts ==
    {[a \in Address |-> IF a \in MCUsers THEN f[a] ELSE Nil] :
        f \in [MCUsers -> [creator : MCUsers, created : LegacyPosition] \cup {Nil}]}

\* A chain without data, in a behaviour that is not about its upgrade.
IdleMigrations ==
    /\ version = 1 /\ subspace = Nil /\ params = Nil
    /\ codes = << >> /\ contracts = << >> /\ byCreator = {}
    /\ todo = {} /\ committed = Nil /\ original = Nil

-----------------------------------------------------------------------------
LifecycleInit ==
    \/ part = "relaunch" /\ doc = EmptyDoc /\ GenesisInit /\ IdleMigrations
    \/ part = "documents" /\ GenesisInit /\ IdleMigrations
    \/ /\ part = "upgrade" /\ doc = EmptyDoc /\ GenesisInit
       /\ contracts \in MCLegacyContracts /\ MigrationsInit

\* A document is imported, the chain does not go on from it.
DocumentsNext ==
    \/ InitGenesis
    \/ RejectGenesis
    \/ started /\ Restart /\ UNCHANGED gvars

LifecycleNext ==
    \/ part = "relaunch" /\ GenesisNext /\ UNCHANGED <<part, migrationsVars>>
    \/ part = "documents" /\ DocumentsNext /\ UNCHANGED <<part, migrationsVars>>
    \/ part = "upgrade" /\ MigrationsNext /\ UNCHANGED <<part, allvars>>

LifecycleSpec == LifecycleInit /\ [][LifecycleNext]_<<part, allvars, migrationsVars>>
=============================================================================

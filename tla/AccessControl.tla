--------------------------- MODULE AccessControl ---------------------------
(***************************************************************************)
(* Who may upload code, instantiate it and modify contracts: the access    *)
(* configurations of x/wasm/types/params.go and types.go, and the three    *)
(* authorization policies of x/wasm/keeper/authz_policy.go.                *)
(*                                                                         *)
(* An address list is a set: the code never looks at its order, and        *)
(* validateBech32Addresses refuses duplicates.  AccessTypeUnspecified is   *)
(* refused by every ValidateBasic and never reaches these functions.       *)
(***************************************************************************)

CONSTANTS
    Address,    \* every account and contract address
    Nil,        \* the absent address (a contract without admin)
    Authority,  \* the keeper's authority, the x/gov module account
    Propagate   \* actions whose gov authorization reaches sub-messages

AccessType == {"Nobody", "AnyOfAddresses", "Everybody"}

AccessConfig == [permission : AccessType, addresses : SUBSET Address]

\* AuthZActionInstantiate and AuthZActionMigrateContract.
Action == {"Instantiate", "Migrate"}

\* PartialGovAuthorizationPolicy{action, default} is "Partial" with its action.
Policy == [type : {"Default", "Gov"}, action : {"None"}]
            \cup [type : {"Partial"}, action : Action]

ASSUME AccessAssumption ==
    /\ Nil \notin Address
    /\ Authority \in Address
    /\ Propagate \subseteq Action

AllowNobody == [permission |-> "Nobody", addresses |-> {}]

AllowEverybody == [permission |-> "Everybody", addresses |-> {}]

\* AccessType.With
With(type, addrs) ==
    [permission |-> type,
     addresses  |-> IF type = "AnyOfAddresses" THEN addrs ELSE {}]

\* AccessConfig.ValidateBasic; validateBech32Addresses refuses an empty list.
ValidConfig(c) == c.permission = "AnyOfAddresses" => c.addresses # {}

\* AccessConfig.Allowed
Allowed(c, actor) ==
    \/ c.permission = "Everybody"
    \/ c.permission = "AnyOfAddresses" /\ actor \in c.addresses

\* AccessType.IsSubset
TypeIsSubset(a, super) ==
    \/ super = "Everybody"
    \/ super = "Nobody" /\ a = "Nobody"
    \/ super = "AnyOfAddresses" /\ a \in {"Nobody", "AnyOfAddresses"}

\* AccessConfig.IsSubset
ConfigIsSubset(a, super) ==
    IF super.permission = "AnyOfAddresses"
    THEN \/ a.permission = "Nobody"
         \/ a.permission = "AnyOfAddresses" /\ a.addresses \subseteq super.addresses
    ELSE TypeIsSubset(a.permission, super.permission)

-----------------------------------------------------------------------------
DefaultPolicy == [type |-> "Default", action |-> "None"]

GovPolicy == [type |-> "Gov", action |-> "None"]

PartialPolicy(action) == [type |-> "Partial", action |-> action]

\* Mutant: the upload permission is not asked for.
CanCreateCodeAnyone(p, chain, actor, config) ==
    p.type = "Gov" \/ ConfigIsSubset(config, chain.instantiate)

\* CanCreateCode of the three policies; chain holds the Upload and the
\* Instantiate configuration.
CanCreateCode(p, chain, actor, config) ==
    \/ p.type = "Gov"
    \/ Allowed(chain.upload, actor) /\ ConfigIsSubset(config, chain.instantiate)

\* CanInstantiateContract
CanInstantiateContract(p, config, actor) ==
    \/ p.type = "Gov"
    \/ p = PartialPolicy("Instantiate")
    \/ Allowed(config, actor)

\* Mutant: a contract without admin is everybody's.
CanModifyContractNoAdmin(p, admin, actor) ==
    p.type = "Gov" \/ p = PartialPolicy("Migrate") \/ admin \in {Nil, actor}

\* CanModifyContract
CanModifyContract(p, admin, actor) ==
    \/ p.type = "Gov"
    \/ p = PartialPolicy("Migrate")
    \/ admin # Nil /\ admin = actor

\* CanModifyCodeAccessConfig
CanModifyCodeAccessConfig(p, creator, actor, isSubset) ==
    \/ p.type = "Gov"
    \/ creator = actor /\ isSubset

\* Mutant: the full gov policy is handed on.
SubMessageAuthorizationPolicySelf(p, action) == p

\* SubMessageAuthorizationPolicy
SubMessageAuthorizationPolicy(p, action) ==
    CASE p.type = "Partial" -> p
      [] p.type = "Gov" /\ action \in Propagate -> PartialPolicy(action)
      [] OTHER -> DefaultPolicy
=============================================================================

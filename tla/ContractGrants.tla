--------------------------- MODULE ContractGrants ---------------------------
(***************************************************************************)
(* Authz grants for contract execution and migration (x/wasm/types/        *)
(* authz.go): limits and filters over any sequence of granted calls.       *)
(*                                                                         *)
(* The authz keeper (external) accepts a message, saves the updated        *)
(* authorization and then runs the message, in the cache context of the    *)
(* message that sent it.  A called contract may use the same authorization *)
(* again before it returns, and each level may fail and be rolled back.    *)
(*                                                                         *)
(* The grants of an authorization are a list.  Grants are only removed or  *)
(* replaced in place, so the list is a function whose domain is the        *)
(* positions that are left; a position keeps its number.                   *)
(***************************************************************************)
EXTENDS Integers, Sequences

CONSTANTS
    Contracts,
    Denoms,
    Payloads,       \* message bodies
    TopKey,         \* payload -> the single top-level key of the JSON object, or none
    Keys,           \* names of top-level keys
    Positions,      \* positions of a list of grants
    Authorizations, \* what the grantor may sign
    Transfers,      \* funds a message may carry
    MaxNesting,     \* bound on calls within calls
    MaxUses         \* bound on the calls one grant pays for; MaxFunds does not limit them

Funds == [Denoms -> Nat]

NoFunds == [d \in Denoms |-> 0]

Limit == [type : {"MaxCalls", "MaxFunds", "Combined"}, calls : Nat, amounts : Funds]

Filter == [type : {"AllowAll", "Keys", "Messages"}, keys : SUBSET Keys,
           messages : SUBSET Payloads]

Grant == [contract : Contracts, limit : Limit, filter : Filter]

\* An authorization that is deleted has no grants left.
IsAuthorization(gs) == DOMAIN gs \subseteq Positions /\ gs \in [DOMAIN gs -> Grant]

Msg == [contract : Contracts, funds : Funds, payload : Payloads]

-----------------------------------------------------------------------------
(* ValidateBasic of limits, filters and authorizations.                     *)

LimitValid(l) ==
    CASE l.type = "MaxCalls" -> l.calls # 0
      [] l.type = "MaxFunds" -> l.amounts # NoFunds
      [] l.type = "Combined" -> l.calls # 0 /\ l.amounts # NoFunds

FilterValid(f) ==
    CASE f.type = "AllowAll" -> TRUE
      [] f.type = "Keys" -> f.keys # {}
      [] f.type = "Messages" -> f.messages # {}

GrantValid(g) == LimitValid(g.limit) /\ FilterValid(g.filter)

ValidateGrants(gs) == DOMAIN gs # {} /\ \A i \in DOMAIN gs : GrantValid(gs[i])

ASSUME GrantAssumption ==
    /\ Positions \subseteq Nat
    /\ Keys # {} /\ TopKey \in [Payloads -> Keys \cup {"none"}] /\ "none" \notin Keys
    /\ \A gs \in Authorizations : IsAuthorization(gs) /\ ValidateGrants(gs)
    /\ Transfers \subseteq Funds
    /\ MaxNesting \in Nat /\ MaxUses \in Nat

-----------------------------------------------------------------------------
IsAllLTE(a, b) == \A d \in Denoms : a[d] <= b[d]

Sub(a, b) == [d \in Denoms |-> a[d] - b[d]]

Add(a, b) == [d \in Denoms |-> a[d] + b[d]]

\* The results of a limit.
NotApplicable == [type |-> "no"]

AcceptedAsIs == [type |-> "accept"]

DeleteLimit == [type |-> "delete"]

UpdateLimit(l) == [type |-> "update", limit |-> l]

LimitError == [type |-> "error"]

\* MaxCallsLimit.Accept: no funds.
AcceptMaxCalls(l, m) ==
    IF m.funds # NoFunds THEN NotApplicable
    ELSE IF l.calls = 0 THEN LimitError
    ELSE IF l.calls = 1 THEN DeleteLimit
    ELSE UpdateLimit([l EXCEPT !.calls = @ - 1])

\* Mutant: a call within the budget does not reduce it.
AcceptMaxFundsNoUpdate(l, m) ==
    IF m.funds = NoFunds THEN AcceptedAsIs
    ELSE IF ~IsAllLTE(m.funds, l.amounts) THEN NotApplicable
    ELSE IF m.funds = l.amounts THEN DeleteLimit ELSE AcceptedAsIs

\* MaxFundsLimit.Accept: any number of calls without funds.
AcceptMaxFunds(l, m) ==
    IF m.funds = NoFunds THEN AcceptedAsIs
    ELSE IF ~IsAllLTE(m.funds, l.amounts) THEN NotApplicable
    ELSE IF Sub(l.amounts, m.funds) = NoFunds THEN DeleteLimit
    ELSE UpdateLimit([l EXCEPT !.amounts = Sub(@, m.funds)])

\* Mutant: the budget may be used up while calls are left.
AcceptCombinedCallsOnly(l, m) ==
    IF ~IsAllLTE(m.funds, l.amounts) THEN NotApplicable
    ELSE IF l.calls = 0 THEN LimitError
    ELSE IF l.calls = 1 THEN DeleteLimit
    ELSE UpdateLimit([l EXCEPT !.calls = @ - 1, !.amounts = Sub(@, m.funds)])

\* CombinedLimit.Accept
AcceptCombined(l, m) ==
    IF ~IsAllLTE(m.funds, l.amounts) THEN NotApplicable
    ELSE IF l.calls = 0 THEN LimitError
    ELSE IF l.calls = 1 \/ Sub(l.amounts, m.funds) = NoFunds THEN DeleteLimit
    ELSE UpdateLimit([l EXCEPT !.calls = @ - 1, !.amounts = Sub(@, m.funds)])

LimitAccept(l, m) ==
    CASE l.type = "MaxCalls" -> AcceptMaxCalls(l, m)
      [] l.type = "MaxFunds" -> AcceptMaxFunds(l, m)
      [] l.type = "Combined" -> AcceptCombined(l, m)

\* Accept of the filters.  The message has passed ValidateBasic, so no filter returns
\* an error.
FilterAccept(f, p) ==
    CASE f.type = "AllowAll" -> TRUE
      [] f.type = "Keys" -> TopKey[p] \in f.keys
      [] f.type = "Messages" -> p \in f.messages

\* The loop of AcceptGrantedMessage goes on past a grant for another contract, and past
\* one whose limit or filter does not apply.
Passes(g, m) ==
    \/ g.contract # m.contract
    \/ LimitAccept(g.limit, m) = NotApplicable
    \/ LimitAccept(g.limit, m).type # "error" /\ ~FilterAccept(g.filter, m.payload)

\* i is the grant at which the loop stops.
Decides(gs, m, i) ==
    /\ i \in DOMAIN gs /\ ~Passes(gs[i], m)
    /\ \A j \in DOMAIN gs : j < i => Passes(gs[j], m)

\* AcceptGrantedMessage: what the grant that decides makes of the authorization.  The
\* updated one is validated again.
AcceptGrantedMessage(gs, m, i) ==
    LET r == LimitAccept(gs[i].limit, m)
        new == IF r.type = "delete" THEN [j \in DOMAIN gs \ {i} |-> gs[j]]
               ELSE IF r.type = "update" THEN [gs EXCEPT ![i].limit = r.limit]
               ELSE gs
    IN  [ok |-> /\ Decides(gs, m, i)
                /\ r.type # "error"
                /\ DOMAIN new = {} \/ ValidateGrants(new),
         grants |-> new]

-----------------------------------------------------------------------------
VARIABLES
    auth,    \* the stored authorization of one grantee, as the running call sees it
    given,   \* what the grantor signed
    usage,   \* ghost: calls, funds and payloads that each grant has paid for
    execs    \* what the calls in progress fall back to

grantsVars == <<auth, given, usage, execs>>

Unused == [i \in Positions |-> [calls |-> 0, funds |-> NoFunds, payloads |-> {}]]

GrantsInit ==
    /\ given \in Authorizations
    /\ auth = given
    /\ usage = Unused
    /\ execs = << >>

\* MsgExec of authz with message m: accepted by grant i and saved, before the contract
\* runs.
Exec(m, i) ==
    /\ Len(execs) < MaxNesting
    /\ i \in DOMAIN auth /\ usage[i].calls < MaxUses
    /\ LET res == AcceptGrantedMessage(auth, m, i)
       IN  res.ok /\ auth' = res.grants
    /\ usage' = [usage EXCEPT ![i].calls = @ + 1,
                              ![i].funds = Add(@, m.funds),
                              ![i].payloads = @ \cup {m.payload}]
    /\ execs' = Append(execs, [auth |-> auth, used |-> usage])
    /\ UNCHANGED given

\* The innermost call succeeds.
ExecSucceeds ==
    /\ execs # << >>
    /\ execs' = SubSeq(execs, 1, Len(execs) - 1)
    /\ UNCHANGED <<auth, given, usage>>

\* The innermost call fails: its cache context is dropped, with the saved authorization.
ExecFails ==
    /\ execs # << >>
    /\ auth' = execs[Len(execs)].auth
    /\ usage' = execs[Len(execs)].used
    /\ execs' = SubSeq(execs, 1, Len(execs) - 1)
    /\ UNCHANGED given

\* The grantor signs another authorization, which replaces what is left.
MsgGrant ==
    /\ execs = << >>
    /\ given' \in Authorizations
    /\ auth' = given'
    /\ usage' = Unused
    /\ UNCHANGED execs

GrantsNext ==
    \/ \E c \in Contracts, f \in Transfers, p \in Payloads, i \in Positions :
        Exec([contract |-> c, funds |-> f, payload |-> p], i)
    \/ ExecSucceeds
    \/ ExecFails
    \/ MsgGrant

GrantsSpec == GrantsInit /\ [][GrantsNext]_grantsVars

-----------------------------------------------------------------------------
\* What is stored can always be used: when a grant applies to a call, neither "no calls
\* left" nor the validation of the new grant state refuses it, whatever has been used,
\* nested or rolled back before.
GrantedCallAccepted ==
    \A c \in Contracts, f \in Transfers, p \in Payloads, i \in DOMAIN auth :
        LET m == [contract |-> c, funds |-> f, payload |-> p]
        IN  Decides(auth, m, i) => AcceptGrantedMessage(auth, m, i).ok

HasCalls(l) == l.type \in {"MaxCalls", "Combined"}

HasFunds(l) == l.type \in {"MaxFunds", "Combined"}

\* What is left of a grant and what was used of it add up to what was granted.
Balanced(gs, us) ==
    \A i \in DOMAIN gs :
        /\ HasCalls(gs[i].limit) => gs[i].limit.calls + us[i].calls = given[i].limit.calls
        /\ HasFunds(gs[i].limit) =>
                Add(gs[i].limit.amounts, us[i].funds) = given[i].limit.amounts

\* A grant that is gone was used up, by its calls or by its funds, and never overdrawn.
Spent(l, use) ==
    /\ HasCalls(l) => use.calls <= l.calls
    /\ IsAllLTE(use.funds, l.amounts)
    /\ \/ HasCalls(l) /\ use.calls = l.calls
       \/ HasFunds(l) /\ use.funds = l.amounts

\* No interleaving of nested, failing and repeated calls lets a grantee call more often,
\* spend more or send other messages than a grant allows: what is used and what is left
\* of a grant add up to what was given, also when a call is rolled back below another that
\* goes on, a grant is removed only when it is spent, and each call that it paid for passes
\* its filter.
LimitsBalance ==
    /\ DOMAIN auth \subseteq DOMAIN given
    /\ Balanced(auth, usage)
    /\ \A i \in DOMAIN given \ DOMAIN auth : Spent(given[i].limit, usage[i])
    /\ \A i \in DOMAIN given : \A p \in usage[i].payloads : FilterAccept(given[i].filter, p)

=============================================================================

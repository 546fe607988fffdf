----------------------------- MODULE Dispatcher -----------------------------
(***************************************************************************)
(* Gas meters, events and response data of one transaction whose contracts *)
(* send sub-messages: DispatchSubmessages and dispatchMsgWithGasLimit of   *)
(* keeper/msg_dispatcher.go, execute, reply and handleContractResponse of  *)
(* keeper/keeper.go, and the discounts of TxContracts.                     *)
(*                                                                         *)
(* Every call of a contract has a number.  It writes its number to the     *)
(* store, emits one event with it and may return it as data, with its      *)
(* contract, so that the three can be compared.  The registry's part of    *)
(* the same code is in WasmTx.                                             *)
(***************************************************************************)
EXTENDS GasRegister

CONSTANTS
    Nil,
    Codes,       \* checksums
    Pinned,      \* checksums of pinned codes
    TxLimits,    \* gas limits of the transaction
    GasLimits,   \* gas limits of a sub-message, and Nil for none
    RunGas,      \* SDK gas of a run in the VM
    MaxMsgs,     \* bound on the messages of a response
    MaxDepth,    \* bound on the frames
    MaxCalls     \* bound on the calls of the transaction

ReplyOn == {"always", "success", "error", "never"}

VARIABLES
    stack,    \* the calls in progress
    meters,   \* their gas meters; a frame uses the last one
    store,    \* numbers written, as the innermost context sees them
    loaded,   \* TxContracts, shared by all contexts of the transaction
    fault,    \* what is on its way up: "none", "error", "outOfGas", "panic"
    calls,    \* numbers given out
    used,     \* ghost: gas of everything that was run
    full,     \* ghost: full setup costs charged for each code
    executed, \* ghost: codes that the VM has run in this transaction
    result    \* outcome of the transaction, Nil while it runs

dispatchVars == <<stack, meters, store, loaded, fault, calls, used, full, executed, result>>

\* A frame is a contract call.  ready: the response is there and its messages, left many,
\* are being dispatched.  A reply runs in its parent's context.
Frame == [code : Codes, ready : BOOLEAN, left : Nat, events : Seq(Nat),
          data : (Nat \X Codes) \cup {Nil},
          reply : BOOLEAN, replyOn : ReplyOn, limited : BOOLEAN, saved : SUBSET Nat]

Top == stack[Len(stack)]

Meter == meters[Len(meters)]

Remaining(m) == m.limit - m.consumed

NewFrame(code, reply, replyOn, limited) ==
    [code |-> code, ready |-> FALSE, left |-> 0, events |-> << >>, data |-> Nil,
     reply |-> reply, replyOn |-> replyOn, limited |-> limited, saved |-> store]

DispatchInit ==
    /\ \E c \in Codes : stack = <<[code |-> c, ready |-> FALSE, left |-> 0,
                                   events |-> << >>, data |-> Nil, reply |-> FALSE,
                                   replyOn |-> "never", limited |-> FALSE,
                                   saved |-> {}]>>
    /\ \E l \in TxLimits : meters = <<[limit |-> l, consumed |-> 0]>>
    /\ store = {} /\ loaded = {} /\ executed = {}
    /\ fault = "none" /\ result = Nil
    /\ calls = 0 /\ used = 0
    /\ full = [c \in Codes |-> 0]

-----------------------------------------------------------------------------
\* checkDiscountEligibility: a reply is always discounted.
DiscountEligible(f) == f.reply \/ f.code \in Pinned \/ f.code \in loaded

\* Mutant: a checksum is not remembered.
AddContractNever(f) == loaded

\* TxContracts.AddContract, before the costs are charged.
AddContract(f) == IF f.reply \/ f.code \in Pinned THEN loaded ELSE loaded \cup {f.code}

\* execute or reply up to the response: setup costs, the run in the VM with its gas, and
\* the contract's events, or an error.
Call(run, n, data, ok) ==
    LET f == Top
        discount == DiscountEligible(f)
        setup == SetupContractCost(discount, 0)
        charge(c) == meters' = [meters EXCEPT ![Len(meters)].consumed = @ + c]
    IN  /\ fault = "none" /\ stack # << >> /\ ~f.ready
        /\ calls < MaxCalls
        /\ calls' = calls + 1
        /\ loaded' = AddContract(f)
        /\ IF setup > Remaining(Meter)
           THEN /\ charge(setup)
                /\ fault' = "outOfGas"
                /\ UNCHANGED <<stack, store, used, full, executed>>
           ELSE /\ charge(setup + run)
                /\ run <= Remaining(Meter) - setup
                /\ used' = used + setup + run
                /\ full' = IF discount THEN full ELSE [full EXCEPT ![f.code] = @ + 1]
                /\ executed' = executed \cup {f.code}
                /\ IF setup + run >= Remaining(Meter)
                   THEN fault' = "outOfGas" /\ UNCHANGED <<stack, store>>
                   ELSE IF ~ok THEN fault' = "error" /\ UNCHANGED <<stack, store>>
                   ELSE /\ stack' = [stack EXCEPT ![Len(stack)] =
                               [f EXCEPT !.ready = TRUE, !.left = n,
                                         !.events = <<calls + 1>>,
                                         !.data = IF data THEN <<calls + 1, f.code>> ELSE Nil]]
                        /\ store' = store \cup {calls + 1}
                        /\ UNCHANGED fault
        /\ UNCHANGED result

\* A gas limit counts when it is below what the parent has left.
LimitGas(gasLimit, m) == gasLimit # Nil /\ gasLimit < Remaining(m)

\* DispatchSubmessages takes the next message.  It runs in a cache context with an event
\* manager of its own.
Dispatch(code, replyOn, gasLimit) ==
    /\ fault = "none" /\ stack # << >> /\ Top.ready /\ Top.left > 0
    /\ Len(stack) < MaxDepth
    /\ LET limited == LimitGas(gasLimit, Meter)
       IN  /\ stack' = Append([stack EXCEPT ![Len(stack)].left = @ - 1],
                              NewFrame(code, FALSE, replyOn, limited))
           /\ meters' = IF limited
                        THEN Append(meters, [limit |-> gasLimit, consumed |-> 0])
                        ELSE meters
    /\ UNCHANGED <<store, loaded, fault, calls, used, full, executed, result>>

\* The parent of a limited sub-message is charged.
ChargeParent(f, amount) ==
    IF ~f.limited THEN meters
    ELSE LET p == Len(meters) - 1
         IN  [SubSeq(meters, 1, p) EXCEPT ![p].consumed = @ + amount]

\* The stack after frame f, which has answered, is gone; the parent may have to reply.
Pop(parent, replies) ==
    LET below == Append(SubSeq(stack, 1, Len(stack) - 2), parent)
    IN  IF replies THEN Append(below, NewFrame(parent.code, TRUE, "never", FALSE)) ELSE below

\* Mutant: committing the context emits the events of a sub-message as well.
EmitTwice(parent, f) ==
    parent.events \o f.events \o (IF f.reply THEN << >> ELSE f.events)

\* The events go to the parent's event manager.  The sub-context has a new one, so that
\* committing it does not emit them as well.
Emit(parent, f) == parent.events \o f.events

\* The last reply that returns data decides; a sub-message's own data is only shown to the
\* reply.
ResponseData(parent, f) == IF f.reply /\ f.data # Nil THEN f.data ELSE parent.data

\* The innermost call is done: commit, emit, reply if asked for.
Return ==
    LET f == Top
        p == stack[Len(stack) - 1]
    IN  /\ fault = "none" /\ Len(stack) > 1 /\ f.ready /\ f.left = 0
        /\ meters' = ChargeParent(f, Meter.consumed)
        /\ stack' = Pop([p EXCEPT !.events = Emit(p, f), !.data = ResponseData(p, f)],
                        ~f.reply /\ f.replyOn \in {"always", "success"})
        /\ UNCHANGED <<store, loaded, fault, calls, used, full, executed, result>>

\* The cache context of a failed sub-message is not committed; a reply has none.
Revert(f) == IF f.reply THEN store ELSE f.saved

\* An error leaves the innermost call.  Its events are gone, and the parent handles the
\* error in a reply or fails too.
Fail ==
    LET f == Top
        p == stack[Len(stack) - 1]
        caught == ~f.reply /\ f.replyOn \in {"always", "error"}
    IN  /\ fault = "error" /\ Len(stack) > 1
        /\ meters' = ChargeParent(f, Meter.consumed)
        /\ store' = Revert(f)
        /\ stack' = Pop(p, caught)
        /\ fault' = IF caught THEN "none" ELSE "error"
        /\ UNCHANGED <<loaded, calls, used, full, executed, result>>

\* Mutant: only what the sub-message has used is charged.
OutOfGasChargeUsed(m) == 0

\* Out of gas in a limited sub-message costs the whole limit.
OutOfGasCharge(m) == m.limit

\* Out of gas unwinds the stack up to the innermost limited sub-message, where it becomes
\* an error.
OutOfGas ==
    LET limited == {i \in 2..Len(stack) : stack[i].limited}
        i == CHOOSE i \in limited : \A j \in limited : j <= i
        f == stack[i]
        caught == f.replyOn \in {"always", "error"}
        below == SubSeq(stack, 1, i - 1)
    IN  /\ fault = "outOfGas" /\ limited # {}
        /\ meters' = ChargeParent(f, OutOfGasCharge(Meter))
        /\ store' = f.saved
        /\ stack' = IF caught
                    THEN Append(below, NewFrame(stack[i - 1].code, TRUE, "never", FALSE))
                    ELSE below
        /\ fault' = IF caught THEN "none" ELSE "error"
        /\ UNCHANGED <<loaded, calls, used, full, executed, result>>

\* Any other panic goes through every limited sub-message, which charges its parent.
OtherPanic ==
    /\ fault = "none" /\ stack # << >> /\ ~Top.ready
    /\ fault' = "panic"
    /\ meters' = <<[limit |-> meters[1].limit,
                    consumed |-> FoldLeft(LAMBDA sum, m : sum + m.consumed, 0, meters)]>>
    /\ UNCHANGED <<stack, store, loaded, calls, used, full, executed, result>>

\* The transaction ends; everything is rolled back unless it succeeded.
EndTx ==
    /\ stack # << >>
    /\ LET good == fault = "none" /\ Len(stack) = 1 /\ Top.ready /\ Top.left = 0
           bad == \/ fault = "error" /\ Len(stack) = 1
                  \/ fault = "outOfGas" /\ \A i \in 1..Len(stack) : ~stack[i].limited
                  \/ fault = "panic"
       IN  /\ good \/ bad
           /\ store' = IF good THEN store ELSE {}
           /\ result' = [ok |-> good,
                         events |-> IF good THEN Top.events ELSE << >>,
                         data |-> IF good THEN Top.data ELSE Nil]
    /\ stack' = << >>
    /\ UNCHANGED <<meters, loaded, fault, calls, used, full, executed>>

DispatchNext ==
    \/ \E run \in RunGas, n \in 0..MaxMsgs, data, ok \in BOOLEAN : Call(run, n, data, ok)
    \/ \E c \in Codes, r \in ReplyOn, g \in GasLimits \cup {Nil} : Dispatch(c, r, g)
    \/ Return
    \/ Fail
    \/ OutOfGas
    \/ OtherPanic
    \/ EndTx

DispatchSpec == DispatchInit /\ [][DispatchNext]_dispatchVars

-----------------------------------------------------------------------------
TotalConsumed == FoldLeft(LAMBDA sum, m : sum + m.consumed, 0, meters)

\* A limited sub-message can never take more gas than its parent can pay, so charging the
\* parent does not run out of gas in turn.  Everything that was run is on a meter, also the
\* calls that were rolled back, and a transaction that succeeds stays within its limit.
GasAccounted ==
    /\ fault # "panic" =>
            \A i \in 2..Len(meters) : meters[i].limit < Remaining(meters[i - 1])
    /\ TotalConsumed >= used
    /\ result # Nil => (result.ok => meters[1].consumed <= meters[1].limit)

\* The events of a transaction are those of exactly the calls whose writes are kept, each
\* once and in the order of the calls.  The data that a call returns to its caller was
\* returned by the same contract, in the call or in one of its replies, and by a run whose
\* writes and events are kept: a sub-message's data never passes the contract that sent it.
EffectsMatchStore ==
    /\ result # Nil =>
        /\ ToSet(result.events) = store
        /\ \A i, j \in 1..Len(result.events) : i < j => result.events[i] < result.events[j]
    /\ \A i \in 1..Len(stack) : stack[i].ready /\ stack[i].data # Nil =>
        /\ stack[i].data[2] = stack[i].code
        /\ stack[i].data[1] \in store
        /\ stack[i].data[1] \in ToSet(stack[i].events)

\* The full price for a code is charged at most once in a transaction: a rolled back
\* sub-message does not make TxContracts forget what is loaded.
FullPriceOnce == \A c \in Codes : full[c] <= 1

\* The comment of TxContracts: a code in it has already been executed in this transaction.
\* The top frame is about to be run.
LoadedWasExecuted == fault = "none" => loaded \subseteq executed
=============================================================================

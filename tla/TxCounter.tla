----------------------------- MODULE TxCounter ------------------------------
(***************************************************************************)
(* The position of a transaction in its block, which contracts read as     *)
(* env.transaction.index: CountTXDecorator of x/wasm/keeper/ante.go, on    *)
(* several nodes that execute the same chain.                              *)
(*                                                                         *)
(* The nodes check and simulate transactions in any order between and      *)
(* during blocks, stop at any time, abandon a block that they execute      *)
(* again later, and may be rolled back to the previous height.  baseapp's  *)
(* stores and modes are external.                                          *)
(***************************************************************************)
EXTENDS Integers, FiniteSets, Sequences

CONSTANTS
    Nodes,
    Chain,         \* the blocks: sequences of transaction outcomes
    CounterRange,  \* 2^32: the counter is a uint32
    None           \* no entry

Outcome == {"ok", "anteFails", "msgFails"}

Heights == 1..Len(Chain)

ASSUME ChainAssumption ==
    /\ Chain \in Seq(Seq(Outcome))
    /\ CounterRange \in Nat \ {0}
    /\ \A h \in Heights : Len(Chain[h]) <= CounterRange
    /\ None \notin [height : Int, counter : Nat]

VARIABLES
    saved,    \* saved[n][h]: the counter entry committed at height h
    height,   \* the last committed height of each node
    deliver,  \* the entry as the block in progress sees it
    idx,      \* transactions of that block executed so far; -1 when there is none
    check,    \* the entry in the store of CheckTx
    seen      \* counters that contracts were shown: <<height, transaction, counter>>

counterVars == <<saved, height, deliver, idx, check, seen>>

Entry == [height : Nat, counter : 0..(CounterRange - 1)] \cup {None}

CounterInit ==
    /\ saved = [n \in Nodes |-> [h \in 0..Len(Chain) |-> None]]
    /\ height = [n \in Nodes |-> 0]
    /\ deliver = [n \in Nodes |-> None]
    /\ idx = [n \in Nodes |-> -1]
    /\ check = [n \in Nodes |-> None]
    /\ seen = [n \in Nodes |-> {}]

\* Mutant: the counter of an earlier block goes on.
LoadCounterAnyHeight(entry, h) == IF entry # None THEN entry.counter ELSE 0

\* The stored counter counts for its own height only.
LoadCounter(entry, h) ==
    IF entry # None /\ entry.height = h THEN entry.counter ELSE 0

\* AnteHandle: the entry stored for the next transaction.
NextEntry(entry, h) ==
    [height |-> h, counter |-> (LoadCounter(entry, h) + 1) % CounterRange]

-----------------------------------------------------------------------------
\* CheckTx runs the ante handlers only, at the last height, on its own store.
CheckTx(n) ==
    /\ check' = [check EXCEPT ![n] = NextEntry(check[n], height[n])]
    /\ UNCHANGED <<saved, height, deliver, idx, seen>>

BeginBlock(n) ==
    /\ idx[n] = -1 /\ height[n] < Len(Chain)
    /\ deliver' = [deliver EXCEPT ![n] = saved[n][height[n]]]
    /\ idx' = [idx EXCEPT ![n] = 0]
    /\ UNCHANGED <<saved, height, check, seen>>

\* A transaction that fails in the ante handlers leaves nothing; one whose messages fail
\* keeps what the ante handlers wrote, and its contracts have seen the counter.
DeliverTx(n, h, i) ==
    IF Chain[h][i] = "anteFails" THEN UNCHANGED <<deliver, seen>>
    ELSE /\ deliver' = [deliver EXCEPT ![n] = NextEntry(deliver[n], h)]
         /\ seen' = [seen EXCEPT ![n] = @ \cup {<<h, i, LoadCounter(deliver[n], h)>>}]

ExecuteTx(n) ==
    LET h == height[n] + 1
    IN  /\ idx[n] >= 0 /\ idx[n] < Len(Chain[h])
        /\ DeliverTx(n, h, idx[n] + 1)
        /\ idx' = [idx EXCEPT ![n] = @ + 1]
        /\ UNCHANGED <<saved, height, check>>

Commit(n) ==
    LET h == height[n] + 1
    IN  /\ idx[n] >= 0 /\ idx[n] = Len(Chain[h])
        /\ saved' = [saved EXCEPT ![n][h] = deliver[n]]
        /\ height' = [height EXCEPT ![n] = h]
        /\ check' = [check EXCEPT ![n] = deliver[n]]
        /\ idx' = [idx EXCEPT ![n] = -1]
        /\ UNCHANGED <<deliver, seen>>

\* The process stops, or abandons the block it is executing.
Crash(n) ==
    /\ idx' = [idx EXCEPT ![n] = -1]
    /\ check' = [check EXCEPT ![n] = saved[n][height[n]]]
    /\ UNCHANGED <<saved, height, deliver, seen>>

\* The operator rolls the stopped node back by one height.
Rollback(n) ==
    /\ idx[n] = -1 /\ height[n] > 0
    /\ height' = [height EXCEPT ![n] = @ - 1]
    /\ check' = [check EXCEPT ![n] = saved[n][height[n] - 1]]
    /\ UNCHANGED <<saved, deliver, idx, seen>>

CounterNext ==
    \E n \in Nodes : \/ CheckTx(n)
                     \/ BeginBlock(n)
                     \/ ExecuteTx(n)
                     \/ Commit(n)
                     \/ Crash(n)
                     \/ Rollback(n)

CounterSpec == CounterInit /\ [][CounterNext]_counterVars

-----------------------------------------------------------------------------
\* Transactions of block h before the i-th that pass the ante handlers.
Before(h, i) == {j \in 1..(i - 1) : Chain[h][j] # "anteFails"}

\* The counter that contracts see is the number of transactions before theirs in the
\* block that passed the ante handlers.  It depends on nothing a node does on its own:
\* checks, crashes, repeated and rolled back blocks.
CounterExact ==
    \A n \in Nodes : \A s \in seen[n] : s[3] = Cardinality(Before(s[1], s[2]))

=============================================================================

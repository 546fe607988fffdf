------------------------------ MODULE Registry ------------------------------
(***************************************************************************)
(* What x/wasm promises of its committed state: a ledger of codes and      *)
(* contracts that transactions extend one at a time, each as a whole.      *)
(* Nothing is ever taken out of it or rewritten: a code keeps its bytes    *)
(* and its creator, a contract its creator and its time of creation, and   *)
(* the history of a contract only grows, up to the code it runs.           *)
(***************************************************************************)
EXTENDS Integers, Sequences

CONSTANTS Address, CodeID, Nil

VARIABLE registry  \* codes, contracts and the histories of the contracts

Empty ==
    [codes     |-> [id \in CodeID |-> Nil],
     contracts |-> [a \in Address |-> Nil],
     history   |-> [a \in Address |-> <<>>]]

\* Every contract has a history that ends with the code it runs, all codes of it
\* exist, and nothing else has a history.
Complete(r) ==
    \A a \in Address :
        IF r.contracts[a] = Nil THEN r.history[a] = <<>>
        ELSE /\ r.history[a] # <<>>
             /\ r.history[a][Len(r.history[a])].codeID = r.contracts[a].codeID
             /\ \A i \in 1..Len(r.history[a]) : r.codes[r.history[a][i].codeID] # Nil

Extends(r, q) ==
    /\ \A id \in CodeID : r.codes[id] # Nil => q.codes[id] = r.codes[id]
    /\ \A a \in Address : r.contracts[a] # Nil =>
            /\ q.contracts[a] # Nil
            /\ q.contracts[a].creator = r.contracts[a].creator
            /\ q.contracts[a].created = r.contracts[a].created
    /\ \A a \in Address :
            /\ Len(r.history[a]) <= Len(q.history[a])
            /\ \A i \in 1..Len(r.history[a]) : q.history[a][i] = r.history[a][i]

Init == registry = Empty

\* A transaction, with all its messages, sub-messages and replies.
Transaction == Complete(registry') /\ Extends(registry, registry')

Spec == Init /\ [][Transaction]_registry
=============================================================================

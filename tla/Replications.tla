---------------------------- MODULE Replications ----------------------------
(***************************************************************************)
(* What src/src/monte_carlo.rs promises of either backend: independent     *)
(* replications, "results are returned in seed order, and a panic in any   *)
(* worker is re-raised on the calling thread", when all of them are over.  *)
(***************************************************************************)
EXTENDS Naturals, Sequences, FiniteSetsExt

CONSTANTS
  Replication, \* the numbers of the replications, 1..n
  Value(_)     \* what the closure returns for each, when it returns

VARIABLES
  started,  \* replications that were started
  over,     \* and those that came to an end,
  panicked, \* some of them by a panic
  outcome   \* of the call

replVars == <<started, over, panicked, outcome>>

Pending == [kind |-> "pending", value |-> <<>>]
Returned == [kind |-> "returned", value |-> [i \in Replication |-> Value(i)]]
Raised == [kind |-> "raised", value |-> Min(panicked)]
Failed == [kind |-> "failed", value |-> <<>>]

Init == started = {} /\ over = {} /\ panicked = {} /\ outcome = Pending

Start(i) ==
  /\ outcome = Pending
  /\ started' = started \cup {i}
  /\ UNCHANGED <<over, panicked, outcome>>

Settle(i) ==
  /\ outcome = Pending /\ i \in started \ over
  /\ over' = over \cup {i}
  /\ panicked' \in {panicked, panicked \cup {i}}
  /\ UNCHANGED <<started, outcome>>

\* Every replication is over: the results in order, or the first panic.
Conclude ==
  /\ outcome = Pending /\ over = Replication
  /\ UNCHANGED <<started, over, panicked>>
  /\ outcome' = IF panicked = {} THEN Returned ELSE Raised

\* They could not all be started: no thread is orphaned all the same.
GiveUp ==
  /\ outcome = Pending /\ started # Replication /\ over = started
  /\ UNCHANGED <<started, over, panicked>>
  /\ outcome' = Failed

Next == (\E i \in Replication : Start(i) \/ Settle(i)) \/ Conclude \/ GiveUp

Spec == Init /\ [][Next]_replVars

=============================================================================

-------------------------- MODULE ResourceRefinement --------------------------
(***************************************************************************)
(* Resource implements UnitPool: the owners are the live guards and the    *)
(* requests handed a unit, the line is the live part of the heap in order. *)
(* Creating futures, spurious polls, collecting a unit that was handed     *)
(* over and dropping inert futures are stutters.                           *)
(***************************************************************************)
EXTENDS Resource, Sequences

\* The place of e in a heap W, the entry at place i, and W in the order in
\* which it is popped.
Rank(W, e) == Cardinality({f \in W : Before(f, e)}) + 1

At(W, i) == CHOOSE e \in W : Rank(W, e) = i

Ordered(W) == [i \in 1..Cardinality(W) |-> [req |-> At(W, i).req, key |-> At(W, i).key]]

Line == Ordered(LiveWaiters)

Pool == INSTANCE UnitPool WITH owners <- Owners, line <- Line

\* Every step of the resource is a step of the abstract pool or invisible to
\* it: flags, tombstones and the two-phase hand-over never show.
ImplementsUnitPool == Pool!Spec

=============================================================================

------------------------- MODULE PreemptiveRefinement -------------------------
(***************************************************************************)
(* PreemptiveResource implements PreemptivePool, as long as only requests  *)
(* too weak to evict anyone are re-polled while they are parked: the       *)
(* owners are the holders and the requests handed a unit, the line is the  *)
(* live part of the heap in order.  Spurious polls, dropping inert futures *)
(* and dropping the guard of an evicted holder are stutters.               *)
(***************************************************************************)
EXTENDS PreemptiveResource, ResourceRefinement

Contended == INSTANCE PreemptivePool
  WITH owners <- Held \cup Handed, line <- Line, collected <- Held, urgency <- priority

\* Every step of the pool is a step of the abstract one or invisible to it: an
\* eviction moves one unit from the least urgent holder to the newcomer, who is
\* not queued besides, and neither the evicted guard nor a unit still in flight
\* ever shows as a second unit.
ImplementsPreemptivePool == Contended!PreemptivePoolSpec

=============================================================================

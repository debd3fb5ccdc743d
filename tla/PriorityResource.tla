--------------------------- MODULE PriorityResource ---------------------------
(***************************************************************************)
(* src/src/resource/priority.rs: WaitQueue<u32> behind the same request    *)
(* future and guard as Resource.  The file repeats resource/mod.rs with    *)
(* the priority as the key, so its handlers are the actions of Resource    *)
(* over a set Keys of priorities (a smaller number is served first).       *)
(***************************************************************************)
EXTENDS ResourceRefinement

PriorityRequest(r) == Request(r)

PriorityRequestPoll(r) == Poll(r)

PriorityRequestDrop(r) == DropRequest(r)

PriorityGuardDrop(r) == DropGuard(r)

PriorityNext ==
  \E r \in Req : \/ PriorityRequest(r)
                 \/ PriorityRequestPoll(r)
                 \/ PriorityRequestDrop(r)
                 \/ PriorityGuardDrop(r)

PrioritySpec == Init /\ [][PriorityNext]_vars

\* The fairness of Resource, whose actions these are.
PriorityFairSpec == PrioritySpec /\ Fairness

=============================================================================

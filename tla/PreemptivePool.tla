---------------------------- MODULE PreemptivePool ----------------------------
(***************************************************************************)
(* What a preemptive pool promises its clients, without flags, records or  *)
(* heap: the owners and the line of UnitPool, and a newcomer may take the  *)
(* unit of a strictly less urgent owner, the least urgent of them.  Only   *)
(* an owner that has collected its unit can lose it.  What an evicted      *)
(* owner does with its guard later is nothing the pool can notice.         *)
(***************************************************************************)
EXTENDS UnitPool

VARIABLES
  urgency,   \* the key of each request, a smaller one is served first
  collected  \* the owners that hold a guard; the others were promised a unit

preemptivePoolVars == <<poolVars, urgency, collected>>

PreemptivePoolInit ==
  /\ Init
  /\ urgency \in [Req -> Keys]
  /\ collected = {}

TakeFree(r) == Take(r) /\ collected' = collected \cup {r}

\* Nobody waits who found a holder to evict when it arrived.
EnterLine(r) ==
  /\ Enter(r, urgency[r])
  /\ \A o \in collected : urgency[o] <= urgency[r]
  /\ UNCHANGED collected

\* The newcomer passes the line and has the unit of v in the same step.
Evict(r, v) ==
  /\ r \notin owners \cup Waiting
  /\ Cardinality(owners) = Capacity
  /\ v \in collected
  /\ urgency[r] < urgency[v]
  /\ \A o \in collected : urgency[o] <= urgency[v]
  /\ owners' = (owners \ {v}) \cup {r}
  /\ collected' = (collected \ {v}) \cup {r}
  /\ UNCHANGED line

Collect(r) ==
  /\ r \in owners \ collected
  /\ collected' = collected \cup {r}
  /\ UNCHANGED poolVars

LeaveLine(r) == Leave(r) /\ UNCHANGED collected

GiveUnitBack(r) == GiveBack(r) /\ collected' = collected \ {r}

PreemptivePoolNext ==
  /\ UNCHANGED urgency
  /\ \E r \in Req : \/ TakeFree(r)
                    \/ EnterLine(r)
                    \/ \E v \in Req : Evict(r, v)
                    \/ Collect(r)
                    \/ LeaveLine(r)
                    \/ GiveUnitBack(r)

PreemptivePoolSpec == PreemptivePoolInit /\ [][PreemptivePoolNext]_preemptivePoolVars

=============================================================================

------------------------------- MODULE UnitPool -------------------------------
(***************************************************************************)
(* What a unit-pool resource promises its clients, without flags, counters *)
(* or heap: at most Capacity owners, and a line of waiting requests served *)
(* strictly in order of (key, arrival).  A unit given back goes to the     *)
(* head of the line in the same step.                                      *)
(***************************************************************************)
EXTENDS Integers, FiniteSets, Sequences, SequencesExt

CONSTANTS Req, Keys, Capacity

VARIABLES
  owners,  \* the requests that own a unit
  line     \* the waiting requests, next to be served first: [req, key]

poolVars == <<owners, line>>

Waiting == {line[i].req : i \in 1..Len(line)}

Init == owners = {} /\ line = <<>>

\* A unit is only taken when nobody waits for one.
Take(r) ==
  /\ r \notin owners
  /\ line = <<>>
  /\ Cardinality(owners) < Capacity
  /\ owners' = owners \cup {r}
  /\ UNCHANGED line

\* A newcomer stands behind everyone whose key is not larger than its own.
Enter(r, k) ==
  /\ r \notin owners \cup Waiting
  /\ Cardinality(owners) = Capacity
  /\ \E i \in 1..Len(line) + 1 :
       /\ \A j \in 1..Len(line) : j < i <=> line[j].key <= k
       /\ line' = InsertAt(line, i, [req |-> r, key |-> k])
  /\ UNCHANGED owners

\* A waiting request gives up; the others keep their places.
Leave(r) ==
  /\ \E i \in 1..Len(line) : line[i].req = r /\ line' = RemoveAt(line, i)
  /\ UNCHANGED owners

GiveBack(r) ==
  /\ r \in owners
  /\ IF line = <<>>
       THEN owners' = owners \ {r} /\ UNCHANGED line
       ELSE owners' = (owners \ {r}) \cup {Head(line).req} /\ line' = Tail(line)

Next ==
  \E r \in Req : \/ Take(r)
                 \/ \E k \in Keys : Enter(r, k)
                 \/ Leave(r)
                 \/ GiveBack(r)

Spec == Init /\ [][Next]_poolVars

=============================================================================

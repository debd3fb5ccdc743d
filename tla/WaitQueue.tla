------------------------------ MODULE WaitQueue ------------------------------
(***************************************************************************)
(* src/src/resource/wait_queue.rs: a pool of interchangeable units and the *)
(* ordered queue of requests blocked on it.  A released unit is handed     *)
(* directly to the next live waiter, so it is never observably free.       *)
(*                                                                         *)
(* This module holds the state and the three operations every unit-pool    *)
(* resource is built from; Resource and PreemptiveResource extend it.      *)
(*                                                                         *)
(* Req is the set of request futures the clients may ever create (each     *)
(* used at most once); Keys is the type K: one value for the FIFO          *)
(* resource, priorities (lower first) for the others.                      *)
(***************************************************************************)
EXTENDS Integers, FiniteSets

CONSTANTS Req, Keys, Capacity

ASSUME ReqAssumption == IsFiniteSet(Req)
ASSUME KeysAssumption == Keys \subseteq Nat
\* Resource::new and PriorityResource::new reject a zero capacity.
ASSUME CapacityAssumption == Capacity \in Nat \ {0}

VARIABLES
  inUse,     \* units taken, held or handed over and not yet collected
  nextSeq,   \* the next FIFO tie-breaker
  waiters,   \* the heap: a set of entries, its order is Before
  canceled,  \* requests whose shared `canceled` flag is set
  granted,   \* requests whose shared `granted` flag is set
  woken      \* requests whose waker was called and that were not polled since

poolVars == <<inUse, nextSeq, waiters, canceled, granted, woken>>

Entry == [req : Req, key : Keys, seq : Nat]

PoolTypeOK ==
  /\ inUse \in 0..Capacity
  /\ nextSeq \in Nat
  /\ waiters \subseteq Entry
  /\ canceled \subseteq Req
  /\ granted \subseteq Req
  /\ woken \subseteq Req

PoolInit ==
  /\ inUse = 0
  /\ nextSeq = 0
  /\ waiters = {}
  /\ canceled = {}
  /\ granted = {}
  /\ woken = {}

\* Entry::cmp: ascending key, first in first out within a key.
Before(e, f) == e.key < f.key \/ (e.key = f.key /\ e.seq < f.seq)

LiveWaiters == {e \in waiters : e.req \notin canceled}

\* Mutant: off by one.
HasFreeUnitOffByOne == inUse <= Capacity

HasFreeUnit == inUse < Capacity

TryAcquire ==
  /\ HasFreeUnit
  /\ inUse' = inUse + 1
  /\ UNCHANGED <<nextSeq, waiters, canceled, granted>>

Register(r, k) ==
  /\ waiters' = waiters \cup {[req |-> r, key |-> k, seq |-> nextSeq]}
  /\ nextSeq' = nextSeq + 1
  /\ UNCHANGED <<inUse, canceled, granted>>

\* Mutant: the unit is freed and the waiter left to race for it.
HandOverFreesUnit(e) ==
  /\ \A f \in LiveWaiters \ {e} : Before(e, f)
  /\ waiters' = {f \in waiters : Before(e, f)}
  /\ granted' = granted \cup {e.req}
  /\ woken' = woken \cup {e.req}
  /\ inUse' = inUse - 1

\* Mutant: the waiter is granted the unit and not woken.
HandOverSilently(e) ==
  /\ \A f \in LiveWaiters \ {e} : Before(e, f)
  /\ waiters' = {f \in waiters : Before(e, f)}
  /\ granted' = granted \cup {e.req}
  /\ UNCHANGED <<inUse, woken>>

\* Mutant: any live waiter is served.
HandOverAny(e) ==
  /\ waiters' = waiters \ {e}
  /\ granted' = granted \cup {e.req}
  /\ woken' = woken \cup {e.req}
  /\ UNCHANGED inUse

\* release, a live waiter exists: the canceled entries ahead of it are popped
\* and discarded with it, and its unit stays counted in inUse.
HandOver(e) ==
  /\ \A f \in LiveWaiters \ {e} : Before(e, f)
  /\ waiters' = {f \in waiters : Before(e, f)}
  /\ granted' = granted \cup {e.req}
  /\ woken' = woken \cup {e.req}
  /\ UNCHANGED inUse

\* Mutant: the unit is not returned to the pool.
FreeForgotten ==
  /\ LiveWaiters = {}
  /\ waiters' = {}
  /\ UNCHANGED <<inUse, granted, woken>>

\* release, only canceled entries are queued: all are popped, the unit frees.
Free ==
  /\ LiveWaiters = {}
  /\ waiters' = {}
  /\ inUse' = inUse - 1
  /\ UNCHANGED <<granted, woken>>

Release ==
  /\ Free \/ \E e \in LiveWaiters : HandOver(e)
  /\ UNCHANGED <<nextSeq, canceled>>

=============================================================================

------------------------------- MODULE Resource -------------------------------
(***************************************************************************)
(* src/src/resource/mod.rs: request futures and RAII guards over a         *)
(* WaitQueue.  resource/priority.rs is the same code with a u32 key; the   *)
(* key set is the parameter Keys here ({0} stands for K = ()), and         *)
(* PriorityResource maps these actions to that file.                       *)
(*                                                                         *)
(* Clients are arbitrary: at any moment any live future may be polled, by  *)
(* a wake or spuriously (any_of and all_of re-poll every child), and any   *)
(* future or guard may be dropped.                                         *)
(***************************************************************************)
EXTENDS WaitQueue

VARIABLES
  priority,    \* the key the request was created with
  requested,   \* futures created
  dropped,     \* futures dropped
  registered,  \* futures whose `registered` field is set
  consumed,    \* futures whose `consumed` field is set
  guards       \* requests whose guard is alive

requestVars == <<priority, requested, dropped, registered, consumed, guards>>
vars == <<poolVars, requestVars>>

\* Futures that may be polled: after Ready a future is never polled again.
Pollable == requested \ (dropped \cup consumed)

TypeOK ==
  /\ PoolTypeOK
  /\ priority \in [Req -> Keys]
  /\ requested \subseteq Req
  /\ dropped \subseteq requested
  /\ registered \subseteq requested
  /\ consumed \subseteq requested
  /\ guards \subseteq consumed

Init ==
  /\ PoolInit
  /\ priority \in [Req -> Keys]
  /\ requested = {}
  /\ dropped = {}
  /\ registered = {}
  /\ consumed = {}
  /\ guards = {}

Request(r) ==
  /\ r \notin requested
  /\ requested' = requested \cup {r}
  /\ UNCHANGED <<poolVars, priority, dropped, registered, consumed, guards>>

\* Poll::Ready(guard).
Resolve(r) ==
  /\ consumed' = consumed \cup {r}
  /\ guards' = guards \cup {r}
  /\ UNCHANGED <<priority, requested, dropped, registered>>

\* A released unit was handed to this request: take it.
PollGranted(r) ==
  /\ r \in granted
  /\ Resolve(r)
  /\ UNCHANGED <<inUse, nextSeq, waiters, canceled, granted>>

\* A unit is free.  The code asks for one whether or not it is registered.
PollAcquire(r) ==
  /\ r \notin granted
  /\ TryAcquire
  /\ Resolve(r)

\* Mutant: queued again on every poll.
PollParkAgain(r) ==
  /\ r \notin granted
  /\ ~HasFreeUnit
  /\ Register(r, priority[r])
  /\ registered' = registered \cup {r}
  /\ UNCHANGED <<priority, requested, dropped, consumed, guards>>

PollPark(r) ==
  /\ r \notin granted \cup registered
  /\ ~HasFreeUnit
  /\ Register(r, priority[r])
  /\ registered' = registered \cup {r}
  /\ UNCHANGED <<priority, requested, dropped, consumed, guards>>

\* A re-poll of a parked request changes nothing: it is queued only once.
PollPending(r) ==
  /\ r \in registered \ granted
  /\ ~HasFreeUnit
  /\ UNCHANGED <<inUse, nextSeq, waiters, canceled, granted, requestVars>>

Poll(r) ==
  /\ r \in Pollable
  /\ woken' = woken \ {r}
  /\ PollGranted(r) \/ PollAcquire(r) \/ PollPark(r) \/ PollPending(r)

\* The unit belongs to the guard, or the future never asked for one.
DropInert(r) ==
  /\ r \in consumed \/ r \notin granted \cup registered
  /\ UNCHANGED poolVars

\* Mutant: a granted future is dropped like any other.
DropGrantedLeaks(r) ==
  /\ r \in granted \ consumed
  /\ UNCHANGED poolVars

\* Granted and never collected: the unit is passed on.
DropGranted(r) ==
  /\ r \in granted \ consumed
  /\ Release

\* Mutant: the queue entry of a dropped future stays live.
DropParkedSilently(r) ==
  /\ r \in registered \ (granted \cup consumed)
  /\ UNCHANGED poolVars

DropParked(r) ==
  /\ r \in registered \ (granted \cup consumed)
  /\ canceled' = canceled \cup {r}
  /\ UNCHANGED <<inUse, nextSeq, waiters, granted, woken>>

DropRequest(r) ==
  /\ r \in requested \ dropped
  /\ dropped' = dropped \cup {r}
  /\ DropInert(r) \/ DropGranted(r) \/ DropParked(r)
  /\ UNCHANGED <<priority, requested, registered, consumed, guards>>

DropGuard(r) ==
  /\ r \in guards
  /\ guards' = guards \ {r}
  /\ Release
  /\ UNCHANGED <<priority, requested, dropped, registered, consumed>>

Next == \E r \in Req : Request(r) \/ Poll(r) \/ DropRequest(r) \/ DropGuard(r)

Spec == Init /\ [][Next]_vars

-----------------------------------------------------------------------------
\* Requests a released unit was handed to that have not collected it yet.
Handed == granted \ (consumed \cup dropped)

\* Requests that account for a unit of the pool.
Owners == guards \cup Handed

\* Every unit in use has exactly one owner: a live guard, or a live request
\* it was handed to.  No unit is leaked or counted twice, whichever future or
\* guard is dropped and when.
UnitsAccounted == inUse = Cardinality(Owners)

\* A unit is never free while a live request waits: what try_acquire relies on
\* to send a newcomer behind the waiters instead of past them.
NoFreeUnitWhileWaiting == LiveWaiters # {} => ~HasFreeUnit

\* The queue holds one live entry per parked future, and none for a future
\* that was granted a unit, took one, or is gone.
QueueMatchesRequests ==
  /\ {e.req : e \in LiveWaiters} = registered \ (granted \cup consumed \cup dropped)
  /\ \A e, f \in waiters : e.req = f.req => e = f

\* A unit is never given to an abandoned request, where nobody would return it.
NoGrantToCanceled == granted \cap canceled = {}

\* Whoever was handed a unit has a wake outstanding: no stranded owner.
HandedAreWoken == Handed \subseteq woken

\* What the flags and the queue owe each other in between: only dropped futures
\* are canceled, and only futures that registered have entries or are granted.
FlagsCohere ==
  /\ canceled \subseteq dropped
  /\ {e.req : e \in waiters} \cup granted \subseteq registered

\* Arrival numbers are handed out once, so that Before orders the entries.
TicketsDistinct ==
  /\ \A e \in waiters : e.seq < nextSeq
  /\ \A e, f \in waiters : e.seq = f.seq => e = f

\* Everything the queue, the flags and the wakes owe each other.  None of it
\* depends on how many units are in use, so that PreemptiveResource keeps it too.
QueueInv ==
  /\ FlagsCohere
  /\ QueueMatchesRequests
  /\ TicketsDistinct
  /\ NoFreeUnitWhileWaiting
  /\ NoGrantToCanceled
  /\ HandedAreWoken
  /\ woken \subseteq granted

\* The inductive invariant: the parts lean on each other, so that hardly any is
\* preserved by every step on its own.
IInv ==
  /\ TypeOK
  /\ QueueInv
  /\ UnitsAccounted

\* A request obtains a unit in this step, directly or by hand-over.
Obtains(r) == r \in (Owners' \ Owners)

\* No overtaking: a request that obtains a unit while another stays parked was
\* itself parked ahead of it.  A newcomer never barges past a waiter.
InOrder ==
  \A r \in Req : Obtains(r) =>
    \A f \in LiveWaiters' : \E e \in waiters : e.req = r /\ Before(e, f)

NoOvertaking == [][InOrder]_vars

\* The executor polls every task it was asked to wake (env.rs, poll_ready),
\* and clients are assumed to drop each guard in the end.
Fairness ==
  \A r \in Req : WF_vars(r \in woken /\ Poll(r)) /\ WF_vars(DropGuard(r))

FairSpec == Spec /\ Fairness

\* No stuck queue: a parked request is served unless it is abandoned, even if
\* other waiters ahead of it are abandoned before or after being granted.
ParkedIsServed == \A r \in Req : r \in registered ~> r \in consumed \cup dropped

=============================================================================

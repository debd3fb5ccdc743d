---------------------------- MODULE ResourceProofs ----------------------------
(***************************************************************************)
(* Proofs about Resource (and so about PriorityResource, whose actions are *)
(* the same): IInv is inductive for every set of requests, every set of    *)
(* keys and every capacity, and it implies the safety properties.          *)
(*                                                                         *)
(* The lemmas ...Queue carry QueueInv through one operation each and use   *)
(* nothing of the unit count: PreemptiveProofs cites them as well.         *)
(***************************************************************************)
EXTENDS Resource, FiniteSetTheorems, TLAPS

-----------------------------------------------------------------------------
(* The queue, the flags and the wakes. *)

\* The entry a release serves is the only one to leave the live waiters: the
\* entries popped ahead of it were canceled.
LEMMA HandOverServesOne ==
  ASSUME TypeOK, NEW e \in LiveWaiters, HandOver(e), canceled' = canceled
  PROVE  LiveWaiters' = LiveWaiters \ {e}
<1>1. e \in Entry
  BY DEF TypeOK, PoolTypeOK, LiveWaiters
<1>2. e.key \in Nat /\ e.seq \in Nat
  BY <1>1, KeysAssumption DEF Entry
<1>3. ~Before(e, e)
  BY <1>2 DEF Before
<1>4. QED
  BY <1>3 DEF HandOver, LiveWaiters

\* A poll that finds a free unit belongs to a future that is not queued: the
\* guard the code leaves out of try_acquire is implied.
LEMMA AcquirersAreFresh ==
  ASSUME QueueInv, NEW r \in Pollable, r \notin granted, HasFreeUnit
  PROVE  r \notin registered
BY DEF QueueInv, Pollable, NoFreeUnitWhileWaiting, QueueMatchesRequests

\* What every release does to the queue and the flags, for its two callers: a
\* guard's drop and the drop of a granted future.
LEMMA ReleaseQueue ==
  ASSUME TypeOK, QueueInv, Release, registered' = registered, consumed' = consumed,
         NEW r \in granted \cup consumed, dropped' \in {dropped, dropped \cup {r}}
  PROVE  QueueInv'
<1> USE DEF QueueInv, FlagsCohere, QueueMatchesRequests, NoFreeUnitWhileWaiting,
            NoGrantToCanceled, HandedAreWoken, Handed
<1>1. CASE Free
  BY <1>1 DEF Free, Release, LiveWaiters, TicketsDistinct
<1>2. CASE \E e \in LiveWaiters : HandOver(e)
  <2>1. PICK e \in LiveWaiters : HandOver(e)
    BY <1>2
  <2>2. canceled' = canceled /\ nextSeq' = nextSeq
    BY DEF Release
  <2>3. LiveWaiters' = LiveWaiters \ {e}
    BY <2>1, <2>2, HandOverServesOne
  <2>4. /\ waiters' \subseteq waiters
        /\ granted' = granted \cup {e.req}
        /\ woken' = woken \cup {e.req}
        /\ inUse' = inUse
    BY <2>1 DEF HandOver
  <2>5. e \in waiters /\ e.req \notin canceled
    BY DEF LiveWaiters
  <2>6. {f.req : f \in LiveWaiters'} = {f.req : f \in LiveWaiters} \ {e.req}
    BY <2>3, <2>5 DEF LiveWaiters
  <2>7. QueueMatchesRequests'
    BY <2>4, <2>6
  <2>8. NoFreeUnitWhileWaiting' /\ TicketsDistinct'
    BY <2>2, <2>3, <2>4 DEF HasFreeUnit, TicketsDistinct
  <2>9. FlagsCohere' /\ NoGrantToCanceled' /\ HandedAreWoken' /\ (woken \subseteq granted)'
    BY <2>2, <2>4, <2>5
  <2>10. QED
    BY <2>7, <2>8, <2>9
<1>3. QED
  BY <1>1, <1>2 DEF Release

\* The queue says nothing of futures that were never polled.
LEMMA RequestQueue ==
  ASSUME QueueInv, NEW r, Request(r)
  PROVE  QueueInv'
BY DEF Request, poolVars, QueueInv, FlagsCohere, QueueMatchesRequests, TicketsDistinct,
   NoFreeUnitWhileWaiting, HasFreeUnit, LiveWaiters, NoGrantToCanceled, HandedAreWoken, Handed

LEMMA PollGrantedQueue ==
  ASSUME QueueInv, NEW r, woken' = woken \ {r}, PollGranted(r)
  PROVE  QueueInv'
<1> USE DEF PollGranted, Resolve, QueueInv
<1>1. FlagsCohere' /\ QueueMatchesRequests' /\ TicketsDistinct' /\ NoFreeUnitWhileWaiting'
  BY DEF FlagsCohere, QueueMatchesRequests, TicketsDistinct, NoFreeUnitWhileWaiting,
     HasFreeUnit, LiveWaiters
<1>2. NoGrantToCanceled' /\ HandedAreWoken' /\ (woken \subseteq granted)'
  BY DEF NoGrantToCanceled, HandedAreWoken, Handed
<1>3. QED
  BY <1>1, <1>2

LEMMA PollAcquireQueue ==
  ASSUME QueueInv, NEW r \in Pollable, woken' = woken \ {r}, PollAcquire(r)
  PROVE  QueueInv'
<1> USE DEF PollAcquire, TryAcquire, Resolve, QueueInv
<1>1. r \notin registered
  BY AcquirersAreFresh
<1>2. LiveWaiters = {} /\ LiveWaiters' = {}
  BY DEF NoFreeUnitWhileWaiting, LiveWaiters
<1>3. FlagsCohere' /\ QueueMatchesRequests' /\ TicketsDistinct' /\ NoFreeUnitWhileWaiting'
  BY <1>1, <1>2 DEF FlagsCohere, QueueMatchesRequests, TicketsDistinct, NoFreeUnitWhileWaiting
<1>4. NoGrantToCanceled' /\ HandedAreWoken' /\ (woken \subseteq granted)'
  BY DEF NoGrantToCanceled, HandedAreWoken, Handed
<1>5. QED
  BY <1>3, <1>4

\* A parked request's entry is new and last of its key.
LEMMA PollParkQueue ==
  ASSUME TypeOK, QueueInv, NEW r \in Pollable, woken' = woken \ {r}, PollPark(r)
  PROVE  QueueInv'
<1> DEFINE e == [req |-> r, key |-> priority[r], seq |-> nextSeq]
<1> USE DEF PollPark, Register, QueueInv
<1>1. r \notin granted /\ r \notin dropped /\ r \notin consumed /\ r \notin registered
  BY DEF Pollable
<1>2. waiters' = waiters \cup {e} /\ e.req = r /\ e.seq = nextSeq
  OBVIOUS
<1>3. r \notin canceled /\ \A f \in waiters : f.req # r
  BY <1>1 DEF FlagsCohere
<1>4. LiveWaiters' = LiveWaiters \cup {e}
  BY <1>2, <1>3 DEF LiveWaiters
<1>5. {f.req : f \in LiveWaiters'} = {f.req : f \in LiveWaiters} \cup {r}
  BY <1>2, <1>4
<1>6. QueueMatchesRequests'
  BY <1>1, <1>2, <1>3, <1>5 DEF QueueMatchesRequests
<1>7. TicketsDistinct'
  <2>1. \A f \in waiters : f.seq \in Nat /\ f.seq < nextSeq
    BY DEF TypeOK, PoolTypeOK, Entry, TicketsDistinct
  <2>2. nextSeq \in Nat /\ nextSeq' = nextSeq + 1
    BY DEF TypeOK, PoolTypeOK
  <2>3. QED
    BY <1>2, <2>1, <2>2 DEF TicketsDistinct
<1>8. FlagsCohere' /\ NoFreeUnitWhileWaiting' /\ NoGrantToCanceled'
  BY <1>2 DEF FlagsCohere, NoFreeUnitWhileWaiting, HasFreeUnit, NoGrantToCanceled
<1>9. HandedAreWoken' /\ (woken \subseteq granted)'
  BY <1>1 DEF HandedAreWoken, Handed
<1>10. QED
  BY <1>6, <1>7, <1>8, <1>9

LEMMA PollPendingQueue ==
  ASSUME QueueInv, NEW r, woken' = woken \ {r}, PollPending(r)
  PROVE  QueueInv'
BY DEF PollPending, requestVars, QueueInv, FlagsCohere, QueueMatchesRequests, TicketsDistinct,
   NoFreeUnitWhileWaiting, HasFreeUnit, LiveWaiters, NoGrantToCanceled, HandedAreWoken, Handed

LEMMA DropInertQueue ==
  ASSUME QueueInv, NEW r, DropRequest(r), DropInert(r)
  PROVE  QueueInv'
<1>1. /\ UNCHANGED <<inUse, nextSeq, waiters, canceled, granted, woken, registered, consumed>>
      /\ dropped' = dropped \cup {r}
      /\ r \in consumed \/ r \notin granted \cup registered
  BY DEF DropRequest, DropInert, poolVars
<1>2. FlagsCohere' /\ QueueMatchesRequests' /\ TicketsDistinct' /\ NoFreeUnitWhileWaiting'
  BY <1>1 DEF QueueInv, FlagsCohere, QueueMatchesRequests, TicketsDistinct,
     NoFreeUnitWhileWaiting, HasFreeUnit, LiveWaiters
<1>3. NoGrantToCanceled' /\ HandedAreWoken' /\ (woken \subseteq granted)'
  BY <1>1 DEF QueueInv, NoGrantToCanceled, HandedAreWoken, Handed
<1>4. QED
  BY <1>2, <1>3 DEF QueueInv

\* The entry of a dropped future stays in the heap and is live no more.
LEMMA DropParkedQueue ==
  ASSUME QueueInv, NEW r, DropRequest(r), DropParked(r)
  PROVE  QueueInv'
<1>1. /\ UNCHANGED <<inUse, nextSeq, waiters, granted, woken, registered, consumed>>
      /\ dropped' = dropped \cup {r}
      /\ canceled' = canceled \cup {r}
      /\ r \in registered \ (granted \cup consumed)
  BY DEF DropRequest, DropParked
<1>2. LiveWaiters' = {e \in LiveWaiters : e.req # r}
  BY <1>1 DEF LiveWaiters
<1>3. {e.req : e \in LiveWaiters'} = {e.req : e \in LiveWaiters} \ {r}
  BY <1>2
<1>4. QueueMatchesRequests'
  BY <1>1, <1>3 DEF QueueInv, QueueMatchesRequests
<1>5. FlagsCohere' /\ TicketsDistinct' /\ NoFreeUnitWhileWaiting'
  BY <1>1, <1>2 DEF QueueInv, FlagsCohere, TicketsDistinct, NoFreeUnitWhileWaiting, HasFreeUnit
<1>6. NoGrantToCanceled' /\ HandedAreWoken' /\ (woken \subseteq granted)'
  BY <1>1 DEF QueueInv, NoGrantToCanceled, HandedAreWoken, Handed
<1>7. QED
  BY <1>4, <1>5, <1>6 DEF QueueInv

LEMMA DropRequestQueue ==
  ASSUME TypeOK, QueueInv, NEW r, DropRequest(r)
  PROVE  QueueInv'
<1>1. CASE DropInert(r)
  BY <1>1, DropInertQueue
<1>2. CASE DropGranted(r)
  BY <1>2, ReleaseQueue DEF DropRequest, DropGranted
<1>3. CASE DropParked(r)
  BY <1>3, DropParkedQueue
<1>4. QED
  BY <1>1, <1>2, <1>3 DEF DropRequest

LEMMA DropGuardQueue ==
  ASSUME TypeOK, QueueInv, NEW r, DropGuard(r)
  PROVE  QueueInv'
BY ReleaseQueue DEF DropGuard, TypeOK

-----------------------------------------------------------------------------
(* The types and the unit count. *)

\* The owners are finitely many, so that they can be counted.
LEMMA OwnersFinite ==
  ASSUME TypeOK
  PROVE  Owners \subseteq Req /\ IsFiniteSet(Owners) /\ Cardinality(Owners) \in Nat
<1>1. Owners \subseteq Req
  BY DEF TypeOK, PoolTypeOK, Owners, Handed
<1>2. QED
  BY <1>1, ReqAssumption, FS_Subset, FS_CardinalityType

\* Giving back the unit of an owner r keeps the bookkeeping exact, whether the
\* unit frees or moves on to a waiter.
LEMMA ReleaseAccounts ==
  ASSUME IInv, NEW r \in Owners, Release,
         dropped' \ {r} = dropped \ {r}, consumed' = consumed,
         r \notin guards', r \notin Handed', guards' \cup {r} = guards \cup {r}
  PROVE  inUse' \in 0..Capacity /\ inUse' = Cardinality(Owners')
<1> USE CapacityAssumption
<1>1. TypeOK /\ IsFiniteSet(Owners) /\ Cardinality(Owners) \in Nat
  BY OwnersFinite DEF IInv
<1>2. IsFiniteSet(Owners \ {r}) /\ Cardinality(Owners \ {r}) = Cardinality(Owners) - 1
  BY <1>1, FS_RemoveElement
<1>3. Cardinality(Owners \ {r}) \in Nat
  BY <1>2, FS_CardinalityType
<1>4. inUse \in 0..Capacity /\ inUse = Cardinality(Owners)
  BY DEF IInv, UnitsAccounted, TypeOK, PoolTypeOK
<1>5. CASE Free
  <2>1. Owners' = Owners \ {r}
    BY <1>5 DEF Free, Owners, Handed
  <2>2. inUse' = inUse - 1
    BY <1>5 DEF Free
  <2>3. QED
    BY <2>1, <2>2, <1>1, <1>2, <1>3, <1>4
<1>6. CASE \E e \in LiveWaiters : HandOver(e)
  <2>1. PICK e \in LiveWaiters : HandOver(e)
    BY <1>6
  <2>2. e.req \in registered \ (granted \cup consumed \cup dropped)
    BY <2>1 DEF IInv, QueueInv, QueueMatchesRequests
  <2>3. e.req \notin Owners /\ e.req # r
    BY <2>2, <1>1 DEF Owners, Handed, TypeOK
  <2>4. Owners' = (Owners \ {r}) \cup {e.req}
    BY <2>1, <2>2, <2>3 DEF HandOver, Owners, Handed
  <2>5. Cardinality(Owners') = Cardinality(Owners \ {r}) + 1
    BY <2>3, <2>4, <1>2, FS_AddElement
  <2>6. inUse' = inUse
    BY <2>1 DEF HandOver
  <2>7. QED
    BY <2>5, <2>6, <1>1, <1>2, <1>3, <1>4
<1>7. QED
  BY <1>5, <1>6 DEF Release

LEMMA ReleaseTypes ==
  ASSUME TypeOK, Release
  PROVE  /\ nextSeq' \in Nat
         /\ waiters' \subseteq Entry
         /\ canceled' \subseteq Req
         /\ granted' \subseteq Req
         /\ woken' \subseteq Req
<1>1. TypeOK /\ LiveWaiters \subseteq Entry
  BY DEF TypeOK, PoolTypeOK, LiveWaiters
<1>2. QED
  BY <1>1 DEF TypeOK, PoolTypeOK, Release, Free, HandOver, Entry

LEMMA InitIInv == Init => IInv
<1> SUFFICES ASSUME Init PROVE IInv
  OBVIOUS
<1> USE DEF Init, PoolInit
<1>1. TypeOK
  BY CapacityAssumption DEF TypeOK, PoolTypeOK
<1>2. QueueInv
  BY DEF QueueInv, FlagsCohere, QueueMatchesRequests, TicketsDistinct,
     NoFreeUnitWhileWaiting, NoGrantToCanceled, HandedAreWoken, Handed, LiveWaiters
<1>3. Owners = {}
  BY DEF Owners, Handed
<1>4. UnitsAccounted
  BY <1>3, FS_EmptySet DEF UnitsAccounted
<1>5. QED
  BY <1>1, <1>2, <1>4 DEF IInv

LEMMA RequestIInv ==
  ASSUME IInv, NEW r \in Req, Request(r)
  PROVE  IInv'
<1>1. Owners' = Owners
  BY DEF Request, poolVars, Owners, Handed
<1>2. TypeOK' /\ UnitsAccounted'
  BY <1>1 DEF Request, poolVars, IInv, TypeOK, PoolTypeOK, UnitsAccounted
<1>3. QED
  BY <1>2, RequestQueue DEF IInv

LEMMA PollGrantedIInv ==
  ASSUME IInv, NEW r \in Pollable, woken' = woken \ {r}, PollGranted(r)
  PROVE  IInv'
<1> USE DEF PollGranted, Resolve, Pollable
<1>1. Owners' = Owners
  BY DEF Owners, Handed
<1>2. TypeOK' /\ UnitsAccounted'
  BY <1>1 DEF IInv, TypeOK, PoolTypeOK, UnitsAccounted
<1>3. QED
  BY <1>2, PollGrantedQueue DEF IInv

LEMMA PollAcquireIInv ==
  ASSUME IInv, NEW r \in Pollable, woken' = woken \ {r}, PollAcquire(r)
  PROVE  IInv'
<1> USE DEF PollAcquire, TryAcquire, Resolve
<1>1. r \in Req /\ r \in requested /\ r \notin Owners
  BY DEF IInv, TypeOK, Pollable, Owners, Handed
<1>2. TypeOK' /\ inUse \in Nat
  BY <1>1, CapacityAssumption DEF IInv, TypeOK, PoolTypeOK, HasFreeUnit
<1>3. Owners' = Owners \cup {r}
  BY DEF Owners, Handed
<1>4. UnitsAccounted'
  BY <1>1, <1>2, <1>3, OwnersFinite, FS_AddElement DEF IInv, UnitsAccounted
<1>5. QED
  BY <1>2, <1>4, PollAcquireQueue DEF IInv

LEMMA PollParkIInv ==
  ASSUME IInv, NEW r \in Pollable, woken' = woken \ {r}, PollPark(r)
  PROVE  IInv'
<1> DEFINE e == [req |-> r, key |-> priority[r], seq |-> nextSeq]
<1> USE DEF PollPark, Register
<1>1. r \in Req /\ r \in requested
  BY DEF IInv, TypeOK, Pollable
<1>2. e \in Entry
  BY <1>1 DEF IInv, TypeOK, PoolTypeOK, Entry
<1>3. Owners' = Owners
  BY DEF Owners, Handed
<1>4. TypeOK' /\ UnitsAccounted'
  BY <1>1, <1>2, <1>3 DEF IInv, TypeOK, PoolTypeOK, UnitsAccounted
<1>5. QED
  BY <1>4, PollParkQueue DEF IInv

LEMMA PollPendingIInv ==
  ASSUME IInv, NEW r \in Pollable, woken' = woken \ {r}, PollPending(r)
  PROVE  IInv'
<1> USE DEF PollPending, requestVars
<1>1. Owners' = Owners
  BY DEF Owners, Handed
<1>2. TypeOK' /\ UnitsAccounted'
  BY <1>1 DEF IInv, TypeOK, PoolTypeOK, UnitsAccounted
<1>3. QED
  BY <1>2, PollPendingQueue DEF IInv

LEMMA DropRequestIInv ==
  ASSUME IInv, NEW r \in Req, DropRequest(r)
  PROVE  IInv'
<1>1. /\ UNCHANGED <<priority, requested, registered, consumed, guards>>
      /\ dropped' = dropped \cup {r} /\ r \in requested \ dropped
  BY DEF DropRequest
<1>2. CASE DropGranted(r)
  <2>1. r \in granted \ consumed /\ Release
    BY <1>2 DEF DropGranted
  <2>2. r \in Owners /\ r \notin guards' /\ r \notin Handed'
    BY <1>1, <2>1 DEF IInv, TypeOK, Owners, Handed
  <2>3. inUse' \in 0..Capacity /\ inUse' = Cardinality(Owners')
    BY <1>1, <2>1, <2>2, ReleaseAccounts
  <2>4. TypeOK'
    BY <1>1, <2>1, <2>3, ReleaseTypes DEF IInv, TypeOK, PoolTypeOK
  <2>5. QED
    BY <2>3, <2>4, DropRequestQueue DEF IInv, UnitsAccounted
<1>3. CASE DropInert(r) \/ DropParked(r)
  <2>1. /\ UNCHANGED <<inUse, nextSeq, waiters, granted, woken>>
        /\ canceled' \in {canceled, canceled \cup {r}}
        /\ r \in consumed \/ r \notin granted
    BY <1>3 DEF DropInert, DropParked, poolVars
  <2>2. Owners' = Owners
    BY <1>1, <2>1 DEF Owners, Handed
  <2>3. TypeOK' /\ UnitsAccounted'
    BY <1>1, <2>1, <2>2 DEF IInv, TypeOK, PoolTypeOK, UnitsAccounted
  <2>4. QED
    BY <2>3, DropRequestQueue DEF IInv
<1>4. QED
  BY <1>2, <1>3 DEF DropRequest

LEMMA DropGuardIInv ==
  ASSUME IInv, NEW r \in Req, DropGuard(r)
  PROVE  IInv'
<1>1. /\ UNCHANGED <<priority, requested, dropped, registered, consumed>>
      /\ r \in guards /\ guards' = guards \ {r} /\ Release
  BY DEF DropGuard
<1>2. r \in consumed
  BY <1>1 DEF IInv, TypeOK
<1>3. r \in Owners /\ r \notin guards' /\ r \notin Handed'
  BY <1>1, <1>2 DEF Owners, Handed
<1>4. inUse' \in 0..Capacity /\ inUse' = Cardinality(Owners')
  BY <1>1, <1>3, ReleaseAccounts
<1>5. TypeOK'
  BY <1>1, <1>4, ReleaseTypes DEF IInv, TypeOK, PoolTypeOK
<1>6. QED
  BY <1>4, <1>5, DropGuardQueue DEF IInv, UnitsAccounted

\* Nothing of the invariant is about anything but the variables.
LEMMA StutterIInv ==
  ASSUME IInv, UNCHANGED vars
  PROVE  IInv'
<1> USE DEF vars, poolVars, requestVars
<1>1. Owners' = Owners
  BY DEF Owners, Handed
<1>2. TypeOK' /\ UnitsAccounted'
  BY <1>1 DEF IInv, TypeOK, PoolTypeOK, UnitsAccounted
<1>3. QueueInv'
  BY DEF IInv, QueueInv, FlagsCohere, QueueMatchesRequests, TicketsDistinct,
     NoFreeUnitWhileWaiting, HasFreeUnit, LiveWaiters, NoGrantToCanceled,
     HandedAreWoken, Handed
<1>4. QED
  BY <1>2, <1>3 DEF IInv

LEMMA NextIInv == IInv /\ [Next]_vars => IInv'
<1> SUFFICES ASSUME IInv, [Next]_vars PROVE IInv'
  OBVIOUS
<1>1. ASSUME NEW r \in Req, Request(r) PROVE IInv'
  BY <1>1, RequestIInv
<1>2. ASSUME NEW r \in Req, Poll(r) PROVE IInv'
  <2>1. r \in Pollable /\ woken' = woken \ {r}
    BY <1>2 DEF Poll
  <2>2. CASE PollGranted(r)
    BY <2>1, <2>2, PollGrantedIInv
  <2>3. CASE PollAcquire(r)
    BY <2>1, <2>3, PollAcquireIInv
  <2>4. CASE PollPark(r)
    BY <2>1, <2>4, PollParkIInv
  <2>5. CASE PollPending(r)
    BY <2>1, <2>5, PollPendingIInv
  <2>6. QED
    BY <1>2, <2>2, <2>3, <2>4, <2>5 DEF Poll
<1>3. ASSUME NEW r \in Req, DropRequest(r) PROVE IInv'
  BY <1>3, DropRequestIInv
<1>4. ASSUME NEW r \in Req, DropGuard(r) PROVE IInv'
  BY <1>4, DropGuardIInv
<1>5. CASE UNCHANGED vars
  BY <1>5, StutterIInv
<1>6. QED
  BY <1>1, <1>2, <1>3, <1>4, <1>5 DEF Next

\* IInv holds in every reachable state, for all requests, keys and capacities.
THEOREM Inductive == Spec => []IInv
<1>1. QED
  BY InitIInv, NextIInv, PTL DEF Spec

\* Every variable keeps its type; in particular in_use never underflows in
\* WaitQueue::release nor exceeds the capacity.
THEOREM TypeCorrect == Spec => []TypeOK
<1>1. IInv => TypeOK
  BY DEF IInv
<1>2. QED
  BY <1>1, Inductive, PTL

\* No unit is leaked or counted twice, whatever is dropped and when.
THEOREM Accounting == Spec => []UnitsAccounted
<1>1. IInv => UnitsAccounted
  BY DEF IInv
<1>2. QED
  BY <1>1, Inductive, PTL

\* The claim of WaitQueue::try_acquire's comment: a newcomer polled while a
\* live request waits finds no free unit.
THEOREM DirectHandoff == Spec => []NoFreeUnitWhileWaiting
<1>1. IInv => NoFreeUnitWhileWaiting
  BY DEF IInv, QueueInv
<1>2. QED
  BY <1>1, Inductive, PTL

\* The queue, the flags and the wakes agree with the futures and guards.
THEOREM QueueCorrect ==
  Spec => [](QueueMatchesRequests /\ NoGrantToCanceled /\ HandedAreWoken)
<1>1. IInv => QueueMatchesRequests /\ NoGrantToCanceled /\ HandedAreWoken
  BY DEF IInv, QueueInv
<1>2. QED
  BY <1>1, Inductive, PTL

\* A release serves the first live waiter and leaves the others behind it.
LEMMA ReleaseInOrder ==
  ASSUME IInv, NEW r \in Req, Release, NEW s \in Req, consumed' = consumed,
         guards' \subseteq guards, dropped \subseteq dropped', Obtains(s)
  PROVE  \A f \in LiveWaiters' : \E e \in waiters : e.req = s /\ Before(e, f)
<1>1. s \in Handed' \ Handed
  BY DEF Obtains, Owners
<1>2. s \in granted' /\ s \notin granted
  BY <1>1 DEF Handed
<1>3. PICK e \in LiveWaiters : HandOver(e)
  BY <1>2 DEF Release, Free
<1>4. e.req = s /\ e \in waiters
  BY <1>2, <1>3 DEF HandOver, LiveWaiters
<1>5. \A f \in waiters' : Before(e, f)
  BY <1>3 DEF HandOver
<1>6. QED
  BY <1>4, <1>5 DEF LiveWaiters

\* No request obtains a unit past a live waiter that precedes it, neither by
\* barging in nor by a release: FIFO within a key, lower keys first.
THEOREM Ordering == Spec => NoOvertaking
<1>1. IInv /\ Next => InOrder
  <2> SUFFICES ASSUME IInv, Next, NEW s \in Req, Obtains(s)
               PROVE  \A f \in LiveWaiters' : \E e \in waiters : e.req = s /\ Before(e, f)
    BY DEF InOrder
  <2>1. ASSUME NEW r \in Req, Request(r) PROVE FALSE
    BY <2>1 DEF Request, poolVars, Obtains, Owners, Handed
  <2>2. ASSUME NEW r \in Req, Poll(r) PROVE LiveWaiters' = {}
    <3>1. CASE PollAcquire(r)
      BY <3>1 DEF PollAcquire, TryAcquire, LiveWaiters, IInv, QueueInv,
         NoFreeUnitWhileWaiting
    <3>2. CASE PollGranted(r) \/ PollPark(r) \/ PollPending(r)
      BY <2>2, <3>2 DEF PollGranted, PollPark, PollPending, Resolve, Register, requestVars,
         Poll, Pollable, Obtains, Owners, Handed
    <3>3. QED
      BY <2>2, <3>1, <3>2 DEF Poll
  <2>3. ASSUME NEW r \in Req, DropRequest(r)
        PROVE  \A f \in LiveWaiters' : \E e \in waiters : e.req = s /\ Before(e, f)
    <3>1. CASE DropGranted(r)
      BY <2>3, <3>1, ReleaseInOrder DEF DropRequest, DropGranted
    <3>2. CASE DropInert(r) \/ DropParked(r)
      BY <2>3, <3>2 DEF DropRequest, DropInert, DropParked, poolVars, Obtains, Owners, Handed
    <3>3. QED
      BY <2>3, <3>1, <3>2 DEF DropRequest
  <2>4. ASSUME NEW r \in Req, DropGuard(r)
        PROVE  \A f \in LiveWaiters' : \E e \in waiters : e.req = s /\ Before(e, f)
    BY <2>4, ReleaseInOrder DEF DropGuard
  <2>5. QED
    BY <2>1, <2>2, <2>3, <2>4 DEF Next
<1>2. QED
  BY <1>1, Inductive, PTL DEF Spec, NoOvertaking

=============================================================================

--------------------------- MODULE PreemptiveProofs ---------------------------
(***************************************************************************)
(* Proofs about PreemptiveResource, for all requests, keys and capacities  *)
(* and whether or not parked requests are re-polled: the live guards that  *)
(* were not evicted are the holder records, and they fit the capacity.     *)
(*                                                                         *)
(* When parked requests evict on a re-poll, in_use may count units nobody  *)
(* owns any more (run preemptive_leak), so the accounting is an inequality *)
(* first: at least the owners are counted, which keeps release from        *)
(* underflowing and the guards within the capacity.  The last section      *)
(* proves it an equality, and the queue exact, when no re-polled request   *)
(* is urgent enough to evict anyone.                                       *)
(***************************************************************************)
EXTENDS PreemptiveResource, ResourceProofs, SequenceLemmas

-----------------------------------------------------------------------------
(* Whether or not parked requests are re-polled. *)

\* Requests that own a unit: holders, and live requests it was handed to.
Units == Held \cup Handed

\* The inductive invariant: no guard is evicted before it exists, and every
\* owned unit is counted.
HInv ==
  /\ PreemptTypeOK
  /\ HoldersAreLiveGuards
  /\ preempted \subseteq consumed
  /\ Cardinality(Units) <= inUse

LEMMA UnitsFinite ==
  ASSUME PreemptTypeOK
  PROVE  Units \subseteq Req /\ IsFiniteSet(Units) /\ Cardinality(Units) \in Nat
<1>1. Held \subseteq Req
  BY DEF PreemptTypeOK, Held, ToSet
<1>2. Handed \subseteq Req
  BY DEF PreemptTypeOK, TypeOK, PoolTypeOK, Handed
<1>3. QED
  BY <1>1, <1>2, ReqAssumption, FS_Subset, FS_CardinalityType DEF Units

\* A release by one owner leaves the others counted, and never underflows.
LEMMA ReleaseCounts ==
  ASSUME HInv, NEW r \in Units, Release, consumed' = consumed,
         dropped \subseteq dropped', Held' = Held \ {r}, r \notin Handed'
  PROVE  inUse' \in 0..Capacity /\ Cardinality(Units') <= inUse'
<1> USE CapacityAssumption
<1>1. IsFiniteSet(Units) /\ Cardinality(Units) \in Nat
  BY UnitsFinite DEF HInv
<1>2. /\ IsFiniteSet(Units \ {r}) /\ Cardinality(Units \ {r}) = Cardinality(Units) - 1
      /\ Cardinality(Units \ {r}) \in Nat
  BY <1>1, FS_RemoveElement, FS_CardinalityType
<1>3. inUse \in 0..Capacity /\ Cardinality(Units) <= inUse
  BY DEF HInv, PreemptTypeOK, TypeOK, PoolTypeOK
<1>4. CASE Free
  <2>1. Units' \subseteq Units \ {r}
    BY <1>4 DEF Free, Units, Handed
  <2>2. Cardinality(Units') <= Cardinality(Units \ {r})
    BY <1>2, <2>1, FS_Subset
  <2>3. inUse' = inUse - 1
    BY <1>4 DEF Free
  <2>4. Cardinality(Units') \in Nat
    BY <1>2, <2>1, FS_Subset, FS_CardinalityType
  <2>5. QED
    BY <1>1, <1>2, <1>3, <2>2, <2>3, <2>4
<1>5. CASE \E e \in LiveWaiters : HandOver(e)
  <2>1. PICK e \in LiveWaiters : HandOver(e)
    BY <1>5
  <2>2. Units' \subseteq (Units \ {r}) \cup {e.req}
    BY <2>1 DEF HandOver, Units, Handed
  <2>3. /\ IsFiniteSet((Units \ {r}) \cup {e.req})
        /\ Cardinality((Units \ {r}) \cup {e.req}) \in Nat
        /\ Cardinality((Units \ {r}) \cup {e.req}) <= Cardinality(Units \ {r}) + 1
    <3>1. /\ IsFiniteSet((Units \ {r}) \cup {e.req})
          /\ Cardinality((Units \ {r}) \cup {e.req}) =
               IF e.req \in Units \ {r} THEN Cardinality(Units \ {r}) ELSE Cardinality(Units \ {r}) + 1
      BY <1>2, FS_AddElement
    <3>2. QED
      BY <1>2, <3>1
  <2>4. /\ Cardinality(Units') <= Cardinality((Units \ {r}) \cup {e.req})
        /\ Cardinality(Units') \in Nat
    BY <2>2, <2>3, FS_Subset, FS_CardinalityType
  <2>5. inUse' = inUse
    BY <2>1 DEF HandOver
  <2>6. QED
    BY <1>1, <1>2, <1>3, <2>3, <2>4, <2>5
<1>6. QED
  BY <1>4, <1>5 DEF Release

LEMMA InitHInv == PreemptInit => HInv
<1> SUFFICES ASSUME PreemptInit PROVE HInv
  OBVIOUS
<1> USE DEF PreemptInit, Init, PoolInit
<1>1. PreemptTypeOK
  BY CapacityAssumption DEF PreemptTypeOK, TypeOK, PoolTypeOK
<1>2. Held = {}
  BY DEF Held, ToSet
<1>3. HoldersAreLiveGuards
  BY <1>2 DEF HoldersAreLiveGuards, IsInjective
<1>4. Units = {}
  BY <1>2 DEF Units, Handed
<1>5. QED
  BY <1>1, <1>3, <1>4, FS_EmptySet DEF HInv

\* A request that is polled holds nothing yet.
LEMMA PolledHoldsNothing ==
  ASSUME HInv, NEW r \in Pollable
  PROVE  r \in Req /\ r \notin consumed /\ r \notin dropped /\ r \in requested
         /\ r \notin guards /\ r \notin preempted /\ r \notin Held
BY DEF HInv, PreemptTypeOK, TypeOK, Pollable, HoldersAreLiveGuards

LEMMA PollGrantedHInv ==
  ASSUME HInv, NEW r \in Pollable, woken' = woken \ {r}, PreemptPollGranted(r)
  PROVE  HInv'
<1> USE DEF PreemptPollGranted, PollGranted, Resolve, Grant
<1>1. r \in Req /\ r \notin preempted /\ r \notin Held /\ r \in requested /\ r \in Handed
  BY PolledHoldsNothing DEF Handed
<1>2. holders' \in Seq(Req) /\ IsInjective(holders') /\ Held' = Held \cup {r}
  BY <1>1, AppendSet DEF HInv, PreemptTypeOK, HoldersAreLiveGuards, Held
<1>3. PreemptTypeOK'
  BY <1>1, <1>2 DEF HInv, PreemptTypeOK, TypeOK, PoolTypeOK
<1>4. HoldersAreLiveGuards' /\ (preempted \subseteq consumed)'
  BY <1>1, <1>2 DEF HInv, HoldersAreLiveGuards
<1>5. Units' = Units
  BY <1>1, <1>2 DEF Units, Handed
<1>6. QED
  BY <1>3, <1>4, <1>5 DEF HInv

LEMMA PollFreeHInv ==
  ASSUME HInv, NEW r \in Pollable, woken' = woken \ {r}, PollFree(r)
  PROVE  HInv'
<1> USE DEF PollFree, PollAcquire, TryAcquire, Resolve, Grant
<1>1. r \in Req /\ r \notin preempted /\ r \notin Held /\ r \in requested /\ r \notin Units
  BY PolledHoldsNothing DEF Handed, Units
<1>2. holders' \in Seq(Req) /\ IsInjective(holders') /\ Held' = Held \cup {r}
  BY <1>1, AppendSet DEF HInv, PreemptTypeOK, HoldersAreLiveGuards, Held
<1>3. PreemptTypeOK' /\ inUse \in Nat
  BY <1>1, <1>2, CapacityAssumption DEF HInv, PreemptTypeOK, TypeOK, PoolTypeOK, HasFreeUnit
<1>4. HoldersAreLiveGuards' /\ (preempted \subseteq consumed)'
  BY <1>1, <1>2 DEF HInv, HoldersAreLiveGuards
<1>5. Units' = Units \cup {r}
  BY <1>1, <1>2 DEF Units, Handed
<1>6. Cardinality(Units') = Cardinality(Units) + 1 /\ Cardinality(Units) \in Nat
  BY <1>1, <1>5, UnitsFinite, FS_AddElement DEF HInv
<1>7. QED
  BY <1>3, <1>4, <1>6 DEF HInv

LEMMA PollPreemptHInv ==
  ASSUME HInv, NEW r \in Pollable, woken' = woken \ {r}, PollPreempt(r)
  PROVE  HInv'
<1> USE DEF PollPreempt, Resolve
<1>1. PICK i \in 1..Len(holders) : /\ holders' = Append(RemoveAt(holders, i), r)
                                   /\ preempted' = preempted \cup {holders[i]}
  BY DEF Victims
<1> DEFINE v == holders[i]
<1>2. r \in Req /\ r \notin preempted /\ r \notin Held /\ r \in requested /\ r \notin Units
  BY PolledHoldsNothing DEF Handed, Units
<1>3. v \in Held /\ holders \in Seq(Req) /\ IsInjective(holders)
  BY DEF HInv, PreemptTypeOK, HoldersAreLiveGuards, Held, ToSet
<1>4. /\ RemoveAt(holders, i) \in Seq(Req) /\ IsInjective(RemoveAt(holders, i))
      /\ ToSet(RemoveAt(holders, i)) = Held \ {v}
  BY <1>3, RemoveAtSet DEF Held
<1>5. holders' \in Seq(Req) /\ IsInjective(holders') /\ Held' = (Held \ {v}) \cup {r}
  BY <1>1, <1>2, <1>4, AppendSet DEF Held
<1> HIDE DEF v
<1>6. v \in guards /\ v \in consumed /\ v \in Req /\ v # r /\ preempted' = preempted \cup {v}
  BY <1>1, <1>2, <1>3 DEF HInv, PreemptTypeOK, TypeOK, HoldersAreLiveGuards, v
<1>7. PreemptTypeOK'
  BY <1>2, <1>5, <1>6 DEF HInv, PreemptTypeOK, TypeOK, PoolTypeOK
<1>8. HoldersAreLiveGuards' /\ (preempted \subseteq consumed)'
  BY <1>2, <1>3, <1>5, <1>6 DEF HInv, HoldersAreLiveGuards
<1>9. Units' = (Units \ {v}) \cup {r} /\ v \in Units
  BY <1>2, <1>3, <1>5, <1>6 DEF Units, Handed
<1>10. Cardinality(Units') = Cardinality(Units)
  <2>1. IsFiniteSet(Units) /\ Cardinality(Units) \in Nat
    BY UnitsFinite DEF HInv
  <2>2. IsFiniteSet(Units \ {v}) /\ Cardinality(Units \ {v}) = Cardinality(Units) - 1
    BY <1>9, <2>1, FS_RemoveElement
  <2>3. Cardinality(Units') = Cardinality(Units \ {v}) + 1
    BY <1>2, <1>9, <2>2, FS_AddElement
  <2>4. QED
    BY <2>1, <2>2, <2>3
<1>11. QED
  BY <1>7, <1>8, <1>10 DEF HInv

LEMMA PollBlockHInv ==
  ASSUME HInv, NEW r \in Pollable, woken' = woken \ {r}, PollBlock(r)
  PROVE  HInv'
<1> USE DEF PollBlock, holderVars
<1>1. /\ UNCHANGED <<holders, preempted, guards, consumed, granted, dropped, inUse>>
      /\ UNCHANGED <<priority, requested, canceled>>
  BY DEF PollPark, PollPending, Register, requestVars
<1>2. r \in Req /\ r \in requested
  BY PolledHoldsNothing
<1>3. nextSeq' \in Nat /\ waiters' \subseteq Entry /\ registered' \subseteq requested
  BY <1>2 DEF HInv, PreemptTypeOK, TypeOK, PoolTypeOK, PollPark, PollPending, Register,
     requestVars, Entry
<1>4. Held' = Held /\ Units' = Units
  BY <1>1 DEF Held, Units, Handed
<1>5. PreemptTypeOK'
  BY <1>1, <1>3 DEF HInv, PreemptTypeOK, TypeOK, PoolTypeOK
<1>6. QED
  BY <1>1, <1>4, <1>5 DEF HInv, HoldersAreLiveGuards

LEMMA DropRequestHInv ==
  ASSUME HInv, NEW r \in Req, PreemptDropRequest(r)
  PROVE  HInv'
<1>1. /\ UNCHANGED <<holders, preempted, priority, requested, registered, consumed, guards>>
      /\ dropped' = dropped \cup {r} /\ r \in requested \ dropped
  BY DEF PreemptDropRequest, DropRequest, holderVars
<1>2. Held' = Held
  BY <1>1 DEF Held
<1>3. HoldersAreLiveGuards' /\ (preempted \subseteq consumed)'
  BY <1>1, <1>2 DEF HInv, HoldersAreLiveGuards
<1>4. CASE DropGranted(r)
  <2>1. Release /\ r \in granted \ consumed
    BY <1>4 DEF DropGranted
  <2>2. r \in Units /\ r \notin Handed' /\ r \notin Held
    BY <1>1, <2>1 DEF Units, Handed, HInv, HoldersAreLiveGuards, PreemptTypeOK, TypeOK
  <2>3. inUse' \in 0..Capacity /\ Cardinality(Units') <= inUse'
    BY <1>1, <1>2, <2>1, <2>2, ReleaseCounts
  <2>4. PreemptTypeOK'
    BY <1>1, <2>1, <2>3, ReleaseTypes DEF HInv, PreemptTypeOK, TypeOK, PoolTypeOK
  <2>5. QED
    BY <1>3, <2>3, <2>4 DEF HInv
<1>5. CASE DropInert(r) \/ DropParked(r)
  <2>1. /\ UNCHANGED <<inUse, nextSeq, waiters, granted, woken>>
        /\ canceled' \in {canceled, canceled \cup {r}}
        /\ r \in consumed \/ r \notin granted
    BY <1>5 DEF DropInert, DropParked, poolVars
  <2>2. Units' = Units
    BY <1>1, <1>2, <2>1 DEF Units, Handed
  <2>3. PreemptTypeOK'
    BY <1>1, <2>1 DEF HInv, PreemptTypeOK, TypeOK, PoolTypeOK
  <2>4. QED
    BY <1>3, <2>1, <2>2, <2>3 DEF HInv
<1>6. QED
  BY <1>4, <1>5 DEF PreemptDropRequest, DropRequest

\* Whatever an evicted guard's drop leaves alone includes the books.
LEMMA DropEvictedHInv ==
  ASSUME HInv, NEW r \in Req, DropEvictedGuard(r)
  PROVE  HInv'
<1>1. /\ r \in preempted /\ guards' = guards \ {r}
      /\ UNCHANGED <<poolVars, priority, requested, dropped, registered, consumed, holders, preempted>>
  BY DEF DropEvictedGuard, holderVars
<1>2. Held' = Held /\ Units' = Units
  BY <1>1 DEF Held, Units, Handed, poolVars
<1>3. PreemptTypeOK'
  BY <1>1 DEF HInv, PreemptTypeOK, TypeOK, PoolTypeOK, poolVars
<1>4. QED
  BY <1>1, <1>2, <1>3 DEF HInv, HoldersAreLiveGuards, poolVars

LEMMA DropHoldingHInv ==
  ASSUME HInv, NEW r \in Req, DropHoldingGuard(r)
  PROVE  HInv'
<1>1. /\ r \in guards \ preempted /\ guards' = guards \ {r} /\ Release
      /\ UNCHANGED <<priority, requested, dropped, registered, consumed, preempted>>
      /\ holders' = RemoveFirst(holders, r)
  BY DEF DropHoldingGuard, DropGuard
<1>2. holders' \in Seq(Req) /\ IsInjective(holders') /\ Held' = Held \ {r}
  BY <1>1, RemoveFirstSet DEF HInv, PreemptTypeOK, HoldersAreLiveGuards, Held
<1>3. r \in Held /\ r \in consumed
  BY <1>1 DEF HInv, HoldersAreLiveGuards, PreemptTypeOK, TypeOK
<1>4. r \in Units /\ r \notin Handed'
  BY <1>1, <1>3 DEF Units, Handed
<1>5. inUse' \in 0..Capacity /\ Cardinality(Units') <= inUse'
  BY <1>1, <1>2, <1>4, ReleaseCounts
<1>6. PreemptTypeOK'
  BY <1>1, <1>2, <1>5, ReleaseTypes DEF HInv, PreemptTypeOK, TypeOK, PoolTypeOK
<1>7. HoldersAreLiveGuards' /\ (preempted \subseteq consumed)'
  BY <1>1, <1>2 DEF HInv, HoldersAreLiveGuards
<1>8. QED
  BY <1>5, <1>6, <1>7 DEF HInv

LEMMA NextHInv == HInv /\ [PreemptNext]_preemptVars => HInv'
<1> SUFFICES ASSUME HInv, [PreemptNext]_preemptVars PROVE HInv'
  OBVIOUS
<1>1. ASSUME NEW r \in Req, Request(r), UNCHANGED holderVars PROVE HInv'
  <2> USE <1>1 DEF Request, holderVars, poolVars
  <2>1. Held' = Held /\ Units' = Units
    BY DEF Held, Units, Handed
  <2>2. PreemptTypeOK'
    BY DEF HInv, PreemptTypeOK, TypeOK, PoolTypeOK
  <2>3. QED
    BY <2>1, <2>2 DEF HInv, HoldersAreLiveGuards
<1>2. ASSUME NEW r \in Req, PreemptPoll(r) PROVE HInv'
  BY <1>2, PollGrantedHInv, PollFreeHInv, PollPreemptHInv, PollBlockHInv DEF PreemptPoll
<1>3. ASSUME NEW r \in Req, PreemptDropRequest(r) PROVE HInv'
  BY <1>3, DropRequestHInv
<1>4. ASSUME NEW r \in Req, DropEvictedGuard(r) PROVE HInv'
  BY <1>4, DropEvictedHInv
<1>5. ASSUME NEW r \in Req, DropHoldingGuard(r) PROVE HInv'
  BY <1>5, DropHoldingHInv
<1>6. CASE UNCHANGED preemptVars
  <2> USE <1>6 DEF preemptVars, vars, poolVars, requestVars, holderVars
  <2>1. Held' = Held /\ Units' = Units
    BY DEF Held, Units, Handed
  <2>2. QED
    BY <2>1 DEF HInv, PreemptTypeOK, TypeOK, PoolTypeOK, HoldersAreLiveGuards
<1>7. QED
  BY <1>1, <1>2, <1>3, <1>4, <1>5, <1>6 DEF PreemptNext

\* HInv holds in every reachable state, for every choice of the parameters.
THEOREM HoldersInductive == PreemptSpec => []HInv
<1>1. QED
  BY InitHInv, NextHInv, PTL DEF PreemptSpec

\* The variables keep their types even when re-polled waiters evict: in_use
\* never underflows in WaitQueue::release, whoever drops what.
THEOREM PreemptTypeCorrect == PreemptSpec => []PreemptTypeOK
<1>1. HInv => PreemptTypeOK
  BY DEF HInv
<1>2. QED
  BY <1>1, HoldersInductive, PTL

\* The holder records and the live guards that were not evicted agree, so that
\* an eviction hits exactly one living guard.
THEOREM HoldersExact == PreemptSpec => []HoldersAreLiveGuards
<1>1. HInv => HoldersAreLiveGuards
  BY DEF HInv
<1>2. QED
  BY <1>1, HoldersInductive, PTL

\* Never more guards that believe they hold a unit than there are units.
THEOREM NoOverAllocation == PreemptSpec => []HoldersWithinCapacity
<1>1. HInv => HoldersWithinCapacity
  <2> SUFFICES ASSUME HInv PROVE HoldersWithinCapacity
    OBVIOUS
  <2>1. guards \ preempted = Held /\ Held \subseteq Units
    BY DEF HInv, HoldersAreLiveGuards, Units
  <2>2. IsFiniteSet(Units) /\ Cardinality(Units) \in Nat
    BY UnitsFinite DEF HInv
  <2>3. Cardinality(Held) <= Cardinality(Units) /\ Cardinality(Held) \in Nat
    BY <2>1, <2>2, FS_Subset, FS_CardinalityType
  <2>4. inUse \in 0..Capacity /\ Cardinality(Units) <= inUse
    BY DEF HInv, PreemptTypeOK, TypeOK, PoolTypeOK
  <2>5. QED
    BY <2>1, <2>2, <2>3, <2>4, CapacityAssumption DEF HoldersWithinCapacity
<1>2. QED
  BY <1>1, HoldersInductive, PTL

-----------------------------------------------------------------------------
(* When no re-polled request can evict anyone. *)

\* Only requests of the least urgent key are awaited inside combinators, if any
\* are: every other parked request is polled again only when it was woken.
RepolledAreWeakest == \A k \in RepolledKeys, l \in Keys : l <= k

\* The inductive invariant of that case: the unit count is exact, which leans
\* on the queue and the flags being so.
EInv ==
  /\ HInv
  /\ QueueInv
  /\ PreemptUnitsAccounted

\* The least urgent requests have no victims.
LEMMA WeakestHaveNoVictims ==
  ASSUME RepolledAreWeakest, PreemptTypeOK, NEW r \in Req, priority[r] \in RepolledKeys
  PROVE  Victims(priority[r]) = {}
<1>1. \A i \in 1..Len(holders) : priority[holders[i]] \in Keys
  BY DEF PreemptTypeOK, TypeOK
<1>2. \A i \in 1..Len(holders) : ~(priority[holders[i]] > priority[r])
  <2> SUFFICES ASSUME NEW i \in 1..Len(holders) PROVE ~(priority[holders[i]] > priority[r])
    OBVIOUS
  <2>1. priority[holders[i]] <= priority[r]
    BY <1>1 DEF RepolledAreWeakest
  <2>2. priority[holders[i]] \in Nat /\ priority[r] \in Nat
    BY <1>1, KeysAssumption, RepolledAssumption
  <2>3. QED
    BY <2>1, <2>2
<1>3. QED
  BY <1>2 DEF Victims, IsVictim

\* So only a request that was never polled evicts: a parked one is polled when
\* it was handed a unit, or is too weak.
LEMMA EvictorsAreFresh ==
  ASSUME RepolledAreWeakest, EInv, NEW r \in Req, PreemptPoll(r), PollPreempt(r)
  PROVE  r \notin registered
<1>1. r \notin granted /\ Victims(priority[r]) # {}
  BY DEF PollPreempt
<1>2. r \notin woken
  BY <1>1 DEF EInv, QueueInv
<1>3. priority[r] \notin RepolledKeys
  BY <1>1, WeakestHaveNoVictims DEF EInv, HInv
<1>4. QED
  BY <1>2, <1>3 DEF PreemptPoll

\* An eviction passes the queue by.
LEMMA PollPreemptQueue ==
  ASSUME QueueInv, NEW r, r \notin registered, woken' = woken \ {r}, PollPreempt(r)
  PROVE  QueueInv'
<1> USE DEF PollPreempt, Resolve, QueueInv
<1>1. FlagsCohere' /\ QueueMatchesRequests' /\ TicketsDistinct' /\ NoFreeUnitWhileWaiting'
  BY DEF FlagsCohere, QueueMatchesRequests, TicketsDistinct, NoFreeUnitWhileWaiting,
     HasFreeUnit, LiveWaiters
<1>2. NoGrantToCanceled' /\ HandedAreWoken' /\ (woken \subseteq granted)'
  BY DEF NoGrantToCanceled, HandedAreWoken, Handed
<1>3. QED
  BY <1>1, <1>2

\* A release by one owner keeps the count exact: the waiter it serves owned
\* nothing.
LEMMA ReleaseCountsAll ==
  ASSUME EInv, NEW r \in Units, Release, consumed' = consumed,
         dropped' \ {r} = dropped \ {r}, Held' = Held \ {r}, r \notin Handed'
  PROVE  inUse' = Cardinality(Units')
<1>1. PreemptTypeOK /\ TypeOK
  BY DEF EInv, HInv, PreemptTypeOK
<1>2. IsFiniteSet(Units) /\ Cardinality(Units) \in Nat /\ inUse = Cardinality(Units)
  BY <1>1, UnitsFinite DEF EInv, PreemptUnitsAccounted, Units
<1>3. IsFiniteSet(Units \ {r}) /\ Cardinality(Units \ {r}) = Cardinality(Units) - 1
  BY <1>2, FS_RemoveElement
<1>4. CASE Free
  <2>1. Units' = Units \ {r}
    BY <1>4 DEF Free, Units, Handed
  <2>2. QED
    BY <1>2, <1>3, <1>4, <2>1 DEF Free
<1>5. CASE \E e \in LiveWaiters : HandOver(e)
  <2>1. PICK e \in LiveWaiters : HandOver(e)
    BY <1>5
  <2>2. e.req \in registered \ (granted \cup consumed \cup dropped)
    BY <2>1 DEF EInv, QueueInv, QueueMatchesRequests
  <2>3. Held \subseteq consumed
    BY <1>1 DEF EInv, HInv, HoldersAreLiveGuards, TypeOK
  <2>4. e.req \notin Units /\ e.req # r
    BY <2>2, <2>3 DEF Units, Handed
  <2>5. Units' = (Units \ {r}) \cup {e.req}
    BY <2>1, <2>2, <2>4 DEF HandOver, Units, Handed
  <2>6. Cardinality(Units') = Cardinality(Units \ {r}) + 1
    BY <1>3, <2>4, <2>5, FS_AddElement
  <2>7. QED
    BY <1>2, <1>3, <2>1, <2>6 DEF HandOver
<1>6. QED
  BY <1>4, <1>5 DEF Release

LEMMA InitEInv == PreemptInit => EInv
<1> SUFFICES ASSUME PreemptInit PROVE EInv
  OBVIOUS
<1>1. QueueInv
  BY InitIInv DEF PreemptInit, IInv
<1>2. PreemptUnitsAccounted
  BY FS_EmptySet DEF PreemptInit, Init, PoolInit, PreemptUnitsAccounted, Held, ToSet, Handed
<1>3. QED
  BY <1>1, <1>2, InitHInv DEF EInv

LEMMA PollEInv ==
  ASSUME RepolledAreWeakest, EInv, NEW r \in Req, PreemptPoll(r)
  PROVE  QueueInv' /\ PreemptUnitsAccounted'
<1>1. r \in Pollable /\ woken' = woken \ {r} /\ HInv /\ TypeOK /\ QueueInv
  BY DEF PreemptPoll, EInv, HInv, PreemptTypeOK
<1>2. /\ r \notin Held /\ r \notin consumed /\ r \notin dropped
      /\ inUse = Cardinality(Units) /\ IsFiniteSet(Units) /\ Cardinality(Units) \in Nat
  BY <1>1, PolledHoldsNothing, UnitsFinite DEF EInv, HInv, PreemptUnitsAccounted, Units
<1>3. holders \in Seq(Req) /\ IsInjective(holders)
  BY <1>1 DEF HInv, PreemptTypeOK, HoldersAreLiveGuards
<1>4. CASE PreemptPollGranted(r)
  <2>1. Held' = Held \cup {r}
    BY <1>2, <1>3, <1>4, AppendSet DEF PreemptPollGranted, Grant, Held
  <2>2. Units' = Units
    BY <1>2, <1>4, <2>1 DEF PreemptPollGranted, PollGranted, Resolve, Units, Handed
  <2>3. PreemptUnitsAccounted'
    BY <1>2, <1>4, <2>2 DEF PreemptPollGranted, PollGranted, PreemptUnitsAccounted, Units
  <2>4. QED
    BY <1>1, <1>4, <2>3, PollGrantedQueue DEF PreemptPollGranted
<1>5. CASE PollFree(r)
  <2>1. Held' = Held \cup {r}
    BY <1>2, <1>3, <1>5, AppendSet DEF PollFree, Grant, Held
  <2>2. Units' = Units \cup {r} /\ r \notin Units
    BY <1>2, <1>5, <2>1 DEF PollFree, PollAcquire, TryAcquire, Resolve, Units, Handed
  <2>3. Cardinality(Units') = Cardinality(Units) + 1
    BY <1>2, <2>2, FS_AddElement
  <2>4. PreemptUnitsAccounted'
    BY <1>2, <1>5, <2>3 DEF PollFree, PollAcquire, TryAcquire, PreemptUnitsAccounted, Units
  <2>5. QED
    BY <1>1, <1>5, <2>4, PollAcquireQueue DEF PollFree
<1>6. CASE PollPreempt(r)
  <2>1. PICK i \in 1..Len(holders) : holders' = Append(RemoveAt(holders, i), r)
    BY <1>6 DEF PollPreempt, Victims
  <2> DEFINE v == holders[i]
  <2>2. v \in Held
    BY <1>3 DEF Held, ToSet
  <2>3. /\ RemoveAt(holders, i) \in Seq(Req) /\ IsInjective(RemoveAt(holders, i))
        /\ ToSet(RemoveAt(holders, i)) = Held \ {v}
    BY <1>3, RemoveAtSet DEF Held
  <2>4. Held' = (Held \ {v}) \cup {r}
    BY <1>2, <2>1, <2>3, AppendSet DEF Held
  <2> HIDE DEF v
  <2>5. v \in consumed /\ v # r
    BY <1>1, <1>2, <2>2 DEF HInv, HoldersAreLiveGuards, TypeOK
  <2>6. Units' = (Units \ {v}) \cup {r} /\ v \in Units /\ r \notin Units
    BY <1>2, <1>6, <2>2, <2>4, <2>5 DEF PollPreempt, Resolve, Units, Handed
  <2>7. IsFiniteSet(Units \ {v}) /\ Cardinality(Units \ {v}) = Cardinality(Units) - 1
    BY <1>2, <2>6, FS_RemoveElement
  <2>8. Cardinality(Units') = Cardinality(Units)
    <3>1. Cardinality(Units') = Cardinality(Units \ {v}) + 1
      BY <2>6, <2>7, FS_AddElement
    <3>2. QED
      BY <1>2, <2>7, <3>1
  <2>9. PreemptUnitsAccounted'
    BY <1>2, <1>6, <2>8 DEF PollPreempt, PreemptUnitsAccounted, Units
  <2>10. QueueInv'
    BY <1>1, <1>6, EvictorsAreFresh, PollPreemptQueue
  <2>11. QED
    BY <2>9, <2>10
<1>7. CASE PollBlock(r)
  <2>1. Units' = Units /\ inUse' = inUse
    BY <1>7 DEF PollBlock, PollPark, PollPending, Register, requestVars, holderVars,
       Units, Held, Handed
  <2>2. PreemptUnitsAccounted'
    BY <1>2, <2>1 DEF PreemptUnitsAccounted, Units
  <2>3. QueueInv'
    BY <1>1, <1>7, PollParkQueue, PollPendingQueue DEF PollBlock
  <2>4. QED
    BY <2>2, <2>3
<1>8. QED
  BY <1>4, <1>5, <1>6, <1>7 DEF PreemptPoll

LEMMA DropRequestEInv ==
  ASSUME EInv, NEW r \in Req, PreemptDropRequest(r)
  PROVE  QueueInv' /\ PreemptUnitsAccounted'
<1>1. /\ UNCHANGED <<holders, consumed>> /\ Held' = Held
      /\ dropped' = dropped \cup {r} /\ r \notin dropped /\ DropRequest(r)
  BY DEF PreemptDropRequest, DropRequest, holderVars, Held
<1>2. TypeOK /\ QueueInv /\ inUse = Cardinality(Units)
  BY DEF EInv, HInv, PreemptTypeOK, PreemptUnitsAccounted, Units
<1>3. QueueInv'
  BY <1>1, <1>2, DropRequestQueue
<1>4. CASE DropGranted(r)
  <2>1. Release /\ r \in granted \ consumed
    BY <1>4 DEF DropGranted
  <2>2. r \in Units /\ r \notin Handed' /\ r \notin Held
    BY <1>1, <1>2, <2>1 DEF Units, Handed, EInv, HInv, HoldersAreLiveGuards, TypeOK
  <2>3. inUse' = Cardinality(Units')
    BY <1>1, <2>1, <2>2, ReleaseCountsAll
  <2>4. QED
    BY <1>3, <2>3 DEF PreemptUnitsAccounted, Units
<1>5. CASE DropInert(r) \/ DropParked(r)
  <2>1. UNCHANGED <<inUse, granted>> /\ (r \in consumed \/ r \notin granted)
    BY <1>5 DEF DropInert, DropParked, poolVars
  <2>2. Units' = Units
    BY <1>1, <2>1 DEF Units, Handed
  <2>3. QED
    BY <1>2, <1>3, <2>1, <2>2 DEF PreemptUnitsAccounted, Units
<1>6. QED
  BY <1>1, <1>4, <1>5 DEF DropRequest

LEMMA DropHoldingEInv ==
  ASSUME EInv, NEW r \in Req, DropHoldingGuard(r)
  PROVE  QueueInv' /\ PreemptUnitsAccounted'
<1>1. /\ r \in guards \ preempted /\ Release /\ DropGuard(r)
      /\ UNCHANGED <<dropped, consumed>> /\ holders' = RemoveFirst(holders, r)
  BY DEF DropHoldingGuard, DropGuard
<1>2. TypeOK /\ QueueInv
  BY DEF EInv, HInv, PreemptTypeOK
<1>3. Held' = Held \ {r}
  BY <1>1, RemoveFirstSet DEF EInv, HInv, PreemptTypeOK, HoldersAreLiveGuards, Held
<1>4. r \in Units /\ r \notin Handed'
  BY <1>1, <1>2 DEF EInv, HInv, HoldersAreLiveGuards, TypeOK, Units, Handed
<1>5. PreemptUnitsAccounted'
  BY <1>1, <1>3, <1>4, ReleaseCountsAll DEF PreemptUnitsAccounted, Units
<1>6. QED
  BY <1>1, <1>2, <1>5, DropGuardQueue

\* Steps that leave the pool and the holder records alone.
LEMMA BooksUntouchedEInv ==
  ASSUME EInv, UNCHANGED <<poolVars, dropped, registered, consumed, holders>>
  PROVE  QueueInv' /\ PreemptUnitsAccounted'
<1> USE DEF poolVars
<1>1. PreemptUnitsAccounted'
  BY DEF EInv, PreemptUnitsAccounted, Held, Handed
<1>2. QueueInv'
  BY DEF EInv, QueueInv, FlagsCohere, QueueMatchesRequests, TicketsDistinct,
     NoFreeUnitWhileWaiting, HasFreeUnit, LiveWaiters, NoGrantToCanceled,
     HandedAreWoken, Handed
<1>3. QED
  BY <1>1, <1>2

LEMMA NextEInv ==
  ASSUME RepolledAreWeakest, EInv, [PreemptNext]_preemptVars
  PROVE  EInv'
<1>1. HInv'
  BY NextHInv DEF EInv
<1>2. ASSUME NEW r \in Req, Request(r), UNCHANGED holderVars
      PROVE  QueueInv' /\ PreemptUnitsAccounted'
  BY <1>2, BooksUntouchedEInv DEF Request, holderVars
<1>3. ASSUME NEW r \in Req, DropEvictedGuard(r)
      PROVE  QueueInv' /\ PreemptUnitsAccounted'
  BY <1>3, BooksUntouchedEInv DEF DropEvictedGuard, holderVars
<1>4. ASSUME UNCHANGED preemptVars
      PROVE  QueueInv' /\ PreemptUnitsAccounted'
  BY <1>4, BooksUntouchedEInv DEF preemptVars, vars, requestVars, holderVars
<1>5. QueueInv' /\ PreemptUnitsAccounted'
  BY <1>2, <1>3, <1>4, PollEInv, DropRequestEInv, DropHoldingEInv DEF PreemptNext
<1>6. QED
  BY <1>1, <1>5 DEF EInv

\* EInv holds in every reachable state.
THEOREM ExactInductive ==
  ASSUME RepolledAreWeakest
  PROVE  PreemptSpec => []EInv
<1>1. EInv /\ [PreemptNext]_preemptVars => EInv'
  BY NextEInv
<1>2. QED
  BY <1>1, InitEInv, PTL DEF PreemptSpec

\* No unit is leaked or counted twice, by evictions or by drops, as long as no
\* request urgent enough to evict is re-polled while it is parked.
THEOREM PreemptAccounting ==
  ASSUME RepolledAreWeakest
  PROVE  PreemptSpec => []PreemptUnitsAccounted
<1>1. EInv => PreemptUnitsAccounted
  BY DEF EInv
<1>2. QED
  BY <1>1, ExactInductive, PTL

\* Under the same condition the queue holds exactly the parked futures, and no
\* unit is free while one waits.
THEOREM PreemptQueueCorrect ==
  ASSUME RepolledAreWeakest
  PROVE  PreemptSpec => [](QueueMatchesRequests /\ NoFreeUnitWhileWaiting)
<1>1. EInv => QueueMatchesRequests /\ NoFreeUnitWhileWaiting
  BY DEF EInv, QueueInv
<1>2. QED
  BY <1>1, ExactInductive, PTL

\* What the type's documentation promises of dropping everything holds under
\* that condition; run preemptive_leak shows it does not hold without it.
THEOREM NoLeak ==
  ASSUME RepolledAreWeakest
  PROVE  PreemptSpec => []AllGoneAllFree
<1>1. EInv => AllGoneAllFree
  <2> SUFFICES ASSUME EInv, guards = {}, requested = dropped
               PROVE  inUse = 0
    BY DEF AllGoneAllFree
  <2>1. Held = {} /\ TypeOK
    BY DEF EInv, HInv, HoldersAreLiveGuards, PreemptTypeOK
  <2>2. Handed = {}
    BY <2>1 DEF EInv, QueueInv, FlagsCohere, TypeOK, Handed
  <2>3. QED
    BY <2>1, <2>2, FS_EmptySet DEF EInv, PreemptUnitsAccounted
<1>2. QED
  BY <1>1, ExactInductive, PTL

=============================================================================

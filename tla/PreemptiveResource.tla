-------------------------- MODULE PreemptiveResource --------------------------
(***************************************************************************)
(* src/src/resource/preemptive.rs: a priority pool whose held units can be *)
(* taken from a holder by a strictly more urgent request.  The request     *)
(* future, its flags and its drop are those of Resource; the poll has an   *)
(* eviction path and every live unit has a holder record.                  *)
(***************************************************************************)
EXTENDS Resource, Sequences, SequencesExt

\* The keys of the requests that clients await inside any_of or all_of: these
\* re-poll a parked child whenever another child wakes the task (combinator.rs).
CONSTANT RepolledKeys

ASSUME RepolledAssumption == RepolledKeys \subseteq Keys

VARIABLES
  holders,   \* holder records in acquisition order, named by their request
  preempted  \* guards whose `preempted` flag is set and signal fired

holderVars == <<holders, preempted>>
preemptVars == <<vars, holderVars>>

PreemptTypeOK ==
  /\ TypeOK
  /\ holders \in Seq(Req)
  /\ preempted \subseteq Req

PreemptInit ==
  /\ Init
  /\ holders = <<>>
  /\ preempted = {}

\* Mutant: a holder that is as urgent as the request is evicted too.
IsVictimAmongEquals(i, k) ==
  /\ priority[holders[i]] >= k
  /\ \A j \in 1..Len(holders) :
       \/ priority[holders[j]] < priority[holders[i]]
       \/ priority[holders[j]] = priority[holders[i]] /\ j <= i

\* victim_index: the least urgent holder that is strictly less urgent than the
\* incoming request, the last acquired among equals.
IsVictim(i, k) ==
  /\ priority[holders[i]] > k
  /\ \A j \in 1..Len(holders) :
       \/ priority[holders[j]] < priority[holders[i]]
       \/ priority[holders[j]] = priority[holders[i]] /\ j <= i

Victims(k) == {i \in 1..Len(holders) : IsVictim(i, k)}

\* grant: the new guard's holder record goes last.
Grant(r) == holders' = Append(holders, r)

PreemptPollGranted(r) ==
  /\ PollGranted(r)
  /\ Grant(r)
  /\ UNCHANGED preempted

PollFree(r) ==
  /\ PollAcquire(r)
  /\ Grant(r)
  /\ UNCHANGED preempted

\* Mutant: the victim's guard is not told.
PollPreemptUnmarked(r) ==
  /\ r \notin granted
  /\ ~HasFreeUnit
  /\ \E i \in Victims(priority[r]) : holders' = Append(RemoveAt(holders, i), r)
  /\ Resolve(r)
  /\ UNCHANGED <<inUse, nextSeq, waiters, canceled, granted, preempted>>

\* The victim's record is replaced by one for r; the queue is not consulted.
PollPreempt(r) ==
  /\ r \notin granted
  /\ ~HasFreeUnit
  /\ \E i \in Victims(priority[r]) :
       /\ holders' = Append(RemoveAt(holders, i), r)
       /\ preempted' = preempted \cup {holders[i]}
  /\ Resolve(r)
  /\ UNCHANGED <<inUse, nextSeq, waiters, canceled, granted>>

PollBlock(r) ==
  /\ Victims(priority[r]) = {}
  /\ PollPark(r) \/ PollPending(r)
  /\ UNCHANGED holderVars

PreemptPoll(r) ==
  /\ r \in Pollable
  /\ r \notin registered \/ r \in woken \/ priority[r] \in RepolledKeys
  /\ woken' = woken \ {r}
  /\ PreemptPollGranted(r) \/ PollFree(r) \/ PollPreempt(r) \/ PollBlock(r)

PreemptDropRequest(r) == DropRequest(r) /\ UNCHANGED holderVars

\* Mutant: an evicted guard returns the unit it no longer has.
DropEvictedReleases(r) ==
  /\ r \in guards \cap preempted
  /\ DropGuard(r)
  /\ UNCHANGED holderVars

\* The unit of an evicted guard is already somebody else's.
DropEvictedGuard(r) ==
  /\ r \in guards \cap preempted
  /\ guards' = guards \ {r}
  /\ UNCHANGED <<poolVars, priority, requested, dropped, registered, consumed>>
  /\ UNCHANGED holderVars

\* Mutant: the holder record outlives the guard.
DropGuardKeepsRecord(r) ==
  /\ r \notin preempted
  /\ DropGuard(r)
  /\ UNCHANGED holderVars

\* Mutant: the record goes and the unit is not released.
DropGuardKeepsUnit(r) ==
  /\ r \in guards \ preempted
  /\ guards' = guards \ {r}
  /\ holders' = RemoveFirst(holders, r)
  /\ UNCHANGED <<poolVars, priority, requested, dropped, registered, consumed, preempted>>

DropHoldingGuard(r) ==
  /\ r \notin preempted
  /\ DropGuard(r)
  /\ holders' = RemoveFirst(holders, r)
  /\ UNCHANGED preempted

PreemptNext ==
  \E r \in Req : \/ Request(r) /\ UNCHANGED holderVars
                 \/ PreemptPoll(r)
                 \/ PreemptDropRequest(r)
                 \/ DropEvictedGuard(r)
                 \/ DropHoldingGuard(r)

PreemptSpec == PreemptInit /\ [][PreemptNext]_preemptVars

PreemptFairness ==
  \A r \in Req : /\ WF_preemptVars(r \in woken /\ PreemptPoll(r))
                 /\ WF_preemptVars(DropHoldingGuard(r))

PreemptFairSpec == PreemptSpec /\ PreemptFairness

-----------------------------------------------------------------------------
Held == ToSet(holders)

\* The guards that were not evicted are exactly the holders, one record each:
\* an eviction never hits a guard already dropped, nor leaves two guards on
\* one unit.
HoldersAreLiveGuards ==
  /\ Held = guards \ preempted
  /\ IsInjective(holders)

\* No over-allocation: the guards that believe they hold a unit never exceed
\* the capacity, however evictions, hand-overs and drops interleave.
HoldersWithinCapacity == Cardinality(guards \ preempted) <= Capacity

\* Every unit in use is held or on its way to a live request, as long as only
\* requests too weak to evict anyone are re-polled while they are parked.
PreemptUnitsAccounted == inUse = Cardinality(Held \cup Handed)

\* What SPEC.md and the type's documentation promise of dropping guards: once
\* every guard and every request is gone, every unit is free again.
AllGoneAllFree == (guards = {} /\ requested = dropped) => inUse = 0

\* PreemptiveResource::request: a request waits only while no strictly less
\* urgent holder can be preempted.
NoneWaitsBehindVictim == \A e \in LiveWaiters : Victims(e.key) = {}

\* A parked request is served in the end unless it is abandoned.
PreemptParkedIsServed ==
  \A r \in Req : r \in registered ~> r \in consumed \cup dropped

=============================================================================

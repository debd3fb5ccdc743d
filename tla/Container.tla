------------------------------ MODULE Container ------------------------------
(***************************************************************************)
(* src/src/resource/container.rs: a tank of a continuous quantity with a   *)
(* strict FIFO of blocked gets and one of blocked puts.  A level change    *)
(* runs the wake cascade, which commits the waiters it serves at once;     *)
(* their futures only collect the result.                                  *)
(*                                                                         *)
(* Quantities are integers here: the properties are about who is served    *)
(* and what is conserved, not about rounding.                              *)
(***************************************************************************)
EXTENDS Integers, FiniteSets, Sequences, SequencesExt, FiniteSetsExt

CONSTANTS
  Getters,   \* get futures the clients may create, each once
  Putters,   \* put futures, likewise
  Amounts,
  Capacity

Req == Getters \cup Putters

ASSUME RequestsAssumption == IsFiniteSet(Req) /\ Getters \cap Putters = {}
ASSUME CapacityAssumption == Capacity \in Nat \ {0}
\* get and put panic on an amount that is not positive or exceeds the capacity.
ASSUME AmountsAssumption == Amounts \subseteq 1..Capacity

VARIABLES
  level,
  initial,     \* the level the container was created with
  getWaiters,  \* queues of futures, canceled ones included
  putWaiters,
  amount,      \* the amount each future is created with
  requested,   \* futures created
  registered,  \* futures whose `registered` field is set
  done,        \* futures the cascade has committed
  resolved,    \* futures that returned Ready
  canceled,    \* futures whose shared `canceled` flag is set
  dropped,     \* futures dropped
  woken        \* futures whose waker was called and not polled since

stateVars == <<level, getWaiters, putWaiters, done, woken>>
vars == <<stateVars, initial, amount, requested, registered, resolved, canceled, dropped>>

TypeOK ==
  /\ level \in 0..Capacity
  /\ initial \in 0..Capacity
  /\ getWaiters \in Seq(Getters) /\ IsInjective(getWaiters)
  /\ putWaiters \in Seq(Putters) /\ IsInjective(putWaiters)
  /\ amount \in [Req -> Amounts]
  /\ requested \subseteq Req
  /\ registered \cup resolved \cup dropped \subseteq requested
  /\ done \cup canceled \subseteq registered
  /\ woken \subseteq done

Init ==
  /\ initial \in 0..Capacity
  /\ level = initial
  /\ getWaiters = <<>>
  /\ putWaiters = <<>>
  /\ amount \in [Req -> Amounts]
  /\ requested = {}
  /\ registered = {}
  /\ done = {}
  /\ resolved = {}
  /\ canceled = {}
  /\ dropped = {}
  /\ woken = {}

\* has_live_get_waiter and has_live_put_waiter.
HasLive(q) == ToSet(q) \ canceled # {}

-----------------------------------------------------------------------------
(* The cascade, on a record of the fields it changes. *)

\* What the futures rs move in all: their units, one by one.
Units(rs) == {u \in rs \X (1..Capacity) : u[2] <= amount[u[1]]}

Total(rs) == Cardinality(Units(rs))

LivePrefix(q, n) == ToSet(SubSeq(q, 1, n)) \ canceled

\* How many entries leave the front of q: canceled ones for nothing, live ones
\* as long as all before them and they themselves fit in the room.
Served(q, room) == Max({n \in 0..Len(q) : Total(LivePrefix(q, n)) <= room})

\* wake_get_waiters
WakeGets(s) ==
  LET n  == Served(s.gets, s.level)
      rs == LivePrefix(s.gets, n)
  IN  [s EXCEPT !.gets = SubSeq(@, n + 1, Len(@)), !.level = @ - Total(rs), !.done = @ \cup rs]

\* Mutant: the amounts are held against the capacity, not the free space.
WakePutsUnbounded(s) ==
  LET n  == Served(s.puts, Capacity)
      rs == LivePrefix(s.puts, n)
  IN  [s EXCEPT !.puts = SubSeq(@, n + 1, Len(@)), !.level = @ + Total(rs), !.done = @ \cup rs]

\* wake_put_waiters
WakePuts(s) ==
  LET n  == Served(s.puts, Capacity - s.level)
      rs == LivePrefix(s.puts, n)
  IN  [s EXCEPT !.puts = SubSeq(@, n + 1, Len(@)), !.level = @ + Total(rs), !.done = @ \cup rs]

\* trigger_cascade: gets then puts until a pass serves nobody.  Every pass that
\* serves somebody shortens a queue, so this many passes reach the fixpoint.
Cascade(s) ==
  LET Passes == Len(s.gets) + Len(s.puts) + 1
      after[n \in 0..Passes] == IF n = 0 THEN s ELSE WakePuts(WakeGets(after[n - 1]))
  IN  after[Passes]

\* Mutant: the level changes and nobody is served.
CommitNoCascade(r, newLevel) ==
  /\ level' = newLevel
  /\ woken' = woken \ {r}
  /\ resolved' = resolved \cup {r}
  /\ UNCHANGED <<getWaiters, putWaiters, done>>
  /\ UNCHANGED <<initial, amount, requested, registered, canceled, dropped>>

\* Mutant: who is served is not woken.
CommitSilently(r, newLevel) ==
  LET s == Cascade([level |-> newLevel, gets |-> getWaiters, puts |-> putWaiters, done |-> done])
  IN  /\ level' = s.level
      /\ getWaiters' = s.gets
      /\ putWaiters' = s.puts
      /\ done' = s.done
      /\ woken' = woken \ {r}
      /\ resolved' = resolved \cup {r}
      /\ UNCHANGED <<initial, amount, requested, registered, canceled, dropped>>

\* The immediate path of a poll: r changes the level, then the cascade runs.
Commit(r, newLevel) ==
  LET s == Cascade([level |-> newLevel, gets |-> getWaiters, puts |-> putWaiters, done |-> done])
  IN  /\ level' = s.level
      /\ getWaiters' = s.gets
      /\ putWaiters' = s.puts
      /\ done' = s.done
      /\ woken' = (woken \cup (s.done \ done)) \ {r}
      /\ resolved' = resolved \cup {r}
      /\ UNCHANGED <<initial, amount, requested, registered, canceled, dropped>>

-----------------------------------------------------------------------------
Request(r) ==
  /\ r \notin requested
  /\ requested' = requested \cup {r}
  /\ UNCHANGED <<stateVars, initial, amount, registered, resolved, canceled, dropped>>

\* The cascade committed this future.
PollDone(r) ==
  /\ r \in done
  /\ resolved' = resolved \cup {r}
  /\ woken' = woken \ {r}
  /\ UNCHANGED <<level, getWaiters, putWaiters, done>>
  /\ UNCHANGED <<initial, amount, requested, registered, canceled, dropped>>

\* A parked future is never served by its own poll, only by the cascade.
PollPending(r) ==
  /\ r \in registered \ done
  /\ UNCHANGED vars

\* Mutant: a newcomer takes the level past a blocked get.
GetFitsJumping(r) == level >= amount[r]

GetFits(r) == level >= amount[r] /\ ~HasLive(getWaiters)

\* Mutant: a parked get serves itself when re-polled.
GetImmediateParked(r) ==
  /\ r \notin done /\ level >= amount[r]
  /\ Commit(r, level - amount[r])

GetImmediate(r) ==
  /\ r \notin registered /\ GetFits(r)
  /\ Commit(r, level - amount[r])

GetPark(r) ==
  /\ r \notin registered /\ ~GetFits(r)
  /\ getWaiters' = Append(getWaiters, r)
  /\ registered' = registered \cup {r}
  /\ UNCHANGED <<level, putWaiters, done, woken>>
  /\ UNCHANGED <<initial, amount, requested, resolved, canceled, dropped>>

\* Mutant: a newcomer takes the space past a blocked put.
PutFitsJumping(r) == level + amount[r] <= Capacity

PutFits(r) == level + amount[r] <= Capacity /\ ~HasLive(putWaiters)

PutImmediate(r) ==
  /\ r \notin registered /\ PutFits(r)
  /\ Commit(r, level + amount[r])

PutPark(r) ==
  /\ r \notin registered /\ ~PutFits(r)
  /\ putWaiters' = Append(putWaiters, r)
  /\ registered' = registered \cup {r}
  /\ UNCHANGED <<level, getWaiters, done, woken>>
  /\ UNCHANGED <<initial, amount, requested, resolved, canceled, dropped>>

Pollable == requested \ (resolved \cup dropped)

PollGet(r) ==
  /\ r \in Pollable
  /\ PollDone(r) \/ PollPending(r) \/ GetImmediate(r) \/ GetPark(r)

PollPut(r) ==
  /\ r \in Pollable
  /\ PollDone(r) \/ PollPending(r) \/ PutImmediate(r) \/ PutPark(r)

\* Mutant: the queue entry of a dropped future stays live.
DropSilently(r) ==
  /\ r \in requested \ dropped
  /\ dropped' = dropped \cup {r}
  /\ UNCHANGED <<stateVars, initial, amount, requested, registered, resolved, canceled>>

\* Drop cancels a parked future and does nothing else: no cascade, and what
\* was committed to a done future stays committed.
Drop(r) ==
  /\ r \in requested \ dropped
  /\ dropped' = dropped \cup {r}
  /\ canceled' = IF r \in registered \ done THEN canceled \cup {r} ELSE canceled
  /\ UNCHANGED <<stateVars, initial, amount, requested, registered, resolved>>

Next ==
  \/ \E r \in Req : Request(r) \/ Drop(r)
  \/ \E r \in Getters : PollGet(r)
  \/ \E r \in Putters : PollPut(r)

Spec == Init /\ [][Next]_vars

\* The executor polls every task that was woken.
Fairness ==
  /\ \A r \in Getters : WF_vars(r \in woken /\ PollGet(r))
  /\ \A r \in Putters : WF_vars(r \in woken /\ PollPut(r))

FairSpec == Spec /\ Fairness

-----------------------------------------------------------------------------
\* Futures whose amount has been added to or taken from the level.
Committed == done \cup resolved

\* Conservation: the level is the initial one plus every committed put minus
\* every committed get; an abandoned or twice-polled future never counts twice
\* or for nothing.
LevelConserved ==
  level = initial + Total(Committed \cap Putters) - Total(Committed \cap Getters)

\* The queues hold each parked future once, and no committed one.
QueuesMatchFutures ==
  /\ ToSet(getWaiters) \ canceled = (registered \cap Getters) \ (done \cup dropped)
  /\ ToSet(putWaiters) \ canceled = (registered \cap Putters) \ (done \cup dropped)

\* A live waiter at the front of its queue cannot be served: the cascade has
\* gone as far as it could.  (A canceled entry may shield a live one.)
FrontIsBlocked ==
  /\ getWaiters # <<>> /\ Head(getWaiters) \notin canceled =>
       amount[Head(getWaiters)] > level
  /\ putWaiters # <<>> /\ Head(putWaiters) \notin canceled =>
       level + amount[Head(putWaiters)] > Capacity

\* Head-of-line FIFO: whoever is served in this step passes nobody of its kind
\* that stays parked; a small request never slips past a blocked large one.
Ahead(q, r) == IF r \in ToSet(q)
                 THEN {q[j] : j \in {j \in 1..Len(q) : \E i \in j + 1..Len(q) : q[i] = r}}
                 ELSE ToSet(q)

HeadOfLine ==
  [][\A r \in Committed' \ Committed :
       /\ r \in Getters => Ahead(getWaiters, r) \subseteq canceled \cup Committed'
       /\ r \in Putters => Ahead(putWaiters, r) \subseteq canceled \cup Committed']_vars

\* SPEC.md on trigger_cascade: a single call only ever serves one queue.
CascadeServesOneQueue ==
  [][(done' \ done) \cap Getters = {} \/ (done' \ done) \cap Putters = {}]_vars

\* Who was served learns of it.
ServedAreWoken == done \ (resolved \cup dropped) \subseteq woken

\* What the queues and the flags owe each other besides: entries are those of
\* parked futures, and a parked future resolves only once it was served.
FlagsCohere ==
  /\ ToSet(getWaiters) \cup ToSet(putWaiters) \subseteq registered
  /\ registered \cap resolved \subseteq done

\* The inductive invariant.
IInv ==
  /\ TypeOK
  /\ FlagsCohere
  /\ LevelConserved
  /\ QueuesMatchFutures
  /\ FrontIsBlocked
  /\ ServedAreWoken

\* SPEC.md: a live waiter behind a dropped one is still woken.
Serviceable(r) ==
  \/ r \in ToSet(getWaiters) \ canceled /\ Ahead(getWaiters, r) \subseteq canceled
       /\ amount[r] <= level
  \/ r \in ToSet(putWaiters) \ canceled /\ Ahead(putWaiters, r) \subseteq canceled
       /\ level + amount[r] <= Capacity

ServiceableIsServed == \A r \in Req : Serviceable(r) ~> ~Serviceable(r)

\* tests/dropped_awaitable.rs: an abandoned get must not consume the level.
AbandonedTookNothing == \A r \in Getters \cap dropped : r \in Committed => r \in resolved

=============================================================================

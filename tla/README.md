# Verification of SimCore

TLA+ models of SimCore, a discrete-event simulation library: an async executor
whose clock is the event queue, the futures simulation processes suspend on, the
resources they compete for, the Python binding that drives generators as
processes, and the replications that run many simulations on threads. TLC
checks the models on small instances. TLAPS proves, for every value of the
parameters, the safety properties of the unit pool, of the preemptive pool, of
`Container`, of the executor with its futures and of the Python binding; that the
unit pool, the preemptive pool and the Monte Carlo threads each implement an abstract
specification; and that the binding drives the preemptive pool by steps the pool has.

Paths such as `src/src/env.rs` are relative to the directory above `src/`;
`lib.rs` is `src/simcore-python/src/lib.rs`.

## 1. Inventory

| Component | State | Operations | Model |
|---|---|---|---|
| Event queue, ready queue, process table (`executor/`, `env.rs`) | clock, heap of wakeups, `seq_counter`, ready ids, pending spawns, one slot per process | `spawn`, `run`, `run_until`, `poll_ready`, `drain_pending_spawns`, `schedule_wakeup`, `wake`, drop of `SimEnv` | `Executor`; the drop in `PySimulation` |
| Timeouts, events, process handles, `any_of!`/`all_of!` (`timeout.rs`, `event.rs`, `process.rs`, `combinator.rs`) | the deadline and `scheduled` flag of a timeout; the latch and wakers of an event; result and one waker per process | poll of each future, `EventTrigger::fire`, completion of a process | `Kernel` |
| Unit pool (`resource/wait_queue.rs`) | `in_use`, `next_seq`, heap of entries with shared `granted`/`canceled` flags | `try_acquire`, `register`, `release` | `WaitQueue`, `UnitPool` |
| `Resource` (`resource/mod.rs`) | per request `registered`, `consumed`; guards | `request`, poll, drop of a request, drop of a guard | `Resource` |
| `PriorityResource` (`resource/priority.rs`) | the same with a `u32` key | the same | `PriorityResource` |
| `PreemptiveResource` (`resource/preemptive.rs`) | holder records, `preempted` flags | the same, and eviction | `PreemptiveResource`, `PreemptivePool` |
| `Container` (`resource/container.rs`) | level, FIFO of gets, FIFO of puts, per future `registered`, `done`, `canceled` | `put`, `get`, polls, drops, `trigger_cascade` | `Container` |
| Randomness (`rng.rs`, the feed of `lib.rs`) | the state of a generator | words, bytes, uniforms, closed-form distributions, reseeding | `SplitMix64`; `StdRng` is external |
| Monte Carlo (`monte_carlo.rs`) | a thread per seed, its panic payload | spawn, join, re-raise | `MonteCarlo`, `Replications` |
| Python binding (`simcore-python/src/lib.rs`) | generator stacks, request objects and guards, error slot | drive a generator, `run`, `acquire`, `any_of`, `all_of`, `preempt_event` | `PySimulation` |
| LLM agents (`sim-llm/`) | token buckets with refill processes, a priority pool, budgets | `generate`, refill | planned |
| Examples, benchmarks, comparison harness, tutorial | | client programs, documentation | not modelled |

How they interact. A process is a future in a table slot. `poll_ready` takes it
out, polls it, and puts it back unless it finished. While it runs it calls,
through its `EnvHandle` and through the futures it awaits, into the event queue
(timeouts), into wakers kept by events, result slots and resource queues, and
into the ready queue (waking others). One simulation is single-threaded: what
varies is the order in which processes are woken, which futures are re-polled
without having been woken (the combinators poll every child whenever one wakes
the task), and when a future or guard is dropped. Because Rust drops a losing
branch of `any_of!` at once, a request can be abandoned in every state it has.
The Python binding is one more process body, the trampoline, between the kernel
and a stack of generators. Threads exist only in Monte Carlo, one whole
simulation each.

What makes this code hard to test, and where it is checked, is listed line by
line under `hazards` in `PROJECT.json`. The main groups:

* A unit in flight. Between a release and the re-poll of the waiter it was
  handed to, a unit belongs to a request with no guard yet. Newcomers, drops and
  evictions may come in between.
* Tombstones. A dropped request only flags its queue entry; every consumer of
  the queue must skip it, and nothing may depend on it being skipped soon.
* Re-polls. Polling a parked future twice must neither queue it twice nor let
  it take a unit or a quantity out of turn.
* Stale wakes. The ready queue holds duplicates and ids of finished processes.
* Boundaries of `run_until`: an event exactly at it, a boundary in the past.
* Timeouts created early and first polled late.
* Guards in Python objects: replaced when the object is awaited again, closed by
  an exception, kept by a traceback, dropped with the simulation.
* One of several failing: a Python process while others run, a replication while
  others are joined, a thread that cannot be started.
* Words that wrap, and byte buffers that end inside a word.

## 2. Modules

    UnitPool            abstract: owners and a line, no flags, no heap
       ^ refined by
    WaitQueue  <-  Resource  <-  ResourceRefinement  <-  PriorityResource
                      ^                  ^
               PreemptiveResource  <-  PreemptiveRefinement
                      ^
               PySimulation  <-  MCPySimulation
    PreemptivePool      abstract: UnitPool with eviction, refined by
                        PreemptiveResource in PreemptiveRefinement
    Container   <-  MCContainer
    Executor    <-  Kernel
    Replications        abstract: what a set of replications returns
       ^ refined by
    MonteCarlo  <-  MCMonteCarlo  ->  SplitMix64

    proofs (TLAPS)
    SequenceLemmas      used by all but ResourceProofs
    ResourceProofs      Resource
    RefinementProofs    both refinements, and PriorityResource
    PreemptiveProofs    PreemptiveResource
    ContainerProofs     Container
    KernelProofs        Kernel
    MonteCarloProofs    MonteCarlo
    PySimulationProofs  PySimulation, over RefinementProofs

(`<-` is EXTENDS.) `MCContainer`, `MCPySimulation` and `MCMonteCarlo` hold the
symmetry set, the process bodies, and the seeds, script and known answers of
their instances.

### WaitQueue, Resource

`WaitQueue` has the three operations of `wait_queue.rs` as building blocks and
`Resource` makes the actions out of them: `Request`, `Poll`, `DropRequest`,
`DropGuard`, one per entry point of `mod.rs`, the disjuncts of each being the
return paths of the Rust function. `release` is `HandOver` (pop up to and
including the first live entry, leave `in_use` alone, set `granted`, call the
waker) or `Free` (pop everything, decrement).

The `Rc<Cell<bool>>` flags shared between a request and its queue entry are the
sets `canceled` and `granted`; `woken` records a waker that was called and not
answered by a poll yet. Each element of `Req` is a future that is created at
most once; its key is chosen freely at the start and never changes. `Poll` is enabled
for every live future at every moment, since combinators re-poll children that
were not woken. In the code two requests are never polled at once, as all is on
one thread, so one action per call is exact.

### UnitPool and the refinement

`UnitPool` is what a client is promised: at most `Capacity` owners, a line
ordered by key and then arrival, a unit given back goes to the head of the line
in the same step. `ResourceRefinement` maps the owners to the live guards plus
the requests that were handed a unit and have not collected it, and the line to
the live part of the heap. Flags, tombstones and the two-phase hand-over then
do not show. The run `unit_pool` checks that every step of the detailed model is
a step of the abstract one or a stutter.

### PriorityResource

`priority.rs` repeats `mod.rs` with a `u32` key, so its handlers are the actions
of `Resource` over a set of priorities. A behaviour in which all requests have the same
key is one of the FIFO pool, where `K = ()`, so the run covers both.

### PreemptiveResource

Adds the holder records in acquisition order and the set of evicted guards. The
poll tries, in the order of the code: a granted unit, a free unit, a victim,
the queue. The constant `RepolledKeys` holds the priorities whose parked
requests are polled without having been woken. It is a constant because what
is true depends on it: a request that can find a victim on a re-poll leaks a
unit (section 5), and one of the least urgent priority can find none.

### PreemptivePool and its refinement

`PreemptivePool` adds to the owners and the line of `UnitPool` who has collected his
unit. A newcomer may take the unit of the least urgent of these if it is strictly more
urgent (`Evict`), and may join the line only if there is no such owner (`EnterLine`).
The eviction is one step: the newcomer has the unit, passes the line, and the evicted
owner has nothing left that the pool could notice. `PreemptiveRefinement` maps the owners to
the holder records and the hand-overs under way, `collected` to the holder records, and
the line to the live part of the heap. Which of several least urgent holders is evicted
the abstraction leaves open; in `IsVictim` it is the last acquired, as in the code.

### Container

Quantities are integers. `Cascade` is `trigger_cascade`: a pass serves the
longest prefix of the gets that fits, then of the puts, until a pass serves
nobody. The code finds the prefix one waiter at a time, the model by its
length; the result is the same because amounts are positive.

### Executor, Kernel

`Executor` cuts the run loops where user code runs: one process poll, one event. `phase`
says where the loop is (`host`, `ready`, `poll`, `loop`), `until` is the boundary of
`run_until` or `Never` for `run`. `Kernel` fills in the polls: a running process
may await one future or an `any_of`/`all_of` of several, spawn, fire an event,
make a timeout to await later (`KeepTimeout`) or finish, in any order, so that
the checks hold for every body within the bounds and not for one example.
`Await` and `Resume` share `PollAwaits`: `AnyOf` polls up to the first ready
child and stops, `AllOf` polls every pending one. `KeepTimeouts` allows timeouts that
are awaited later than they were made, `LateAwaits` those that are awaited after their deadline.
Each future and each handle is polled by one process only, though any number of times: a result slot whose
waker is replaced by that of a second process is not exercised.

The release build is modelled: the `debug_assert` in `schedule_wakeup` is not there.

### PySimulation

The trampoline of `Simulation::spawn`, composed with `PreemptiveResource`: one
call into the kernel per step, its order being that of the code. `Send`, then one of
`Call`, `ReturnToCaller`, `Return`, `Fail`, `Yield` for what the top
generator does next (with `LeaveWith`, `Trigger`, `Spawn` in between), then the arms are
polled one after the other (`PollAcquireArm`, `StoreGuard`, `PollPlainArm`),
and the poll ends in `Suspend`, `Joined` or, after the losers were dropped one
by one (`LoseArm`), `Won`. `Run`, `Wake`, `Elapse`, `RunEnds` are the loop with
`check_error`; `DropSimulation`, `DropProcess`, `TornDown` the teardown of the environment.

What is abstracted:

* The three acquire classes repeat one another over the three pools; the model has the
  preemptive one, which can do most. Container arms resolve to `None` when
  somebody else acts, as events do, and stand among them.
* A future that lost a race leaves its wakeup behind (a timer in the event queue, a waker with
  an event) and may have its process polled for nothing: at any moment after the race here (`stale`).
  A process is polled so once for all the wakes that were pending, and not for the wake of a future
  that was done already, or of an acquire, when it was dropped (`DropArm`): the code
  polls in those cases too, its combinator finds nothing ready, and nothing changes.
* The timers that one process awaits together are due together (`due`). The code gives each its own
  deadline: an `any_of` won by a later arm's shorter timer, and an `all_of` polled between two, are left out.
* Each process has one request object and may await it again and again, each time with a
  new kernel future `<<process, n>>`. What processes may yield is the constant `Menu`;
  as there is one object, at most one arm of a yield is an acquire (`MenuAssumption`).
* Processes that are awake are polled in any order, and the teardown takes
  them in any order; the code goes by wake order and id.
* An `any_of` request that is awaited twice keeps its old `winner` in Python until the
  second await ends; the cell is local to the await here.
* When CPython reclaims the frame of a failed generator is external: a guard
  taken with a bare await may live as long as the traceback, and is released
  at an arbitrary moment after that (`Reclaim`). Only a process without a sub-generator may leave its guard
  to the traceback; with one, the guard is let go at once (`Fail`), although the frames of
  several generators could keep it as well.
* Checks of arguments raise, and are failures of the process (`Fail`).

### SplitMix64, MonteCarlo, Replications

`SplitMix64` is the generator bit by bit, a `u64` being its eight bytes, with
wrapping sums and products, shifts and exclusive-or on bytes, and the draws:
`next_u64`, `next_u32`, `fill_bytes` with its last partial word, the 53-bit uniform,
integer ranges, Bernoulli, reseeding. The closed forms of the other distributions are
represented by the uniforms they consume: the transforms are real functions.
`RangeInt` is exact for spans below 2^11, where the product fits a word.

`MonteCarlo` is the `std::thread` backend: the caller spawns, joins in order and re-raises
(`Spawn`, `SpawnFails`, `SpawnedAll`, `Join`, `Finish`, `Unwind`), each thread draws,
returns or panics (`Work`, `Return`, `Panic`), and all interleave.
What a feed answers to a call, and the feed it leaves behind, are the constants
`Answer` and `NextFeed`; `MCMonteCarlo` gives them the definitions of `SplitMix64`.
`Replications` is what the module documentation promises of either backend, and
`Contract` maps the threads to it. `Value` there is a function of the seed
alone, so the refinement says that the interleaving cannot show in the results.

## 3. Runs

Passing runs:

| Run | Instance | Shows |
|---|---|---|
| `unit_pool` | 4 requests, 2 priorities, 2 units, fair; 175 000 states | accounting, queue shape, no barging, service by priority, progress, refinement of `UnitPool` |
| `preemptive` | 4 requests, 2 priorities, 2 units, the less urgent re-polled, fair; 193 000 states | accounting with evictions in flight, holder records match guards, progress, refinement of `PreemptivePool` |
| `container_safety` | 3 gets, 2 puts, amounts 1 and 2, capacity 2 | conservation, range of the level, head-of-line FIFO, the cascade goes as far as it can |
| `kernel` | 3 processes, 2 awaits of width 2, 1 event, kept timeouts, horizon 2, fair; 368 000 states | no lost wakeup, no spawn left behind, nothing overdue, exact boundaries, monotonic clock, `run` returns, a timeout bounds an `any_of` |
| `python_binding` | 3 processes (1, 2 and 1 yields), 2 priorities, 2 units, fair; 354 000 states | no guard or future adrift, units reachable, what a generator is resumed with, winners and losers, failures, teardown |
| `monte_carlo` | 3 threads, seeds 42, 0, 42, 9 draws each, fair; 30 000 states | known answers in every interleaving, refinement of `Replications`, the call returns |

Runs that find a disagreement (section 5): `preemptive_inversion`,
`preemptive_leak`, `container_tombstone`, `container_abandoned`,
`kernel_rewind`, `python_first_error`.

### What the properties say

* `UnitsAccounted`, `PreemptUnitsAccounted`: `in_use` is the number of live
  owners. This is leak freedom and double-release freedom in one equation.
* `NoFreeUnitWhileWaiting`: the reason `try_acquire` needs no look at the queue.
* `QueueMatchesRequests`: the queue has one live entry per parked future, none for others.
* `NoOvertaking`: whoever obtains a unit while others stay parked was ahead of
  each of them, by priority and then by arrival.
* `ServedAreWoken`, `NoLostWakeup`: nobody sleeps on something that has already happened.
* `HoldersAreLiveGuards`, `HoldersWithinCapacity`: evictions never leave two
  guards on a unit.
* `ImplementsPreemptivePool`: only a strictly less urgent holder loses its unit, and a
  least urgent one, to a request that is not queued besides; nobody parks who could
  evict; and neither an evicted guard nor a unit in flight ever counts as a second unit.
* `SpawnsAdmitted`: when the loops look, every spawned process is in the table, and so is
  every id in the ready queue, with which `poll_ready` indexes the table.
* `LevelConserved`, `FrontIsBlocked`, `HeadOfLine`, `CascadeServesOneQueue`: the
  book-keeping and the order of `Container`, and the remark of `SPEC.md` that one
  cascade only ever serves one queue.
* `TimeIsMonotonic`, `NothingOverdue`: what the clock promises. `RunUntilExact`: `run_until` handles the
  wakeups before its boundary and none from it on (`StopsAtBoundary`), by time and, at one time,
  in the order in which they were scheduled (`WakeupsInOrder`).
* `NothingAdrift`, `UnitsReachable`: every live guard and future of the kernel
  belongs to a Python object or a pending await, and every unit in use to
  somebody who can release it. `TeardownReleasesAll` is their end: dropping the
  `Simulation` leaves nobody in line and only what a traceback keeps.
* `ResumedAsAwaited`: a fresh generator is primed with `None`; one that awaited an acquire finds
  the guard of that very await in its request object.
* `OnlyWinnerAcquires`: a losing arm leaves no guard, even when granted in the same instant.
* `NoSilentFailure`: `run` raises if and only if a process failed. `EvictedIsTold`:
  whoever waits on `preempt_event` is resumed once evicted.
* `StreamsMatchTable`: each thread draws the words that `rng.rs` and
  `compare/models/test_feed.py` record for its seed, whatever the calls consume of them.
* `ImplementsReplications`: results in seed order, or the panic of the lowest
  seed, and only when no thread is left running.
* `ParkedIsServed`, `PreemptParkedIsServed`, `RunReturns`, `TimeoutBoundsWait`,
  `CallReturns`: progress.

Each property of a passing run has a mutant in `PROJECT.json`: a variant of one
handler with a plausible mistake (a dropped guard, an off-by-one, a forgotten
wake, a missing cascade) under which the run finds the property violated. `RunUntilExact` has
two, one for each part. The mutant operators sit just above the definitions they change.

### Bounds, and why they suffice

* Requests: a unit must be able to be held, in flight and waited for by two
  waiters, one of them canceled: four requests on two units give all of that, and two
  waiters of different priorities behind two holders.
* Priorities: two distinguish urgent from not, and let one request evict
  another while a third is evicted or in flight.
* Container: two gets parked behind each other, a third arriving, and two puts,
  the amounts 1 and 2 with capacity 2, produce partial fits, blocked heads and
  cascades that serve several waiters.
* Kernel: `MaxProcs`, `MaxTime`, `MaxWidth` and `MaxAwaits` bound the number of processes,
  the horizon, the size of a combination and the awaits in a behaviour. Three
  processes let two wait for what a third does; width 2 has a winner and a
  loser; timeouts made at different times, or kept until their deadline, fall due in
  the same instant; a boundary can lie before, at and after an event.
  The bounds appear only in guards that stop the process bodies from growing,
  and in the ranges of deadlines, never in the executor's own steps.
* Python: an urgent process that awaits directly, one that re-awaits its
  object, joins, is evicted, and is polled for nothing after a race of events; one that races in both orders of its arms; each may call a
  sub-generator, fail, spawn, and be left suspended. `MaxYields` bounds the
  yields. Only the least urgent processes race or join, as the leak of section 5 would
  show in every accounting property otherwise.
* Monte Carlo: three threads have a first, a middle and a last to panic, and two of
  them share a seed. The script has every kind of draw, with buffers that end
  inside a word and at the end of one, and goes past the reseed; `uniform01` and
  `normal` stand for the closed forms of one and of two uniforms.

Deadlock checking is off where requests are one-shot and clients may stop
(the resources) and where the system comes to an end (a dropped `Simulation`, a
Monte Carlo call that came back). It is on in the `Kernel` runs, where the host
can always call `run` again.

### Fairness

* Resources: `WF` on the poll of a woken request. The executor polls every
  process in the ready queue before the clock moves (`poll_ready`), and the combinators
  poll every pending child up to a ready one. `WF` on dropping a guard is an
  assumption on the client: a process that holds a unit for ever starves the others in
  any implementation.
* Container: `WF` on the poll of woken futures only (run `container_tombstone`).
  Clients owe nothing.
* Kernel: `WF` on the steps of the loop and of the process bodies together, as
  one thread runs both and never stops in the middle; `SF` on `Run`, the host
  calling `run` again and again. Process bodies are finite because awaits, spawns,
  fires and kept timeouts are.
* Python: `WF` on the steps of the one thread, and on `Run`, unless the host drops the
  `Simulation`.
* Monte Carlo: `WF` on the caller and, for each thread, on its coming to an
  end: the operating system schedules every thread, and a closure that draws
  finitely often returns or panics.

## 4. Proofs

Every theorem holds for all values of the constants that satisfy the named
assumptions of the modules: finite sets of requests or futures, keys that are
natural numbers, positive capacities, amounts between 1 and the capacity, any
delays, horizon, number of processes and width of a combination, any seeds,
script and feed. No assumption relates a constant to the bounds of a run.

Each proof rests on an inductive invariant. It is defined in the module of the
component where it says something of the component alone, TLC checked it before
it was proved, and a property that is not inductive is a conjunct of it.
Per action there is one lemma, and under it one step per conjunct the action disturbs.

### The unit pool (`ResourceProofs`)

| Theorem | Statement |
|---|---|
| `TypeCorrect` | `Spec => []TypeOK`; in particular `in_use` never exceeds the capacity and `release` never underflows it |
| `Accounting` | `Spec => []UnitsAccounted` |
| `DirectHandoff` | `Spec => []NoFreeUnitWhileWaiting` |
| `QueueCorrect` | `Spec => [](QueueMatchesRequests /\ NoGrantToCanceled /\ HandedAreWoken)` |
| `Ordering` | `Spec => NoOvertaking` |

The invariant is `IInv` of `Resource`. `UnitsAccounted` alone is
not inductive: a release hands its unit to the first live entry, and that the
entry's request is not an owner already follows from `QueueMatchesRequests`, which in turn needs
that canceled requests are dropped ones (`FlagsCohere`) and that no canceled
request is ever granted. `NoFreeUnitWhileWaiting` needs that a request parks only
when no unit is free and that a unit is freed only when no live entry is left.
All but the types and the count is `QueueInv`, which says nothing of `in_use`:
its lemmas (`...Queue`) serve the preemptive pool as well.
`NoOvertaking` is an action property and follows from `IInv` in the state before
the step: a direct acquisition has nobody parked, and a hand-over goes to the
minimum of the live entries. The conjuncts `NoGrantToCanceled`, `HandedAreWoken` and
`FlagsCohere` are in no run; they rest on the proof.

### The preemptive pool (`PreemptiveProofs`)

| Theorem | Statement |
|---|---|
| `PreemptTypeCorrect` | `PreemptSpec => []PreemptTypeOK` |
| `HoldersExact` | `PreemptSpec => []HoldersAreLiveGuards` |
| `NoOverAllocation` | `PreemptSpec => []HoldersWithinCapacity` |
| `PreemptAccounting` | `RepolledAreWeakest` gives `PreemptSpec => []PreemptUnitsAccounted` |
| `PreemptQueueCorrect` | and `PreemptSpec => [](QueueMatchesRequests /\ NoFreeUnitWhileWaiting)` |
| `NoLeak` | and that all units are free once every request and guard is gone |

The first three hold whatever is re-polled. Their invariant `HInv` has the holder records without
repetition and equal to the live guards not evicted, and the accounting as an
inequality: `in_use` counts at least the owners. The equation is false in
general, as re-polls may leak units (section 5); the inequality is what the bound on
the holders needs. That records do not repeat matters in the drop of a guard, which removes the first record
with its id: no second one may stay behind.

The other three assume `RepolledAreWeakest`: no request that is re-polled while parked is
more urgent than any other priority. Then a poll that evicts is a first poll, the
evicting request has no queue entry, and `QueueInv` and the equation are kept
together (`EInv`). The condition is what the run `preemptive` instantiates, and it is not
empty talk: without it `preemptive_leak` violates exactly the statement of `NoLeak`.

### The refinements (`RefinementProofs`)

| Theorem | Statement |
|---|---|
| `Refinement` | `Spec => ImplementsUnitPool` |
| `PriorityRefinement` | `PrioritySpec => Spec`, and `PrioritySpec => ImplementsUnitPool` |
| `VictimFound` | `victim_index` finds exactly one holder if some holder is strictly less urgent than the newcomer, a least urgent one, and none otherwise |
| `PreemptiveRefinementHolds` | `RepolledAreWeakest` gives `PreemptSpec => ImplementsPreemptivePool` |

By `PriorityRefinement` every theorem about `Resource` holds of `PriorityResource`.
The heap is a set, the line of `UnitPool` a sequence: `Ordered` lists a heap by
the rank of its entries (`Rank`, `At`). `RankOrders` and `OrderedIsSequence` show that this is
the sorted sequence, `OrderedChanges` that one more entry is one `InsertAt`, and
`OrderedRemoves` one less one `RemoveAt`. What a step does to the line is said once
for both pools (`ParkLine`, `AbandonLine`, `HandOverLine`, `FreeLine`, `AcquireLine`), from the types
and `QueueInv` only, as the two pools count `in_use` by different invariants.

Then `AcquireMaps`, `ParkMaps`, `AbandonMaps` and `ReleaseMaps` map the steps of `Resource` to `Take`, `Enter`,
`Leave` and `GiveBack`; all others stutter. For the preemptive pool a first poll
takes a free unit, evicts or enters the line (`PollFreeMaps`, `EvictMaps`, `PreemptParkMaps`), the
poll of a granted request collects (`CollectMaps`), and the drop of an evicted guard
is a stutter. The eviction is where the condition enters: a request that evicts on a
re-poll would be in the line and among the owners. `VictimFound` is an induction on the number of
holders, as `max_by_key` is a fold.

### Container (`ContainerProofs`)

| Theorem | Statement |
|---|---|
| `ContainerTypeCorrect` | `Spec => []TypeOK`: the level stays within `0..Capacity` |
| `ContainerConserves` | `Spec => []LevelConserved` |
| `ContainerQueuesCorrect` | `Spec => []QueuesMatchFutures` |
| `ContainerFrontIsBlocked` | `Spec => []FrontIsBlocked` |
| `ContainerWakes` | `Spec => []ServedAreWoken` |
| `ContainerHeadOfLine` | `Spec => HeadOfLine` |
| `ContainerServesOneQueue` | `Spec => CascadeServesOneQueue` |

`trigger_cascade` loops until a pass serves nobody. In the states it is called in, one
queue has a blocked front (`FrontIsBlocked`) and the change of the level can only have
unblocked the other: after a get the puts may fit, after a put the gets. Serving
the longest prefix that fits leaves its own front blocked, and moves the level
away from what the front of the other queue waits for. Hence the first pass
leaves nothing to do, and `CascadeIsOnePass` solves the recursion: from such a state the
loop is its first pass. `CascadeAfterGet` and `CascadeAfterPut` say what that pass does;
`ServedFacts` what the prefix is. Sums of amounts are numbers
of elements of a set (`Total`), so the library's facts on cardinality add them up. That one cascade serves one
queue, a remark of `SPEC.md`, is thereby a theorem.

### Executor and futures (`KernelProofs`)

| Theorem | Statement |
|---|---|
| `KernelTypeCorrect` | `Spec => []TypeOK` |
| `SpawnsReachTable` | `Spec => []SpawnsAdmitted` |
| `WakeupsKept` | `Spec => []NoLostWakeup` |
| `RunUntilStopsExactly` | `Spec => RunUntilExact` |
| `NeverOverdue` | `~LateAwaits` gives `Spec => []NothingOverdue` |
| `ClockMonotonic` | and `Spec => TimeIsMonotonic` |
| `EventOrderDecides` | `Spec => []NextEventDetermined` |

The invariant is `KInv` of `Kernel`. `NoLostWakeup` speaks of parked processes; while
one is polled, its wakers are being taken and replaced, so the inductive form is
`Armed`: every future somebody is suspended on holds his waker in a place that will still be called (an
event in the heap, a listener of an event not fired, the one waker of a result slot not filled), or is
ready with him in the ready queue or being polled. A wake moves futures from the first
case to the second, and the poll that follows resolves or re-registers them. A
result slot has one waker, so `Armed` needs that only one process owns a handle
(`HandlesExclusive`), and that a stale id in the ready queue does no harm needs `TableCoheres`.
`PollAwaitsFacts` treats `any_of!` and `all_of!` at once, for any number of
children: which of them were polled, and that the others keep their wakers.

`RunUntilExact` has two parts. `StopsAtBoundary` follows from `KInv`: when the loop returns to the host, nobody is ready, and by `Armed`
who is suspended on a timeout has a wakeup in the heap, the least of which is not before the boundary.
`WakeupsInOrder` (`NextInOrder`) needs `SeqsDistinct` of `LoopInv`, below: what a poll schedules is
numbered after everything queued, and the heap yields the least by time and number.
`NothingOverdue` needs that timeouts are first awaited before their deadline; the run
`kernel_rewind` shows that the theorem is false without that condition.

`SpawnsReachTable` and `EventOrderDecides` are about what the loops look up, and need `LoopInv`: an id
reaches a waker only when its process is polled, hence after its admission
(`WakersInTable`), and no two wakeups in the queue have the same number (`SeqsDistinct`), although one poll may
schedule several (`BeforeCounts`). The heap of `queue.rs` is therefore strictly ordered, and `SPEC.md`'s "deterministic order"
at equal times is no accident of `BinaryHeap`; together the two theorems say that between
two polls the run loops have a next step, and only one. TLC's deadlock
check on `kernel` shows the first half on its instance.

### Monte Carlo (`MonteCarloProofs`)

| Theorem | Statement |
|---|---|
| `MonteCarloTypeCorrect` | `Spec => []TypeOK` |
| `ImplementsContract` | `Spec => ImplementsReplications` |

For any number of threads, any closure and any feed. The invariant (`IInv` of `MonteCarlo`) says that what
a thread has drawn, and the state of its feed, are the functions `Expected` and `FeedAt` of its seed
(`StreamsInOrder`); that the joined results are those of the seeds in order, or the kept
payload that of the lowest lost seed (`JoinedInOrder`); and whom the caller has
started and joined (`CallerCoheres`), from which nobody runs when the call returns.

### The Python binding (`PySimulationProofs`)

| Theorem | Statement |
|---|---|
| `PyInductive` | `PySpec => [](HInv /\ PyInv)` |
| `PoolUnderPython` | `PySpec => PreemptSpec` |
| `PythonSharesPreemptivePool` | `RepolledAreWeakest` gives `PySpec => ImplementsPreemptivePool` |
| `PyTypeCorrect` | `PySpec => []PyTypeOK` |
| `NothingIsAdrift` | `PySpec => []NothingAdrift` |
| `AlwaysResumedAsAwaited` | `PySpec => []ResumedAsAwaited` |
| `WinnerOnly` | `PySpec => OnlyWinnerAcquires` |
| `FailuresAreRaised` | `PySpec => NoSilentFailure` |
| `UnitsAreReachable` | `RepolledAreWeakest` gives `PySpec => []UnitsReachable` |
| `TeardownIsComplete` | and `PySpec => []TeardownReleasesAll` |

For any number of processes, any menus with at most one acquire to a yield, and any urgencies.
`PoolSteps` shows that each step of the trampoline, the loop and the teardown is one of
`PreemptNext` or leaves the pool alone, so that every theorem about the preemptive pool
holds for the units Python processes share.

The invariant is `PyInv` of `PySimulation`. `NothingAdrift` is not inductive alone: when the guard a request
object held is replaced, that it is no other object's and not the new one itself follows from
`GuardCoheres` and, in the middle of the poll, from `ThreadCoheres`; when an arm
is removed, that no other arm asks for the same request from `ArmsCohere`.
`ResumedAsAwaited` needs that the acquire of an `all_of` left its guard behind when its arm was
dropped (`GuardCoheres`), and that a generator that called another has started (`StackCoheres`).
`StepInv` and `FrameInv` carry the other processes over, so that each action has to speak of its own only.

`UnitsReachable` adds `NothingAdrift` to the exact accounting of the pool, hence its
condition: the owners that `PreemptAccounting` counts are the guards in request objects and the granted
requests among the arms. At the end of the teardown no arm is left, so
every request is consumed or dropped, and `PreemptQueueCorrect` empties the line.
A process that joins or races has its parked request polled without a wake, so its priority is
among `RepolledKeys` (`RacersAssumption`). `RepolledAreWeakest` then says that such
processes are the least urgent; the other theorems hold whoever joins or races.

### What is not proved

* Liveness (`ParkedIsServed`, `PreemptParkedIsServed`, `RunReturns`, `TimeoutBoundsWait`,
  `CallReturns`, `EvictedIsTold`): it rests on fairness and ENABLED. TLC checks it.
* `StreamsMatchTable`, the arithmetic of `SplitMix64` on the known answers: its bitwise
  operators are outside the provers.

What a recursive function computes (`Cascade`, `Only`, `FeedAt`) is proved by induction on
sets of numbers (`SetInduction`, `LeastElement` of `SequenceLemmas`), applied to the
set of arguments at which the function is what the lemma says.

## 5. Where the code and its documentation disagree

Each is a run that must fail; `PROJECT.json` quotes the text it contradicts.

* `preemptive_leak`. A parked `PreemptiveRequest` that is re-polled by `any_of!`
  looks for a victim again. If it finds one it returns a guard while its queue
  entry stays live. A later release grants a unit to that entry, whose
  future is finished, and the unit is lost for ever.
  `HoldersWithinCapacity` still holds in that setting, as `NoOverAllocation`
  proves: units are lost, never given out twice.
* `preemptive_inversion`. A unit in flight to a less urgent waiter has no holder
  record, so an urgent request that arrives then finds no victim, parks, and is not
  reconsidered when the waiter collects its guard. Every later release
  does serve it first, so this is a delay, and `PreemptParkedIsServed` holds.
* `container_tombstone`. Dropping the blocked head of a queue makes the waiter
  behind it serviceable, but nothing runs the cascade until another operation
  succeeds. A level that fits can leave a waiter parked for ever.
* `container_abandoned`. The cascade moves the quantity when it serves a get. If that get is
  dropped before it is polled, the quantity is gone with nobody having received
  it. `LevelConserved` holds all the same: it counts the commit as a get.
* `kernel_rewind`. A timeout made early and first awaited after its deadline
  schedules a wakeup in the past, and the run loop sets the clock back to it.
  With no such late await (`LateAwaits = FALSE`) the clock is monotonic, which `kernel`
  checks. In a debug build an assertion fires instead.
* `python_first_error`. The trampoline assigns the error slot whatever it holds
  (`lib.rs:191`), so of several processes that fail in one run the last one
  is raised. `lib.rs:44-45` and `lib.rs:386-387` promise the first. That
  something is raised is certain (`NoSilentFailure`).

The comment at `src/src/resource/preemptive.rs:56` ("`holders.len()` mirrors it
exactly") is not literally true while a unit is in flight; the exact relation is
`PreemptUnitsAccounted`.

## 6. Not modelled, and why

* Floating point: times and quantities are integers. What rounding does to
  `level + amount <= capacity`, or to the transforms of the distributions, is outside TLC.
* The rayon backend of Monte Carlo, which is a call into rayon, and `StdRng`:
  both are external code. `rng_range_int` with bounds further apart than 2^63, whose
  difference overflows an `i64` at `lib.rs:134`.
* A future polled by one process and then moved to another. In the code a resource request keeps
  the waker of its first poller, a process handle takes that of its last. In the models a
  future stays with the process that polls it.
* Sharing one process handle among processes: a handle is owned by the process
  that spawned the child.
* Panics inside a poll (`env.rs:295`): the program ends, unless the host
  catches the panic and runs on with what is left of the batch.
* The LLM package: a client of the binding, planned next. `PROJECT.json` lists the hazard at
  `sim-llm/sim_llm/provider.py:106`: a refill puts a fixed amount that
  `Container` takes only when all of it fits, so refill and request may wait for
  each other when the capacity is no sum of both.
* Examples, benchmarks, the comparison harness and the tutorial are client
  programs and documentation; the crate root re-exports.

## 7. Plan

Done, in this order: `WaitQueue` and `Resource` with their proof; `UnitPool` and
the refinement; `PriorityResource`; `PreemptiveResource`; `Container`;
`Executor` and `Kernel`; the proof of the preemptive pool's holder books;
`PySimulation` with the teardown; `SplitMix64`, `MonteCarlo` and `Replications`;
the proofs of both refinements, of the exact accounting, of `Container`, `Kernel`, `MonteCarlo` and `PySimulation`.

Next:

1. `LlmProvider`: the token buckets and their refill processes over `Container`, the
   priority pool in front of them, budgets.
2. `ResourceKernel`: processes of `Kernel` that request units, futures moved
   between processes (the stale waker stored with a queue entry), and a panic in a poll.
3. The warehouse example as a composition of all resources.

## 8. Reproducing

    tlc -workers 2 -config UnitPool.cfg PriorityResource
    tlc -workers 2 -config PySimulation.cfg MCPySimulation
    tlapm KernelProofs.tla

Every run of `PROJECT.json` names its module and configuration. The longest,
`kernel`, takes about two minutes. The modules with proofs are those that end in
`Proofs`, and `SequenceLemmas`; each is checked from nothing in at most a few minutes.

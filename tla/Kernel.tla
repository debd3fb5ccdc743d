-------------------------------- MODULE Kernel --------------------------------
(***************************************************************************)
(* Processes on the executor: the futures they suspend on (timeout.rs,     *)
(* event.rs, process.rs), any_of and all_of over them (combinator.rs) and  *)
(* the steps a process may take inside one poll.  Process bodies are       *)
(* arbitrary: between two awaits a process may spawn, fire an event, make  *)
(* a timeout for later or finish, in any order.                            *)
(***************************************************************************)
EXTENDS Executor

CONSTANTS
  Event,      \* manual events
  Delays,     \* the delays processes pass to timeout()
  MaxWidth,   \* bound: futures per any_of / all_of
  MaxAwaits,  \* bound: awaits in a behaviour
  KeepTimeouts, \* whether a timeout may be awaited later than it was created
  LateAwaits  \* and even after its deadline has passed

ASSUME EventAssumption == IsFiniteSet(Event)
ASSUME DelaysAssumption == Delays \subseteq Nat
ASSUME BoundsAssumption == MaxWidth \in Nat /\ MaxAwaits \in Nat
ASSUME KeepAssumption == KeepTimeouts \in BOOLEAN /\ LateAwaits \in BOOLEAN

VARIABLES
  awaits,     \* the futures each process is suspended on, in polling order
  mode,       \* how they are combined: "any" (also a single await) or "all"
  fired,      \* events whose latch is set
  listeners,  \* the wakers queued in each event, as process ids
  handles,    \* the ProcessHandles each process owns and is not awaiting
  results,    \* processes whose result lies in its slot, not collected
  joiner,     \* the waker in each process's result slot, at most one
  kept,       \* the deadline of a timeout a process made and not awaited yet
  awaited     \* how many awaits were made, for MaxAwaits

procVars == <<awaits, mode, fired, listeners, handles, results, joiner, kept, awaited>>
vars == <<execVars, procVars>>

Timeout(d, scheduled) == [kind |-> "timeout", deadline |-> d, scheduled |-> scheduled]
EventFut(e) == [kind |-> "event", event |-> e]
Handle(c) == [kind |-> "process", child |-> c]

Future == [kind : {"timeout"}, deadline : 0..MaxTime, scheduled : BOOLEAN]
            \cup {EventFut(e) : e \in Event} \cup {Handle(c) : c \in Proc}

TypeOK ==
  /\ ExecTypeOK
  /\ awaits \in [Proc -> Seq(Future)]
  /\ mode \in [Proc -> {"any", "all"}]
  /\ fired \subseteq Event
  /\ listeners \in [Event -> Seq(Proc)]
  /\ handles \in [Proc -> SUBSET Proc]
  /\ results \subseteq {p \in Proc : slot[p] = "finished"}
  /\ joiner \in [Proc -> SUBSET Proc]
  /\ \A p \in Proc : Cardinality(joiner[p]) <= 1
  /\ kept \in [Proc -> SUBSET (0..MaxTime)]
  /\ awaited \in 0..MaxAwaits

Init ==
  /\ ExecInit
  /\ awaits = [p \in Proc |-> <<>>]
  /\ mode = [p \in Proc |-> "any"]
  /\ fired = {}
  /\ listeners = [e \in Event |-> <<>>]
  /\ handles = [p \in Proc |-> {}]
  /\ results = {}
  /\ joiner = [p \in Proc |-> {}]
  /\ kept = [p \in Proc |-> {}]
  /\ awaited = 0

-----------------------------------------------------------------------------
(* Polling. *)

\* A timeout is ready only after it was scheduled by an earlier poll.
IsReady(f) ==
  \/ f.kind = "timeout" /\ f.scheduled /\ now >= f.deadline
  \/ f.kind = "event" /\ f.event \in fired
  \/ f.kind = "process" /\ f.child \in results

\* Mutant: any_of stops at the first future, ready or not.
PolledFirst(m, fs) == IF m = "all" THEN fs ELSE SubSeq(fs, 1, 1)

\* AnyOf polls up to the first ready future, AllOf polls every one.
Polled(m, fs) ==
  IF m = "all" THEN fs
  ELSE SubSeq(fs, 1, Min({Len(fs)} \cup {i \in 1..Len(fs) : IsReady(fs[i])}))

Resolves(m, fs) ==
  IF m = "all" THEN \A i \in 1..Len(fs) : IsReady(fs[i])
               ELSE \E i \in 1..Len(fs) : IsReady(fs[i])

Pending(fs) == {f \in ToSet(fs) : ~IsReady(f)}

\* The members of S in fs, in their order.
Only(fs, S) ==
  LET taken[i \in 0..Len(fs)] ==
        IF i = 0 THEN <<>>
        ELSE IF fs[i] \in S THEN Append(taken[i - 1], fs[i]) ELSE taken[i - 1]
  IN  taken[Len(fs)]

\* What the polled futures leave behind, whether or not the combinator
\* resolves: wakeups scheduled, wakers registered, results collected.
PollEffects(p, fs) ==
  LET pend     == Pending(fs)
      unsched  == {i \in DOMAIN fs : fs[i] \in pend /\ fs[i].kind = "timeout" /\ ~fs[i].scheduled}
      heard    == {f.event : f \in {g \in pend : g.kind = "event"}}
      children == {f.child : f \in {g \in pend : g.kind = "process"}}
      joined   == {f.child : f \in {g \in ToSet(fs) : g.kind = "process" /\ IsReady(g)}}
  IN  /\ ScheduleWakeups(p, [i \in unsched |-> fs[i].deadline])
      /\ listeners' = [e \in Event |->
                        IF e \in heard /\ p \notin ToSet(listeners[e])
                          THEN Append(listeners[e], p) ELSE listeners[e]]
      /\ joiner' = [c \in Proc |-> IF c \in children THEN {p} ELSE joiner[c]]
      /\ results' = results \ joined

\* A polled timeout has been scheduled.  AllOf drops what is ready.
AfterPoll(fs) ==
  LET pend == Only(fs, Pending(fs))
  IN  [i \in DOMAIN pend |-> IF pend[i].kind = "timeout"
                               THEN Timeout(pend[i].deadline, TRUE) ELSE pend[i]]

\* Poll p's awaited futures: it goes on running, or returns Pending.
PollAwaits(p, m, fs) ==
  /\ PollEffects(p, Polled(m, fs))
  /\ mode' = [mode EXCEPT ![p] = IF Resolves(m, fs) THEN "any" ELSE m]
  /\ IF Resolves(m, fs)
       THEN /\ awaits' = [awaits EXCEPT ![p] = <<>>]
            /\ UNCHANGED <<ready, pendingSpawns, slot, phase>>
       ELSE /\ awaits' = [awaits EXCEPT ![p] = AfterPoll(fs)]
            /\ EndPoll(p, "parked", <<>>)
  /\ UNCHANGED <<now, until, fired>>

\* The executor took p out to poll it and p is suspended: re-poll its futures.
Resume(p) ==
  /\ Running(p) /\ awaits[p] # <<>>
  /\ PollAwaits(p, mode[p], awaits[p])
  /\ UNCHANGED <<handles, kept, awaited>>

-----------------------------------------------------------------------------
(* What a running process does between two awaits. *)

Active(p) == Running(p) /\ awaits[p] = <<>>

\* The futures p can await now.  Timeouts made on the spot are distinct from a
\* kept one; each kind of future at most once in a combination keeps it small.
Awaitable(p) ==
  {Timeout(now + d, FALSE) : d \in {d \in Delays : now + d <= MaxTime}}
    \cup {Timeout(d, FALSE) : d \in {d \in kept[p] : d >= now \/ LateAwaits}}
    \cup {EventFut(e) : e \in Event}
    \cup {Handle(c) : c \in handles[p]}

Combinations(p) ==
  {fs \in UNION {[1..n -> Awaitable(p)] : n \in 1..MaxWidth} : IsInjective(fs)}

\* await fs, any_of![fs] or all_of![fs].  The futures are moved into the await,
\* and its first poll happens at once.
Await(p) ==
  /\ Active(p)
  /\ awaited < MaxAwaits
  /\ awaited' = awaited + 1
  /\ \E fs \in Combinations(p) :
       /\ \E m \in IF Len(fs) = 1 THEN {"any"} ELSE {"any", "all"} : PollAwaits(p, m, fs)
       /\ handles' = [handles EXCEPT ![p] = @ \ {c \in Proc : Handle(c) \in ToSet(fs)}]
       /\ kept' = [kept EXCEPT ![p] = @ \ {d \in 0..MaxTime : Timeout(d, FALSE) \in ToSet(fs)}]

\* let t = env.timeout(d), to be awaited later: the deadline is fixed now.
KeepTimeout(p) ==
  /\ KeepTimeouts
  /\ Active(p) /\ kept[p] = {}
  /\ \E d \in Delays : /\ now + d <= MaxTime
                       /\ kept' = [kept EXCEPT ![p] = {now + d}]
  /\ UNCHANGED <<execVars, awaits, mode, fired, listeners, handles, results, joiner, awaited>>

Spawn(p) ==
  /\ Active(p)
  /\ \E c \in Proc : /\ EnqueueSpawn(c)
                     /\ handles' = [handles EXCEPT ![p] = @ \cup {c}]
  /\ UNCHANGED <<now, events, nextSeq, ready, phase, until>>
  /\ UNCHANGED <<awaits, mode, fired, listeners, results, joiner, kept, awaited>>

\* Mutant: only the first listener is woken.
FireEventWakesOne(e) ==
  /\ e \notin fired
  /\ fired' = fired \cup {e}
  /\ ready' = WithWoken(SubSeq(listeners[e], 1, Min({1, Len(listeners[e])})))
  /\ listeners' = [listeners EXCEPT ![e] = <<>>]

\* EventTrigger::fire wakes the listeners in the order they registered.
FireEvent(e) ==
  /\ e \notin fired
  /\ fired' = fired \cup {e}
  /\ ready' = WithWoken(listeners[e])
  /\ listeners' = [listeners EXCEPT ![e] = <<>>]

Fire(p) ==
  /\ Active(p)
  /\ \E e \in Event : FireEvent(e)
  /\ UNCHANGED <<now, events, nextSeq, pendingSpawns, slot, phase, until>>
  /\ UNCHANGED <<awaits, mode, handles, results, joiner, kept, awaited>>

\* Mutant: a finished process is put back in the table.
FinishPutsBack(p) ==
  /\ Active(p)
  /\ results' = results \cup {p}
  /\ joiner' = [joiner EXCEPT ![p] = {}]
  /\ handles' = [handles EXCEPT ![p] = {}]
  /\ kept' = [kept EXCEPT ![p] = {}]
  /\ EndPoll(p, "parked", SetToSeq(joiner[p]))
  /\ UNCHANGED <<now, events, nextSeq, until, awaits, mode, fired, listeners, awaited>>

\* The body returns: its value goes to the slot and the joiner is woken; what
\* the process still owned is dropped with it.
Finish(p) ==
  /\ Active(p)
  /\ results' = results \cup {p}
  /\ joiner' = [joiner EXCEPT ![p] = {}]
  /\ handles' = [handles EXCEPT ![p] = {}]
  /\ kept' = [kept EXCEPT ![p] = {}]
  /\ EndPoll(p, "finished", SetToSeq(joiner[p]))
  /\ UNCHANGED <<now, events, nextSeq, until, awaits, mode, fired, listeners, awaited>>

-----------------------------------------------------------------------------
(* The host program: spawn, then run() or run_until(u), as often as it likes. *)

HostSpawn ==
  /\ phase = "host"
  /\ \E c \in Proc : EnqueueSpawn(c)
  /\ UNCHANGED <<now, events, nextSeq, ready, phase, until, procVars>>

RunFor(u) == StartRun(u) /\ UNCHANGED procVars

Run == RunFor(Never)
RunUntil == \E u \in 0..MaxTime : RunFor(u)

ProcStep(p) ==
  Resume(p) \/ Await(p) \/ KeepTimeout(p) \/ Spawn(p) \/ Fire(p) \/ Finish(p)

KernelStep ==
  \/ LoopStep /\ UNCHANGED procVars
  \/ \E p \in Proc : ProcStep(p)

Next == KernelStep \/ HostSpawn \/ Run \/ RunUntil

Spec == Init /\ [][Next]_vars

\* The run loops never stop in the middle and process bodies reach their next
\* await (one thread runs both); the host calls run() again and again, perhaps
\* with other calls in between.
FairSpec == Spec /\ WF_vars(KernelStep) /\ SF_vars(Run)

-----------------------------------------------------------------------------
\* What will wake p for a future it is suspended on: a queued event at the
\* deadline, a waker in the event, a waker in the child's slot.
WillWake(p, f) ==
  \/ f.kind = "timeout" /\ \E e \in events : e.proc = p /\ e.time = f.deadline
  \/ f.kind = "event" /\ f.event \notin fired /\ p \in ToSet(listeners[f.event])
  \/ f.kind = "process" /\ slot[f.child] # "finished" /\ p \in joiner[f.child]

\* No lost wakeup: a parked process is in the ready queue, or each future it is
\* suspended on is pending and holds its waker; whatever fired, finished or
\* re-registered in between, and however many stale wakes arrived.
NoLostWakeup ==
  \A p \in Proc : Parked(p) =>
    \/ p \in ToSet(ready)
    \/ awaits[p] # <<>> /\ \A i \in DOMAIN awaits[p] : WillWake(p, awaits[p][i])

\* No spawn is left behind: outside polls and the host's own turn none is pending.
SpawnsDrained == phase \in {"ready", "loop"} => pendingSpawns = <<>>

\* Every spawned process is in the table when the loops look, and so is every id
\* a waker pushed: poll_ready indexes the table with it, and would panic.
SpawnsAdmitted ==
  /\ SpawnsDrained
  /\ phase = "ready" => \A p \in ToSet(ready) : slot[p] \in {"parked", "finished"}

\* The heap order decides: of the wakeups in the queue exactly one is the next,
\* however many fall on the same time (SPEC.md: a deterministic order).
NextEventDetermined ==
  events # {} =>
    \E e \in events : \A f \in events \ {e} : Earlier(e, f) /\ ~Earlier(f, e)

\* A timeout is never overdue: nobody is still suspended on one whose deadline
\* has passed, and no wakeup lies in the past.
NothingOverdue ==
  /\ \A e \in events : e.time >= now
  /\ \A p \in Proc : \A i \in DOMAIN awaits[p] :
       awaits[p][i].kind = "timeout" => awaits[p][i].deadline >= now

\* env.rs: simulated time is monotonic.
TimeIsMonotonic == [][now' >= now]_vars

\* Who may still collect the result of c: its handle is moved, never copied.
Owns(p, c) == c \in handles[p] \/ Handle(c) \in ToSet(awaits[p])

HandlesExclusive ==
  /\ \A p, q, c \in Proc : Owns(p, c) /\ Owns(q, c) => p = q
  /\ \A p, c \in Proc : Owns(p, c) => slot[c] # "unborn"
  /\ \A p \in Proc : \A c \in handles[p] :
       /\ Handle(c) \notin ToSet(awaits[p])
       /\ slot[c] = "finished" => c \in results

\* The process table, the ready queue and the pending spawns fit together.
TableCoheres ==
  /\ \A c \in ToSet(pendingSpawns) : slot[c] = "spawned"
  /\ phase \in {"loop", "host"} => ready = <<>>
  /\ \A p \in Proc :
       /\ awaits[p] # <<>> => slot[p] \in {"parked", "running"}
       /\ Parked(p) /\ awaits[p] = <<>> => p \in ToSet(ready)

\* Every future somebody is suspended on holds his waker, or is ready with him
\* about to be polled; the timeouts among them have been scheduled.
Armed ==
  \A p \in Proc : \A f \in ToSet(awaits[p]) :
    /\ f.kind = "timeout" => f.scheduled
    /\ WillWake(p, f) \/ (IsReady(f) /\ (p \in ToSet(ready) \/ Running(p)))

\* The inductive invariant.
KInv == TypeOK /\ SpawnsDrained /\ TableCoheres /\ HandlesExclusive /\ Armed

\* The processes that were admitted to the table, finished ones included.
InTable == {p \in Proc : slot[p] \notin {"unborn", "spawned"}}

\* Wakers are made on admission: whatever id one holds or has pushed is in the
\* table.
WakersInTable ==
  /\ ToSet(ready) \subseteq InTable
  /\ \A e \in events : e.proc \in InTable
  /\ \A e \in Event : ToSet(listeners[e]) \subseteq InTable
  /\ \A c \in Proc : joiner[c] \subseteq InTable

\* No two wakeups in the queue have the same number.
SeqsDistinct ==
  /\ \A e \in events : e.seq < nextSeq
  /\ \A e, f \in events : e.seq = f.seq => e = f

\* What the run loops need besides KInv.
LoopInv == KInv /\ WakersInTable /\ SeqsDistinct

\* Wakeups leave the queue by time and, at one time, in the order in which they
\* were scheduled: what a step takes out comes before all that stays, and what it
\* puts in is numbered after all that was there.
WakeupsInOrder ==
  /\ \A e \in events \ events', f \in events' :
       e.time < f.time \/ (e.time = f.time /\ e.seq < f.seq)
  /\ \A e \in events, f \in events' \ events : e.seq < f.seq

\* No step of run_until(u) takes the clock from before u to u or beyond, and when it
\* returns the clock stands at u unless it was past it, nobody is ready, and who is
\* suspended on a timeout has a deadline from u on.
StopsAtBoundary ==
  /\ phase # "host" /\ phase' # "host" /\ now < until => now' < until
  /\ phase # "host" /\ phase' = "host" /\ until # Never =>
       /\ now' >= until
       /\ \A p \in Proc : Parked(p) =>
            /\ p \notin ToSet(ready)
            /\ \A i \in DOMAIN awaits[p] : awaits[p][i].kind = "timeout" =>
                 awaits[p][i].deadline >= until

\* run_until(u) handles all wakeups before u, in their order, and none from u on.
RunUntilExact == [][WakeupsInOrder /\ StopsAtBoundary]_vars

\* run() returns (process bodies being finite), and an any_of with a timeout in
\* it is resolved in the end, whatever its other futures do.
RunReturns == phase # "host" ~> phase = "host"

TimeoutBoundsWait ==
  \A p \in Proc :
    (mode[p] = "any" /\ \E i \in DOMAIN awaits[p] : awaits[p][i].kind = "timeout")
      ~> awaits[p] = <<>>

=============================================================================

------------------------------- MODULE Executor -------------------------------
(***************************************************************************)
(* src/src/env.rs and src/src/executor/: the event queue, the ready queue, *)
(* the process table and the two run loops.  The code is single-threaded;  *)
(* what varies is the order in which processes are woken, so the loops are *)
(* cut into the steps between which user code runs: one process poll, one  *)
(* event.  What a process does inside its poll is in Kernel.               *)
(***************************************************************************)
EXTENDS Integers, Sequences, FiniteSets, SequencesExt, FiniteSetsExt

CONSTANTS
  MaxProcs, \* bound: processes spawned in a behaviour
  MaxTime   \* bound: no deadline or boundary lies beyond it

ASSUME MaxProcsAssumption == MaxProcs \in Nat
ASSUME MaxTimeAssumption == MaxTime \in Nat

\* Process ids are dense, increasing and never reused.
Proc == 1..MaxProcs

\* The boundary of run(), which has none.
Never == MaxTime + 1

VARIABLES
  now,            \* current_time
  events,         \* event_queue: wakeups [time, seq, proc]
  nextSeq,        \* seq_counter
  ready,          \* ready_queue: ids in wake order, duplicates included
  pendingSpawns,  \* pending_spawns
  slot,           \* where each process is
  phase,          \* where the run loop is
  until           \* the boundary of the current run call

execVars == <<now, events, nextSeq, ready, pendingSpawns, slot, phase, until>>

\* "unborn": id not allocated; "spawned": in pending_spawns; "parked": in its
\* table slot; "running": taken out and being polled; "finished": slot None.
SlotState == {"unborn", "spawned", "parked", "running", "finished"}

\* "host": no run call is active; "ready": in poll_ready between two polls;
\* "poll": inside a process's poll; "loop": at the head of the event loop.
Phase == {"host", "ready", "poll", "loop"}

ExecTypeOK ==
  /\ now \in 0..MaxTime
  /\ events \subseteq [time : 0..MaxTime, seq : Nat, proc : Proc]
  /\ nextSeq \in Nat
  /\ ready \in Seq(Proc)
  /\ pendingSpawns \in Seq(Proc)
  /\ slot \in [Proc -> SlotState]
  /\ phase \in Phase
  /\ until \in 0..Never
  /\ phase = "poll" <=> \E p \in Proc : slot[p] = "running"
  /\ \A p, q \in Proc : slot[p] = "running" /\ slot[q] = "running" => p = q

ExecInit ==
  /\ now = 0
  /\ events = {}
  /\ nextSeq = 0
  /\ ready = <<>>
  /\ pendingSpawns = <<>>
  /\ slot = [p \in Proc |-> "unborn"]
  /\ phase = "host"
  /\ until = Never

Parked(p) == slot[p] = "parked"
Running(p) == slot[p] = "running"

-----------------------------------------------------------------------------
(* What processes call through their EnvHandle and their wakers. *)

\* schedule_wakeup for each deadline in turn, by position.  The release build does
\* not check that none is in the past (the debug_assert is compiled out).
ScheduleWakeups(p, deadlines) ==
  LET Before(i) == Cardinality({j \in DOMAIN deadlines : j < i})
  IN  /\ events' = events \cup {[time |-> deadlines[i], seq |-> nextSeq + Before(i), proc |-> p] :
                                  i \in DOMAIN deadlines}
      /\ nextSeq' = nextSeq + Cardinality(DOMAIN deadlines)

\* alloc_process_id: ids are handed out in order.
NextId(c) == slot[c] = "unborn" /\ \A d \in Proc : d < c => slot[d] # "unborn"

\* EnvHandle::spawn.
EnqueueSpawn(c) ==
  /\ NextId(c)
  /\ slot' = [slot EXCEPT ![c] = "spawned"]
  /\ pendingSpawns' = Append(pendingSpawns, c)

\* SimWaker::wake: an id is pushed for every wake, duplicates included.
WithWoken(ps) == ready \o ps

\* drain_pending_spawns, on the table and ready queue left by the caller.
Admitted(table) ==
  [p \in Proc |-> IF p \in ToSet(pendingSpawns) THEN "parked" ELSE table[p]]

DrainInto(queue) ==
  /\ ready' = queue \o pendingSpawns
  /\ pendingSpawns' = <<>>

\* Mutant: the children spawned in the poll are not admitted.
EndPollNoDrain(p, outcome, woken) ==
  /\ slot' = [slot EXCEPT ![p] = outcome]
  /\ ready' = WithWoken(woken)
  /\ phase' = "ready"
  /\ UNCHANGED pendingSpawns

\* The end of a poll: a pending process is put back, a finished one is not;
\* then its children are admitted.  woken are the wakes of the last statement.
EndPoll(p, outcome, woken) ==
  /\ slot' = Admitted([slot EXCEPT ![p] = outcome])
  /\ DrainInto(WithWoken(woken))
  /\ phase' = "ready"

-----------------------------------------------------------------------------
(* The run loops. *)

\* run and run_until start by admitting spawns and polling what is ready.
StartRun(u) ==
  /\ phase = "host"
  /\ until' = u
  /\ phase' = "ready"
  /\ slot' = Admitted(slot)
  /\ DrainInto(ready)
  /\ UNCHANGED <<now, events, nextSeq>>

\* poll_ready: take the process out of its slot.
TakeReady ==
  /\ phase = "ready" /\ ready # <<>>
  /\ Parked(Head(ready))
  /\ slot' = [slot EXCEPT ![Head(ready)] = "running"]
  /\ ready' = Tail(ready)
  /\ phase' = "poll"
  /\ UNCHANGED <<now, events, nextSeq, pendingSpawns, until>>

\* Mutant: a stale id is looked at again and again.
SkipStaleKeeps ==
  /\ phase = "ready" /\ ready # <<>>
  /\ slot[Head(ready)] = "finished"
  /\ UNCHANGED execVars

\* poll_ready: a stale id is skipped.
SkipStale ==
  /\ phase = "ready" /\ ready # <<>>
  /\ slot[Head(ready)] = "finished"
  /\ ready' = Tail(ready)
  /\ UNCHANGED <<now, events, nextSeq, pendingSpawns, slot, phase, until>>

ReadyDrained ==
  /\ phase = "ready" /\ ready = <<>>
  /\ phase' = "loop"
  /\ UNCHANGED <<now, events, nextSeq, ready, pendingSpawns, slot, until>>

\* Mutant: insertion order only.
EarlierBySeq(e, f) == e.seq < f.seq

\* Mutant: of two wakeups at one time the later scheduled goes first.
EarlierLastFirst(e, f) == e.time < f.time \/ (e.time = f.time /\ e.seq > f.seq)

\* ScheduledWaker::cmp.
Earlier(e, f) == e.time < f.time \/ (e.time = f.time /\ e.seq < f.seq)

\* Mutant: an event at the boundary is run.
PopEventInclusive ==
  /\ phase = "loop"
  /\ \E e \in events :
       /\ \A f \in events \ {e} : Earlier(e, f)
       /\ e.time <= until
       /\ events' = events \ {e}
       /\ now' = e.time
       /\ DrainInto(WithWoken(<<e.proc>>))
  /\ slot' = Admitted(slot)
  /\ phase' = "ready"
  /\ UNCHANGED <<nextSeq, until>>

PopEvent ==
  /\ phase = "loop"
  /\ \E e \in events :
       /\ \A f \in events \ {e} : Earlier(e, f)
       /\ e.time < until
       /\ events' = events \ {e}
       /\ now' = e.time
       /\ DrainInto(WithWoken(<<e.proc>>))
  /\ slot' = Admitted(slot)
  /\ phase' = "ready"
  /\ UNCHANGED <<nextSeq, until>>

\* Mutant: the clock is set to the boundary even when it is past it.
StopRunRewinds ==
  /\ phase = "loop"
  /\ \A e \in events : e.time >= until
  /\ now' = IF until # Never THEN until ELSE now
  /\ phase' = "host"
  /\ UNCHANGED <<events, nextSeq, ready, pendingSpawns, slot, until>>

\* run stops on an empty queue; run_until also before an event at or past the
\* boundary, and moves the clock up to it.
StopRun ==
  /\ phase = "loop"
  /\ \A e \in events : e.time >= until
  /\ now' = IF until # Never /\ until > now THEN until ELSE now
  /\ phase' = "host"
  /\ UNCHANGED <<events, nextSeq, ready, pendingSpawns, slot, until>>

LoopStep == TakeReady \/ SkipStale \/ ReadyDrained \/ PopEvent \/ StopRun

=============================================================================

----------------------------- MODULE PySimulation -----------------------------
(***************************************************************************)
(* src/simcore-python/src/lib.rs: Python generators driven as processes of *)
(* the kernel.  The trampoline (Simulation::spawn) sends a value into the  *)
(* top generator, classifies what it yields, awaits the kernel future that *)
(* stands for it, stores its outcome in the Python request object and      *)
(* sends the result back.                                                  *)
(*                                                                         *)
(* The three acquire classes repeat one another over the three kernel      *)
(* pools; the model has the preemptive one, whose actions are composed     *)
(* with the trampoline one kernel call per step.  Everything runs on one   *)
(* thread, so nobody else moves inside a poll; processes that are awake    *)
(* are polled in any order.  Each process has one request object, called   *)
(* by the name of the process, which it may await again and again.         *)
(***************************************************************************)
EXTENDS PreemptiveResource

CONSTANTS
  Proc,      \* Python processes
  Urgency,   \* the priority of each process's request object
  MaxYields, \* bound: how often each process yields
  Menu       \* what each process may yield: [comb, kinds]

\* "acquire" and "wait" are direct awaits, the others the two combinators.
Comb == {"acquire", "wait", "any", "all"}
\* Container arms, which resolve to None as well, are among the events.
Kind == {"acquire", "timer", "event", "signal"}

\* Processes are named by their ids, the kernel futures they make are <<p, n>>.
ASSUME ProcAssumption ==
  /\ MaxYields \in [Proc -> Nat] /\ Proc \subseteq Nat \ {0}
  /\ Req = UNION {{p} \X (1..MaxYields[p]) : p \in Proc}
ASSUME UrgencyAssumption == Urgency \in [Proc -> Keys]
\* One request object, so at most one acquire among the arms, and it is all
\* there is to a bare await of it.
ASSUME MenuAssumption ==
  /\ Menu \in [Proc -> SUBSET [comb : Comb, kinds : Seq(Kind)]]
  /\ \A p \in Proc : \A y \in Menu[p] : \A i, j \in DOMAIN y.kinds :
       /\ y.kinds[i] = "acquire" /\ y.kinds[j] = "acquire" => i = j
       /\ y.comb = "acquire" => y.kinds[i] = "acquire"
\* Who awaits several futures is polled when any of them is done, and later
\* because of one that lost: its kernel request is polled without a wake.
ASSUME RacersAssumption ==
  \A p \in Proc : (\E y \in Menu[p] : Len(y.kinds) > 1) => Urgency[p] \in RepolledKeys

VARIABLES
  phase,     \* where the single thread is
  cur, at,   \* the process being polled and the arm being polled
  status,    \* of each process
  stack,     \* its generators: "fresh" until the first send
  resume,    \* the trampoline's `resume` of the process being polled
  yields,    \* how often it yielded, for MaxYields
  arms,      \* the futures it awaits, in order
  comb,      \* and how
  winner,    \* the cell its arms share, filled in the poll that resolves them
  guardOf,   \* the guard its request object holds, at most one
  triggered, \* the one-shot event
  due,       \* processes whose timer's deadline has come
  stale,     \* processes an abandoned future may still wake
  error,     \* the error slot: at most one failed process
  raised,    \* the failure the last run raised to the host
  failures   \* the processes that failed since an error was last raised

unitVars == <<preemptVars, guardOf>>
threadVars == <<phase, cur, at>>
genVars == <<stack, resume, yields>>
awaitVars == <<arms, comb, winner>>
timeVars == <<due, stale>>
errVars == <<error, raised, failures>>
pyVars == <<unitVars, threadVars, status, genVars, awaitVars, triggered, timeVars, errVars>>

Nobody == 0
Arm(k, r) == [kind |-> k, req |-> r, set |-> FALSE]
\* Once it was polled, a timer has its wakeup.
Polled(a) == [kind |-> a.kind, req |-> a.req, set |-> TRUE]

PyTypeOK ==
  /\ PreemptTypeOK
  /\ phase \in {"host", "loop", "send", "body", "poll", "store", "lose", "teardown", "gone"}
  /\ cur \in Proc \cup {Nobody}
  /\ at \in Nat
  /\ status \in [Proc -> {"unborn", "spawned", "running", "suspended", "done", "failed"}]
  /\ \A p \in Proc : status[p] = "running" <=> p = cur
  /\ stack \in [Proc -> Seq({"fresh", "started"})]
  /\ resume \in {"none", "object", "index", "value"}
  /\ yields \in [Proc -> Nat]
  /\ arms \in [Proc -> Seq([kind : Kind, req : Req, set : BOOLEAN])]
  /\ comb \in [Proc -> Comb]
  /\ winner \in Nat
  /\ guardOf \in [Proc -> SUBSET Req] /\ \A p \in Proc : Cardinality(guardOf[p]) <= 1
  /\ triggered \in BOOLEAN
  /\ due \subseteq Proc /\ stale \subseteq Proc
  /\ error \subseteq Proc /\ Cardinality(error) <= 1 /\ raised \subseteq Proc
  /\ failures \in Seq(Proc)

PyInit ==
  /\ PreemptInit
  /\ priority = [r \in Req |-> Urgency[r[1]]]
  /\ phase = "host" /\ cur = Nobody /\ at = 1
  /\ status = [p \in Proc |-> "unborn"]
  /\ stack = [p \in Proc |-> <<>>]
  /\ resume = "none"
  /\ yields = [p \in Proc |-> 0]
  /\ arms = [p \in Proc |-> <<>>]
  /\ comb = [p \in Proc |-> "wait"]
  /\ winner = 0
  /\ guardOf = [p \in Proc |-> {}]
  /\ triggered = FALSE
  /\ due = {} /\ stale = {}
  /\ error = {} /\ raised = {} /\ failures = <<>>

-----------------------------------------------------------------------------
(* The request object and its guard. *)

DropHeld(p) ==
  \/ guardOf[p] = {} /\ UNCHANGED preemptVars
  \/ \E g \in guardOf[p] : DropEvictedGuard(g) \/ DropHoldingGuard(g)

\* release, __aexit__, or the object is gone: `guard` becomes None.
LetGo(p) == guardOf' = [guardOf EXCEPT ![p] = {}] /\ DropHeld(p)

\* Mutant: the guard the object held before is forgotten, not dropped.
KeepGuardForgets(p, r) == guardOf' = [guardOf EXCEPT ![p] = {r}] /\ UNCHANGED preemptVars

\* Mutant: the new guard is dropped where it was obtained.
KeepGuardDrops(p, r) == DropHoldingGuard(r) /\ UNCHANGED guardOf

\* `guard = Some(guard)`: a guard the object held before is dropped.
KeepGuard(p, r) == guardOf' = [guardOf EXCEPT ![p] = {r}] /\ DropHeld(p)

-----------------------------------------------------------------------------
(* One step of the top generator: from its last yield to the next. *)

Active(p) == phase = "body" /\ cur = p

Send(p) ==
  /\ phase = "send" /\ cur = p
  /\ stack' = [stack EXCEPT ![p] = Append(Front(@), "started")]
  /\ phase' = "body"
  /\ UNCHANGED <<unitVars, cur, at, status, resume, yields, awaitVars, triggered, timeVars, errVars>>

\* The next value sent is v.
Deliver(v) ==
  /\ resume' = v
  /\ phase' = "send"

\* `resume = None`: a generator that has not started takes no value.
Prime == Deliver("none")

\* A generator was yielded: it is driven as a sub-routine.
Call(p) ==
  /\ Active(p) /\ yields[p] < MaxYields[p] /\ Len(stack[p]) = 1
  /\ stack' = [stack EXCEPT ![p] = Append(@, "fresh")]
  /\ yields' = [yields EXCEPT ![p] = @ + 1]
  /\ Prime
  /\ UNCHANGED <<unitVars, cur, at, status, awaitVars, triggered, timeVars, errVars>>

\* StopIteration from a sub-generator: its value goes to its caller.
ReturnToCaller(p) ==
  /\ Active(p) /\ Len(stack[p]) > 1
  /\ stack' = [stack EXCEPT ![p] = Front(@)]
  /\ Deliver("value")
  /\ UNCHANGED <<unitVars, cur, at, status, yields, awaitVars, triggered, timeVars, errVars>>

\* The poll of p is over.
Leave(p, outcome) ==
  /\ status' = [status EXCEPT ![p] = outcome]
  /\ phase' = "loop" /\ cur' = Nobody /\ at' = 1 /\ resume' = "none" /\ winner' = 0

\* The process returns; its request object dies with its frame.
Return(p) ==
  /\ Active(p) /\ Len(stack[p]) = 1
  /\ LetGo(p)
  /\ stack' = [stack EXCEPT ![p] = <<>>]
  /\ Leave(p, "done")
  /\ UNCHANGED <<yields, arms, comb, triggered, timeVars, errVars>>

\* `*error.borrow_mut() = Some(e)`, whatever is there.
Record(p) == error' = {p} /\ failures' = Append(failures, p) /\ UNCHANGED raised

\* An exception, or a yield of something that is no request, ends the process.
\* The generators left on the stack are closed, which releases the guard, but
\* a guard the failing frame took with a bare await lives on in the traceback.
Fail(p) ==
  /\ Active(p)
  /\ Record(p)
  /\ \/ LetGo(p)
     \/ Len(stack[p]) = 1 /\ guardOf[p] # {} /\ UNCHANGED unitVars
  /\ stack' = [stack EXCEPT ![p] = <<>>]
  /\ Leave(p, "failed")
  /\ UNCHANGED <<yields, arms, comb, triggered, timeVars>>

\* The traceback is gone (overwritten, or handled by the host): sooner or
\* later CPython reclaims the frame and the guard in it.
Reclaim(p) ==
  /\ phase \in {"host", "loop", "body"}
  /\ status[p] = "failed" /\ p \notin error \cup raised /\ guardOf[p] # {}
  /\ LetGo(p)
  /\ UNCHANGED <<threadVars, status, genVars, awaitVars, triggered, timeVars, errVars>>

\* `acquired`; without a guard there is no preempt_event to await.
Acquired(p) == guardOf[p] # {}

\* The end of `async with`, or release().
LeaveWith(p) ==
  /\ Active(p) /\ Acquired(p)
  /\ LetGo(p)
  /\ UNCHANGED <<threadVars, status, genVars, awaitVars, triggered, timeVars, errVars>>

\* Event::trigger; a second call raises, which is Fail.
Trigger(p) ==
  /\ Active(p) /\ ~triggered
  /\ triggered' = TRUE
  /\ UNCHANGED <<unitVars, threadVars, status, genVars, awaitVars, timeVars, errVars>>

Spawn(p) ==
  /\ phase \in {"host", "body"}
  /\ status[p] = "unborn" /\ \A q \in Proc : q < p => status[q] # "unborn"
  /\ status' = [status EXCEPT ![p] = "spawned"]
  /\ stack' = [stack EXCEPT ![p] = <<"fresh">>]
  /\ UNCHANGED <<unitVars, threadVars, resume, yields, awaitVars, triggered, timeVars, errVars>>

\* build_arms: a signal is that of the guard held, an acquire is a new request.
BuildArms(kinds, held, r) ==
  [i \in DOMAIN kinds |-> Arm(kinds[i], IF kinds[i] = "signal" THEN held ELSE r)]

\* Request objects are yielded: their kernel futures are made (build_arms).
\* preempt_event raises unless the object holds a guard.
Yield(p) ==
  /\ Active(p) /\ yields[p] < MaxYields[p]
  /\ yields' = [yields EXCEPT ![p] = @ + 1]
  /\ \E y \in Menu[p] : \E held \in IF guardOf[p] = {} THEN {<<p, 1>>} ELSE guardOf[p] :
       LET r == <<p, yields'[p]>>
       IN  /\ "signal" \in ToSet(y.kinds) => Acquired(p)
           /\ IF "acquire" \in ToSet(y.kinds) THEN Request(r) /\ UNCHANGED holderVars
                                              ELSE UNCHANGED preemptVars
           /\ arms' = [arms EXCEPT ![p] = BuildArms(y.kinds, held, r)]
           /\ comb' = [comb EXCEPT ![p] = y.comb]
  /\ winner' = 0
  /\ due' = due \ {p}
  /\ phase' = "poll" /\ at' = 1
  /\ UNCHANGED <<guardOf, cur, status, stack, resume, triggered, stale, errVars>>

-----------------------------------------------------------------------------
(* Polling the awaited futures, arm by arm. *)

\* Mutant: the signal of an evicted guard is never seen.
DoneUnsignalled(p, a) ==
  \/ a.kind = "timer" /\ a.set /\ p \in due
  \/ a.kind = "event" /\ triggered

Done(p, a) ==
  \/ a.kind = "timer" /\ a.set /\ p \in due
  \/ a.kind = "event" /\ triggered
  \/ a.kind = "signal" /\ a.req \in preempted

\* Mutant: any_of goes on to the next arm.
ArmResolvedGoesOn(p) ==
  /\ winner' = IF winner = 0 THEN at ELSE winner
  /\ arms' = [arms EXCEPT ![p] = RemoveAt(@, at)]
  /\ phase' = IF comb[p] = "all" \/ at < Len(arms[p]) THEN "poll" ELSE "lose"

\* The arm's future is done: any_of is resolved by it, all_of drops it.
ArmResolved(p) ==
  /\ winner' = IF winner = 0 THEN at ELSE winner
  /\ arms' = [arms EXCEPT ![p] = RemoveAt(@, at)]
  /\ phase' = IF comb[p] = "all" THEN "poll" ELSE "lose"

PollAcquireArm(p) ==
  /\ phase = "poll" /\ cur = p /\ at <= Len(arms[p]) /\ arms[p][at].kind = "acquire"
  /\ PreemptPoll(arms[p][at].req)
  /\ IF arms[p][at].req \in consumed' THEN phase' = "store" /\ UNCHANGED at
                                      ELSE at' = at + 1 /\ UNCHANGED phase
  /\ UNCHANGED <<guardOf, cur, status, genVars, awaitVars, triggered, timeVars, errVars>>

StoreGuard(p) ==
  /\ phase = "store" /\ cur = p
  /\ KeepGuard(p, arms[p][at].req)
  /\ ArmResolved(p)
  /\ UNCHANGED <<cur, at, status, genVars, comb, triggered, timeVars, errVars>>

PollPlainArm(p) ==
  /\ phase = "poll" /\ cur = p /\ at <= Len(arms[p]) /\ arms[p][at].kind # "acquire"
  /\ IF Done(p, arms[p][at])
       THEN ArmResolved(p) /\ UNCHANGED at
       ELSE /\ arms' = [arms EXCEPT ![p][at] = Polled(@)]
            /\ at' = at + 1
            /\ UNCHANGED <<phase, winner>>
  /\ UNCHANGED <<unitVars, cur, status, genVars, comb, triggered, timeVars, errVars>>

Suspend(p) ==
  /\ phase = "poll" /\ cur = p /\ at > Len(arms[p]) /\ arms[p] # <<>>
  /\ Leave(p, "suspended")
  /\ UNCHANGED <<unitVars, stack, yields, arms, comb, triggered, timeVars, errVars>>

\* all_of is resolved when no arm is left.
Joined(p) ==
  /\ phase = "poll" /\ cur = p /\ arms[p] = <<>>
  /\ Deliver("none")
  /\ UNCHANGED <<unitVars, cur, at, status, stack, yields, awaitVars, triggered, timeVars, errVars>>

\* Mutant: the future is forgotten.
DropArmForgets(p, a) == UNCHANGED <<preemptVars, stale>>

\* A future is dropped: a parked request leaves the line, a granted one passes
\* its unit on, any other may wake its process later, for nothing.
DropArm(p, a) ==
  /\ IF a.kind = "acquire" THEN PreemptDropRequest(a.req) ELSE UNCHANGED preemptVars
  /\ stale' = IF a.kind # "acquire" /\ a.set /\ ~Done(p, a) THEN stale \cup {p} ELSE stale

\* any_of drops the losing futures before the generator goes on.
LoseArm(p) ==
  /\ phase = "lose" /\ cur = p /\ arms[p] # <<>>
  /\ DropArm(p, Head(arms[p]))
  /\ arms' = [arms EXCEPT ![p] = Tail(@)]
  /\ UNCHANGED <<guardOf, threadVars, status, genVars, comb, winner, triggered, due, errVars>>

Outcome == [acquire |-> "object", wait |-> "none", any |-> "index"]

Won(p) ==
  /\ phase = "lose" /\ cur = p /\ arms[p] = <<>>
  /\ Deliver(Outcome[comb[p]])
  /\ UNCHANGED <<unitVars, cur, at, status, stack, yields, awaitVars, triggered, timeVars, errVars>>

-----------------------------------------------------------------------------
(* The event loop, run and check_error, and the end of the Simulation. *)

Awake(p) ==
  \/ status[p] = "spawned"
  \/ status[p] = "suspended" /\ \E i \in DOMAIN arms[p] :
       \/ arms[p][i].kind = "acquire" /\ arms[p][i].req \in woken
       \/ Done(p, arms[p][i])

Idle == \A p \in Proc : ~Awake(p)

\* A process is polled when spawned, when a future of it is done, or when one
\* that lost a race long ago is: here at any moment after that race.
Wake(p) ==
  /\ phase = "loop"
  /\ \/ Awake(p) /\ UNCHANGED stale
     \/ status[p] = "suspended" /\ p \in stale /\ stale' = stale \ {p}
  /\ status' = [status EXCEPT ![p] = "running"]
  /\ cur' = p
  /\ phase' = IF status[p] = "spawned" THEN "send" ELSE "poll"
  /\ UNCHANGED <<unitVars, at, genVars, awaitVars, triggered, due, errVars>>

Timed ==
  {p \in Proc : status[p] = "suspended" /\ \E i \in DOMAIN arms[p] : arms[p][i].kind = "timer"}

\* Nobody is awake: time moves on to the next deadline, of one timer or more.
Elapse ==
  /\ phase = "loop" /\ Idle
  /\ \E D \in SUBSET (Timed \ due) : D # {} /\ due' = due \cup D
  /\ UNCHANGED <<unitVars, threadVars, status, genVars, awaitVars, triggered, stale, errVars>>

\* take_env: the environment is away during a run, a second run() raises (Fail).
Run ==
  /\ phase = "host"
  /\ phase' = "loop"
  /\ raised' = {}
  /\ UNCHANGED <<unitVars, cur, at, status, genVars, awaitVars, triggered, timeVars, error, failures>>

\* Mutant: an error is raised and stays in the slot.
CheckErrorKeeps == raised' = error /\ failures' = <<>> /\ UNCHANGED error

\* check_error takes what is in the slot.
CheckError == raised' = error /\ failures' = <<>> /\ error' = {}

\* run stops when no event is left, run_until also before a later one.
RunEnds ==
  /\ phase = "loop" /\ Idle
  /\ phase' = "host"
  /\ CheckError
  /\ UNCHANGED <<unitVars, cur, at, status, genVars, awaitVars, triggered, timeVars>>

\* The Simulation is dropped, and with it the process table (SimEnv::drop).
DropSimulation ==
  /\ phase = "host"
  /\ phase' = "teardown"
  /\ UNCHANGED <<unitVars, cur, at, status, genVars, awaitVars, triggered, timeVars, errVars>>

Left == {p \in Proc : status[p] \in {"spawned", "suspended"}}

\* Mutant: the generators are dropped, and the futures they awaited leak.
TearDownAwake(p) ==
  /\ LetGo(p)
  /\ status' = [status EXCEPT ![p] = "done"]
  /\ stack' = [stack EXCEPT ![p] = <<>>]
  /\ UNCHANGED <<arms, stale>>

\* First the future p is suspended on, then its generators: that lets go of
\* what they hold.
TearDown(p) ==
  \/ /\ arms[p] # <<>>
     /\ DropArm(p, Head(arms[p]))
     /\ arms' = [arms EXCEPT ![p] = Tail(@)]
     /\ UNCHANGED <<guardOf, status, stack>>
  \/ /\ arms[p] = <<>>
     /\ LetGo(p)
     /\ status' = [status EXCEPT ![p] = "done"]
     /\ stack' = [stack EXCEPT ![p] = <<>>]
     /\ UNCHANGED <<arms, stale>>

\* The code drops processes by id; here in any order.
DropProcess(p) ==
  /\ phase = "teardown" /\ p \in Left
  /\ TearDown(p)
  /\ UNCHANGED <<threadVars, resume, yields, comb, winner, triggered, due, errVars>>

TornDown ==
  /\ phase = "teardown" /\ Left = {}
  /\ phase' = "gone"
  /\ UNCHANGED <<unitVars, cur, at, status, genVars, awaitVars, triggered, timeVars, errVars>>

Trampoline(p) ==
  \/ Send(p) \/ Call(p) \/ ReturnToCaller(p) \/ Return(p) \/ Fail(p) \/ LeaveWith(p)
  \/ Trigger(p) \/ Yield(p) \/ PollAcquireArm(p) \/ StoreGuard(p) \/ PollPlainArm(p)
  \/ Suspend(p) \/ Joined(p) \/ LoseArm(p) \/ Won(p)

Step ==
  \/ \E p \in Proc : Trampoline(p) \/ Wake(p) \/ DropProcess(p)
  \/ Elapse \/ RunEnds \/ TornDown

PyNext == Step \/ Run \/ DropSimulation \/ \E p \in Proc : Spawn(p) \/ Reclaim(p)

PySpec == PyInit /\ [][PyNext]_pyVars

\* The loop runs on, and the host runs the Simulation again or drops it.
PyFairSpec == PySpec /\ WF_pyVars(Step) /\ WF_pyVars(Run)

-----------------------------------------------------------------------------
\* The kernel requests p awaits, and all that are awaited.
AskedBy(p) == {a.req : a \in {a \in ToSet(arms[p]) : a.kind = "acquire"}}
Asked == UNION {AskedBy(p) : p \in Proc}
Stored == UNION {guardOf[p] : p \in Proc}
BeingStored == IF phase = "store" THEN {arms[cur][at].req} ELSE {}

\* Nothing of the kernel is adrift: every live guard sits in a request object,
\* every live kernel future is an arm some process awaits, and nothing else.
\* A guard that is replaced, a race that is lost, an exception and the teardown
\* each dispose of what they take away.
NothingAdrift ==
  /\ guards = Stored \cup BeingStored
  /\ requested \ (consumed \cup dropped) = Asked \ consumed

\* Every unit in use can be traced to a Python object or a pending await, on
\* which somebody can release it.
UnitsReachable ==
  inUse = Cardinality((Stored \cup BeingStored) \ preempted)
            + Cardinality(Asked \cap (granted \ consumed))

\* What a generator is resumed with.  One that has not started is sent None, or
\* CPython raises TypeError.  One that awaited an acquire, alone or in an
\* all_of, finds the guard of that very await in its request object, which
\* `async with` relies on.
ResumedAsAwaited ==
  phase = "send" =>
    /\ Last(stack[cur]) = "fresh" => resume = "none"
    /\ LET r == <<cur, yields[cur]>>
       IN  /\ resume # "value" /\ r \in requested
           /\ comb[cur] \in {"acquire", "all"}
           => guardOf[cur] = {r}

\* any_of: only the arm reported as the winner leaves a guard behind; a loser
\* stays un-acquired even if its unit was granted in the same instant.
OnlyWinnerAcquires ==
  [][\A p \in Proc :
       comb[p] = "any" /\ ~(guardOf'[p] \subseteq guardOf[p])
         => winner = 0 /\ winner' = at]_pyVars

\* Where the thread is, and whom it polls.
Polling == {"send", "body", "poll", "store", "lose"}
AwaitsPolled == {"poll", "store", "lose"}
Ending == {"teardown", "gone"}

ThreadCoheres ==
  /\ cur # Nobody <=> phase \in Polling
  /\ cur = Nobody => at = 1 /\ resume = "none" /\ winner = 0
  /\ at >= 1
  /\ phase = "store" =>
       /\ at \in DOMAIN arms[cur] /\ arms[cur][at].kind = "acquire"
       /\ arms[cur][at].req \in consumed \ guardOf[cur]
  /\ phase \in {"poll", "store"} /\ comb[cur] # "all" => winner = 0
  /\ phase = "lose" => comb[cur] # "all" /\ (comb[cur] = "acquire" => arms[cur] = <<>>)
  /\ phase = "gone" => Left = {}
  /\ error # {} <=> failures # <<>>

\* The generators of p: those that called a sub-generator have started.
StackCoheres(p) ==
  /\ status[p] = "spawned" => stack[p] = <<"fresh">>
  /\ status[p] \in {"running", "suspended"} =>
       /\ stack[p] # <<>>
       /\ \A i \in 1..Len(stack[p]) - 1 : stack[p][i] = "started"
       /\ (phase = "send" /\ cur = p) \/ stack[p][Len(stack[p])] = "started"

\* Its arms: they exist while it awaits, and one at most is an acquire, the
\* kernel request made for this yield.
ArmsCohere(p) ==
  /\ status[p] \in {"unborn", "spawned"} => yields[p] = 0
  /\ arms[p] # <<>> => status[p] = "suspended" \/ (cur = p /\ phase \in AwaitsPolled)
  /\ \A i, j \in DOMAIN arms[p] :
       /\ arms[p][i].kind = "acquire" => arms[p][i].req = <<p, yields[p]>>
       /\ arms[p][i].kind = "acquire" /\ arms[p][j].kind = "acquire" => i = j
       /\ comb[p] = "acquire" => arms[p][i].kind = "acquire"
  /\ \A r \in requested : r[1] = p => r[2] <= yields[p]

\* Its guard: of its own request, and once an acquire that must succeed is no
\* longer awaited, of that very one.
GuardCoheres(p) ==
  /\ guardOf[p] # {} => status[p] \in {"running", "suspended", "failed"}
  /\ \A g \in guardOf[p] : g[1] = p
  /\ /\ (status[p] = "suspended" /\ phase \notin Ending) \/ (cur = p /\ phase \in AwaitsPolled)
     /\ comb[p] \in {"acquire", "all"} /\ <<p, yields[p]>> \in requested /\ AskedBy(p) = {}
     => guardOf[p] = {<<p, yields[p]>>}

ProcessCoheres(p) == StackCoheres(p) /\ ArmsCohere(p) /\ GuardCoheres(p)

\* The inductive invariant.
PyInv ==
  /\ PyTypeOK
  /\ ThreadCoheres
  /\ \A p \in Proc : ProcessCoheres(p)
  /\ NothingAdrift
  /\ ResumedAsAwaited

\* Dropping the Simulation strands nobody: no request is left in line or with
\* an uncollected unit, and only guards kept alive by a traceback remain.
TeardownReleasesAll ==
  phase = "gone" =>
    /\ LiveWaiters = {} /\ Handed = {}
    /\ \A p \in Proc : guardOf[p] # {} => status[p] = "failed"

RunReturns == phase = "loop" /\ phase' = "host"

\* run raises if and only if a process failed since the last raise.
NoSilentFailure == [][RunReturns => (raised' # {} <=> failures # <<>>)]_pyVars

\* Simulation, run: "re-raise the first process error (if any)".
FirstErrorRaised == [][RunReturns /\ failures # <<>> => raised' = {Head(failures)}]_pyVars

\* Processes suspended on the preempt_event of a guard that was evicted.
EvictedUntold ==
  {p \in Proc : /\ status[p] = "suspended"
                /\ \E a \in ToSet(arms[p]) : a.kind = "signal" /\ a.req \in preempted}

\* Whoever waits on preempt_event is resumed once evicted.
EvictedIsTold == EvictedUntold # {} ~> EvictedUntold = {}

=============================================================================

----------------------------- MODULE MonteCarlo -----------------------------
(***************************************************************************)
(* src/src/monte_carlo.rs, std::thread backend: run starts one scoped      *)
(* thread per seed, joins them in order, and returns the results or        *)
(* re-raises a panic.  The closure builds its own environment over a feed  *)
(* made from its seed and draws from it; all threads interleave at every   *)
(* draw.  The calls of the closure are those of Script, what they return   *)
(* and leave behind is up to the feed (SplitMix64 in MCMonteCarlo).        *)
(***************************************************************************)
EXTENDS Integers, Sequences, FiniteSets

CONSTANTS
  Seed,           \* the states a feed can be seeded with
  Call,           \* the calls it takes
  Seeds,          \* the seeds, in order
  Script,         \* what the closure asks its feed for, in order
  Answer(_, _),   \* what a feed returns for a call
  NextFeed(_, _)  \* and the feed the call leaves behind

ASSUME SeedsAssumption == Seeds \in Seq(Seed)
ASSUME ScriptAssumption == Script \in Seq(Call)

Replication == DOMAIN Seeds

VARIABLES
  phase,      \* of the calling thread: spawning, joining, unwinding, over
  next,       \* the seed it spawns or joins next
  status,     \* of each thread
  feed,       \* its feed
  drawn,      \* what its closure has drawn
  results,    \* the results joined so far
  firstPanic, \* the thread whose payload is kept, if any
  outcome     \* what run does in the end

callerVars == <<phase, next, results, firstPanic, outcome>>
threadVars == <<status, feed, drawn>>
vars == <<callerVars, threadVars>>

Pending == [kind |-> "pending", value |-> <<>>]

TypeOK ==
  /\ phase \in {"spawning", "joining", "unwinding", "over"}
  /\ next \in 1..(Len(Seeds) + 1)
  /\ status \in [Replication -> {"unborn", "running", "returned", "panicked"}]
  /\ DOMAIN feed = Replication /\ DOMAIN drawn = Replication
  /\ \A i \in Replication : Len(drawn[i]) \in 0..Len(Script)
  /\ Len(results) \in 0..next - 1
  /\ firstPanic \subseteq Replication /\ Cardinality(firstPanic) <= 1
  /\ outcome.kind \in {"pending", "returned", "raised", "failed"}

Init ==
  /\ phase = "spawning" /\ next = 1
  /\ status = [i \in Replication |-> "unborn"]
  /\ feed = Seeds
  /\ drawn = [i \in Replication |-> <<>>]
  /\ results = <<>> /\ firstPanic = {}
  /\ outcome = Pending

-----------------------------------------------------------------------------
(* The worker threads. *)

Running(i) == status[i] = "running"

\* Mutant: all threads draw from the feed of the first.
AdvanceShared(i, d) == feed' = [feed EXCEPT ![1] = NextFeed(@, d)]

Advance(i, d) == feed' = [feed EXCEPT ![i] = NextFeed(@, d)]

Work(i) ==
  /\ Running(i) /\ Len(drawn[i]) < Len(Script)
  /\ LET d == Script[Len(drawn[i]) + 1]
     IN  /\ drawn' = [drawn EXCEPT ![i] = Append(@, Answer(feed[i], d))]
         /\ Advance(i, d)
  /\ UNCHANGED <<callerVars, status>>

Return(i) ==
  /\ Running(i) /\ Len(drawn[i]) = Len(Script)
  /\ status' = [status EXCEPT ![i] = "returned"]
  /\ UNCHANGED <<callerVars, feed, drawn>>

\* The closure panics, anywhere.
Panic(i) ==
  /\ Running(i)
  /\ status' = [status EXCEPT ![i] = "panicked"]
  /\ UNCHANGED <<callerVars, feed, drawn>>

-----------------------------------------------------------------------------
(* The calling thread. *)

Spawn ==
  /\ phase = "spawning" /\ next <= Len(Seeds)
  /\ status' = [status EXCEPT ![next] = "running"]
  /\ next' = next + 1
  /\ UNCHANGED <<phase, results, firstPanic, outcome, feed, drawn>>

\* scope.spawn panics when the system starts no thread.
SpawnFails ==
  /\ phase = "spawning" /\ next <= Len(Seeds)
  /\ phase' = "unwinding"
  /\ UNCHANGED <<next, results, firstPanic, outcome, threadVars>>

SpawnedAll ==
  /\ phase = "spawning" /\ next > Len(Seeds)
  /\ phase' = "joining" /\ next' = 1
  /\ UNCHANGED <<results, firstPanic, outcome, threadVars>>

\* Mutant: the payload of the last panic is kept.
JoinKeepsLast ==
  /\ phase = "joining" /\ next <= Len(Seeds) /\ ~Running(next)
  /\ next' = next + 1
  /\ IF status[next] = "returned"
       THEN results' = Append(results, drawn[next]) /\ UNCHANGED firstPanic
       ELSE firstPanic' = {next} /\ UNCHANGED results
  /\ UNCHANGED <<phase, outcome, threadVars>>

\* Mutant: the payloads pile up.
JoinKeepsAll ==
  /\ phase = "joining" /\ next <= Len(Seeds) /\ ~Running(next)
  /\ next' = next + 1
  /\ IF status[next] = "returned"
       THEN results' = Append(results, drawn[next]) /\ UNCHANGED firstPanic
       ELSE firstPanic' = firstPanic \cup {next} /\ UNCHANGED results
  /\ UNCHANGED <<phase, outcome, threadVars>>

\* Mutant: a panicked thread is waited for.
JoinReturned ==
  /\ phase = "joining" /\ next <= Len(Seeds) /\ status[next] = "returned"
  /\ next' = next + 1
  /\ results' = Append(results, drawn[next])
  /\ UNCHANGED <<phase, firstPanic, outcome, threadVars>>

\* h.join() blocks until the thread is over.
Join ==
  /\ phase = "joining" /\ next <= Len(Seeds) /\ ~Running(next)
  /\ next' = next + 1
  /\ IF status[next] = "returned"
       THEN results' = Append(results, drawn[next]) /\ UNCHANGED firstPanic
       ELSE /\ firstPanic' = IF firstPanic = {} THEN {next} ELSE firstPanic
            /\ UNCHANGED results
  /\ UNCHANGED <<phase, outcome, threadVars>>

Finish ==
  /\ phase = "joining" /\ next > Len(Seeds)
  /\ phase' = "over"
  /\ outcome' = IF firstPanic = {} THEN [kind |-> "returned", value |-> results]
                ELSE [kind |-> "raised", value |-> CHOOSE i \in firstPanic : TRUE]
  /\ UNCHANGED <<next, results, firstPanic, threadVars>>

\* thread::scope waits for every thread it started before it unwinds.
Unwind ==
  /\ phase = "unwinding" /\ \A i \in Replication : ~Running(i)
  /\ phase' = "over"
  /\ outcome' = [kind |-> "failed", value |-> <<>>]
  /\ UNCHANGED <<next, results, firstPanic, threadVars>>

Worker(i) == Work(i) \/ Return(i) \/ Panic(i)
Caller == Spawn \/ SpawnFails \/ SpawnedAll \/ Join \/ Finish \/ Unwind

Next == Caller \/ \E i \in Replication : Worker(i)

Spec == Init /\ [][Next]_vars

\* The operating system runs every thread, and a closure comes to an end: one
\* that is running returns or panics (it cannot draw for ever, Script is finite).
FairSpec ==
  Spec /\ WF_vars(Caller) /\ \A i \in Replication : WF_vars(Return(i) \/ Panic(i))

-----------------------------------------------------------------------------
\* The feed after k calls, and what the closure draws when nothing goes wrong:
\* functions of the seed.
FeedAt(i) ==
  LET at[k \in 0..Len(Script)] == IF k = 0 THEN Seeds[i] ELSE NextFeed(at[k - 1], Script[k])
  IN  at

Expected(i) == [k \in DOMAIN Script |-> Answer(FeedAt(i)[k - 1], Script[k])]

Settled == {i \in Replication : status[i] \in {"returned", "panicked"}}

\* run is what Replications promises: the results in seed order however the
\* threads interleave, or the panic of the lowest seed, and only when no
\* thread is left running, also when starting them failed half way.
Contract ==
  INSTANCE Replications WITH Value <- Expected,
    started <- {i \in Replication : status[i] # "unborn"}, over <- Settled,
    panicked <- {i \in Replication : status[i] = "panicked"}, outcome <- outcome

ImplementsReplications == Contract!Spec

\* The call comes back, with a result or a panic.
CallReturns == <>(outcome # Pending)

\* How far the calling thread is: whom it has started, whom it has joined.
CallerCoheres ==
  /\ phase # "over" <=> outcome = Pending
  /\ phase = "spawning" =>
       /\ \A i \in Replication : status[i] # "unborn" <=> i < next
       /\ results = <<>> /\ firstPanic = {}
  /\ phase = "unwinding" => \E i \in Replication : status[i] = "unborn"
  /\ phase = "joining" =>
       \A i \in Replication : status[i] # "unborn" /\ (Running(i) => i >= next)
  /\ phase = "over" => \A i \in Replication : ~Running(i)

\* What it has in hand: every result in seed order, or the lowest panic.
Lost == {i \in Replication : i < next /\ status[i] = "panicked"}

JoinedInOrder ==
  /\ results \in Seq({Expected(i) : i \in Replication})
  /\ phase = "joining" =>
       \/ Lost = {} /\ firstPanic = {} /\ results = [i \in 1..next - 1 |-> Expected(i)]
       \/ \E m \in Lost : firstPanic = {m} /\ \A i \in Lost : m <= i

\* No thread disturbs another: what a closure has drawn, and the state of its
\* feed, depend on its seed alone.
StreamsInOrder ==
  \A i \in Replication :
    /\ drawn[i] = [k \in 1..Len(drawn[i]) |-> Expected(i)[k]]
    /\ feed[i] = FeedAt(i)[Len(drawn[i])]
    /\ status[i] = "returned" => Len(drawn[i]) = Len(Script)

\* The inductive invariant.
IInv == TypeOK /\ CallerCoheres /\ JoinedInOrder /\ StreamsInOrder

=============================================================================

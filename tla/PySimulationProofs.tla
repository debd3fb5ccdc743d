--------------------------- MODULE PySimulationProofs ---------------------------
(***************************************************************************)
(* Proofs about PySimulation, for any number of processes, any menus and   *)
(* urgencies: the trampoline takes no step the preemptive pool does not    *)
(* have, it leaves no guard and no request adrift, and what it resumes a   *)
(* generator with is what the generator awaited.                           *)
(***************************************************************************)
EXTENDS PySimulation, RefinementProofs

ArmSet == [kind : Kind, req : Req, set : BOOLEAN]

\* The kernel futures are pairs of a process and a number.
LEMMA ReqPairs ==
  /\ \A r \in Req : /\ r[1] \in Proc /\ r[2] \in Nat /\ r[2] >= 1
                    /\ r = <<r[1], r[2]>>
  /\ \A p \in Proc : \A n \in 1..MaxYields[p] : <<p, n>> \in Req
  /\ Nobody \notin Proc
<1>1. Req = UNION {{p} \X (1..MaxYields[p]) : p \in Proc} /\ Proc \subseteq Nat \ {0}
  BY ProcAssumption
<1>2. ASSUME NEW r \in Req
      PROVE  r[1] \in Proc /\ r[2] \in Nat /\ r[2] >= 1 /\ r = <<r[1], r[2]>>
  <2>1. PICK p \in Proc : r \in {p} \X (1..MaxYields[p])
    BY <1>1
  <2>2. MaxYields[p] \in Nat
    BY ProcAssumption
  <2>3. QED
    BY <2>1, <2>2
<1>3. ASSUME NEW p \in Proc, NEW n \in 1..MaxYields[p] PROVE <<p, n>> \in Req
  BY <1>1
<1>4. QED
  BY <1>1, <1>2, <1>3 DEF Nobody

-----------------------------------------------------------------------------
(* Arms. *)

\* The kernel requests among the arms of s.
Asks(s) == {a.req : a \in {a \in ToSet(s) : a.kind = "acquire"}}

LEMMA AsksOf ==
  ASSUME NEW s \in Seq(ArmSet), NEW x
  PROVE  x \in Asks(s) <=> \E i \in 1..Len(s) : s[i].kind = "acquire" /\ s[i].req = x
<1>1. ToSet(s) = {s[i] : i \in 1..Len(s)}
  BY DEF ToSet
<1>2. QED
  BY <1>1 DEF Asks

\* The removal of an arm, where one at most is an acquire.
LEMMA ArmRemoved ==
  ASSUME NEW s \in Seq(ArmSet), NEW i \in 1..Len(s),
         \A j, k \in DOMAIN s : s[j].kind = "acquire" /\ s[k].kind = "acquire" => j = k
  PROVE  /\ RemoveAt(s, i) \in Seq(ArmSet)
         /\ \A k \in DOMAIN RemoveAt(s, i) : \E j \in DOMAIN s : j # i /\ RemoveAt(s, i)[k] = s[j]
         /\ \A j, k \in DOMAIN RemoveAt(s, i) :
              RemoveAt(s, i)[j].kind = "acquire" /\ RemoveAt(s, i)[k].kind = "acquire" => j = k
         /\ s[i].kind = "acquire" => Asks(RemoveAt(s, i)) = {}
         /\ s[i].kind # "acquire" => Asks(RemoveAt(s, i)) = Asks(s)
<1> DEFINE t == RemoveAt(s, i)
           From(k) == IF k < i THEN k ELSE k + 1
<1>1. /\ t \in Seq(ArmSet) /\ Len(t) = Len(s) - 1
      /\ \A j \in 1..Len(s) - 1 : t[j] = IF j < i THEN s[j] ELSE s[j + 1]
  BY RemoveAtElements
<1>2. Len(s) \in Nat /\ DOMAIN s = 1..Len(s) /\ DOMAIN t = 1..Len(s) - 1
  BY <1>1
<1> HIDE DEF t
<1>3. ASSUME NEW k \in DOMAIN t PROVE From(k) \in DOMAIN s /\ From(k) # i /\ t[k] = s[From(k)]
  BY <1>1, <1>2
<1>4. \A j, k \in DOMAIN t : From(j) = From(k) => j = k
  BY <1>2
<1>5. ASSUME NEW j \in DOMAIN s, j # i PROVE \E k \in DOMAIN t : t[k] = s[j]
  <2>1. CASE j < i
    BY <1>1, <1>2, <2>1
  <2>2. CASE j > i
    <3>1. j - 1 \in 1..Len(s) - 1 /\ ~(j - 1 < i) /\ (j - 1) + 1 = j
      BY <1>2, <2>2
    <3>2. QED
      BY <1>1, <1>2, <3>1
  <2>3. QED
    BY <1>2, <1>5, <2>1, <2>2
<1> HIDE DEF From
<1>6. \A k \in DOMAIN t : \E j \in DOMAIN s : j # i /\ t[k] = s[j]
  BY <1>3
<1>7. \A j, k \in DOMAIN t : t[j].kind = "acquire" /\ t[k].kind = "acquire" => j = k
  BY <1>3, <1>4
<1>8. s[i].kind = "acquire" => Asks(t) = {}
  <2> SUFFICES ASSUME s[i].kind = "acquire", NEW x \in Asks(t) PROVE FALSE
    OBVIOUS
  <2>1. PICK k \in DOMAIN t : t[k].kind = "acquire"
    BY <1>1, AsksOf
  <2>2. QED
    BY <1>2, <1>3, <2>1
<1>9. s[i].kind # "acquire" => Asks(t) = Asks(s)
  <2> SUFFICES ASSUME s[i].kind # "acquire", NEW x PROVE x \in Asks(t) <=> x \in Asks(s)
    OBVIOUS
  <2>1. x \in Asks(t) <=> \E k \in DOMAIN t : t[k].kind = "acquire" /\ t[k].req = x
    BY <1>1, <1>2, AsksOf
  <2>2. x \in Asks(s) <=> \E j \in DOMAIN s : s[j].kind = "acquire" /\ s[j].req = x
    BY <1>2, AsksOf
  <2>3. QED
    BY <1>3, <1>5, <2>1, <2>2
<1>10. QED
  BY <1>1, <1>6, <1>7, <1>8, <1>9 DEF t

\* To drop the first arm is to remove it.
LEMMA TailRemoves ==
  ASSUME NEW s \in Seq(ArmSet), s # <<>>
  PROVE  Tail(s) = RemoveAt(s, 1) /\ Head(s) = s[1] /\ 1 \in 1..Len(s)
<1>1. Len(s) \in Nat /\ Len(s) >= 1 /\ 1 \in 1..Len(s) /\ Head(s) = s[1]
  OBVIOUS
<1> DEFINE t == RemoveAt(s, 1)
           u == Tail(s)
<1>2. t \in Seq(ArmSet) /\ Len(t) = Len(s) - 1 /\ \A j \in 1..Len(s) - 1 : t[j] = s[j + 1]
  <2>1. \A j \in 1..Len(s) - 1 : ~(j < 1)
    OBVIOUS
  <2>2. QED
    BY <1>1, <2>1, RemoveAtElements
<1>3. u \in Seq(ArmSet) /\ Len(u) = Len(s) - 1 /\ \A j \in 1..Len(s) - 1 : u[j] = s[j + 1]
  BY <1>1
<1> HIDE DEF t, u
<1>4. t = u
  BY <1>1, <1>2, <1>3
<1>5. QED
  BY <1>1, <1>4 DEF t, u

-----------------------------------------------------------------------------
(* What the calls into the kernel do to its books. *)

books == <<requested, consumed, dropped, guards>>

LEMMA PollBooks ==
  ASSUME NEW r, PreemptPoll(r)
  PROVE  /\ requested' = requested /\ dropped' = dropped
         /\ r \in requested /\ r \notin consumed /\ r \notin dropped
         /\ \/ consumed' = consumed \cup {r} /\ guards' = guards \cup {r}
            \/ consumed' = consumed /\ guards' = guards
BY DEF PreemptPoll, Pollable, PreemptPollGranted, PollGranted, PollFree, PollAcquire, PollPreempt,
       PollBlock, PollPark, PollPending, Resolve, requestVars

LEMMA DropHeldBooks ==
  ASSUME PyTypeOK, NEW p \in Proc, DropHeld(p)
  PROVE  /\ UNCHANGED <<requested, consumed, dropped>>
         /\ guards' = guards \ guardOf[p]
<1>1. CASE guardOf[p] = {} /\ UNCHANGED preemptVars
  BY <1>1 DEF preemptVars, vars, requestVars
<1>2. ASSUME NEW g \in guardOf[p], DropEvictedGuard(g) \/ DropHoldingGuard(g)
      PROVE  UNCHANGED <<requested, consumed, dropped>> /\ guards' = guards \ guardOf[p]
  <2>1. UNCHANGED <<requested, consumed, dropped>> /\ guards' = guards \ {g}
    BY <1>2 DEF DropEvictedGuard, DropHoldingGuard, DropGuard
  <2>2. guardOf[p] \subseteq Req /\ Cardinality(guardOf[p]) <= 1
    BY DEF PyTypeOK
  <2>3. IsFiniteSet(guardOf[p] \ {g}) /\ Cardinality(guardOf[p] \ {g}) = Cardinality(guardOf[p]) - 1
    BY <2>2, ReqAssumption, FS_Subset, FS_RemoveElement
  <2>4. Cardinality(guardOf[p]) \in Nat /\ Cardinality(guardOf[p] \ {g}) \in Nat
    BY <2>2, <2>3, ReqAssumption, FS_Subset, FS_CardinalityType
  <2>5. guardOf[p] \ {g} = {}
    BY <2>2, <2>3, <2>4, FS_EmptySet
  <2>6. guardOf[p] = {g}
    BY <2>5
  <2>7. QED
    BY <2>1, <2>6
<1>3. QED
  BY <1>1, <1>2 DEF DropHeld

LEMMA DropRequestBooks ==
  ASSUME NEW r, PreemptDropRequest(r)
  PROVE  UNCHANGED <<requested, consumed, guards>> /\ dropped' = dropped \cup {r}
BY DEF PreemptDropRequest, DropRequest

-----------------------------------------------------------------------------
(* The trampoline takes steps of the pool only. *)

LEMMA DropHeldIsPool ==
  ASSUME PyTypeOK, NEW p \in Proc, DropHeld(p)
  PROVE  [PreemptNext]_preemptVars
BY DEF PyTypeOK, DropHeld, PreemptNext

LEMMA DropArmIsPool ==
  ASSUME PyTypeOK, NEW p \in Proc, arms[p] # <<>>, DropArm(p, Head(arms[p]))
  PROVE  [PreemptNext]_preemptVars
<1>1. Head(arms[p]).req \in Req
  <2>1. arms[p] \in Seq(ArmSet)
    BY DEF PyTypeOK, ArmSet
  <2>2. Head(arms[p]) \in ArmSet
    BY <2>1
  <2>3. QED
    BY <2>2 DEF ArmSet
<1>2. QED
  BY <1>1 DEF DropArm, PreemptNext

LEMMA YieldIsPool ==
  ASSUME PyTypeOK, NEW p \in Proc, Yield(p)
  PROVE  [PreemptNext]_preemptVars
<1>1. /\ yields[p] < MaxYields[p] /\ yields' = [yields EXCEPT ![p] = yields[p] + 1]
      /\ (Request(<<p, yields'[p]>>) /\ UNCHANGED holderVars) \/ UNCHANGED preemptVars
  BY DEF Yield
<1>2. yields'[p] = yields[p] + 1 /\ yields[p] \in Nat /\ MaxYields[p] \in Nat
  BY <1>1, ProcAssumption DEF PyTypeOK
<1>3. yields[p] + 1 \in 1..MaxYields[p]
  BY <1>1, <1>2
<1>4. <<p, yields'[p]>> \in Req
  BY <1>2, <1>3, ReqPairs
<1> DEFINE r == <<p, yields'[p]>>
<1>5. CASE Request(r) /\ UNCHANGED holderVars
  BY <1>4, <1>5 DEF PreemptNext
<1>6. QED
  BY <1>1, <1>5

LEMMA PoolSteps ==
  ASSUME PyTypeOK, ThreadCoheres, [PyNext]_pyVars
  PROVE  [PreemptNext]_preemptVars
<1>1. CASE UNCHANGED pyVars
  BY <1>1 DEF pyVars, unitVars
<1>2. ASSUME NEW p \in Proc, Trampoline(p) PROVE [PreemptNext]_preemptVars
  <2>1. CASE Send(p) \/ Call(p) \/ ReturnToCaller(p) \/ Trigger(p) \/ Suspend(p) \/ Joined(p) \/ Won(p)
    BY <2>1 DEF Send, Call, ReturnToCaller, Trigger, Suspend, Joined, Won, unitVars
  <2>2. CASE Return(p) \/ Fail(p) \/ LeaveWith(p) \/ StoreGuard(p)
    <3>1. DropHeld(p) \/ UNCHANGED preemptVars
      BY <2>2 DEF Return, Fail, LeaveWith, StoreGuard, LetGo, KeepGuard, unitVars
    <3>2. QED
      BY <3>1, DropHeldIsPool
  <2>3. CASE Yield(p)
    BY <2>3, YieldIsPool
  <2>4. CASE PollAcquireArm(p)
    <3>1. PreemptPoll(arms[p][at].req) /\ at <= Len(arms[p])
      BY <2>4 DEF PollAcquireArm
    <3>2. at \in 1..Len(arms[p]) /\ arms[p] \in Seq(ArmSet)
      <4>1. arms[p] \in Seq(ArmSet) /\ at \in Nat /\ at >= 1
        BY DEF PyTypeOK, ThreadCoheres, ArmSet
      <4>2. QED
        BY <3>1, <4>1
    <3>3. arms[p][at] \in ArmSet
      BY <3>2
    <3>4. arms[p][at].req \in Req
      BY <3>3 DEF ArmSet
    <3>5. QED
      BY <3>1, <3>4 DEF PreemptNext
  <2>5. CASE PollPlainArm(p)
    BY <2>5 DEF PollPlainArm, unitVars
  <2>6. CASE LoseArm(p)
    BY <2>6, DropArmIsPool DEF LoseArm
  <2>7. QED
    BY <1>2, <2>1, <2>2, <2>3, <2>4, <2>5, <2>6 DEF Trampoline
<1>3. ASSUME NEW p \in Proc, Wake(p) \/ Spawn(p) PROVE [PreemptNext]_preemptVars
  BY <1>3 DEF Wake, Spawn, unitVars
<1>4. ASSUME NEW p \in Proc, DropProcess(p) PROVE [PreemptNext]_preemptVars
  BY <1>4, DropHeldIsPool, DropArmIsPool DEF DropProcess, TearDown, LetGo
<1>5. ASSUME NEW p \in Proc, Reclaim(p) PROVE [PreemptNext]_preemptVars
  BY <1>5, DropHeldIsPool DEF Reclaim, LetGo
<1>6. CASE Elapse \/ RunEnds \/ TornDown \/ Run \/ DropSimulation
  BY <1>6 DEF Elapse, RunEnds, TornDown, Run, DropSimulation, unitVars
<1>7. QED
  BY <1>1, <1>2, <1>3, <1>4, <1>5, <1>6 DEF PyNext, Step

-----------------------------------------------------------------------------
(* Frames: what a step leaves alone. *)

\* Only the process that is polled, or one the step is about, changes.
LEMMA OthersCohere ==
  ASSUME NEW q \in Proc, ProcessCoheres(q),
         (cur # q /\ cur' # q) \/ UNCHANGED <<cur, phase>>,
         phase \in Ending => phase' \in Ending,
         status'[q] = status[q], stack'[q] = stack[q], yields'[q] = yields[q],
         arms'[q] = arms[q], comb'[q] = comb[q], guardOf'[q] = guardOf[q],
         \A r \in requested' \ requested : r[1] # q
  PROVE  ProcessCoheres(q)'
<1>1. StackCoheres(q)'
  BY DEF ProcessCoheres, StackCoheres
<1>2. ArmsCohere(q)'
  BY DEF ProcessCoheres, ArmsCohere
<1>3. AskedBy(q)' = AskedBy(q)
  BY DEF AskedBy
<1>4. <<q, yields[q]>> \in requested' => <<q, yields[q]>> \in requested
  OBVIOUS
<1>5. GuardCoheres(q)'
  BY <1>3, <1>4 DEF ProcessCoheres, GuardCoheres
<1>6. QED
  BY <1>1, <1>2, <1>5 DEF ProcessCoheres

\* Of a step that touches neither the kernel nor an arm.
LEMMA FrameInv ==
  ASSUME PyInv, NEW p \in Proc, PyTypeOK', ThreadCoheres', ProcessCoheres(p)',
         UNCHANGED <<unitVars, arms>>,
         \A q \in Proc \ {p} : /\ status'[q] = status[q] /\ stack'[q] = stack[q]
                               /\ yields'[q] = yields[q] /\ comb'[q] = comb[q],
         (cur \in {p, Nobody} /\ cur' \in {p, Nobody}) \/ UNCHANGED <<cur, phase>>,
         phase \in Ending => phase' \in Ending,
         phase # "store", phase' # "store",
         phase' # "send" \/ ResumedAsAwaited'
  PROVE  PyInv'
<1>1. UNCHANGED <<requested, consumed, dropped, guards, guardOf, arms>>
  BY DEF unitVars, preemptVars, vars, requestVars
<1>2. NothingAdrift'
  BY <1>1 DEF PyInv, NothingAdrift, Stored, BeingStored, Asked, AskedBy
<1>3. ASSUME NEW q \in Proc \ {p} PROVE ProcessCoheres(q)'
  <2>1. ProcessCoheres(q) /\ q # Nobody
    BY ReqPairs DEF PyInv
  <2>2. (cur # q /\ cur' # q) \/ UNCHANGED <<cur, phase>>
    BY <2>1
  <2>3. QED
    BY <1>1, <2>1, <2>2, OthersCohere
<1>4. ResumedAsAwaited'
  BY DEF ResumedAsAwaited
<1>5. QED
  BY <1>2, <1>3, <1>4 DEF PyInv

\* The parts of the invariant, for the process a step is about.
LEMMA InvParts ==
  ASSUME PyInv, NEW p \in Proc
  PROVE  /\ PyTypeOK /\ ThreadCoheres /\ NothingAdrift /\ ResumedAsAwaited
         /\ StackCoheres(p) /\ ArmsCohere(p) /\ GuardCoheres(p)
         /\ p # Nobody
BY ReqPairs DEF PyInv, ProcessCoheres

-----------------------------------------------------------------------------
(* The steps of a generator that touch no guard. *)

LEMMA SentStack ==
  ASSUME NEW s \in Seq({"fresh", "started"}), s # <<>>
  PROVE  LET t == Append(Front(s), "started")
         IN  /\ t \in Seq({"fresh", "started"}) /\ Len(t) = Len(s) /\ t # <<>>
             /\ \A i \in 1..Len(s) - 1 : t[i] = s[i]
             /\ t[Len(s)] = "started"
<1> DEFINE f == SubSeq(s, 1, Len(s) - 1)
<1>1. Len(s) \in Nat /\ Len(s) >= 1
  OBVIOUS
<1>2. f \in Seq({"fresh", "started"}) /\ Len(f) = Len(s) - 1 /\ \A i \in 1..Len(s) - 1 : f[i] = s[i]
  BY <1>1
<1> HIDE DEF f
<1>3. /\ Append(f, "started") \in Seq({"fresh", "started"}) /\ Len(Append(f, "started")) = Len(s)
      /\ \A i \in 1..Len(s) - 1 : Append(f, "started")[i] = s[i]
      /\ Append(f, "started")[Len(s)] = "started"
  BY <1>1, <1>2
<1>4. Append(f, "started") # <<>>
  BY <1>1, <1>3
<1>5. QED
  BY <1>3, <1>4 DEF f, Front

LEMMA SendInv ==
  ASSUME PyInv, PreemptTypeOK', NEW p \in Proc, Send(p)
  PROVE  PyInv'
<1> DEFINE t == Append(Front(stack[p]), "started")
<1>1. /\ phase = "send" /\ cur = p /\ phase' = "body"
      /\ stack' = [stack EXCEPT ![p] = t]
      /\ UNCHANGED <<cur, at, status, resume, yields, arms, comb, winner, guardOf, triggered, due, stale>>
      /\ UNCHANGED <<error, raised, failures, requested, unitVars>>
  BY DEF Send, unitVars, preemptVars, vars, requestVars, awaitVars, timeVars, errVars
<1>2. /\ PyTypeOK /\ ThreadCoheres /\ StackCoheres(p) /\ ArmsCohere(p) /\ GuardCoheres(p)
      /\ p # Nobody
  BY InvParts
<1>3. status[p] = "running" /\ stack[p] \in Seq({"fresh", "started"}) /\ stack[p] # <<>>
  BY <1>1, <1>2 DEF PyTypeOK, StackCoheres
<1>4. /\ t \in Seq({"fresh", "started"}) /\ Len(t) = Len(stack[p]) /\ t # <<>>
      /\ \A i \in 1..Len(stack[p]) - 1 : t[i] = stack[p][i]
      /\ t[Len(stack[p])] = "started"
  BY <1>3, SentStack
<1> HIDE DEF t
<1>5. stack'[p] = t /\ \A q \in Proc \ {p} : stack'[q] = stack[q]
  BY <1>1, <1>2 DEF PyTypeOK
<1>6. PyTypeOK'
  BY <1>1, <1>2, <1>4 DEF PyTypeOK
<1>7. ThreadCoheres'
  BY <1>1, <1>2 DEF ThreadCoheres, Polling, Left
<1>8. StackCoheres(p)'
  BY <1>1, <1>2, <1>3, <1>4, <1>5 DEF StackCoheres
<1>9. ArmsCohere(p)' /\ GuardCoheres(p)'
  BY <1>1, <1>2, <1>3 DEF ArmsCohere, GuardCoheres, AwaitsPolled
<1>10. QED
  BY <1>1, <1>5, <1>6, <1>7, <1>8, <1>9, FrameInv DEF ProcessCoheres, Ending

LEMMA CallInv ==
  ASSUME PyInv, PreemptTypeOK', NEW p \in Proc, Call(p)
  PROVE  PyInv'
<1> DEFINE t == Append(stack[p], "fresh")
<1>1. /\ phase = "body" /\ cur = p /\ phase' = "send" /\ resume' = "none"
      /\ stack' = [stack EXCEPT ![p] = t] /\ yields' = [yields EXCEPT ![p] = yields[p] + 1]
      /\ UNCHANGED <<cur, at, status, arms, comb, winner, guardOf, triggered, due, stale>>
      /\ UNCHANGED <<error, raised, failures, requested, unitVars>>
  BY DEF Call, Active, Prime, Deliver, unitVars, preemptVars, vars, requestVars, awaitVars, timeVars,
         errVars
<1>2. /\ PyTypeOK /\ ThreadCoheres /\ StackCoheres(p) /\ ArmsCohere(p) /\ GuardCoheres(p)
      /\ p # Nobody
  BY InvParts
<1>3. /\ status[p] = "running" /\ stack[p] \in Seq({"fresh", "started"}) /\ stack[p] # <<>>
      /\ arms[p] = <<>> /\ yields[p] \in Nat
      /\ \A i \in 1..Len(stack[p]) - 1 : stack[p][i] = "started"
      /\ stack[p][Len(stack[p])] = "started"
  BY <1>1, <1>2 DEF PyTypeOK, StackCoheres, ArmsCohere, AwaitsPolled
<1>4. /\ t \in Seq({"fresh", "started"}) /\ Len(t) = Len(stack[p]) + 1 /\ t # <<>>
      /\ \A i \in 1..Len(stack[p]) : t[i] = stack[p][i]
      /\ t[Len(stack[p]) + 1] = "fresh" /\ Len(stack[p]) \in Nat
  BY <1>3
<1> HIDE DEF t
<1>5. /\ stack'[p] = t /\ yields'[p] = yields[p] + 1
      /\ \A q \in Proc \ {p} : stack'[q] = stack[q] /\ yields'[q] = yields[q]
  BY <1>1, <1>2 DEF PyTypeOK
<1>6. PyTypeOK'
  <2>1. yields[p] + 1 \in Nat
    BY <1>3
  <2>2. yields' \in [Proc -> Nat] /\ stack' \in [Proc -> Seq({"fresh", "started"})]
    BY <1>1, <1>2, <1>4, <2>1 DEF PyTypeOK
  <2>3. QED
    BY <1>1, <1>2, <2>2 DEF PyTypeOK
<1>7. ThreadCoheres'
  BY <1>1, <1>2 DEF ThreadCoheres, Polling, Left
<1>8. StackCoheres(p)'
  <2>1. \A i \in 1..Len(stack[p]) : i = Len(stack[p]) \/ i \in 1..Len(stack[p]) - 1
    BY <1>4
  <2>2. \A i \in 1..Len(t) - 1 : t[i] = "started"
    BY <1>3, <1>4, <2>1
  <2>3. QED
    BY <1>1, <1>2, <1>3, <1>4, <1>5, <2>2 DEF StackCoheres
<1>9. ArmsCohere(p)'
  <2>1. \A r \in requested : r[1] = p => r[2] <= yields[p] + 1
    <3> SUFFICES ASSUME NEW r \in requested, r[1] = p PROVE r[2] <= yields[p] + 1
      OBVIOUS
    <3>1. r[2] <= yields[p] /\ r[2] \in Nat
      BY <1>2, ReqPairs DEF ArmsCohere, PyTypeOK, PreemptTypeOK, TypeOK
    <3>2. QED
      BY <1>3, <3>1
  <2>2. DOMAIN arms[p] = {}
    BY <1>3
  <2>3. QED
    BY <1>1, <1>3, <1>5, <2>1, <2>2 DEF ArmsCohere
<1>10. GuardCoheres(p)'
  BY <1>1, <1>2, <1>3 DEF GuardCoheres, AwaitsPolled
<1>11. ResumedAsAwaited'
  <2>1. <<p, yields[p] + 1>> \notin requested
    BY <1>2, <1>3 DEF ArmsCohere
  <2>2. QED
    BY <1>1, <1>5, <2>1 DEF ResumedAsAwaited
<1>12. QED
  BY <1>1, <1>5, <1>6, <1>7, <1>8, <1>9, <1>10, <1>11, FrameInv DEF ProcessCoheres, Ending

LEMMA ReturnToCallerInv ==
  ASSUME PyInv, PreemptTypeOK', NEW p \in Proc, ReturnToCaller(p)
  PROVE  PyInv'
<1> DEFINE t == SubSeq(stack[p], 1, Len(stack[p]) - 1)
<1>1. /\ phase = "body" /\ cur = p /\ phase' = "send" /\ resume' = "value" /\ Len(stack[p]) > 1
      /\ stack' = [stack EXCEPT ![p] = t]
      /\ UNCHANGED <<cur, at, status, yields, arms, comb, winner, guardOf, triggered, due, stale>>
      /\ UNCHANGED <<error, raised, failures, requested, unitVars>>
  BY DEF ReturnToCaller, Active, Deliver, Front, unitVars, preemptVars, vars, requestVars, awaitVars,
         timeVars, errVars
<1>2. /\ PyTypeOK /\ ThreadCoheres /\ StackCoheres(p) /\ ArmsCohere(p) /\ GuardCoheres(p)
      /\ p # Nobody
  BY InvParts
<1>3. /\ status[p] = "running" /\ stack[p] \in Seq({"fresh", "started"})
      /\ \A i \in 1..Len(stack[p]) - 1 : stack[p][i] = "started"
  BY <1>1, <1>2 DEF PyTypeOK, StackCoheres
<1>4. /\ t \in Seq({"fresh", "started"}) /\ Len(t) = Len(stack[p]) - 1 /\ Len(stack[p]) \in Nat
      /\ \A i \in 1..Len(stack[p]) - 1 : t[i] = stack[p][i]
  BY <1>1, <1>3
<1> HIDE DEF t
<1>5. t # <<>> /\ \A i \in 1..Len(t) : t[i] = "started"
  BY <1>1, <1>3, <1>4
<1>6. stack'[p] = t /\ \A q \in Proc \ {p} : stack'[q] = stack[q]
  BY <1>1, <1>2 DEF PyTypeOK
<1>7. PyTypeOK'
  BY <1>1, <1>2, <1>4 DEF PyTypeOK
<1>8. ThreadCoheres'
  BY <1>1, <1>2 DEF ThreadCoheres, Polling, Left
<1>9. Len(t) \in Nat /\ Len(t) \in 1..Len(t)
  BY <1>1, <1>4
<1>10. StackCoheres(p)'
  BY <1>1, <1>2, <1>3, <1>5, <1>6, <1>9 DEF StackCoheres
<1>11. ArmsCohere(p)' /\ GuardCoheres(p)'
  BY <1>1, <1>2, <1>3 DEF ArmsCohere, GuardCoheres, AwaitsPolled
<1>12. ResumedAsAwaited'
  BY <1>1, <1>5, <1>6, <1>9 DEF ResumedAsAwaited, Last
<1>13. QED
  BY <1>1, <1>6, <1>7, <1>8, <1>10, <1>11, <1>12, FrameInv DEF ProcessCoheres, Ending

LEMMA TriggerInv ==
  ASSUME PyInv, PreemptTypeOK', NEW p \in Proc, Trigger(p)
  PROVE  PyInv'
<1>1. /\ phase = "body" /\ cur = p /\ triggered' = TRUE
      /\ UNCHANGED <<phase, cur, at, status, stack, resume, yields, arms, comb, winner, guardOf, due, stale>>
      /\ UNCHANGED <<error, raised, failures, requested, consumed, unitVars>>
  BY DEF Trigger, Active, unitVars, preemptVars, vars, requestVars, threadVars, genVars, awaitVars,
         timeVars, errVars
<1>2. /\ PyTypeOK /\ ThreadCoheres /\ StackCoheres(p) /\ ArmsCohere(p) /\ GuardCoheres(p)
      /\ p # Nobody
  BY InvParts
<1>3. PyTypeOK' /\ ThreadCoheres'
  BY <1>1, <1>2 DEF PyTypeOK, ThreadCoheres, Left
<1>4. StackCoheres(p)' /\ ArmsCohere(p)' /\ GuardCoheres(p)'
  BY <1>1, <1>2 DEF StackCoheres, ArmsCohere, GuardCoheres, AskedBy
<1>5. QED
  BY <1>1, <1>3, <1>4, FrameInv DEF ProcessCoheres, Ending

\* A process is born with one generator that has not started.
LEMMA SpawnInv ==
  ASSUME PyInv, PreemptTypeOK', NEW p \in Proc, Spawn(p)
  PROVE  PyInv'
<1>1. /\ phase \in {"host", "body"} /\ status[p] = "unborn"
      /\ status' = [status EXCEPT ![p] = "spawned"] /\ stack' = [stack EXCEPT ![p] = <<"fresh">>]
      /\ UNCHANGED <<phase, cur, at, resume, yields, arms, comb, winner, guardOf, triggered, due, stale>>
      /\ UNCHANGED <<error, raised, failures, requested, consumed, unitVars>>
  BY DEF Spawn, unitVars, preemptVars, vars, requestVars, threadVars, awaitVars, timeVars, errVars
<1>2. /\ PyTypeOK /\ ThreadCoheres /\ StackCoheres(p) /\ ArmsCohere(p) /\ GuardCoheres(p)
      /\ p # Nobody
  BY InvParts
<1>3. /\ status'[p] = "spawned" /\ stack'[p] = <<"fresh">> /\ cur # p
      /\ \A q \in Proc \ {p} : status'[q] = status[q] /\ stack'[q] = stack[q]
  BY <1>1, <1>2 DEF PyTypeOK
<1>4. <<"fresh">> \in Seq({"fresh", "started"})
  OBVIOUS
<1>5. PyTypeOK'
  BY <1>1, <1>2, <1>3, <1>4 DEF PyTypeOK
<1>6. ThreadCoheres'
  BY <1>1, <1>2 DEF ThreadCoheres
<1>7. StackCoheres(p)' /\ ArmsCohere(p)' /\ GuardCoheres(p)'
  BY <1>1, <1>2, <1>3 DEF StackCoheres, ArmsCohere, GuardCoheres, AwaitsPolled
<1>8. QED
  BY <1>1, <1>3, <1>5, <1>6, <1>7, FrameInv DEF ProcessCoheres, Ending

-----------------------------------------------------------------------------
(* The end of a poll, and the beginning of the next. *)

LEMMA SuspendInv ==
  ASSUME PyInv, PreemptTypeOK', NEW p \in Proc, Suspend(p)
  PROVE  PyInv'
<1>1. /\ phase = "poll" /\ cur = p /\ phase' = "loop" /\ cur' = Nobody /\ at' = 1
      /\ resume' = "none" /\ winner' = 0 /\ status' = [status EXCEPT ![p] = "suspended"]
      /\ UNCHANGED <<stack, yields, arms, comb, guardOf, triggered, due, stale>>
      /\ UNCHANGED <<error, raised, failures, requested, consumed, unitVars>>
  BY DEF Suspend, Leave, unitVars, preemptVars, vars, requestVars, timeVars, errVars
<1>2. /\ PyTypeOK /\ ThreadCoheres /\ StackCoheres(p) /\ ArmsCohere(p) /\ GuardCoheres(p)
      /\ p # Nobody
  BY InvParts
<1>3. /\ status'[p] = "suspended" /\ status[p] = "running"
      /\ \A q \in Proc \ {p} : status'[q] = status[q]
  BY <1>1, <1>2 DEF PyTypeOK
<1>4. \A q \in Proc : q # Nobody
  BY ReqPairs
<1>5. PyTypeOK'
  BY <1>1, <1>2, <1>3, <1>4 DEF PyTypeOK
<1>6. ThreadCoheres'
  BY <1>1, <1>2 DEF ThreadCoheres, Polling
<1>7. StackCoheres(p)' /\ ArmsCohere(p)'
  BY <1>1, <1>2, <1>3 DEF StackCoheres, ArmsCohere
<1>8. GuardCoheres(p)'
  BY <1>1, <1>2, <1>3 DEF GuardCoheres, AskedBy, AwaitsPolled
<1>9. QED
  BY <1>1, <1>3, <1>5, <1>6, <1>7, <1>8, FrameInv DEF ProcessCoheres, Ending

\* The acquire an all_of contained left its guard in the request object.
LEMMA JoinedInv ==
  ASSUME PyInv, PreemptTypeOK', NEW p \in Proc, Joined(p) \/ Won(p)
  PROVE  PyInv'
<1>1. /\ phase \in {"poll", "lose"} /\ cur = p /\ phase' = "send" /\ arms[p] = <<>>
      /\ UNCHANGED <<cur, at, status, stack, yields, arms, comb, winner, guardOf, triggered, due, stale>>
      /\ UNCHANGED <<error, raised, failures, requested, consumed, unitVars>>
  BY DEF Joined, Won, Deliver, unitVars, preemptVars, vars, requestVars, awaitVars, timeVars, errVars
<1>2. /\ PyTypeOK /\ ThreadCoheres /\ StackCoheres(p) /\ ArmsCohere(p) /\ GuardCoheres(p)
      /\ p # Nobody
  BY InvParts
<1>3. resume' \in {"none", "object", "index", "value"}
  <2>1. CASE Joined(p)
    BY <2>1 DEF Joined, Deliver
  <2>2. CASE Won(p)
    <3>1. resume' = Outcome[comb[p]] /\ comb[p] \in {"acquire", "wait", "any"}
      BY <1>2, <2>2 DEF Won, Deliver, PyTypeOK, ThreadCoheres, Comb
    <3>2. QED
      BY <3>1 DEF Outcome
  <2>3. QED
    BY <2>1, <2>2
<1>4. PyTypeOK'
  BY <1>1, <1>2, <1>3 DEF PyTypeOK
<1>5. ThreadCoheres'
  BY <1>1, <1>2 DEF ThreadCoheres, Polling
<1>6. status[p] = "running"
  BY <1>1, <1>2 DEF PyTypeOK
<1>7. StackCoheres(p)' /\ ArmsCohere(p)'
  BY <1>1, <1>2, <1>6 DEF StackCoheres, ArmsCohere
<1>8. GuardCoheres(p)'
  BY <1>1, <1>2, <1>6 DEF GuardCoheres, AwaitsPolled
<1>9. ResumedAsAwaited'
  <2>1. stack[p][Len(stack[p])] = "started"
    BY <1>1, <1>2, <1>6 DEF StackCoheres
  <2>2. AskedBy(p) = {}
    BY <1>1 DEF AskedBy, ToSet
  <2>3. comb[p] \in {"acquire", "all"} /\ <<p, yields[p]>> \in requested
          => guardOf[p] = {<<p, yields[p]>>}
    BY <1>1, <1>2, <2>2 DEF GuardCoheres, AwaitsPolled
  <2>4. QED
    BY <1>1, <2>1, <2>3 DEF ResumedAsAwaited, Last
<1>10. QED
  BY <1>1, <1>4, <1>5, <1>7, <1>8, <1>9, FrameInv DEF ProcessCoheres, Ending

LEMMA WakeInv ==
  ASSUME PyInv, PreemptTypeOK', NEW p \in Proc, Wake(p)
  PROVE  PyInv'
<1>1. /\ phase = "loop" /\ status[p] \in {"spawned", "suspended"} /\ cur' = p
      /\ phase' = IF status[p] = "spawned" THEN "send" ELSE "poll"
      /\ status' = [status EXCEPT ![p] = "running"] /\ stale' \subseteq stale
      /\ UNCHANGED <<at, stack, resume, yields, arms, comb, winner, guardOf, triggered, due>>
      /\ UNCHANGED <<error, raised, failures, requested, consumed, unitVars>>
  BY DEF Wake, Awake, unitVars, preemptVars, vars, requestVars, genVars, awaitVars, errVars
<1>2. /\ PyTypeOK /\ ThreadCoheres /\ StackCoheres(p) /\ ArmsCohere(p) /\ GuardCoheres(p)
      /\ p # Nobody
  BY InvParts
<1>3. /\ status'[p] = "running" /\ cur = Nobody
      /\ \A q \in Proc \ {p} : status'[q] = status[q]
  BY <1>1, <1>2 DEF PyTypeOK, ThreadCoheres, Polling
<1>4. \A q \in Proc : q # Nobody
  BY ReqPairs
<1>5. PyTypeOK'
  <2>1. phase' \in {"send", "poll"} /\ stale' \subseteq Proc
    BY <1>1, <1>2 DEF PyTypeOK
  <2>2. status' \in [Proc -> {"unborn", "spawned", "running", "suspended", "done", "failed"}]
    BY <1>1, <1>2 DEF PyTypeOK
  <2>3. \A q \in Proc : status'[q] = "running" <=> q = cur'
    BY <1>1, <1>2, <1>3, <1>4 DEF PyTypeOK
  <2>4. QED
    BY <1>1, <1>2, <2>1, <2>2, <2>3 DEF PyTypeOK
<1>6. ThreadCoheres'
  BY <1>1, <1>2, <1>3 DEF ThreadCoheres, Polling
<1>7. StackCoheres(p)'
  <2>1. CASE status[p] = "spawned"
    <3>1. stack'[p] = <<"fresh">> /\ phase' = "send" /\ cur' = p
      BY <1>1, <1>2, <2>1 DEF StackCoheres
    <3>2. stack'[p] # <<>> /\ Len(stack'[p]) = 1
      BY <3>1
    <3>3. \A i \in 1..Len(stack'[p]) - 1 : stack'[p][i] = "started"
      BY <3>2
    <3>4. QED
      BY <1>3, <3>1, <3>2, <3>3 DEF StackCoheres
  <2>2. CASE status[p] = "suspended"
    BY <1>1, <1>2, <1>3, <2>2 DEF StackCoheres, ThreadCoheres, Polling
  <2>3. QED
    BY <1>1, <2>1, <2>2
<1>8. ArmsCohere(p)'
  BY <1>1, <1>2, <1>3 DEF ArmsCohere, AwaitsPolled
<1>9. GuardCoheres(p)'
  BY <1>1, <1>2, <1>3 DEF GuardCoheres, AskedBy, AwaitsPolled, Ending
<1>10. phase' # "send" \/ ResumedAsAwaited'
  <2> SUFFICES ASSUME phase' = "send" PROVE ResumedAsAwaited'
    OBVIOUS
  <2>1. status[p] = "spawned" /\ resume = "none" /\ yields[p] = 0
    BY <1>1, <1>2, <1>3 DEF ThreadCoheres, ArmsCohere
  <2>2. requested \subseteq Req
    BY <1>2 DEF PyTypeOK, PreemptTypeOK, TypeOK
  <2>3. <<p, 0>> \notin requested
    BY <2>2, ReqPairs
  <2>4. QED
    BY <1>1, <2>1, <2>3 DEF ResumedAsAwaited
<1>11. QED
  BY <1>1, <1>3, <1>5, <1>6, <1>7, <1>8, <1>9, <1>10, FrameInv DEF ProcessCoheres, Ending

-----------------------------------------------------------------------------
(* The loop and the host, while nobody is polled. *)

LEMMA LoopInv ==
  ASSUME PyInv, PreemptTypeOK', Elapse \/ RunEnds \/ TornDown \/ Run \/ DropSimulation
  PROVE  PyInv'
<1>1. /\ phase \in {"host", "loop", "teardown"} /\ phase' \in {"host", "loop", "teardown", "gone"}
      /\ phase \in Ending => phase' \in Ending
      /\ phase' = "gone" => Left = {}
      /\ UNCHANGED <<cur, at, status, stack, resume, yields, arms, comb, winner, guardOf, triggered, stale>>
      /\ UNCHANGED <<requested, consumed, dropped, guards, unitVars>>
  BY DEF Elapse, RunEnds, TornDown, Run, DropSimulation, Ending, unitVars, preemptVars, vars,
         requestVars, threadVars, genVars, awaitVars, timeVars
<1>2. PyTypeOK /\ ThreadCoheres /\ NothingAdrift /\ (\A p \in Proc : ProcessCoheres(p))
  BY DEF PyInv
<1>3. due' \subseteq Proc
  BY <1>2 DEF Elapse, RunEnds, TornDown, Run, DropSimulation, Timed, timeVars, PyTypeOK
<1>4. /\ error' \subseteq error /\ raised' \subseteq Proc
      /\ error' # {} <=> failures' # <<>>
      /\ Cardinality(error') <= 1
      /\ failures' \in Seq(Proc)
  <2>1. CASE RunEnds
    <3>1. error' = {} /\ raised' = error /\ failures' = <<>> /\ Cardinality({}) = 0
      BY <2>1, FS_EmptySet DEF RunEnds, CheckError
    <3>2. <<>> \in Seq(Proc) /\ Cardinality(error') <= 1
      BY <3>1
    <3>3. QED
      BY <1>2, <3>1, <3>2 DEF PyTypeOK
  <2>2. CASE Elapse \/ TornDown \/ Run \/ DropSimulation
    <3>1. error' = error /\ failures' = failures /\ (raised' = raised \/ raised' = {})
      BY <2>2 DEF Elapse, TornDown, Run, DropSimulation, errVars
    <3>2. QED
      BY <1>2, <3>1 DEF PyTypeOK, ThreadCoheres
  <2>3. QED
    BY <2>1, <2>2
<1>5. PyTypeOK'
  BY <1>1, <1>2, <1>3, <1>4 DEF PyTypeOK
<1>6. ThreadCoheres'
  BY <1>1, <1>2, <1>4 DEF ThreadCoheres, Polling, Left
<1>7. cur = Nobody
  BY <1>1, <1>2 DEF ThreadCoheres, Polling
<1>8. ASSUME NEW q \in Proc PROVE ProcessCoheres(q)'
  <2>1. ProcessCoheres(q) /\ q # Nobody
    BY <1>2, ReqPairs
  <2>2. QED
    BY <1>1, <1>7, <2>1, OthersCohere
<1>9. NothingAdrift'
  BY <1>1, <1>2 DEF NothingAdrift, Stored, BeingStored, Asked, AskedBy
<1>10. ResumedAsAwaited'
  BY <1>1 DEF ResumedAsAwaited
<1>11. QED
  BY <1>5, <1>6, <1>8, <1>9, <1>10 DEF PyInv

-----------------------------------------------------------------------------
(* The steps that move guards and arms. *)

\* Of a step that changes one process, and the kernel's books for it only.
LEMMA StepInv ==
  ASSUME PyInv, NEW p \in Proc, PyTypeOK', ThreadCoheres', ProcessCoheres(p)', NothingAdrift',
         \A q \in Proc \ {p} : /\ status'[q] = status[q] /\ stack'[q] = stack[q]
                               /\ yields'[q] = yields[q] /\ comb'[q] = comb[q]
                               /\ arms'[q] = arms[q] /\ guardOf'[q] = guardOf[q],
         \A r \in requested' \ requested : r[1] = p,
         (cur \in {p, Nobody} /\ cur' \in {p, Nobody}) \/ UNCHANGED <<cur, phase>>,
         phase \in Ending => phase' \in Ending,
         phase' # "send"
  PROVE  PyInv'
<1>1. ASSUME NEW q \in Proc \ {p} PROVE ProcessCoheres(q)'
  <2>1. ProcessCoheres(q) /\ q # Nobody
    BY ReqPairs DEF PyInv
  <2>2. (cur # q /\ cur' # q) \/ UNCHANGED <<cur, phase>>
    BY <2>1
  <2>3. QED
    BY <2>1, <2>2, OthersCohere
<1>2. ResumedAsAwaited'
  BY DEF ResumedAsAwaited
<1>3. QED
  BY <1>1, <1>2 DEF PyInv

\* The guards of p are its own: no other request object holds them.
LEMMA StoredAfter ==
  ASSUME PyInv, NEW p \in Proc, NEW S, guardOf' = [guardOf EXCEPT ![p] = S]
  PROVE  /\ Stored' = (Stored \ guardOf[p]) \cup S
         /\ guardOf'[p] = S
         /\ \A q \in Proc \ {p} : guardOf'[q] = guardOf[q]
<1>1. guardOf'[p] = S /\ \A q \in Proc \ {p} : guardOf'[q] = guardOf[q]
  BY DEF PyInv, PyTypeOK
<1>2. \A q \in Proc : \A g \in guardOf[q] : g[1] = q
  BY DEF PyInv, ProcessCoheres, GuardCoheres
<1>3. ASSUME NEW x PROVE x \in Stored' <=> x \in (Stored \ guardOf[p]) \cup S
  BY <1>1, <1>2 DEF Stored
<1>4. QED
  BY <1>1, <1>3

\* The requests p awaits are its own too.
LEMMA AskedAfter ==
  ASSUME PyInv, NEW p \in Proc, NEW s, arms' = [arms EXCEPT ![p] = s]
  PROVE  /\ Asked' = (Asked \ AskedBy(p)) \cup Asks(s)
         /\ AskedBy(p)' = Asks(s)
         /\ arms'[p] = s
         /\ \A q \in Proc \ {p} : arms'[q] = arms[q]
<1>1. arms'[p] = s /\ \A q \in Proc \ {p} : arms'[q] = arms[q]
  BY DEF PyInv, PyTypeOK
<1>2. AskedBy(p)' = Asks(s) /\ \A q \in Proc \ {p} : AskedBy(q)' = AskedBy(q)
  BY <1>1 DEF AskedBy, Asks
<1>3. ASSUME NEW q \in Proc, NEW x \in AskedBy(q) PROVE x[1] = q
  <2>1. arms[q] \in Seq(ArmSet) /\ x \in Asks(arms[q])
    BY <1>3 DEF PyInv, PyTypeOK, ArmSet, AskedBy, Asks
  <2>2. PICK i \in 1..Len(arms[q]) : arms[q][i].kind = "acquire" /\ arms[q][i].req = x
    BY <2>1, AsksOf
  <2>3. i \in DOMAIN arms[q]
    BY <2>1
  <2>4. x = <<q, yields[q]>>
    BY <2>2, <2>3 DEF PyInv, ProcessCoheres, ArmsCohere
  <2>5. QED
    BY <2>4
<1>4. ASSUME NEW x PROVE x \in Asked' <=> x \in (Asked \ AskedBy(p)) \cup Asks(s)
  BY <1>2, <1>3 DEF Asked
<1>5. QED
  BY <1>1, <1>2, <1>4

\* What the request object holds afterwards: nothing, or one guard.
LEMMA GuardTypes ==
  ASSUME PyTypeOK, NEW p \in Proc, NEW S, S = {} \/ \E r \in Req : S = {r},
         guardOf' = [guardOf EXCEPT ![p] = S]
  PROVE  guardOf' \in [Proc -> SUBSET Req] /\ \A q \in Proc : Cardinality(guardOf'[q]) <= 1
<1>1. S \subseteq Req /\ Cardinality(S) <= 1
  <2>1. CASE S = {}
    BY <2>1, FS_EmptySet
  <2>2. ASSUME NEW r \in Req, S = {r} PROVE S \subseteq Req /\ Cardinality(S) <= 1
    <3>1. Cardinality({r}) = 1
      BY FS_Singleton
    <3>2. QED
      BY <2>2, <3>1
  <2>3. QED
    BY <2>1, <2>2
<1>2. QED
  BY <1>1 DEF PyTypeOK

\* To let go of the guard leaves nothing adrift.
LEMMA LetGoBooks ==
  ASSUME PyInv, NEW p \in Proc, LetGo(p), phase # "store", phase' # "store", UNCHANGED arms
  PROVE  /\ NothingAdrift'
         /\ requested' = requested /\ consumed' = consumed
         /\ guardOf'[p] = {} /\ \A q \in Proc \ {p} : guardOf'[q] = guardOf[q]
         /\ guardOf' \in [Proc -> SUBSET Req] /\ \A q \in Proc : Cardinality(guardOf'[q]) <= 1
<1>1. PyTypeOK /\ NothingAdrift
  BY DEF PyInv
<1>2. guardOf' = [guardOf EXCEPT ![p] = {}] /\ DropHeld(p)
  BY DEF LetGo
<1>3. UNCHANGED <<requested, consumed, dropped>> /\ guards' = guards \ guardOf[p]
  BY <1>1, <1>2, DropHeldBooks
<1>4. /\ Stored' = Stored \ guardOf[p]
      /\ guardOf'[p] = {} /\ \A q \in Proc \ {p} : guardOf'[q] = guardOf[q]
  BY <1>2, StoredAfter
<1>5. guardOf' \in [Proc -> SUBSET Req] /\ \A q \in Proc : Cardinality(guardOf'[q]) <= 1
  BY <1>1, <1>2, GuardTypes
<1>6. Asked' = Asked
  BY DEF Asked, AskedBy
<1>7. BeingStored = {} /\ BeingStored' = {}
  BY DEF BeingStored
<1>8. NothingAdrift'
  BY <1>1, <1>3, <1>4, <1>6, <1>7 DEF NothingAdrift
<1>9. QED
  BY <1>3, <1>4, <1>5, <1>8

\* The process is over: the guard is dropped, or a traceback keeps it.
LEMMA ReturnInv ==
  ASSUME PyInv, PreemptTypeOK', NEW p \in Proc, Return(p)
  PROVE  PyInv'
<1>1. /\ phase = "body" /\ cur = p /\ phase' = "loop" /\ cur' = Nobody /\ at' = 1
      /\ resume' = "none" /\ winner' = 0 /\ status' = [status EXCEPT ![p] = "done"]
      /\ stack' = [stack EXCEPT ![p] = <<>>] /\ LetGo(p)
      /\ UNCHANGED <<yields, arms, comb, triggered, due, stale, error, raised, failures>>
  BY DEF Return, Active, Leave, timeVars, errVars
<1>2. /\ PyTypeOK /\ ThreadCoheres /\ StackCoheres(p) /\ ArmsCohere(p) /\ GuardCoheres(p)
      /\ p # Nobody
  BY InvParts
<1>3. /\ NothingAdrift' /\ requested' = requested
      /\ guardOf'[p] = {} /\ \A q \in Proc \ {p} : guardOf'[q] = guardOf[q]
      /\ guardOf' \in [Proc -> SUBSET Req] /\ \A q \in Proc : Cardinality(guardOf'[q]) <= 1
  BY <1>1, LetGoBooks
<1>4. /\ status'[p] = "done" /\ status[p] = "running"
      /\ \A q \in Proc \ {p} : status'[q] = status[q] /\ stack'[q] = stack[q]
      /\ arms[p] = <<>>
  BY <1>1, <1>2 DEF PyTypeOK, ArmsCohere, AwaitsPolled
<1>5. \A q \in Proc : q # Nobody
  BY ReqPairs
<1>6. PyTypeOK'
  <2>1. <<>> \in Seq({"fresh", "started"})
    OBVIOUS
  <2>2. QED
    BY <1>1, <1>2, <1>3, <1>4, <1>5, <2>1 DEF PyTypeOK
<1>7. ThreadCoheres'
  BY <1>1, <1>2 DEF ThreadCoheres, Polling
<1>8. ProcessCoheres(p)'
  BY <1>1, <1>2, <1>3, <1>4 DEF ProcessCoheres, StackCoheres, ArmsCohere, GuardCoheres
<1>9. QED
  BY <1>1, <1>3, <1>4, <1>6, <1>7, <1>8, StepInv DEF Ending

LEMMA FailInv ==
  ASSUME PyInv, PreemptTypeOK', NEW p \in Proc, Fail(p)
  PROVE  PyInv'
<1>1. /\ phase = "body" /\ cur = p /\ phase' = "loop" /\ cur' = Nobody /\ at' = 1
      /\ resume' = "none" /\ winner' = 0 /\ status' = [status EXCEPT ![p] = "failed"]
      /\ stack' = [stack EXCEPT ![p] = <<>>] /\ (LetGo(p) \/ UNCHANGED unitVars)
      /\ error' = {p} /\ failures' = Append(failures, p) /\ raised' = raised
      /\ UNCHANGED <<yields, arms, comb, triggered, due, stale>>
  BY DEF Fail, Active, Leave, Record, timeVars
<1>2. /\ PyTypeOK /\ ThreadCoheres /\ StackCoheres(p) /\ ArmsCohere(p) /\ GuardCoheres(p)
      /\ NothingAdrift /\ p # Nobody
  BY InvParts
<1>3. /\ NothingAdrift' /\ requested' = requested
      /\ guardOf'[p] \subseteq guardOf[p] /\ \A q \in Proc \ {p} : guardOf'[q] = guardOf[q]
      /\ guardOf' \in [Proc -> SUBSET Req] /\ \A q \in Proc : Cardinality(guardOf'[q]) <= 1
  <2>1. CASE LetGo(p)
    <3>1. /\ NothingAdrift' /\ requested' = requested
          /\ guardOf'[p] = {} /\ \A q \in Proc \ {p} : guardOf'[q] = guardOf[q]
          /\ guardOf' \in [Proc -> SUBSET Req] /\ \A q \in Proc : Cardinality(guardOf'[q]) <= 1
      BY <1>1, <2>1, LetGoBooks
    <3>2. QED
      BY <3>1
  <2>2. CASE UNCHANGED unitVars
    <3>1. UNCHANGED <<requested, consumed, dropped, guards, guardOf, arms>>
      BY <1>1, <2>2 DEF unitVars, preemptVars, vars, requestVars
    <3>2. NothingAdrift'
      BY <1>1, <1>2, <3>1 DEF NothingAdrift, Stored, BeingStored, Asked, AskedBy
    <3>3. QED
      BY <1>2, <3>1, <3>2 DEF PyTypeOK
  <2>3. QED
    BY <1>1, <2>1, <2>2
<1>4. /\ status'[p] = "failed" /\ status[p] = "running"
      /\ \A q \in Proc \ {p} : status'[q] = status[q] /\ stack'[q] = stack[q]
      /\ arms[p] = <<>>
  BY <1>1, <1>2 DEF PyTypeOK, ArmsCohere, AwaitsPolled
<1>5. \A q \in Proc : q # Nobody
  BY ReqPairs
<1>6. error' \subseteq Proc /\ Cardinality(error') <= 1 /\ failures' \in Seq(Proc) /\ failures' # <<>>
  <2>1. Cardinality({p}) = 1
    BY FS_Singleton
  <2>2. error' \subseteq Proc /\ Cardinality(error') <= 1
    BY <1>1, <2>1
  <2>3. failures \in Seq(Proc)
    BY <1>2 DEF PyTypeOK
  <2>4. /\ Append(failures, p) \in Seq(Proc) /\ Len(Append(failures, p)) = Len(failures) + 1
        /\ Len(failures) \in Nat
    BY <2>3
  <2>5. Len(<<>>) = 0 /\ Len(failures) + 1 # 0
    BY <2>4
  <2>6. QED
    BY <1>1, <2>2, <2>4, <2>5
<1>7. PyTypeOK'
  <2>1. <<>> \in Seq({"fresh", "started"})
    OBVIOUS
  <2>2. QED
    BY <1>1, <1>2, <1>3, <1>4, <1>5, <1>6, <2>1 DEF PyTypeOK
<1>8. ThreadCoheres'
  BY <1>1, <1>2, <1>6 DEF ThreadCoheres, Polling
<1>9. ProcessCoheres(p)'
  BY <1>1, <1>2, <1>3, <1>4 DEF ProcessCoheres, StackCoheres, ArmsCohere, GuardCoheres
<1>10. QED
  BY <1>1, <1>3, <1>4, <1>7, <1>8, <1>9, StepInv DEF Ending

\* release, and CPython's reclaim of a failed frame.
LEMMA LetGoInv ==
  ASSUME PyInv, PreemptTypeOK', NEW p \in Proc, LeaveWith(p) \/ Reclaim(p)
  PROVE  PyInv'
<1>1. /\ LetGo(p)
      /\ (phase = "body" /\ cur = p) \/ (phase \in {"host", "loop", "body"} /\ status[p] = "failed")
      /\ UNCHANGED <<phase, cur, at, status, stack, resume, yields, arms, comb, winner, triggered>>
      /\ UNCHANGED <<due, stale, error, raised, failures>>
  BY DEF LeaveWith, Reclaim, Active, threadVars, genVars, awaitVars, timeVars, errVars
<1>2. /\ PyTypeOK /\ ThreadCoheres /\ StackCoheres(p) /\ ArmsCohere(p) /\ GuardCoheres(p)
      /\ p # Nobody
  BY InvParts
<1>3. /\ NothingAdrift' /\ requested' = requested
      /\ guardOf'[p] = {} /\ \A q \in Proc \ {p} : guardOf'[q] = guardOf[q]
      /\ guardOf' \in [Proc -> SUBSET Req] /\ \A q \in Proc : Cardinality(guardOf'[q]) <= 1
  BY <1>1, LetGoBooks
<1>4. PyTypeOK'
  BY <1>1, <1>2, <1>3 DEF PyTypeOK
<1>5. ThreadCoheres'
  BY <1>1, <1>2 DEF ThreadCoheres, Left
<1>6. status[p] # "suspended"
  BY <1>1, <1>2 DEF PyTypeOK
<1>7. StackCoheres(p)' /\ ArmsCohere(p)'
  BY <1>1, <1>2, <1>3 DEF StackCoheres, ArmsCohere
<1>8. GuardCoheres(p)'
  BY <1>1, <1>2, <1>3, <1>6 DEF GuardCoheres, AwaitsPolled
<1>9. QED
  BY <1>1, <1>3, <1>4, <1>5, <1>7, <1>8, StepInv DEF ProcessCoheres, Ending

-----------------------------------------------------------------------------
(* Arms come and go. *)

\* The arms of p as the lemmas about arms take them.
LEMMA ArmsOf ==
  ASSUME PyInv, NEW p \in Proc
  PROVE  /\ arms[p] \in Seq(ArmSet) /\ DOMAIN arms[p] = 1..Len(arms[p]) /\ Len(arms[p]) \in Nat
         /\ AskedBy(p) = Asks(arms[p])
         /\ \A i, j \in DOMAIN arms[p] :
              /\ arms[p][i].kind = "acquire" => arms[p][i].req = <<p, yields[p]>>
              /\ arms[p][i].kind = "acquire" /\ arms[p][j].kind = "acquire" => i = j
              /\ comb[p] = "acquire" => arms[p][i].kind = "acquire"
         /\ \A i \in DOMAIN arms[p] :
              arms[p][i].kind = "acquire" => AskedBy(p) = {arms[p][i].req}
<1>1. arms[p] \in Seq(ArmSet)
  BY DEF PyInv, PyTypeOK, ArmSet
<1>2. DOMAIN arms[p] = 1..Len(arms[p]) /\ Len(arms[p]) \in Nat
  BY <1>1
<1>3. AskedBy(p) = Asks(arms[p])
  BY DEF AskedBy, Asks
<1>4. \A i, j \in DOMAIN arms[p] :
        /\ arms[p][i].kind = "acquire" => arms[p][i].req = <<p, yields[p]>>
        /\ arms[p][i].kind = "acquire" /\ arms[p][j].kind = "acquire" => i = j
        /\ comb[p] = "acquire" => arms[p][i].kind = "acquire"
  BY DEF PyInv, ProcessCoheres, ArmsCohere
<1>5. ASSUME NEW i \in DOMAIN arms[p], arms[p][i].kind = "acquire"
      PROVE  AskedBy(p) = {arms[p][i].req}
  <2>1. ASSUME NEW x PROVE x \in AskedBy(p) <=> x = arms[p][i].req
    <3>1. x \in AskedBy(p) <=> \E j \in DOMAIN arms[p] : arms[p][j].kind = "acquire" /\ arms[p][j].req = x
      BY <1>1, <1>2, <1>3, AsksOf
    <3>2. QED
      BY <1>4, <1>5, <3>1
  <2>2. QED
    BY <2>1
<1>6. QED
  BY <1>1, <1>2, <1>3, <1>4, <1>5

\* The arms that are left when one is gone.
LEMMA ArmGone ==
  ASSUME PyInv, NEW p \in Proc, NEW i \in DOMAIN arms[p],
         arms' = [arms EXCEPT ![p] = RemoveAt(arms[p], i)],
         yields' = yields, comb' = comb, status' = status,
         status[p] = "suspended" \/ (cur' = p /\ phase' \in AwaitsPolled),
         \A r \in requested' : r[1] = p => r[2] <= yields[p]
  PROVE  /\ arms' \in [Proc -> Seq([kind : Kind, req : Req, set : BOOLEAN])]
         /\ ArmsCohere(p)'
         /\ \A q \in Proc \ {p} : arms'[q] = arms[q]
         /\ comb[p] = "acquire" => arms'[p] = <<>>
         /\ AskedBy(p)' = IF arms[p][i].kind = "acquire" THEN {} ELSE AskedBy(p)
         /\ Asked' = IF arms[p][i].kind = "acquire" THEN Asked \ {arms[p][i].req} ELSE Asked
<1> DEFINE t == RemoveAt(arms[p], i)
<1>1. /\ arms[p] \in Seq(ArmSet) /\ i \in 1..Len(arms[p]) /\ AskedBy(p) = Asks(arms[p])
      /\ \A j, k \in DOMAIN arms[p] : arms[p][j].kind = "acquire" /\ arms[p][k].kind = "acquire" => j = k
      /\ \A j \in DOMAIN arms[p] :
           /\ arms[p][j].kind = "acquire" => arms[p][j].req = <<p, yields[p]>>
           /\ comb[p] = "acquire" => arms[p][j].kind = "acquire"
      /\ arms[p][i].kind = "acquire" => AskedBy(p) = {arms[p][i].req}
  BY ArmsOf
<1>2. /\ t \in Seq(ArmSet)
      /\ \A k \in DOMAIN t : \E j \in DOMAIN arms[p] : j # i /\ t[k] = arms[p][j]
      /\ \A j, k \in DOMAIN t : t[j].kind = "acquire" /\ t[k].kind = "acquire" => j = k
      /\ arms[p][i].kind = "acquire" => Asks(t) = {}
      /\ arms[p][i].kind # "acquire" => Asks(t) = Asks(arms[p])
  BY <1>1, ArmRemoved
<1>3. arms' = [arms EXCEPT ![p] = t]
  OBVIOUS
<1> HIDE DEF t
<1>4. /\ Asked' = (Asked \ AskedBy(p)) \cup Asks(t) /\ AskedBy(p)' = Asks(t)
      /\ arms'[p] = t /\ \A q \in Proc \ {p} : arms'[q] = arms[q]
  BY <1>3, AskedAfter
<1>5. arms' \in [Proc -> Seq([kind : Kind, req : Req, set : BOOLEAN])]
  BY <1>2, <1>3 DEF PyInv, PyTypeOK, ArmSet
<1>6. ArmsCohere(p)'
  <2>1. \A j, k \in DOMAIN t :
          /\ t[j].kind = "acquire" => t[j].req = <<p, yields[p]>>
          /\ t[j].kind = "acquire" /\ t[k].kind = "acquire" => j = k
          /\ comb[p] = "acquire" => t[j].kind = "acquire"
    BY <1>1, <1>2
  <2>2. status[p] \in {"unborn", "spawned"} => yields[p] = 0
    BY DEF PyInv, ProcessCoheres, ArmsCohere
  <2>3. QED
    BY <1>4, <2>1, <2>2 DEF ArmsCohere
<1>7. comb[p] = "acquire" => t = <<>>
  <2> SUFFICES ASSUME comb[p] = "acquire" PROVE t = <<>>
    OBVIOUS
  <2>1. DOMAIN t = {}
    BY <1>1, <1>2
  <2>2. QED
    BY <1>2, <2>1
<1>8. AskedBy(p) \subseteq Asked
  BY DEF Asked
<1>9. AskedBy(p)' = IF arms[p][i].kind = "acquire" THEN {} ELSE AskedBy(p)
  BY <1>1, <1>2, <1>4
<1>10. Asked' = IF arms[p][i].kind = "acquire" THEN Asked \ {arms[p][i].req} ELSE Asked
  BY <1>1, <1>2, <1>4, <1>8
<1>11. QED
  BY <1>4, <1>5, <1>6, <1>7, <1>9, <1>10

\* The guard of the request that resolved replaces the one held before.
LEMMA StoreGuardInv ==
  ASSUME PyInv, PreemptTypeOK', NEW p \in Proc, StoreGuard(p)
  PROVE  PyInv'
<1> DEFINE r == arms[p][at].req
<1>1. /\ phase = "store" /\ cur = p /\ phase' = IF comb[p] = "all" THEN "poll" ELSE "lose"
      /\ guardOf' = [guardOf EXCEPT ![p] = {r}] /\ DropHeld(p)
      /\ arms' = [arms EXCEPT ![p] = RemoveAt(arms[p], at)]
      /\ winner' = IF winner = 0 THEN at ELSE winner
      /\ UNCHANGED <<cur, at, status, stack, resume, yields, comb, triggered, due, stale>>
      /\ UNCHANGED <<error, raised, failures>>
  BY DEF StoreGuard, KeepGuard, ArmResolved, genVars, timeVars, errVars
<1>2. /\ PyTypeOK /\ ThreadCoheres /\ StackCoheres(p) /\ ArmsCohere(p) /\ GuardCoheres(p)
      /\ NothingAdrift /\ p # Nobody
  BY InvParts
<1>3. /\ at \in DOMAIN arms[p] /\ arms[p][at].kind = "acquire" /\ r \in consumed \ guardOf[p]
      /\ r = <<p, yields[p]>> /\ status[p] = "running" /\ at \in Nat
  BY <1>1, <1>2 DEF ThreadCoheres, ArmsCohere, PyTypeOK
<1>4. UNCHANGED <<requested, consumed, dropped>> /\ guards' = guards \ guardOf[p]
  BY <1>1, <1>2, DropHeldBooks
<1>5. r \in Req
  BY <1>2, <1>3 DEF PyTypeOK, PreemptTypeOK, TypeOK
<1> HIDE DEF r
<1>6. /\ Stored' = (Stored \ guardOf[p]) \cup {r}
      /\ guardOf'[p] = {r} /\ \A q \in Proc \ {p} : guardOf'[q] = guardOf[q]
  BY <1>1, StoredAfter
<1>7. guardOf' \in [Proc -> SUBSET Req] /\ \A q \in Proc : Cardinality(guardOf'[q]) <= 1
  BY <1>1, <1>2, <1>5, GuardTypes
<1>8. \A x \in requested' : x[1] = p => x[2] <= yields[p]
  BY <1>2, <1>4 DEF ArmsCohere
<1>9. cur' = p /\ phase' \in AwaitsPolled /\ phase' \in {"poll", "lose"}
  BY <1>1 DEF AwaitsPolled
<1>10. /\ arms' \in [Proc -> Seq([kind : Kind, req : Req, set : BOOLEAN])]
       /\ ArmsCohere(p)'
       /\ \A q \in Proc \ {p} : arms'[q] = arms[q]
       /\ comb[p] = "acquire" => arms'[p] = <<>>
       /\ AskedBy(p)' = {} /\ Asked' = Asked \ {r}
  <2>1. /\ arms' \in [Proc -> Seq([kind : Kind, req : Req, set : BOOLEAN])]
        /\ ArmsCohere(p)'
        /\ \A q \in Proc \ {p} : arms'[q] = arms[q]
        /\ comb[p] = "acquire" => arms'[p] = <<>>
        /\ AskedBy(p)' = IF arms[p][at].kind = "acquire" THEN {} ELSE AskedBy(p)
        /\ Asked' = IF arms[p][at].kind = "acquire" THEN Asked \ {arms[p][at].req} ELSE Asked
    BY <1>1, <1>3, <1>8, <1>9, ArmGone
  <2>2. QED
    BY <1>3, <2>1 DEF r
<1>11. NothingAdrift'
  <2>1. BeingStored = {r} /\ BeingStored' = {}
    BY <1>1, <1>9 DEF BeingStored, r
  <2>2. guards' = Stored' \cup BeingStored'
    BY <1>2, <1>3, <1>4, <1>6, <2>1 DEF NothingAdrift
  <2>3. requested' \ (consumed' \cup dropped') = Asked' \ consumed'
    BY <1>2, <1>3, <1>4, <1>10 DEF NothingAdrift
  <2>4. QED
    BY <2>2, <2>3 DEF NothingAdrift
<1>12. PyTypeOK'
  BY <1>1, <1>2, <1>3, <1>7, <1>9, <1>10 DEF PyTypeOK
<1>13. ThreadCoheres'
  BY <1>1, <1>2, <1>9, <1>10 DEF ThreadCoheres, Polling
<1>14. StackCoheres(p)'
  BY <1>1, <1>2, <1>9 DEF StackCoheres
<1>15. GuardCoheres(p)'
  BY <1>1, <1>2, <1>3, <1>6 DEF GuardCoheres
<1>16. phase' \notin Ending /\ phase \notin Ending /\ phase' # "send"
  BY <1>1, <1>9 DEF Ending
<1>17. QED
  BY <1>1, <1>4, <1>6, <1>10, <1>11, <1>12, <1>13, <1>14, <1>15, <1>16, StepInv DEF ProcessCoheres

\* A future that is done, or a wakeup that is registered.
LEMMA PollPlainArmInv ==
  ASSUME PyInv, PreemptTypeOK', NEW p \in Proc, PollPlainArm(p)
  PROVE  PyInv'
<1> DEFINE a == arms[p][at]
<1>1. /\ phase = "poll" /\ cur = p /\ at <= Len(arms[p]) /\ a.kind # "acquire"
      /\ UNCHANGED <<cur, status, stack, resume, yields, comb, triggered, due, stale>>
      /\ UNCHANGED <<error, raised, failures, guardOf, requested, consumed, dropped, guards>>
  BY DEF PollPlainArm, unitVars, preemptVars, vars, requestVars, genVars, timeVars, errVars
<1>2. /\ PyTypeOK /\ ThreadCoheres /\ StackCoheres(p) /\ ArmsCohere(p) /\ GuardCoheres(p)
      /\ NothingAdrift /\ p # Nobody
  BY InvParts
<1>3. /\ arms[p] \in Seq(ArmSet) /\ DOMAIN arms[p] = 1..Len(arms[p]) /\ Len(arms[p]) \in Nat
      /\ AskedBy(p) = Asks(arms[p])
  BY ArmsOf
<1>4. at \in DOMAIN arms[p] /\ at \in Nat /\ status[p] = "running"
  <2>1. at \in Nat /\ at >= 1 /\ status[p] = "running"
    BY <1>1, <1>2 DEF PyTypeOK, ThreadCoheres
  <2>2. QED
    BY <1>1, <1>3, <2>1
<1>5. /\ arms' \in [Proc -> Seq([kind : Kind, req : Req, set : BOOLEAN])]
      /\ ArmsCohere(p)' /\ \A q \in Proc \ {p} : arms'[q] = arms[q]
      /\ AskedBy(p)' = AskedBy(p) /\ Asked' = Asked
      /\ phase' \in {"poll", "lose"} /\ at' \in Nat /\ at' >= 1 /\ winner' \in Nat
      /\ comb[p] # "all" /\ phase' = "poll" => winner' = 0
      /\ phase' = "lose" => comb[p] # "all" /\ comb[p] # "acquire"
  <2>1. CASE Done(p, a)
    <3>1. /\ arms' = [arms EXCEPT ![p] = RemoveAt(arms[p], at)] /\ at' = at
          /\ phase' = IF comb[p] = "all" THEN "poll" ELSE "lose"
          /\ winner' = IF winner = 0 THEN at ELSE winner
      BY <2>1 DEF PollPlainArm, ArmResolved
    <3>2. comb[p] # "acquire"
      BY <1>1, <1>2, <1>4 DEF ArmsCohere
    <3>3. cur' = p /\ phase' \in AwaitsPolled
      BY <1>1, <3>1 DEF AwaitsPolled
    <3>4. \A x \in requested' : x[1] = p => x[2] <= yields[p]
      BY <1>1, <1>2 DEF ArmsCohere
    <3>5. /\ arms' \in [Proc -> Seq([kind : Kind, req : Req, set : BOOLEAN])]
          /\ ArmsCohere(p)' /\ \A q \in Proc \ {p} : arms'[q] = arms[q]
          /\ AskedBy(p)' = IF arms[p][at].kind = "acquire" THEN {} ELSE AskedBy(p)
          /\ Asked' = IF arms[p][at].kind = "acquire" THEN Asked \ {arms[p][at].req} ELSE Asked
      BY <1>1, <1>4, <3>1, <3>3, <3>4, ArmGone
    <3>6. winner \in Nat /\ at >= 1
      BY <1>2 DEF PyTypeOK, ThreadCoheres
    <3>7. QED
      BY <1>1, <1>4, <3>1, <3>2, <3>5, <3>6
  <2>2. CASE ~Done(p, a)
    <3> DEFINE b == [kind |-> a.kind, req |-> a.req, set |-> TRUE]
               t == [arms[p] EXCEPT ![at] = b]
    <3>1. /\ arms' = [arms EXCEPT ![p] = t] /\ at' = at + 1 /\ phase' = phase /\ winner' = winner
      BY <2>2 DEF PollPlainArm, Polled
    <3>2. a \in ArmSet
      BY <1>3, <1>4
    <3>3. b \in ArmSet /\ b.kind = a.kind /\ b.req = a.req
      BY <3>2 DEF ArmSet
    <3> HIDE DEF b
    <3>4. /\ t \in Seq(ArmSet) /\ Len(t) = Len(arms[p]) /\ DOMAIN t = 1..Len(arms[p])
          /\ \A i \in 1..Len(arms[p]) : t[i] = IF i = at THEN b ELSE arms[p][i]
      BY <1>3, <1>4, <3>3
    <3> HIDE DEF t
    <3>5. \A i \in 1..Len(arms[p]) : t[i].kind = arms[p][i].kind /\ t[i].req = arms[p][i].req
      BY <3>3, <3>4
    <3>6. Asks(t) = Asks(arms[p])
      <4>1. ASSUME NEW x PROVE x \in Asks(t) <=> x \in Asks(arms[p])
        <5>1. x \in Asks(t) <=> \E i \in 1..Len(t) : t[i].kind = "acquire" /\ t[i].req = x
          BY <3>4, AsksOf
        <5>2. x \in Asks(arms[p])
                <=> \E i \in 1..Len(arms[p]) : arms[p][i].kind = "acquire" /\ arms[p][i].req = x
          BY <1>3, AsksOf
        <5>3. QED
          BY <3>4, <3>5, <5>1, <5>2
      <4>2. QED
        BY <4>1
    <3>7. /\ Asked' = (Asked \ AskedBy(p)) \cup Asks(t) /\ AskedBy(p)' = Asks(t)
          /\ arms'[p] = t /\ \A q \in Proc \ {p} : arms'[q] = arms[q]
      BY <3>1, AskedAfter
    <3>8. AskedBy(p)' = AskedBy(p) /\ Asked' = Asked
      BY <1>3, <3>6, <3>7 DEF Asked
    <3>9. arms' \in [Proc -> Seq([kind : Kind, req : Req, set : BOOLEAN])]
      BY <1>2, <3>1, <3>4 DEF PyTypeOK, ArmSet
    <3>10. ArmsCohere(p)'
      <4>1. \A i, j \in DOMAIN t :
              /\ t[i].kind = "acquire" => t[i].req = <<p, yields[p]>>
              /\ t[i].kind = "acquire" /\ t[j].kind = "acquire" => i = j
              /\ comb[p] = "acquire" => t[i].kind = "acquire"
        BY <1>2, <1>3, <3>4, <3>5 DEF ArmsCohere
      <4>2. QED
        BY <1>1, <1>2, <1>4, <3>1, <3>7, <4>1 DEF ArmsCohere, AwaitsPolled
    <3>11. winner \in Nat /\ at + 1 \in Nat /\ at + 1 >= 1 /\ (comb[p] # "all" => winner = 0)
      BY <1>1, <1>2, <1>4 DEF PyTypeOK, ThreadCoheres
    <3>12. QED
      BY <1>1, <3>1, <3>7, <3>8, <3>9, <3>10, <3>11
  <2>3. QED
    BY <2>1, <2>2
<1>6. NothingAdrift'
  <2>1. BeingStored = {} /\ BeingStored' = {} /\ Stored' = Stored
    BY <1>1, <1>5 DEF BeingStored, Stored
  <2>2. QED
    BY <1>1, <1>2, <1>5, <2>1 DEF NothingAdrift
<1>7. PyTypeOK'
  BY <1>1, <1>2, <1>5 DEF PyTypeOK
<1>8. ThreadCoheres'
  BY <1>1, <1>2, <1>5 DEF ThreadCoheres, Polling
<1>9. StackCoheres(p)'
  BY <1>1, <1>2, <1>5 DEF StackCoheres
<1>10. GuardCoheres(p)'
  BY <1>1, <1>2, <1>4, <1>5 DEF GuardCoheres, AwaitsPolled
<1>11. phase' \notin Ending /\ phase \notin Ending /\ phase' # "send"
  BY <1>1, <1>5 DEF Ending
<1>12. QED
  BY <1>1, <1>5, <1>6, <1>7, <1>8, <1>9, <1>10, <1>11, StepInv DEF ProcessCoheres

\* The kernel request of an arm is polled: its guard is stored next, or the
\* next arm is polled.
LEMMA PollAcquireArmInv ==
  ASSUME PyInv, PreemptTypeOK', NEW p \in Proc, PollAcquireArm(p)
  PROVE  PyInv'
<1> DEFINE r == arms[p][at].req
<1>1. /\ phase = "poll" /\ cur = p /\ at <= Len(arms[p]) /\ arms[p][at].kind = "acquire"
      /\ PreemptPoll(r)
      /\ (r \in consumed' /\ phase' = "store" /\ at' = at)
           \/ (r \notin consumed' /\ phase' = phase /\ at' = at + 1)
      /\ UNCHANGED <<cur, status, stack, resume, yields, arms, comb, winner, guardOf, triggered>>
      /\ UNCHANGED <<due, stale, error, raised, failures>>
  BY DEF PollAcquireArm, genVars, awaitVars, timeVars, errVars
<1>2. /\ PyTypeOK /\ ThreadCoheres /\ StackCoheres(p) /\ ArmsCohere(p) /\ GuardCoheres(p)
      /\ NothingAdrift /\ p # Nobody
  BY InvParts
<1>3. /\ requested' = requested /\ dropped' = dropped
      /\ r \notin consumed /\ r \notin dropped
      /\ \/ consumed' = consumed \cup {r} /\ guards' = guards \cup {r}
         \/ consumed' = consumed /\ guards' = guards
  BY <1>1, PollBooks
<1>4. DOMAIN arms[p] = 1..Len(arms[p]) /\ Len(arms[p]) \in Nat
  BY ArmsOf
<1>5. at \in DOMAIN arms[p] /\ at \in Nat /\ status[p] = "running" /\ at + 1 >= 1 /\ at + 1 \in Nat
  <2>1. at \in Nat /\ at >= 1 /\ status[p] = "running"
    BY <1>1, <1>2 DEF PyTypeOK, ThreadCoheres
  <2>2. QED
    BY <1>1, <1>4, <2>1
<1>6. Stored' = Stored /\ Asked' = Asked /\ AskedBy(p)' = AskedBy(p) /\ BeingStored = {}
  BY <1>1 DEF Stored, Asked, AskedBy, BeingStored
<1>7. r \notin guardOf[p]
  <2>1. guards \subseteq consumed
    BY <1>2 DEF PyTypeOK, PreemptTypeOK, TypeOK
  <2>2. guardOf[p] \subseteq guards
    BY <1>2 DEF NothingAdrift, Stored
  <2>3. QED
    BY <1>3, <2>1, <2>2
<1>8. r \in Asked
  <2>1. AskedBy(p) = {arms[p][at].req}
    BY <1>1, <1>5, ArmsOf
  <2>2. QED
    BY <2>1 DEF Asked
<1>9. BeingStored' = IF phase' = "store" THEN {r} ELSE {}
  BY <1>1 DEF BeingStored
<1> HIDE DEF r
<1>10. NothingAdrift'
  <2>1. CASE phase' = "store"
    <3>1. consumed' = consumed \cup {r} /\ guards' = guards \cup {r}
      BY <1>1, <1>3, <2>1
    <3>2. QED
      BY <1>2, <1>3, <1>6, <1>9, <2>1, <3>1 DEF NothingAdrift
  <2>2. CASE phase' # "store"
    <3>1. consumed' = consumed /\ guards' = guards
      BY <1>1, <1>3, <2>2
    <3>2. QED
      BY <1>2, <1>3, <1>6, <1>9, <2>2, <3>1 DEF NothingAdrift
  <2>3. QED
    BY <2>1, <2>2
<1>11. PyTypeOK'
  <2>1. phase' \in {"store", "poll"} /\ at' \in Nat
    BY <1>1, <1>5
  <2>2. QED
    BY <1>1, <1>2, <2>1 DEF PyTypeOK
<1>12. ThreadCoheres'
  <2>1. phase' \in {"store", "poll"} /\ at' >= 1
    BY <1>1, <1>2, <1>5 DEF ThreadCoheres
  <2>2. phase' = "store" => /\ at' \in DOMAIN arms'[cur'] /\ arms'[cur'][at'].kind = "acquire"
                            /\ arms'[cur'][at'].req \in consumed' \ guardOf'[cur']
    BY <1>1, <1>5, <1>7 DEF r
  <2>3. QED
    BY <1>1, <1>2, <2>1, <2>2 DEF ThreadCoheres, Polling
<1>13. StackCoheres(p)'
  BY <1>1, <1>2 DEF StackCoheres
<1>14. ArmsCohere(p)'
  BY <1>1, <1>2, <1>3 DEF ArmsCohere, AwaitsPolled
<1>15. GuardCoheres(p)'
  BY <1>1, <1>2, <1>3, <1>5, <1>6 DEF GuardCoheres, AwaitsPolled
<1>16. phase' \notin Ending /\ phase \notin Ending /\ phase' # "send"
  BY <1>1 DEF Ending
<1>17. QED
  BY <1>1, <1>3, <1>10, <1>11, <1>12, <1>13, <1>14, <1>15, <1>16, StepInv DEF ProcessCoheres

\* The first arm is dropped, and its kernel request with it.
LEMMA DropArmBooks ==
  ASSUME PyInv, NEW p \in Proc, arms[p] # <<>>, DropArm(p, Head(arms[p])),
         arms' = [arms EXCEPT ![p] = Tail(arms[p])], guardOf' = guardOf,
         yields' = yields, comb' = comb, status' = status,
         status[p] = "suspended" \/ (cur' = p /\ phase' \in AwaitsPolled),
         phase # "store", phase' # "store"
  PROVE  /\ arms' \in [Proc -> Seq([kind : Kind, req : Req, set : BOOLEAN])]
         /\ ArmsCohere(p)' /\ NothingAdrift'
         /\ \A q \in Proc \ {p} : arms'[q] = arms[q]
         /\ requested' = requested /\ consumed' = consumed
         /\ stale' \subseteq Proc
<1> DEFINE r == arms[p][1].req
<1>1. PyTypeOK /\ NothingAdrift /\ ArmsCohere(p)
  BY InvParts
<1>2. arms[p] \in Seq(ArmSet) /\ DOMAIN arms[p] = 1..Len(arms[p])
  BY ArmsOf
<1>3. Tail(arms[p]) = RemoveAt(arms[p], 1) /\ Head(arms[p]) = arms[p][1] /\ 1 \in DOMAIN arms[p]
  BY <1>2, TailRemoves
<1>4. /\ requested' = requested /\ consumed' = consumed /\ guards' = guards
      /\ dropped' = IF arms[p][1].kind = "acquire" THEN dropped \cup {r} ELSE dropped
  <2>1. CASE arms[p][1].kind = "acquire"
    <3>1. PreemptDropRequest(r)
      BY <1>3, <2>1 DEF DropArm
    <3>2. QED
      BY <2>1, <3>1, DropRequestBooks
  <2>2. CASE arms[p][1].kind # "acquire"
    BY <1>3, <2>2 DEF DropArm, preemptVars, vars, requestVars
  <2>3. QED
    BY <2>1, <2>2
<1>5. stale' \subseteq Proc
  BY <1>1 DEF DropArm, PyTypeOK
<1>6. \A x \in requested' : x[1] = p => x[2] <= yields[p]
  BY <1>1, <1>4 DEF ArmsCohere
<1>7. arms' = [arms EXCEPT ![p] = RemoveAt(arms[p], 1)]
  BY <1>3
<1>8. /\ arms' \in [Proc -> Seq([kind : Kind, req : Req, set : BOOLEAN])]
      /\ ArmsCohere(p)'
      /\ \A q \in Proc \ {p} : arms'[q] = arms[q]
      /\ Asked' = IF arms[p][1].kind = "acquire" THEN Asked \ {arms[p][1].req} ELSE Asked
  BY <1>3, <1>6, <1>7, ArmGone
<1>9. NothingAdrift'
  <2>1. BeingStored = {} /\ BeingStored' = {} /\ Stored' = Stored
    BY DEF BeingStored, Stored
  <2> HIDE DEF r
  <2>2. Asked' = IF arms[p][1].kind = "acquire" THEN Asked \ {r} ELSE Asked
    BY <1>8 DEF r
  <2>3. QED
    BY <1>1, <1>4, <2>1, <2>2 DEF NothingAdrift
<1>10. QED
  BY <1>4, <1>5, <1>8, <1>9

\* A loser of any_of is dropped.
LEMMA LoseArmInv ==
  ASSUME PyInv, PreemptTypeOK', NEW p \in Proc, LoseArm(p)
  PROVE  PyInv'
<1>1. /\ phase = "lose" /\ cur = p /\ arms[p] # <<>> /\ DropArm(p, Head(arms[p]))
      /\ arms' = [arms EXCEPT ![p] = Tail(arms[p])]
      /\ UNCHANGED <<phase, cur, at, status, stack, resume, yields, comb, winner, guardOf, triggered>>
      /\ UNCHANGED <<due, error, raised, failures>>
  BY DEF LoseArm, threadVars, genVars, errVars
<1>2. /\ PyTypeOK /\ ThreadCoheres /\ StackCoheres(p) /\ ArmsCohere(p) /\ GuardCoheres(p)
      /\ p # Nobody
  BY InvParts
<1>3. cur' = p /\ phase' \in AwaitsPolled /\ phase # "store" /\ phase' # "store"
  BY <1>1 DEF AwaitsPolled
<1>4. /\ arms' \in [Proc -> Seq([kind : Kind, req : Req, set : BOOLEAN])]
      /\ ArmsCohere(p)' /\ NothingAdrift'
      /\ \A q \in Proc \ {p} : arms'[q] = arms[q]
      /\ requested' = requested /\ consumed' = consumed
      /\ stale' \subseteq Proc
  BY <1>1, <1>3, DropArmBooks
<1>5. comb[p] \notin {"all", "acquire"} /\ status[p] = "running"
  BY <1>1, <1>2 DEF ThreadCoheres, PyTypeOK
<1>6. PyTypeOK'
  BY <1>1, <1>2, <1>4 DEF PyTypeOK
<1>7. ThreadCoheres'
  BY <1>1, <1>2, <1>5 DEF ThreadCoheres, Left
<1>8. StackCoheres(p)' /\ GuardCoheres(p)'
  BY <1>1, <1>2, <1>5 DEF StackCoheres, GuardCoheres
<1>9. phase' = phase /\ phase' # "send"
  BY <1>1
<1>10. QED
  BY <1>1, <1>4, <1>6, <1>7, <1>8, <1>9, StepInv DEF ProcessCoheres

\* The teardown drops what a process awaits, then its generators.
LEMMA DropProcessInv ==
  ASSUME PyInv, PreemptTypeOK', NEW p \in Proc, DropProcess(p)
  PROVE  PyInv'
<1>1. /\ phase = "teardown" /\ status[p] \in {"spawned", "suspended"} /\ TearDown(p)
      /\ UNCHANGED <<phase, cur, at, resume, yields, comb, winner, triggered, due, error, raised, failures>>
  BY DEF DropProcess, Left, threadVars, errVars
<1>2. /\ PyTypeOK /\ ThreadCoheres /\ StackCoheres(p) /\ ArmsCohere(p) /\ GuardCoheres(p)
      /\ p # Nobody
  BY InvParts
<1>3. cur = Nobody /\ cur' = Nobody /\ \A q \in Proc : q # Nobody
  BY <1>1, <1>2, ReqPairs DEF ThreadCoheres, Polling
<1>4. CASE /\ arms[p] # <<>> /\ DropArm(p, Head(arms[p]))
           /\ arms' = [arms EXCEPT ![p] = Tail(arms[p])]
           /\ UNCHANGED <<guardOf, status, stack>>
  <2>1. status[p] = "suspended"
    BY <1>2, <1>3, <1>4 DEF ArmsCohere
  <2>2. /\ arms' \in [Proc -> Seq([kind : Kind, req : Req, set : BOOLEAN])]
        /\ ArmsCohere(p)' /\ NothingAdrift'
        /\ \A q \in Proc \ {p} : arms'[q] = arms[q]
        /\ requested' = requested /\ consumed' = consumed
        /\ stale' \subseteq Proc
    BY <1>1, <1>4, <2>1, DropArmBooks
  <2>3. PyTypeOK'
    BY <1>1, <1>2, <1>4, <2>2 DEF PyTypeOK
  <2>4. ThreadCoheres'
    BY <1>1, <1>2, <1>3, <1>4 DEF ThreadCoheres, Polling
  <2>5. StackCoheres(p)' /\ GuardCoheres(p)'
    BY <1>1, <1>2, <1>3, <1>4, <2>1 DEF StackCoheres, GuardCoheres, Ending
  <2>6. QED
    BY <1>1, <1>4, <2>2, <2>3, <2>4, <2>5, StepInv DEF ProcessCoheres
<1>5. CASE /\ arms[p] = <<>> /\ LetGo(p)
           /\ status' = [status EXCEPT ![p] = "done"] /\ stack' = [stack EXCEPT ![p] = <<>>]
           /\ UNCHANGED <<arms, stale>>
  <2>1. /\ NothingAdrift' /\ requested' = requested
        /\ guardOf'[p] = {} /\ \A q \in Proc \ {p} : guardOf'[q] = guardOf[q]
        /\ guardOf' \in [Proc -> SUBSET Req] /\ \A q \in Proc : Cardinality(guardOf'[q]) <= 1
    BY <1>1, <1>5, LetGoBooks
  <2>2. status'[p] = "done" /\ \A q \in Proc \ {p} : status'[q] = status[q] /\ stack'[q] = stack[q]
    BY <1>2, <1>5 DEF PyTypeOK
  <2>3. PyTypeOK'
    <3>1. <<>> \in Seq({"fresh", "started"})
      OBVIOUS
    <3>2. \A q \in Proc : status'[q] = "running" <=> q = cur'
      BY <1>2, <1>3, <2>2 DEF PyTypeOK
    <3>3. /\ status' \in [Proc -> {"unborn", "spawned", "running", "suspended", "done", "failed"}]
          /\ stack' \in [Proc -> Seq({"fresh", "started"})]
      BY <1>2, <1>5, <3>1 DEF PyTypeOK
    <3>4. QED
      BY <1>1, <1>2, <1>5, <2>1, <3>2, <3>3 DEF PyTypeOK
  <2>4. ThreadCoheres'
    BY <1>1, <1>2, <1>3 DEF ThreadCoheres, Polling
  <2>5. ProcessCoheres(p)'
    BY <1>2, <1>3, <1>5, <1>1, <2>1, <2>2 DEF ProcessCoheres, StackCoheres, ArmsCohere, GuardCoheres
  <2>6. QED
    BY <1>1, <1>5, <2>1, <2>2, <2>3, <2>4, <2>5, StepInv
<1>6. QED
  BY <1>1, <1>4, <1>5 DEF TearDown

\* What the arms s built for the kinds k and the request r look like.
BuiltFrom(s, k, r) ==
  /\ s \in Seq(ArmSet) /\ DOMAIN s = DOMAIN k
  /\ \A i \in DOMAIN k : s[i].kind = k[i] /\ (k[i] = "acquire" => s[i].req = r)
  /\ Asks(s) = IF "acquire" \in ToSet(k) THEN {r} ELSE {}

LEMMA BuiltArms ==
  ASSUME NEW k \in Seq(Kind), NEW held \in Req, NEW r \in Req
  PROVE  BuiltFrom(BuildArms(k, held, r), k, r)
<1> DEFINE s == BuildArms(k, held, r)
<1>1. Len(k) \in Nat /\ DOMAIN k = 1..Len(k) /\ \A i \in DOMAIN k : k[i] \in Kind
  OBVIOUS
<1>2. ASSUME NEW i \in DOMAIN k
      PROVE  /\ Arm(k[i], IF k[i] = "signal" THEN held ELSE r) \in ArmSet
             /\ Arm(k[i], IF k[i] = "signal" THEN held ELSE r).kind = k[i]
             /\ k[i] = "acquire" => Arm(k[i], IF k[i] = "signal" THEN held ELSE r).req = r
  BY <1>1 DEF Arm, ArmSet
<1>3. /\ s = [i \in 1..Len(k) |-> Arm(k[i], IF k[i] = "signal" THEN held ELSE r)]
      /\ DOMAIN s = DOMAIN k
      /\ \A i \in DOMAIN k : s[i] = Arm(k[i], IF k[i] = "signal" THEN held ELSE r)
  BY <1>1 DEF BuildArms
<1> HIDE DEF s
<1>4. \A i \in DOMAIN k : s[i] \in ArmSet /\ s[i].kind = k[i] /\ (k[i] = "acquire" => s[i].req = r)
  BY <1>2, <1>3
<1>5. s \in [1..Len(k) -> ArmSet]
  <2>1. s = [i \in 1..Len(k) |-> s[i]]
    BY <1>1, <1>3
  <2>2. QED
    BY <1>1, <1>4, <2>1
<1>6. s \in Seq(ArmSet) /\ Len(s) = Len(k)
  BY <1>1, <1>5
<1>7. "acquire" \in ToSet(k) <=> \E i \in 1..Len(k) : k[i] = "acquire"
  BY <1>1 DEF ToSet
<1>8. ASSUME NEW x
      PROVE  x \in Asks(s) <=> x \in IF "acquire" \in ToSet(k) THEN {r} ELSE {}
  <2>1. x \in Asks(s) <=> \E i \in 1..Len(s) : s[i].kind = "acquire" /\ s[i].req = x
    BY <1>6, AsksOf
  <2>2. QED
    BY <1>1, <1>4, <1>6, <1>7, <2>1
<1>9. QED
  BY <1>3, <1>4, <1>6, <1>8 DEF s, BuiltFrom

\* New kernel futures are made for what was yielded.
LEMMA YieldInv ==
  ASSUME PyInv, PreemptTypeOK', NEW p \in Proc, Yield(p)
  PROVE  PyInv'
<1> DEFINE r == <<p, yields[p] + 1>>
<1>1. /\ phase = "body" /\ cur = p /\ yields[p] < MaxYields[p]
      /\ yields' = [yields EXCEPT ![p] = yields[p] + 1]
      /\ winner' = 0 /\ due' = due \ {p} /\ phase' = "poll" /\ at' = 1
      /\ UNCHANGED <<guardOf, cur, status, stack, resume, triggered, stale, error, raised, failures>>
  BY DEF Yield, Active, errVars
<1>2. /\ PyTypeOK /\ ThreadCoheres /\ StackCoheres(p) /\ ArmsCohere(p) /\ GuardCoheres(p)
      /\ NothingAdrift /\ p # Nobody
  BY InvParts
<1>3. yields[p] \in Nat /\ MaxYields[p] \in Nat /\ yields'[p] = yields[p] + 1
      /\ \A q \in Proc \ {p} : yields'[q] = yields[q]
  BY <1>1, <1>2, ProcAssumption DEF PyTypeOK
<1>4. PICK y \in Menu[p], held \in IF guardOf[p] = {} THEN {<<p, 1>>} ELSE guardOf[p] :
        /\ IF "acquire" \in ToSet(y.kinds) THEN Request(r) /\ UNCHANGED holderVars
                                           ELSE UNCHANGED preemptVars
        /\ arms' = [arms EXCEPT ![p] = BuildArms(y.kinds, held, r)]
        /\ comb' = [comb EXCEPT ![p] = y.comb]
  <2>1. <<p, yields'[p]>> = r
    BY <1>3
  <2> HIDE DEF r
  <2>2. \E y \in Menu[p] : \E held \in IF guardOf[p] = {} THEN {<<p, 1>>} ELSE guardOf[p] :
          /\ IF "acquire" \in ToSet(y.kinds) THEN Request(<<p, yields'[p]>>) /\ UNCHANGED holderVars
                                             ELSE UNCHANGED preemptVars
          /\ arms' = [arms EXCEPT ![p] = BuildArms(y.kinds, held, <<p, yields'[p]>>)]
          /\ comb' = [comb EXCEPT ![p] = y.comb]
    BY DEF Yield
  <2>3. QED
    BY <2>1, <2>2
<1>5. r \in Req /\ held \in Req
  <2>1. yields[p] + 1 \in 1..MaxYields[p] /\ 1 \in 1..MaxYields[p]
    BY <1>1, <1>3
  <2>2. r \in Req /\ <<p, 1>> \in Req
    BY <2>1, ReqPairs
  <2>3. guardOf[p] \subseteq Req
    BY <1>2 DEF PyTypeOK
  <2>4. QED
    BY <1>4, <2>2, <2>3
<1>6. y.kinds \in Seq(Kind) /\ y.comb \in Comb
      /\ \A i, j \in DOMAIN y.kinds :
           /\ y.kinds[i] = "acquire" /\ y.kinds[j] = "acquire" => i = j
           /\ y.comb = "acquire" => y.kinds[i] = "acquire"
  <2>1. y \in [comb : Comb, kinds : Seq(Kind)]
    BY <1>4, MenuAssumption
  <2>2. y.kinds \in Seq(Kind) /\ y.comb \in Comb
    BY <2>1
  <2>3. QED
    BY <1>4, <2>2, MenuAssumption
<1> DEFINE s == BuildArms(y.kinds, held, r)
<1>7. /\ s \in Seq(ArmSet) /\ DOMAIN s = DOMAIN y.kinds
      /\ \A i \in DOMAIN y.kinds : /\ s[i].kind = y.kinds[i]
                                   /\ y.kinds[i] = "acquire" => s[i].req = r
      /\ Asks(s) = IF "acquire" \in ToSet(y.kinds) THEN {r} ELSE {}
  <2> HIDE DEF r
  <2>1. BuiltFrom(s, y.kinds, r)
    BY <1>5, <1>6, BuiltArms
  <2>2. QED
    BY <2>1 DEF BuiltFrom
<1>8. arms' = [arms EXCEPT ![p] = s]
  BY <1>4
<1> HIDE DEF s
<1>9. /\ Asked' = (Asked \ AskedBy(p)) \cup Asks(s) /\ AskedBy(p)' = Asks(s)
      /\ arms'[p] = s /\ \A q \in Proc \ {p} : arms'[q] = arms[q]
  BY <1>8, AskedAfter
<1>10. arms[p] = <<>> /\ status[p] = "running"
  BY <1>1, <1>2 DEF ArmsCohere, AwaitsPolled, PyTypeOK
<1>11. AskedBy(p) = {}
  BY <1>10 DEF AskedBy, ToSet
<1>12. r \notin requested
  BY <1>2, <1>3 DEF ArmsCohere
<1>13. /\ UNCHANGED <<consumed, dropped, guards>>
       /\ requested' = requested \cup Asks(s)
  <2>1. CASE "acquire" \in ToSet(y.kinds)
    BY <1>4, <1>7, <2>1 DEF Request
  <2>2. CASE "acquire" \notin ToSet(y.kinds)
    BY <1>4, <1>7, <2>2 DEF preemptVars, vars, requestVars
  <2>3. QED
    BY <2>1, <2>2
<1>14. comb'[p] = y.comb /\ \A q \in Proc \ {p} : comb'[q] = comb[q]
  BY <1>2, <1>4 DEF PyTypeOK
<1>15. Asks(s) \subseteq {r}
  BY <1>7
<1>16. r[1] = p /\ r[2] = yields[p] + 1 /\ r = <<p, yields'[p]>>
  BY <1>3
<1> HIDE DEF r
<1>17. NothingAdrift'
  <2>1. BeingStored = {} /\ BeingStored' = {} /\ Stored' = Stored
    BY <1>1 DEF BeingStored, Stored
  <2>2. Asked' = Asked \cup Asks(s)
    BY <1>9, <1>11
  <2>3. consumed \subseteq requested /\ dropped \subseteq requested
    BY <1>2 DEF PyTypeOK, PreemptTypeOK, TypeOK
  <2>4. QED
    BY <1>2, <1>12, <1>13, <1>15, <2>1, <2>2, <2>3 DEF NothingAdrift
<1>18. PyTypeOK'
  <2>1. yields[p] + 1 \in Nat
    BY <1>3
  <2>2. yields' \in [Proc -> Nat] /\ comb' \in [Proc -> Comb]
    BY <1>1, <1>2, <1>4, <1>6, <2>1 DEF PyTypeOK
  <2>3. arms' \in [Proc -> Seq([kind : Kind, req : Req, set : BOOLEAN])]
    BY <1>2, <1>7, <1>8 DEF PyTypeOK, ArmSet
  <2>4. QED
    BY <1>1, <1>2, <2>2, <2>3 DEF PyTypeOK
<1>19. ThreadCoheres'
  BY <1>1, <1>2 DEF ThreadCoheres, Polling
<1>20. StackCoheres(p)'
  BY <1>1, <1>2 DEF StackCoheres
<1>21. ArmsCohere(p)'
  <2>1. \A i, j \in DOMAIN s :
          /\ s[i].kind = "acquire" => s[i].req = r
          /\ s[i].kind = "acquire" /\ s[j].kind = "acquire" => i = j
          /\ y.comb = "acquire" => s[i].kind = "acquire"
    BY <1>6, <1>7
  <2>2. ASSUME NEW x \in requested', x[1] = p PROVE x[2] <= yields'[p]
    <3>1. CASE x \in Asks(s)
      BY <1>3, <1>15, <1>16, <3>1
    <3>2. CASE x \in requested
      <4>1. x[2] <= yields[p] /\ x \in Req
        BY <1>2, <2>2, <3>2 DEF ArmsCohere, PyTypeOK, PreemptTypeOK, TypeOK
      <4>2. x[2] \in Nat
        BY <4>1, ReqPairs
      <4>3. QED
        BY <1>3, <4>1, <4>2
    <3>3. QED
      BY <1>13, <2>2, <3>1, <3>2
  <2>3. QED
    BY <1>1, <1>9, <1>10, <1>14, <1>16, <2>1, <2>2 DEF ArmsCohere, AwaitsPolled
<1>22. GuardCoheres(p)'
  <2>1. ~(<<p, yields'[p]>> \in requested' /\ AskedBy(p)' = {})
    BY <1>9, <1>12, <1>13, <1>16
  <2>2. QED
    BY <1>1, <1>2, <1>10, <2>1 DEF GuardCoheres
<1>23. \A x \in requested' \ requested : x[1] = p
  BY <1>13, <1>15, <1>16
<1>24. phase' \notin Ending /\ phase \notin Ending /\ phase' # "send"
  BY <1>1 DEF Ending
<1>25. QED
  BY <1>1, <1>3, <1>9, <1>14, <1>17, <1>18, <1>19, <1>20, <1>21, <1>22, <1>23, <1>24, StepInv
     DEF ProcessCoheres

-----------------------------------------------------------------------------
(* The invariant holds throughout. *)

LEMMA InitPyInv == PyInit => HInv /\ PyInv
<1> SUFFICES ASSUME PyInit PROVE HInv /\ PyInv
  OBVIOUS
<1>1. HInv /\ PreemptTypeOK
  BY InitHInv DEF PyInit, HInv
<1>2. \A q \in Proc : q # Nobody
  BY ReqPairs
<1>3. /\ requested = {} /\ consumed = {} /\ dropped = {} /\ guards = {}
      /\ \A q \in Proc : arms[q] = <<>> /\ guardOf[q] = {} /\ status[q] = "unborn" /\ yields[q] = 0
      /\ phase = "host" /\ cur = Nobody /\ at = 1 /\ resume = "none" /\ winner = 0
      /\ error = {} /\ failures = <<>>
  BY DEF PyInit, PreemptInit, Init
<1>4. PyTypeOK
  <2>1. <<>> \in Seq({"fresh", "started"}) /\ <<>> \in Seq([kind : Kind, req : Req, set : BOOLEAN])
        /\ <<>> \in Seq(Proc)
    OBVIOUS
  <2>2. Cardinality({}) = 0
    BY FS_EmptySet
  <2>3. "wait" \in Comb
    BY DEF Comb
  <2>4. /\ stack \in [Proc -> Seq({"fresh", "started"})] /\ yields \in [Proc -> Nat]
        /\ arms \in [Proc -> Seq([kind : Kind, req : Req, set : BOOLEAN])]
        /\ comb \in [Proc -> Comb] /\ guardOf \in [Proc -> SUBSET Req]
        /\ status \in [Proc -> {"unborn", "spawned", "running", "suspended", "done", "failed"}]
    <3>1. stack \in [Proc -> Seq({"fresh", "started"})]
      BY <2>1 DEF PyInit
    <3>2. arms \in [Proc -> Seq([kind : Kind, req : Req, set : BOOLEAN])]
      BY <2>1 DEF PyInit
    <3>3. comb \in [Proc -> Comb]
      BY <2>3 DEF PyInit
    <3>4. guardOf \in [Proc -> SUBSET Req]
      BY DEF PyInit
    <3>5. yields \in [Proc -> Nat]
      BY DEF PyInit
    <3>6. status \in [Proc -> {"unborn", "spawned", "running", "suspended", "done", "failed"}]
      BY DEF PyInit
    <3>7. QED
      BY <3>1, <3>2, <3>3, <3>4, <3>5, <3>6
  <2>5. triggered \in BOOLEAN /\ due = {} /\ stale = {} /\ raised = {}
    BY DEF PyInit
  <2>6. /\ \A q \in Proc : Cardinality(guardOf[q]) <= 1
        /\ Cardinality(error) <= 1 /\ failures \in Seq(Proc)
        /\ \A q \in Proc : status[q] = "running" <=> q = cur
    <3>1. 0 <= 1
      OBVIOUS
    <3>2. (\A q \in Proc : Cardinality(guardOf[q]) <= 1) /\ Cardinality(error) <= 1
      BY <1>3, <2>2, <3>1
    <3>3. failures \in Seq(Proc)
      BY <1>3, <2>1
    <3>4. \A q \in Proc : status[q] = "running" <=> q = cur
      BY <1>2, <1>3
    <3>5. QED
      BY <3>2, <3>3, <3>4
  <2>7. phase = "host" /\ cur \in Proc \cup {Nobody} /\ at \in Nat /\ resume = "none" /\ winner \in Nat
    BY <1>3
  <2>8. due \subseteq Proc /\ stale \subseteq Proc /\ error \subseteq Proc /\ raised \subseteq Proc
    BY <1>3, <2>5
  <2>9. QED
    BY <1>1, <2>4, <2>5, <2>6, <2>7, <2>8 DEF PyTypeOK
<1>5. ThreadCoheres
  BY <1>3 DEF ThreadCoheres, Polling
<1>6. ASSUME NEW q \in Proc PROVE ProcessCoheres(q)
  BY <1>2, <1>3 DEF ProcessCoheres, StackCoheres, ArmsCohere, GuardCoheres
<1>7. NothingAdrift
  <2>1. Stored = {} /\ BeingStored = {}
    BY <1>3 DEF Stored, BeingStored
  <2>2. Asked = {}
    BY <1>3 DEF Asked, AskedBy, ToSet
  <2>3. QED
    BY <1>3, <2>1, <2>2 DEF NothingAdrift
<1>8. ResumedAsAwaited
  BY <1>3 DEF ResumedAsAwaited
<1>9. QED
  BY <1>1, <1>4, <1>5, <1>6, <1>7, <1>8 DEF PyInv

\* A step that changes nothing.
LEMMA StutterInv ==
  ASSUME PyInv, UNCHANGED pyVars
  PROVE  PyInv'
<1>1. UNCHANGED <<phase, cur, at, status, stack, resume, yields, arms, comb, winner, guardOf, triggered>>
      /\ UNCHANGED <<due, stale, error, raised, failures, inUse, nextSeq, waiters, canceled, granted>>
      /\ UNCHANGED <<woken, priority, requested, dropped, registered, consumed, guards, holders, preempted>>
  BY DEF pyVars, unitVars, threadVars, genVars, awaitVars, timeVars, errVars, preemptVars, vars,
         poolVars, requestVars, holderVars
<1>2. PyTypeOK'
  BY <1>1 DEF PyInv, PyTypeOK, PreemptTypeOK, TypeOK, PoolTypeOK
<1>3. ThreadCoheres'
  BY <1>1 DEF PyInv, ThreadCoheres, Left
<1>4. ASSUME NEW q \in Proc PROVE ProcessCoheres(q)'
  BY <1>1, OthersCohere DEF PyInv
<1>5. NothingAdrift'
  BY <1>1 DEF PyInv, NothingAdrift, Stored, BeingStored, Asked, AskedBy
<1>6. ResumedAsAwaited'
  BY <1>1 DEF PyInv, ResumedAsAwaited
<1>7. QED
  BY <1>2, <1>3, <1>4, <1>5, <1>6 DEF PyInv

LEMMA NextPyInv ==
  ASSUME HInv, PyInv, [PyNext]_pyVars
  PROVE  HInv' /\ PyInv'
<1>1. HInv'
  BY PoolSteps, NextHInv DEF PyInv
<1>2. PreemptTypeOK'
  BY <1>1 DEF HInv
<1>3. ASSUME NEW p \in Proc, Trampoline(p) PROVE PyInv'
  BY <1>2, <1>3, SendInv, CallInv, ReturnToCallerInv, ReturnInv, FailInv, LetGoInv, TriggerInv,
     YieldInv, PollAcquireArmInv, StoreGuardInv, PollPlainArmInv, SuspendInv, JoinedInv, LoseArmInv
     DEF Trampoline
<1>4. ASSUME NEW p \in Proc, Wake(p) \/ DropProcess(p) PROVE PyInv'
  BY <1>2, <1>4, WakeInv, DropProcessInv
<1>5. ASSUME NEW p \in Proc, Spawn(p) \/ Reclaim(p) PROVE PyInv'
  BY <1>2, <1>5, SpawnInv, LetGoInv
<1>6. QED
  BY <1>1, <1>2, <1>3, <1>4, <1>5, LoopInv, StutterInv DEF PyNext, Step

\* The inductive invariant holds in every reachable state, together with the
\* one of the pool.
THEOREM PyInductive == PySpec => [](HInv /\ PyInv)
<1>1. HInv /\ PyInv /\ [PyNext]_pyVars => (HInv /\ PyInv)'
  BY NextPyInv
<1>2. QED
  BY <1>1, InitPyInv, PTL DEF PySpec

\* The trampoline drives the preemptive pool through steps that it has: what is
\* proved of PreemptSpec holds for the units Python processes share.
THEOREM PoolUnderPython == PySpec => PreemptSpec
<1>1. PyInit => PreemptInit
  BY DEF PyInit
<1>2. HInv /\ PyInv /\ [PyNext]_pyVars => [PreemptNext]_preemptVars
  BY PoolSteps DEF PyInv
<1>3. QED
  BY <1>1, <1>2, PyInductive, PTL DEF PySpec, PreemptSpec

\* So the units of Python processes behave as the abstract pool, when those
\* that race for a unit are too weak to evict: the generator stack, guards kept
\* in objects and tracebacks, and a teardown at any point add no other step.
THEOREM PythonSharesPreemptivePool ==
  ASSUME RepolledAreWeakest
  PROVE  PySpec => ImplementsPreemptivePool
<1>1. QED
  BY PoolUnderPython, PreemptiveRefinementHolds, PTL

\* The variables keep their types: one process runs at a time, and a request
\* object never holds two guards.
THEOREM PyTypeCorrect == PySpec => []PyTypeOK
<1>1. PyInv => PyTypeOK
  BY DEF PyInv
<1>2. QED
  BY <1>1, PyInductive, PTL

\* Every live guard sits in a request object and every live kernel future is
\* awaited, through replaced guards, lost races, exceptions and the teardown.
THEOREM NothingIsAdrift == PySpec => []NothingAdrift
<1>1. PyInv => NothingAdrift
  BY DEF PyInv
<1>2. QED
  BY <1>1, PyInductive, PTL

\* What the trampoline sends is what the generator can take, and one that
\* awaited an acquire finds the guard of that very await.
THEOREM AlwaysResumedAsAwaited == PySpec => []ResumedAsAwaited
<1>1. PyInv => ResumedAsAwaited
  BY DEF PyInv
<1>2. QED
  BY <1>1, PyInductive, PTL

\* A guard enters a request object inside an any_of only as the winner's.
THEOREM WinnerOnly == PySpec => OnlyWinnerAcquires
<1> DEFINE WinnerStores ==
      \A p \in Proc : comb[p] = "any" /\ ~(guardOf'[p] \subseteq guardOf[p])
                        => winner = 0 /\ winner' = at
<1>1. ASSUME PyInv, [PyNext]_pyVars PROVE [WinnerStores]_pyVars
  <2>1. PyTypeOK /\ ThreadCoheres
    BY <1>1 DEF PyInv
  <2>2. ASSUME NEW q \in Proc, LetGo(q) PROVE WinnerStores
    BY <2>1, <2>2 DEF LetGo, PyTypeOK
  <2>3. ASSUME NEW q \in Proc, StoreGuard(q) PROVE WinnerStores
    <3>1. /\ phase = "store" /\ cur = q /\ winner' = IF winner = 0 THEN at ELSE winner
          /\ guardOf' = [guardOf EXCEPT ![q] = {arms[q][at].req}]
      BY <2>3 DEF StoreGuard, KeepGuard, ArmResolved
    <3>2. \A p \in Proc \ {q} : guardOf'[p] = guardOf[p]
      BY <2>1, <3>1 DEF PyTypeOK
    <3>3. comb[q] = "any" => winner = 0
      BY <2>1, <3>1 DEF ThreadCoheres
    <3>4. QED
      BY <3>1, <3>2, <3>3
  <2>4. ASSUME guardOf' = guardOf PROVE WinnerStores
    BY <2>4
  <2> HIDE DEF WinnerStores
  <2>5. ASSUME NEW q \in Proc, Trampoline(q) PROVE WinnerStores
    <3>1. LetGo(q) \/ StoreGuard(q) \/ guardOf' = guardOf
      BY <2>5 DEF Trampoline, Send, Call, ReturnToCaller, Return, Fail, LeaveWith, Trigger, Yield,
         PollAcquireArm, PollPlainArm, Suspend, Joined, LoseArm, Won, unitVars
    <3>2. QED
      BY <2>2, <2>3, <2>4, <3>1
  <2>6. ASSUME NEW q \in Proc, Wake(q) \/ DropProcess(q) \/ Spawn(q) \/ Reclaim(q) PROVE WinnerStores
    <3>1. LetGo(q) \/ guardOf' = guardOf
      BY <2>6 DEF Wake, DropProcess, TearDown, Spawn, Reclaim, unitVars
    <3>2. QED
      BY <2>2, <2>4, <3>1
  <2>7. ASSUME Elapse \/ RunEnds \/ TornDown \/ Run \/ DropSimulation PROVE WinnerStores
    <3>1. guardOf' = guardOf
      BY <2>7 DEF Elapse, RunEnds, TornDown, Run, DropSimulation, unitVars
    <3>2. QED
      BY <2>4, <3>1
  <2>8. QED
    BY <1>1, <2>5, <2>6, <2>7 DEF PyNext, Step
<1>2. QED
  BY <1>1, PyInductive, PTL DEF PySpec, OnlyWinnerAcquires

\* run raises if and only if a process failed since an error was last raised.
THEOREM FailuresAreRaised == PySpec => NoSilentFailure
<1> DEFINE Raises == RunReturns => (raised' # {} <=> failures # <<>>)
<1>1. ASSUME PyInv, [PyNext]_pyVars PROVE [Raises]_pyVars
  <2> SUFFICES ASSUME PyNext, phase = "loop", phase' = "host"
               PROVE  raised' # {} <=> failures # <<>>
    BY <1>1 DEF RunReturns
  <2>1. \A q \in Proc : ~Trampoline(q)
    BY DEF Trampoline, Send, Call, ReturnToCaller, Return, Fail, LeaveWith, Trigger, Yield, Active,
       PollAcquireArm, StoreGuard, PollPlainArm, Suspend, Joined, LoseArm, Won
  <2>2. \A q \in Proc : ~Wake(q) /\ ~DropProcess(q) /\ ~Spawn(q) /\ ~Reclaim(q)
    BY DEF Wake, DropProcess, Spawn, Reclaim, threadVars
  <2>3. ~Elapse /\ ~TornDown /\ ~Run /\ ~DropSimulation
    BY DEF Elapse, TornDown, Run, DropSimulation, threadVars
  <2>4. RunEnds
    BY <2>1, <2>2, <2>3 DEF PyNext, Step
  <2>5. raised' = error
    BY <2>4 DEF RunEnds, CheckError
  <2>6. QED
    BY <1>1, <2>5 DEF PyInv, ThreadCoheres
<1>2. QED
  BY <1>1, PyInductive, PTL DEF PySpec, NoSilentFailure

-----------------------------------------------------------------------------
(* When no re-polled request can evict anyone. *)

\* Every unit in use can be traced to a request object or a pending await.
THEOREM UnitsAreReachable ==
  ASSUME RepolledAreWeakest
  PROVE  PySpec => []UnitsReachable
<1>1. ASSUME EInv, PyInv PROVE UnitsReachable
  <2>1. PyTypeOK /\ NothingAdrift /\ HInv /\ QueueInv /\ PreemptUnitsAccounted
    BY <1>1 DEF PyInv, EInv
  <2>2. TypeOK /\ PreemptTypeOK
    BY <2>1 DEF HInv, PreemptTypeOK
  <2> DEFINE A == (Stored \cup BeingStored) \ preempted
             B == Asked \cap (granted \ consumed)
  <2>3. Held = A
    BY <2>1 DEF HInv, HoldersAreLiveGuards, NothingAdrift
  <2>4. granted \subseteq requested
    BY <2>1, <2>2 DEF QueueInv, FlagsCohere, TypeOK
  <2>5. Handed = B
    BY <2>1, <2>4 DEF NothingAdrift, Handed
  <2> HIDE DEF A, B
  <2>6. Held \cap Handed = {}
    BY <2>1, <2>2 DEF HInv, HoldersAreLiveGuards, TypeOK, Handed
  <2>7. IsFiniteSet(Units) /\ inUse = Cardinality(Units)
    BY <2>1, <2>2, UnitsFinite DEF PreemptUnitsAccounted, Units
  <2>8. IsFiniteSet(Held) /\ IsFiniteSet(Handed)
    BY <2>7, FS_Subset DEF Units
  <2>9. Cardinality(Held \cup Handed) = Cardinality(Held) + Cardinality(Handed)
    <3>1. /\ Cardinality(Held \cup Handed)
               = Cardinality(Held) + Cardinality(Handed) - Cardinality(Held \cap Handed)
          /\ Cardinality(Held) \in Nat /\ Cardinality(Handed) \in Nat
      BY <2>8, FS_Union, FS_CardinalityType
    <3>2. Cardinality(Held \cap Handed) = 0
      BY <2>6, FS_EmptySet
    <3>3. QED
      BY <3>1, <3>2
  <2>10. inUse = Cardinality(A) + Cardinality(B)
    BY <2>3, <2>5, <2>7, <2>9 DEF Units
  <2>11. QED
    BY <2>10 DEF UnitsReachable, A, B
<1>2. QED
  BY <1>1, PyInductive, PoolUnderPython, ExactInductive, PTL

\* A dropped Simulation leaves no request in line, no unit uncollected, and no
\* guard but those of a traceback.
THEOREM TeardownIsComplete ==
  ASSUME RepolledAreWeakest
  PROVE  PySpec => []TeardownReleasesAll
<1>1. ASSUME EInv, PyInv PROVE TeardownReleasesAll
  <2> SUFFICES ASSUME phase = "gone"
               PROVE  /\ LiveWaiters = {} /\ Handed = {}
                      /\ \A p \in Proc : guardOf[p] # {} => status[p] = "failed"
    BY DEF TeardownReleasesAll
  <2>1. PyTypeOK /\ ThreadCoheres /\ NothingAdrift /\ QueueInv /\ TypeOK
    BY <1>1 DEF PyInv, EInv, HInv, PreemptTypeOK
  <2>2. cur = Nobody /\ Left = {}
    BY <2>1 DEF ThreadCoheres, Polling
  <2>3. ASSUME NEW p \in Proc
        PROVE  status[p] \notin {"spawned", "running", "suspended"} /\ p # cur
    BY <2>1, <2>2, ReqPairs DEF PyTypeOK, Left
  <2>4. ASSUME NEW p \in Proc
        PROVE  arms[p] = <<>> /\ (guardOf[p] # {} => status[p] = "failed")
    BY <1>1, <2>3 DEF PyInv, ProcessCoheres, ArmsCohere, GuardCoheres
  <2>5. Asked = {}
    BY <2>4 DEF Asked, AskedBy, ToSet
  <2>6. requested \subseteq consumed \cup dropped
    BY <2>1, <2>5 DEF NothingAdrift
  <2>7. registered \subseteq requested /\ granted \subseteq registered
    BY <2>1 DEF TypeOK, QueueInv, FlagsCohere
  <2>8. Handed = {}
    BY <2>6, <2>7 DEF Handed
  <2>9. \A e \in LiveWaiters : e.req \in registered \ (granted \cup consumed \cup dropped)
    BY <2>1 DEF QueueInv, QueueMatchesRequests
  <2>10. LiveWaiters = {}
    BY <2>6, <2>7, <2>9
  <2>11. QED
    BY <2>4, <2>8, <2>10
<1>2. QED
  BY <1>1, PyInductive, PoolUnderPython, ExactInductive, PTL

=============================================================================

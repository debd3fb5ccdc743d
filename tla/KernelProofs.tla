----------------------------- MODULE KernelProofs -----------------------------
(***************************************************************************)
(* Proofs about Executor and Kernel, for any number of processes, any      *)
(* events, delays and horizon, and combinations of any width: no wakeup is *)
(* lost, no spawn is left behind, run_until stops where it should, and the *)
(* clock is monotonic when no timeout is first awaited after its deadline. *)
(***************************************************************************)
EXTENDS Kernel, SequenceLemmas

-----------------------------------------------------------------------------
(* Filtering a sequence. *)

\* What Only keeps: its recursion, solved by induction on prefixes.
LEMMA OnlySet ==
  ASSUME NEW T, NEW fs \in Seq(T), NEW S
  PROVE  Only(fs, S) \in Seq(T) /\ ToSet(Only(fs, S)) = ToSet(fs) \cap S
<1> DEFINE N == Len(fs)
           Step(f, i) == IF fs[i] \in S THEN Append(f[i - 1], fs[i]) ELSE f[i - 1]
           Loop(f) == f = [i \in 0..N |->
                             IF i = 0 THEN <<>>
                             ELSE IF fs[i] \in S THEN Append(f[i - 1], fs[i]) ELSE f[i - 1]]
           taken == CHOOSE f : Loop(f)
<1>1. Only(fs, S) = taken[N]
  BY DEF Only
<1>2. N \in Nat /\ DOMAIN fs = 1..N /\ \A i \in 1..N : fs[i] \in T
  OBVIOUS
<1> HIDE DEF N
<1> DEFINE Solves(f, n) == /\ f \in [0..n -> Seq(T)]
                           /\ f[0] = <<>>
                           /\ \A i \in 1..n : f[i] = Step(f, i)
           D == {n \in Nat : n <= N => \E f : Solves(f, n)}
<1> HIDE DEF Solves, Loop, taken
<1>3. 0 \in D
  <2>1. Solves([i \in 0..0 |-> <<>>], 0)
    BY DEF Solves
  <2>2. QED
    BY <2>1
<1>4. ASSUME NEW n \in Nat, n \in D PROVE n + 1 \in D
  <2> SUFFICES ASSUME n + 1 <= N PROVE \E f : Solves(f, n + 1)
    OBVIOUS
  <2>0. PICK f : Solves(f, n)
    BY <1>2, <1>4
  <2>1. f \in [0..n -> Seq(T)] /\ f[0] = <<>> /\ \A i \in 1..n : f[i] = Step(f, i)
    BY <2>0 DEF Solves
  <2> DEFINE last == IF fs[n + 1] \in S THEN Append(f[n], fs[n + 1]) ELSE f[n]
             g == [i \in 0..n + 1 |-> IF i <= n THEN f[i] ELSE last]
  <2>2. n \in 0..n /\ f[n] \in Seq(T) /\ n + 1 \in 1..N /\ fs[n + 1] \in T
    BY <1>2, <2>1
  <2>3. last \in Seq(T)
    BY <2>2
  <2> HIDE DEF last
  <2>4. g \in [0..n + 1 -> Seq(T)] /\ g[0] = <<>>
    BY <2>1, <2>3
  <2>5. ASSUME NEW i \in 1..n + 1 PROVE g[i] = Step(g, i)
    <3>1. CASE i <= n
      <4>1. g[i] = f[i] /\ g[i - 1] = f[i - 1] /\ f[i] = Step(f, i)
        BY <2>1, <3>1
      <4> HIDE DEF g
      <4>2. QED
        BY <4>1
    <3>2. CASE i = n + 1
      <4>1. g[i] = last /\ i - 1 = n /\ g[i - 1] = f[n]
        BY <3>2
      <4> HIDE DEF g
      <4>2. QED
        BY <3>2, <4>1 DEF last
    <3>3. QED
      BY <3>1, <3>2
  <2>6. Solves(g, n + 1)
    <3> HIDE DEF g, Step
    <3>1. QED
      BY <2>4, <2>5 DEF Solves
  <2>7. QED
    BY <2>6
<1>5. Nat \subseteq D
  <2> HIDE DEF D
  <2>1. QED
    BY <1>3, <1>4, SetInduction
<1>6. PICK g : Solves(g, N)
  BY <1>2, <1>5
<1>7. Loop(g)
  <2>1. g \in [0..N -> Seq(T)] /\ g[0] = <<>> /\ \A i \in 1..N : g[i] = Step(g, i)
    BY <1>6 DEF Solves
  <2>2. \A i \in 0..N : i = 0 \/ i \in 1..N
    BY <1>2
  <2>3. \A i \in 0..N : g[i] = IF i = 0 THEN <<>> ELSE Step(g, i)
    BY <2>1, <2>2
  <2>4. QED
    BY <2>1, <2>3 DEF Loop
<1>8. Loop(taken)
  BY <1>7 DEF taken
<1>9. taken[0] = <<>> /\ \A i \in 1..N : taken[i] = Step(taken, i)
  <2>1. \A i \in 0..N : taken[i] = IF i = 0 THEN <<>> ELSE Step(taken, i)
    BY <1>8 DEF Loop
  <2>2. 0 \in 0..N /\ \A i \in 1..N : i \in 0..N /\ i # 0
    BY <1>2
  <2>3. QED
    BY <2>1, <2>2
<1> HIDE DEF D, Step
<1> DEFINE E == {n \in Nat : n <= N => /\ taken[n] \in Seq(T)
                                       /\ ToSet(taken[n]) = {fs[i] : i \in 1..n} \cap S}
<1>10. 0 \in E
  <2>1. {fs[i] : i \in 1..0} = {} /\ ToSet(<<>>) = {} /\ <<>> \in Seq(T)
    BY DEF ToSet
  <2>2. QED
    BY <1>9, <2>1
<1>11. ASSUME NEW n \in Nat, n \in E PROVE n + 1 \in E
  <2> SUFFICES ASSUME n + 1 <= N
               PROVE  /\ taken[n + 1] \in Seq(T)
                      /\ ToSet(taken[n + 1]) = {fs[i] : i \in 1..n + 1} \cap S
    OBVIOUS
  <2>1. taken[n] \in Seq(T) /\ ToSet(taken[n]) = {fs[i] : i \in 1..n} \cap S
    BY <1>2, <1>11
  <2>2. n + 1 \in 1..N /\ (n + 1) - 1 = n /\ fs[n + 1] \in T
    BY <1>2
  <2>3. taken[n + 1] = IF fs[n + 1] \in S THEN Append(taken[n], fs[n + 1]) ELSE taken[n]
    BY <1>9, <2>2 DEF Step
  <2>4. \A i \in 1..n + 1 : i \in 1..n \/ i = n + 1
    OBVIOUS
  <2>5. \A i \in 1..n : i \in 1..n + 1
    OBVIOUS
  <2>6. n + 1 \in 1..n + 1
    OBVIOUS
  <2>7. {fs[i] : i \in 1..n + 1} = {fs[i] : i \in 1..n} \cup {fs[n + 1]}
    BY <2>4, <2>5, <2>6
  <2>8. Append(taken[n], fs[n + 1]) \in Seq(T)
        /\ ToSet(Append(taken[n], fs[n + 1])) = ToSet(taken[n]) \cup {fs[n + 1]}
    BY <2>1, <2>2, AppendElements
  <2>9. QED
    BY <2>1, <2>3, <2>7, <2>8
<1>12. Nat \subseteq E
  <2> HIDE DEF E
  <2>1. QED
    BY <1>10, <1>11, SetInduction
<1> HIDE DEF E
<1>13. taken[N] \in Seq(T) /\ ToSet(taken[N]) = {fs[i] : i \in 1..N} \cap S
  <2>1. N \in E /\ N <= N
    BY <1>2, <1>12
  <2>2. QED
    BY <2>1 DEF E
<1>14. ToSet(fs) = {fs[i] : i \in 1..N}
  BY <1>2 DEF ToSet
<1>15. QED
  BY <1>1, <1>13, <1>14

-----------------------------------------------------------------------------
(* One poll of a process's futures. *)

\* What a future is.
LEMMA FutureCases ==
  ASSUME NEW f \in Future
  PROVE  \/ f.kind = "timeout" /\ f.deadline \in 0..MaxTime /\ f.scheduled \in BOOLEAN
         \/ f.kind = "event" /\ f.event \in Event /\ f = EventFut(f.event)
         \/ f.kind = "process" /\ f.child \in Proc /\ f = Handle(f.child)
<1>1. CASE f \in [kind : {"timeout"}, deadline : 0..MaxTime, scheduled : BOOLEAN]
  BY <1>1
<1>2. CASE \E e \in Event : f = EventFut(e)
  BY <1>2 DEF EventFut
<1>3. CASE \E c \in Proc : f = Handle(c)
  BY <1>3 DEF Handle
<1>4. QED
  BY <1>1, <1>2, <1>3 DEF Future

LEMMA TimeoutFuture ==
  ASSUME NEW d \in 0..MaxTime, NEW b \in BOOLEAN
  PROVE  /\ Timeout(d, b) \in Future
         /\ Timeout(d, b).kind = "timeout"
         /\ Timeout(d, b).deadline = d
         /\ Timeout(d, b).scheduled = b
BY DEF Timeout, Future

\* AnyOf polls a prefix, and all of it unless one of its futures is ready.
LEMMA PolledFacts ==
  ASSUME NEW m \in {"any", "all"}, NEW fs \in Seq(Future), fs # <<>>
  PROVE  /\ Polled(m, fs) \in Seq(Future)
         /\ ToSet(Polled(m, fs)) \subseteq ToSet(fs)
         /\ ~Resolves(m, fs) => Polled(m, fs) = fs
<1>1. CASE m = "all"
  BY <1>1 DEF Polled
<1>2. CASE m = "any"
  <2> DEFINE at == {Len(fs)} \cup {i \in 1..Len(fs) : IsReady(fs[i])}
             n  == Min(at)
  <2>1. Len(fs) \in Nat /\ Len(fs) >= 1 /\ DOMAIN fs = 1..Len(fs)
    OBVIOUS
  <2>2. at \in SUBSET Nat /\ at \subseteq 1..Len(fs) /\ Len(fs) \in at
    BY <2>1
  <2>3. Polled(m, fs) = SubSeq(fs, 1, n)
    BY <1>2 DEF Polled
  <2> HIDE DEF at
  <2>4. \E d \in at : \A e \in at : d <= e
    BY <2>2, LeastElement
  <2>5. n \in at
    BY <2>4 DEF Min
  <2> HIDE DEF n
  <2>6. n \in 1..Len(fs)
    BY <2>2, <2>5
  <2>7. 1 \in 1..Len(fs) + 1 /\ n \in 1 - 1..Len(fs)
    BY <2>1, <2>6
  <2>8. SubSeq(fs, 1, n) \in Seq(Future) /\ ToSet(SubSeq(fs, 1, n)) = {fs[j] : j \in 1..n}
    BY <2>7, SubSeqSet
  <2>9. {fs[j] : j \in 1..n} \subseteq ToSet(fs)
    <3>1. \A j \in 1..n : j \in 1..Len(fs)
      BY <2>1, <2>6
    <3>2. QED
      BY <2>1, <3>1 DEF ToSet
  <2>10. ASSUME ~Resolves(m, fs) PROVE SubSeq(fs, 1, n) = fs
    <3>1. at = {Len(fs)}
      BY <1>2, <2>10 DEF at, Resolves
    <3>2. n = Len(fs)
      BY <2>5, <3>1
    <3>3. SubSeq(fs, 1, Len(fs)) = fs
      OBVIOUS
    <3>4. QED
      BY <3>2, <3>3
  <2>11. QED
    BY <2>3, <2>8, <2>9, <2>10
<1>3. QED
  BY <1>1, <1>2

\* What a poll of fs leaves behind in the environment.
LEMMA PollEffectsFacts ==
  ASSUME TypeOK, NEW p \in Proc, NEW fs \in Seq(Future), PollEffects(p, fs)
  PROVE  /\ events \subseteq events'
         /\ events' \subseteq [time : 0..MaxTime, seq : Nat, proc : Proc]
         /\ nextSeq' \in Nat
         /\ \A e \in events' \ events :
              \E f \in ToSet(fs) : f.kind = "timeout" /\ ~f.scheduled /\ e.time = f.deadline
         /\ \A f \in Pending(fs) : f.kind = "timeout" /\ ~f.scheduled =>
              \E e \in events' : e.proc = p /\ e.time = f.deadline
         /\ listeners' \in [Event -> Seq(Proc)]
         /\ \A e \in Event : ToSet(listeners[e]) \subseteq ToSet(listeners'[e])
         /\ \A f \in Pending(fs) : f.kind = "event" => p \in ToSet(listeners'[f.event])
         /\ joiner' \in [Proc -> SUBSET Proc]
         /\ \A c \in Proc : Cardinality(joiner'[c]) <= 1
         /\ \A c \in Proc : Handle(c) \notin ToSet(fs) => joiner'[c] = joiner[c]
         /\ \A f \in Pending(fs) : f.kind = "process" => p \in joiner'[f.child]
         /\ results' \subseteq results
         /\ \A c \in results : Handle(c) \notin ToSet(fs) => c \in results'
<1> DEFINE pend     == Pending(fs)
           unsched  == {i \in DOMAIN fs : fs[i] \in pend /\ fs[i].kind = "timeout" /\ ~fs[i].scheduled}
           heard    == {f.event : f \in {g \in pend : g.kind = "event"}}
           children == {f.child : f \in {g \in pend : g.kind = "process"}}
           joined   == {f.child : f \in {g \in ToSet(fs) : g.kind = "process" /\ IsReady(g)}}
           dl       == [i \in unsched |-> fs[i].deadline]
           Before(i) == Cardinality({j \in unsched : j < i})
<1>1. /\ ScheduleWakeups(p, dl)
      /\ listeners' = [e \in Event |->
                        IF e \in heard /\ p \notin ToSet(listeners[e])
                          THEN Append(listeners[e], p) ELSE listeners[e]]
      /\ joiner' = [c \in Proc |-> IF c \in children THEN {p} ELSE joiner[c]]
      /\ results' = results \ joined
  BY DEF PollEffects
<1>2. DOMAIN dl = unsched
  OBVIOUS
<1>3. /\ events' = events \cup {[time |-> dl[i], seq |-> nextSeq + Before(i), proc |-> p] :
                                 i \in unsched}
      /\ nextSeq' = nextSeq + Cardinality(unsched)
  BY <1>1, <1>2 DEF ScheduleWakeups
<1>4. /\ DOMAIN fs = 1..Len(fs) /\ Len(fs) \in Nat /\ \A i \in DOMAIN fs : fs[i] \in Future
      /\ ToSet(fs) \subseteq Future /\ ToSet(fs) = {fs[i] : i \in DOMAIN fs}
  BY DEF ToSet
<1>5. pend \subseteq ToSet(fs)
  BY DEF Pending
<1> HIDE DEF pend
<1>6. unsched \in SUBSET (1..Len(fs)) /\ IsFiniteSet(1..Len(fs))
  BY <1>4, FS_Interval
<1>7. Cardinality(unsched) \in Nat /\ \A i : Before(i) \in Nat
  <2>1. IsFiniteSet(unsched)
    BY <1>6, FS_Subset
  <2>2. ASSUME NEW i PROVE Before(i) \in Nat
    <3>1. {j \in unsched : j < i} \in SUBSET unsched
      OBVIOUS
    <3> HIDE DEF unsched
    <3>2. QED
      BY <2>1, <3>1, FS_Subset, FS_CardinalityType
  <2> HIDE DEF unsched, Before
  <2>3. QED
    BY <2>1, <2>2, FS_CardinalityType
<1>8. \A i \in unsched : dl[i] = fs[i].deadline /\ dl[i] \in 0..MaxTime
  BY <1>4, FutureCases
<1> HIDE DEF Before, dl
<1>9. /\ events \subseteq [time : 0..MaxTime, seq : Nat, proc : Proc] /\ nextSeq \in Nat
      /\ listeners \in [Event -> Seq(Proc)] /\ joiner \in [Proc -> SUBSET Proc]
      /\ \A c \in Proc : Cardinality(joiner[c]) <= 1
  BY DEF TypeOK, ExecTypeOK
<1>10. events \subseteq events' /\ nextSeq' \in Nat
  BY <1>3, <1>7, <1>9
<1>11. events' \subseteq [time : 0..MaxTime, seq : Nat, proc : Proc]
  BY <1>3, <1>7, <1>8, <1>9
<1>12. ASSUME NEW e \in events' \ events
       PROVE  \E f \in ToSet(fs) : f.kind = "timeout" /\ ~f.scheduled /\ e.time = f.deadline
  <2>1. PICK i \in unsched : e = [time |-> dl[i], seq |-> nextSeq + Before(i), proc |-> p]
    BY <1>3
  <2>2. fs[i] \in ToSet(fs) /\ fs[i].kind = "timeout" /\ ~fs[i].scheduled /\ e.time = fs[i].deadline
    BY <1>4, <1>8, <2>1
  <2>3. QED
    BY <2>2
<1>13. ASSUME NEW f \in pend, f.kind = "timeout", ~f.scheduled
       PROVE  \E e \in events' : e.proc = p /\ e.time = f.deadline
  <2>1. PICK i \in DOMAIN fs : f = fs[i]
    BY <1>4, <1>5
  <2>2. i \in unsched
    BY <1>13, <2>1
  <2> DEFINE e == [time |-> dl[i], seq |-> nextSeq + Before(i), proc |-> p]
  <2>3. e \in events'
    BY <1>3, <2>2
  <2>4. e.proc = p /\ e.time = f.deadline
    BY <1>8, <2>1, <2>2
  <2>5. QED
    BY <2>3, <2>4
<1>14. ASSUME NEW e \in Event
       PROVE  /\ listeners'[e] \in Seq(Proc)
              /\ ToSet(listeners[e]) \subseteq ToSet(listeners'[e])
              /\ e \in heard => p \in ToSet(listeners'[e])
  <2> HIDE DEF heard
  <2>1. listeners[e] \in Seq(Proc)
    BY <1>9
  <2>2. /\ Append(listeners[e], p) \in Seq(Proc)
        /\ ToSet(Append(listeners[e], p)) = ToSet(listeners[e]) \cup {p}
    BY <2>1, AppendElements
  <2>3. QED
    BY <1>1, <2>1, <2>2
<1>15. listeners' \in [Event -> Seq(Proc)]
  <2> HIDE DEF heard
  <2>1. QED
    BY <1>1, <1>14
<1>16. ASSUME NEW f \in pend, f.kind = "event" PROVE p \in ToSet(listeners'[f.event])
  <2>1. f.event \in Event /\ f.event \in heard
    BY <1>4, <1>5, <1>16, FutureCases
  <2>2. QED
    BY <1>14, <2>1
<1>17. ASSUME NEW c \in Proc
       PROVE  /\ joiner'[c] \in SUBSET Proc /\ Cardinality(joiner'[c]) <= 1
              /\ c \notin children => joiner'[c] = joiner[c]
              /\ c \in children => p \in joiner'[c]
  <2> HIDE DEF children
  <2>1. joiner'[c] = IF c \in children THEN {p} ELSE joiner[c]
    BY <1>1
  <2>2. Cardinality({p}) = 1
    BY FS_Singleton
  <2>3. QED
    BY <1>9, <2>1, <2>2
<1>18. joiner' \in [Proc -> SUBSET Proc]
  <2> HIDE DEF children
  <2>1. QED
    BY <1>1, <1>17
<1>19. ASSUME NEW f \in ToSet(fs), f.kind = "process"
       PROVE  f.child \in Proc /\ Handle(f.child) \in ToSet(fs)
  <2>1. f \in Future
    BY <1>4
  <2>2. f.child \in Proc /\ f = Handle(f.child)
    BY <1>19, <2>1, FutureCases
  <2>3. QED
    BY <2>2
<1>20. \A c \in children \cup joined : Handle(c) \in ToSet(fs)
  BY <1>5, <1>19
<1>21. ASSUME NEW f \in pend, f.kind = "process" PROVE p \in joiner'[f.child]
  <2>1. f.child \in Proc /\ f.child \in children
    BY <1>5, <1>19, <1>21
  <2>2. QED
    BY <1>17, <2>1
<1>22. \A c \in Proc : Handle(c) \notin ToSet(fs) => joiner'[c] = joiner[c]
  BY <1>17, <1>20
<1>23. results' \subseteq results /\ \A c \in results : Handle(c) \notin ToSet(fs) => c \in results'
  BY <1>1, <1>20
<1> HIDE DEF unsched, heard, children, joined
<1>24. QED
  BY <1>10, <1>11, <1>12, <1>13, <1>14, <1>15, <1>16, <1>17, <1>18, <1>21, <1>22, <1>23 DEF pend

\* What a combinator that does not resolve keeps.
LEMMA AfterPollFacts ==
  ASSUME NEW m \in {"any", "all"}, NEW fs \in Seq(Future), fs # <<>>, ~Resolves(m, fs)
  PROVE  /\ AfterPoll(fs) \in Seq(Future) /\ AfterPoll(fs) # <<>>
         /\ \A g \in ToSet(AfterPoll(fs)) :
              \E f \in Pending(fs) : IF f.kind = "timeout" THEN g = Timeout(f.deadline, TRUE)
                                                           ELSE g = f
<1> DEFINE pend == Only(fs, Pending(fs))
           Aged(f) == IF f.kind = "timeout" THEN Timeout(f.deadline, TRUE) ELSE f
<1>1. Len(fs) \in Nat /\ Len(fs) >= 1 /\ DOMAIN fs = 1..Len(fs) /\ \A i \in 1..Len(fs) : fs[i] \in Future
  OBVIOUS
<1>2. pend \in Seq(Future) /\ ToSet(pend) = ToSet(fs) \cap Pending(fs)
  BY OnlySet
<1>3. \E i \in 1..Len(fs) : ~IsReady(fs[i])
  BY <1>1 DEF Resolves
<1>4. ToSet(pend) = Pending(fs) /\ Pending(fs) # {}
  BY <1>1, <1>2, <1>3 DEF Pending, ToSet
<1>5. AfterPoll(fs) = [i \in DOMAIN pend |-> Aged(pend[i])]
  BY DEF AfterPoll
<1> HIDE DEF pend
<1>6. Len(pend) \in Nat /\ DOMAIN pend = 1..Len(pend) /\ Len(pend) # 0
  <2>1. pend # <<>>
    BY <1>4 DEF ToSet
  <2>2. QED
    BY <1>2, <2>1
<1>7. ASSUME NEW i \in DOMAIN pend
      PROVE  pend[i] \in Pending(fs) /\ pend[i] \in Future /\ Aged(pend[i]) \in Future
  <2>1. pend[i] \in Pending(fs) /\ pend[i] \in Future
    BY <1>2, <1>4 DEF ToSet
  <2>2. pend[i].kind = "timeout" => Timeout(pend[i].deadline, TRUE) \in Future
    BY <2>1, FutureCases, TimeoutFuture
  <2>3. QED
    BY <2>1, <2>2
<1>8. AfterPoll(fs) \in Seq(Future) /\ Len(AfterPoll(fs)) = Len(pend) /\ AfterPoll(fs) # <<>>
  <2> HIDE DEF Aged
  <2>1. AfterPoll(fs) \in [1..Len(pend) -> Future]
    BY <1>5, <1>6, <1>7
  <2>2. QED
    BY <1>6, <2>1
<1>9. ASSUME NEW g \in ToSet(AfterPoll(fs)) PROVE \E f \in Pending(fs) : g = Aged(f)
  <2>1. PICK i \in DOMAIN pend : g = Aged(pend[i])
    BY <1>5, <1>9 DEF ToSet
  <2>2. QED
    BY <1>7, <2>1
<1>10. QED
  BY <1>8, <1>9

-----------------------------------------------------------------------------
(* The process table. *)

LEMMA DrainFacts ==
  ASSUME TypeOK, NEW queue \in Seq(Proc), DrainInto(queue)
  PROVE  /\ ready' \in Seq(Proc)
         /\ ToSet(ready') = ToSet(queue) \cup ToSet(pendingSpawns)
         /\ pendingSpawns' = <<>> /\ pendingSpawns' \in Seq(Proc)
<1>1. pendingSpawns \in Seq(Proc)
  BY DEF TypeOK, ExecTypeOK
<1>2. QED
  BY <1>1, ConcatSet DEF DrainInto

LEMMA AdmittedFacts ==
  ASSUME NEW table \in [Proc -> SlotState]
  PROVE  /\ Admitted(table) \in [Proc -> SlotState]
         /\ \A q \in Proc : Admitted(table)[q] =
              IF q \in ToSet(pendingSpawns) THEN "parked" ELSE table[q]
BY DEF Admitted, SlotState

\* The end of a poll of p.
LEMMA EndPollFacts ==
  ASSUME TypeOK, TableCoheres, NEW p \in Proc, Running(p),
         NEW outcome \in {"parked", "finished"}, NEW woken \in Seq(Proc),
         EndPoll(p, outcome, woken)
  PROVE  /\ slot' \in [Proc -> SlotState]
         /\ slot'[p] = outcome
         /\ \A q \in Proc \ {p} :
              /\ q \in ToSet(pendingSpawns) => slot[q] = "spawned" /\ slot'[q] = "parked"
              /\ q \notin ToSet(pendingSpawns) => slot'[q] = slot[q]
         /\ \A q \in Proc : slot'[q] # "running"
         /\ ready' \in Seq(Proc)
         /\ ToSet(ready') = ToSet(ready) \cup ToSet(woken) \cup ToSet(pendingSpawns)
         /\ pendingSpawns' = <<>> /\ pendingSpawns' \in Seq(Proc)
         /\ phase' = "ready"
<1> DEFINE table == [slot EXCEPT ![p] = outcome]
<1>1. /\ slot \in [Proc -> SlotState] /\ ready \in Seq(Proc)
      /\ \A q \in Proc : slot[q] = "running" => p = q
      /\ \A c \in ToSet(pendingSpawns) : slot[c] = "spawned"
  BY DEF TypeOK, ExecTypeOK, TableCoheres, Running
<1>2. /\ table \in [Proc -> SlotState] /\ table[p] = outcome
      /\ \A q \in Proc \ {p} : table[q] = slot[q]
  BY <1>1 DEF SlotState
<1>3. slot' = Admitted(table) /\ DrainInto(ready \o woken) /\ phase' = "ready"
  BY DEF EndPoll, WithWoken
<1> HIDE DEF table
<1>4. /\ slot' \in [Proc -> SlotState]
      /\ \A q \in Proc : slot'[q] = IF q \in ToSet(pendingSpawns) THEN "parked" ELSE table[q]
  BY <1>2, <1>3, AdmittedFacts
<1>5. p \notin ToSet(pendingSpawns)
  BY <1>1 DEF Running
<1>6. ready \o woken \in Seq(Proc) /\ ToSet(ready \o woken) = ToSet(ready) \cup ToSet(woken)
  BY <1>1, ConcatSet
<1>7. /\ ready' \in Seq(Proc)
      /\ ToSet(ready') = ToSet(ready) \cup ToSet(woken) \cup ToSet(pendingSpawns)
      /\ pendingSpawns' = <<>> /\ pendingSpawns' \in Seq(Proc)
  BY <1>3, <1>6, DrainFacts
<1>8. \A q \in Proc : slot'[q] # "running"
  BY <1>1, <1>2, <1>4, <1>5
<1>9. QED
  BY <1>1, <1>2, <1>3, <1>4, <1>5, <1>7, <1>8

-----------------------------------------------------------------------------
(* Armed futures. *)

\* What q awaits stays armed as long as its wakers are left alone.
LEMMA StillArmed ==
  ASSUME KInv, NEW q \in Proc, NEW f \in ToSet(awaits[q]),
         events \subseteq events', fired' = fired, now' = now,
         \A e \in Event : ToSet(listeners[e]) \subseteq ToSet(listeners'[e]),
         \A c \in Proc : Owns(q, c) =>
           /\ joiner'[c] = joiner[c]
           /\ c \in results => c \in results'
           /\ slot[c] # "finished" => slot'[c] # "finished",
         q \in ToSet(ready) \/ Running(q) => q \in ToSet(ready') \/ slot'[q] = "running"
  PROVE  /\ f.kind = "timeout" => f.scheduled
         /\ \/ WillWake(q, f)'
            \/ IsReady(f)' /\ (q \in ToSet(ready') \/ slot'[q] = "running")
<1>1. f \in Future
  BY DEF KInv, TypeOK, ToSet
<1>2. /\ f.kind = "timeout" => f.scheduled
      /\ WillWake(q, f) \/ (IsReady(f) /\ (q \in ToSet(ready) \/ Running(q)))
  BY DEF KInv, Armed
<1>3. CASE f.kind = "timeout"
  BY <1>2, <1>3 DEF WillWake, IsReady
<1>4. CASE f.kind = "event" /\ f.event \in Event
  BY <1>2, <1>4 DEF WillWake, IsReady
<1>5. CASE f.kind = "process" /\ f.child \in Proc /\ f = Handle(f.child)
  <2>1. Owns(q, f.child)
    BY <1>5 DEF Owns
  <2>2. QED
    BY <1>2, <1>5, <2>1 DEF WillWake, IsReady
<1>6. QED
  BY <1>1, <1>3, <1>4, <1>5, FutureCases

-----------------------------------------------------------------------------
(* A poll of the futures of p, in Await and in Resume. *)

\* What both guarantee of the futures polled and of what p goes on owning.
PollReady(p, fs) ==
  /\ \A f \in ToSet(fs) :
       /\ f.kind = "timeout" /\ f.scheduled /\ ~IsReady(f) => WillWake(p, f)
       /\ f.kind = "process" => /\ Owns(p, f.child)
                                /\ ~IsReady(f) => slot[f.child] # "finished"
  /\ handles' \in [Proc -> SUBSET Proc]
  /\ \A q \in Proc \ {p} : handles'[q] = handles[q]
  /\ \A c \in handles'[p] : c \in handles[p] /\ Handle(c) \notin ToSet(fs)
  /\ kept' \in [Proc -> SUBSET (0..MaxTime)]
  /\ awaited' \in 0..MaxAwaits

\* What the poll leaves in the environment, whether or not fs resolves.
PollLeaves(fs) ==
  /\ events \subseteq events'
  /\ events' \subseteq [time : 0..MaxTime, seq : Nat, proc : Proc]
  /\ nextSeq' \in Nat
  /\ listeners' \in [Event -> Seq(Proc)]
  /\ \A e \in Event : ToSet(listeners[e]) \subseteq ToSet(listeners'[e])
  /\ joiner' \in [Proc -> SUBSET Proc]
  /\ \A c \in Proc : Cardinality(joiner'[c]) <= 1
  /\ \A c \in Proc : Handle(c) \notin ToSet(fs) => joiner'[c] = joiner[c]
  /\ results' \subseteq results
  /\ \A c \in results : Handle(c) \notin ToSet(fs) => c \in results'
  /\ mode' \in [Proc -> {"any", "all"}]
  /\ now' = now /\ until' = until /\ fired' = fired
  /\ \A e \in events' \ events :
       \E f \in ToSet(fs) : f.kind = "timeout" /\ ~f.scheduled /\ e.time = f.deadline

LEMMA PollAwaitsFacts ==
  ASSUME KInv, NEW p \in Proc, Running(p), NEW m \in {"any", "all"},
         NEW fs \in Seq(Future), fs # <<>>, PollAwaits(p, m, fs)
  PROVE  /\ PollLeaves(fs)
         /\ Resolves(m, fs) =>
              /\ awaits' = [awaits EXCEPT ![p] = <<>>]
              /\ ready' = ready /\ pendingSpawns' = pendingSpawns
              /\ slot' = slot /\ phase' = phase
         /\ ~Resolves(m, fs) =>
              /\ awaits' = [awaits EXCEPT ![p] = AfterPoll(fs)]
              /\ EndPoll(p, "parked", <<>>)
              /\ \A f \in Pending(fs) :
                   /\ f.kind = "timeout" /\ ~f.scheduled =>
                        \E e \in events' : e.proc = p /\ e.time = f.deadline
                   /\ f.kind = "event" => p \in ToSet(listeners'[f.event])
                   /\ f.kind = "process" => p \in joiner'[f.child]
<1> DEFINE pd == Polled(m, fs)
<1>1. TypeOK
  BY DEF KInv
<1>2. /\ pd \in Seq(Future) /\ ToSet(pd) \subseteq ToSet(fs)
      /\ ~Resolves(m, fs) => pd = fs
  BY PolledFacts
<1>3. /\ PollEffects(p, pd)
      /\ mode' = [mode EXCEPT ![p] = IF Resolves(m, fs) THEN "any" ELSE m]
      /\ now' = now /\ until' = until /\ fired' = fired
      /\ Resolves(m, fs) =>
           /\ awaits' = [awaits EXCEPT ![p] = <<>>]
           /\ ready' = ready /\ pendingSpawns' = pendingSpawns
           /\ slot' = slot /\ phase' = phase
      /\ ~Resolves(m, fs) =>
           /\ awaits' = [awaits EXCEPT ![p] = AfterPoll(fs)]
           /\ EndPoll(p, "parked", <<>>)
  BY DEF PollAwaits
<1>4. mode' \in [Proc -> {"any", "all"}]
  BY <1>1, <1>3 DEF TypeOK
<1> HIDE DEF pd
<1>5. /\ events \subseteq events'
      /\ events' \subseteq [time : 0..MaxTime, seq : Nat, proc : Proc]
      /\ nextSeq' \in Nat
      /\ \A e \in events' \ events :
           \E f \in ToSet(pd) : f.kind = "timeout" /\ ~f.scheduled /\ e.time = f.deadline
      /\ \A f \in Pending(pd) : f.kind = "timeout" /\ ~f.scheduled =>
           \E e \in events' : e.proc = p /\ e.time = f.deadline
      /\ listeners' \in [Event -> Seq(Proc)]
      /\ \A e \in Event : ToSet(listeners[e]) \subseteq ToSet(listeners'[e])
      /\ \A f \in Pending(pd) : f.kind = "event" => p \in ToSet(listeners'[f.event])
      /\ joiner' \in [Proc -> SUBSET Proc]
      /\ \A c \in Proc : Cardinality(joiner'[c]) <= 1
      /\ \A c \in Proc : Handle(c) \notin ToSet(pd) => joiner'[c] = joiner[c]
      /\ \A f \in Pending(pd) : f.kind = "process" => p \in joiner'[f.child]
      /\ results' \subseteq results
      /\ \A c \in results : Handle(c) \notin ToSet(pd) => c \in results'
  BY <1>1, <1>2, <1>3, PollEffectsFacts
<1>6. PollLeaves(fs)
  BY <1>2, <1>3, <1>4, <1>5 DEF PollLeaves
<1>7. QED
  BY <1>2, <1>3, <1>5, <1>6

\* The combinator resolves: p runs on.
LEMMA PollResolvedKInv ==
  ASSUME KInv, NEW p \in Proc, Running(p), NEW m \in {"any", "all"},
         NEW fs \in Seq(Future), fs # <<>>, PollAwaits(p, m, fs), PollReady(p, fs),
         Resolves(m, fs)
  PROVE  KInv'
<1>1. /\ events \subseteq events'
      /\ events' \subseteq [time : 0..MaxTime, seq : Nat, proc : Proc]
      /\ nextSeq' \in Nat
      /\ listeners' \in [Event -> Seq(Proc)]
      /\ \A e \in Event : ToSet(listeners[e]) \subseteq ToSet(listeners'[e])
      /\ joiner' \in [Proc -> SUBSET Proc]
      /\ \A c \in Proc : Cardinality(joiner'[c]) <= 1
      /\ \A c \in Proc : Handle(c) \notin ToSet(fs) => joiner'[c] = joiner[c]
      /\ results' \subseteq results
      /\ \A c \in results : Handle(c) \notin ToSet(fs) => c \in results'
      /\ mode' \in [Proc -> {"any", "all"}]
      /\ now' = now /\ until' = until /\ fired' = fired
      /\ awaits' = [awaits EXCEPT ![p] = <<>>]
      /\ ready' = ready /\ pendingSpawns' = pendingSpawns /\ slot' = slot /\ phase' = phase
  <2>1. /\ PollLeaves(fs)
        /\ awaits' = [awaits EXCEPT ![p] = <<>>]
        /\ ready' = ready /\ pendingSpawns' = pendingSpawns /\ slot' = slot /\ phase' = phase
    BY PollAwaitsFacts
  <2>2. QED
    BY <2>1 DEF PollLeaves
<1>2. /\ \A f \in ToSet(fs) : f.kind = "process" => Owns(p, f.child)
      /\ handles' \in [Proc -> SUBSET Proc]
      /\ \A q \in Proc \ {p} : handles'[q] = handles[q]
      /\ \A c \in handles'[p] : c \in handles[p] /\ Handle(c) \notin ToSet(fs)
      /\ kept' \in [Proc -> SUBSET (0..MaxTime)]
      /\ awaited' \in 0..MaxAwaits
  BY DEF PollReady
<1>3. TypeOK /\ ExecTypeOK /\ SpawnsDrained /\ TableCoheres /\ HandlesExclusive
  BY DEF KInv, TypeOK
<1>4. /\ awaits' \in [Proc -> Seq(Future)] /\ awaits'[p] = <<>>
      /\ \A q \in Proc \ {p} : awaits'[q] = awaits[q]
      /\ ToSet(<<>>) = {}
  <2>1. awaits \in [Proc -> Seq(Future)] /\ <<>> \in Seq(Future) /\ ToSet(<<>>) = {}
    BY <1>3 DEF TypeOK, ToSet
  <2>2. QED
    BY <1>1, <2>1
<1>5. \A c \in Proc : Handle(c) \in ToSet(fs) => Owns(p, c)
  BY <1>2 DEF Handle
<1>6. TypeOK'
  BY <1>1, <1>2, <1>3, <1>4 DEF TypeOK, ExecTypeOK
<1>7. SpawnsDrained'
  BY <1>1, <1>3 DEF SpawnsDrained
<1>8. TableCoheres'
  BY <1>1, <1>3, <1>4 DEF TableCoheres, Running, Parked
<1>9. \A q \in Proc, c \in Proc : Owns(q, c)' => Owns(q, c)
  BY <1>2, <1>4 DEF Owns
<1>10. HandlesExclusive'
  <2>1. ASSUME NEW q \in Proc, NEW c \in handles'[q]
        PROVE  /\ Handle(c) \notin ToSet(awaits'[q])
               /\ slot[c] = "finished" => c \in results'
    <3>1. c \in Proc
      BY <1>2, <2>1
    <3>2. CASE q = p
      BY <1>1, <1>2, <1>3, <1>4, <2>1, <3>2 DEF HandlesExclusive
    <3>3. CASE q # p
      <4>1. Handle(c) \notin ToSet(fs)
        BY <1>2, <1>3, <1>5, <2>1, <3>1, <3>3 DEF HandlesExclusive, Owns
      <4>2. QED
        BY <1>1, <1>2, <1>3, <1>4, <2>1, <3>3, <4>1 DEF HandlesExclusive
    <3>4. QED
      BY <3>2, <3>3
  <2>2. \A q, c \in Proc : Owns(q, c)' => slot[c] # "unborn"
    BY <1>3, <1>9 DEF HandlesExclusive
  <2>3. \A q, r, c \in Proc : Owns(q, c)' /\ Owns(r, c)' => q = r
    BY <1>3, <1>9 DEF HandlesExclusive
  <2>4. QED
    BY <1>1, <2>1, <2>2, <2>3 DEF HandlesExclusive
<1>11. ASSUME NEW q \in Proc, NEW f \in ToSet(awaits'[q])
       PROVE  /\ f.kind = "timeout" => f.scheduled
              /\ \/ WillWake(q, f)'
                 \/ IsReady(f)' /\ (q \in ToSet(ready') \/ slot'[q] = "running")
  <2>1. q # p /\ f \in ToSet(awaits[q])
    BY <1>4, <1>11
  <2>2. ASSUME NEW c \in Proc, Owns(q, c) PROVE Handle(c) \notin ToSet(fs)
    BY <1>3, <1>5, <2>1, <2>2 DEF HandlesExclusive
  <2>3. QED
    BY <1>1, <2>1, <2>2, StillArmed DEF Running
<1>12. Armed'
  BY <1>11 DEF Armed, Running
<1>13. QED
  BY <1>6, <1>7, <1>8, <1>10, <1>12 DEF KInv

\* It does not: p is parked, and each future it goes on awaiting is armed.
LEMMA PollPendingKInv ==
  ASSUME KInv, NEW p \in Proc, Running(p), NEW m \in {"any", "all"},
         NEW fs \in Seq(Future), fs # <<>>, PollAwaits(p, m, fs), PollReady(p, fs),
         ~Resolves(m, fs)
  PROVE  KInv'
<1>1. /\ events \subseteq events'
      /\ events' \subseteq [time : 0..MaxTime, seq : Nat, proc : Proc]
      /\ nextSeq' \in Nat
      /\ listeners' \in [Event -> Seq(Proc)]
      /\ \A e \in Event : ToSet(listeners[e]) \subseteq ToSet(listeners'[e])
      /\ joiner' \in [Proc -> SUBSET Proc]
      /\ \A c \in Proc : Cardinality(joiner'[c]) <= 1
      /\ \A c \in Proc : Handle(c) \notin ToSet(fs) => joiner'[c] = joiner[c]
      /\ results' \subseteq results
      /\ \A c \in results : Handle(c) \notin ToSet(fs) => c \in results'
      /\ mode' \in [Proc -> {"any", "all"}]
      /\ now' = now /\ until' = until /\ fired' = fired
      /\ awaits' = [awaits EXCEPT ![p] = AfterPoll(fs)]
      /\ EndPoll(p, "parked", <<>>)
  <2>1. /\ PollLeaves(fs)
        /\ awaits' = [awaits EXCEPT ![p] = AfterPoll(fs)]
        /\ EndPoll(p, "parked", <<>>)
    BY PollAwaitsFacts
  <2>2. QED
    BY <2>1 DEF PollLeaves
<1>2. \A f \in Pending(fs) :
        /\ f.kind = "timeout" /\ ~f.scheduled => \E e \in events' : e.proc = p /\ e.time = f.deadline
        /\ f.kind = "event" => p \in ToSet(listeners'[f.event])
        /\ f.kind = "process" => p \in joiner'[f.child]
  BY PollAwaitsFacts
<1>3. /\ \A f \in ToSet(fs) :
           /\ f.kind = "timeout" /\ f.scheduled /\ ~IsReady(f) => WillWake(p, f)
           /\ f.kind = "process" => /\ Owns(p, f.child)
                                    /\ ~IsReady(f) => slot[f.child] # "finished"
      /\ handles' \in [Proc -> SUBSET Proc]
      /\ \A q \in Proc \ {p} : handles'[q] = handles[q]
      /\ \A c \in handles'[p] : c \in handles[p] /\ Handle(c) \notin ToSet(fs)
      /\ kept' \in [Proc -> SUBSET (0..MaxTime)]
      /\ awaited' \in 0..MaxAwaits
  BY DEF PollReady
<1>4. TypeOK /\ ExecTypeOK /\ SpawnsDrained /\ TableCoheres /\ HandlesExclusive
  BY DEF KInv, TypeOK
<1>5. /\ slot' \in [Proc -> SlotState]
      /\ slot'[p] = "parked"
      /\ \A q \in Proc \ {p} :
           /\ q \in ToSet(pendingSpawns) => slot[q] = "spawned" /\ slot'[q] = "parked"
           /\ q \notin ToSet(pendingSpawns) => slot'[q] = slot[q]
      /\ \A q \in Proc : slot'[q] # "running"
      /\ ready' \in Seq(Proc)
      /\ ToSet(ready') = ToSet(ready) \cup ToSet(<<>>) \cup ToSet(pendingSpawns)
      /\ pendingSpawns' = <<>> /\ pendingSpawns' \in Seq(Proc)
      /\ phase' = "ready"
  <2>1. <<>> \in Seq(Proc)
    OBVIOUS
  <2>2. QED
    BY <1>1, <1>4, <2>1, EndPollFacts
<1>6. ToSet(<<>>) = {}
  BY DEF ToSet
<1>7. /\ AfterPoll(fs) \in Seq(Future) /\ AfterPoll(fs) # <<>>
      /\ \A g \in ToSet(AfterPoll(fs)) :
           \E f \in Pending(fs) : IF f.kind = "timeout" THEN g = Timeout(f.deadline, TRUE) ELSE g = f
  BY AfterPollFacts
<1>8. /\ awaits' \in [Proc -> Seq(Future)] /\ awaits'[p] = AfterPoll(fs)
      /\ \A q \in Proc \ {p} : awaits'[q] = awaits[q]
  <2>1. awaits \in [Proc -> Seq(Future)]
    BY <1>4 DEF TypeOK
  <2>2. QED
    BY <1>1, <1>7, <2>1
<1>9. \A f \in Pending(fs) : f \in ToSet(fs) /\ f \in Future /\ ~IsReady(f)
  BY DEF Pending, ToSet
<1>10. \A c \in Proc : slot[c] # "finished" => slot'[c] # "finished"
  BY <1>5
<1>11. \A c \in Proc : slot[c] = "finished" <=> slot'[c] = "finished"
  BY <1>5 DEF Running
<1>12. TypeOK'
  <2>1. results' \subseteq {c \in Proc : slot'[c] = "finished"}
    BY <1>1, <1>4, <1>11 DEF TypeOK
  <2>2. ExecTypeOK'
    BY <1>1, <1>4, <1>5 DEF ExecTypeOK, Phase
  <2>3. fired' \subseteq Event
    BY <1>1, <1>4 DEF TypeOK
  <2>4. QED
    BY <1>1, <1>3, <1>8, <2>1, <2>2, <2>3 DEF TypeOK
<1>13. SpawnsDrained'
  BY <1>5 DEF SpawnsDrained
<1>14. TableCoheres'
  <2>1. \A c \in ToSet(pendingSpawns') : slot'[c] = "spawned"
    BY <1>5, <1>6
  <2>2. ASSUME NEW q \in Proc
        PROVE  /\ awaits'[q] # <<>> => slot'[q] \in {"parked", "running"}
               /\ slot'[q] = "parked" /\ awaits'[q] = <<>> => q \in ToSet(ready')
    <3>1. CASE q = p
      BY <1>5, <1>7, <1>8, <3>1
    <3>2. CASE q # p
      BY <1>4, <1>5, <1>8, <3>2 DEF TableCoheres, Parked
    <3>3. QED
      BY <3>1, <3>2
  <2>3. QED
    BY <1>5, <2>1, <2>2 DEF TableCoheres, Parked
<1>15. \A c \in Proc : Handle(c) \in ToSet(fs) => Owns(p, c)
  BY <1>3 DEF Handle
<1>16. \A c \in Proc : Handle(c) \in ToSet(awaits'[p]) => Handle(c) \in ToSet(fs)
  <2> SUFFICES ASSUME NEW c \in Proc, Handle(c) \in ToSet(AfterPoll(fs)) PROVE Handle(c) \in ToSet(fs)
    BY <1>8
  <2>1. PICK f \in Pending(fs) :
          IF f.kind = "timeout" THEN Handle(c) = Timeout(f.deadline, TRUE) ELSE Handle(c) = f
    BY <1>7
  <2>2. Handle(c).kind = "process" /\ Timeout(f.deadline, TRUE).kind = "timeout"
    BY DEF Handle, Timeout
  <2>3. Handle(c) = f
    BY <2>1, <2>2
  <2>4. QED
    BY <1>9, <2>3
<1>17. \A q \in Proc, c \in Proc : Owns(q, c)' => Owns(q, c)
  BY <1>3, <1>8, <1>15, <1>16 DEF Owns
<1>18. HandlesExclusive'
  <2>1. ASSUME NEW q \in Proc, NEW c \in handles'[q]
        PROVE  /\ Handle(c) \notin ToSet(awaits'[q])
               /\ slot'[c] = "finished" => c \in results'
    <3>1. c \in Proc
      BY <1>3, <2>1
    <3>2. CASE q = p
      BY <1>1, <1>3, <1>4, <1>11, <1>16, <2>1, <3>1, <3>2 DEF HandlesExclusive
    <3>3. CASE q # p
      <4>1. Handle(c) \notin ToSet(fs)
        BY <1>3, <1>4, <1>15, <2>1, <3>1, <3>3 DEF HandlesExclusive, Owns
      <4>2. QED
        BY <1>1, <1>3, <1>4, <1>8, <1>11, <2>1, <3>1, <3>3, <4>1 DEF HandlesExclusive
    <3>4. QED
      BY <3>2, <3>3
  <2>2. \A q, c \in Proc : Owns(q, c)' => slot'[c] # "unborn"
    <3>1. \A c \in Proc : slot[c] # "unborn" => slot'[c] # "unborn"
      BY <1>5
    <3>2. QED
      BY <1>4, <1>17, <3>1 DEF HandlesExclusive
  <2>3. \A q, r, c \in Proc : Owns(q, c)' /\ Owns(r, c)' => q = r
    BY <1>4, <1>17 DEF HandlesExclusive
  <2>4. QED
    BY <2>1, <2>2, <2>3 DEF HandlesExclusive
<1>19. ASSUME NEW q \in Proc, q # p, NEW f \in ToSet(awaits'[q])
       PROVE  /\ f.kind = "timeout" => f.scheduled
              /\ \/ WillWake(q, f)'
                 \/ IsReady(f)' /\ (q \in ToSet(ready') \/ slot'[q] = "running")
  <2>1. f \in ToSet(awaits[q])
    BY <1>8, <1>19
  <2>2. ASSUME NEW c \in Proc, Owns(q, c) PROVE Handle(c) \notin ToSet(fs)
    BY <1>4, <1>15, <1>19, <2>2 DEF HandlesExclusive
  <2>3. ~Running(q)
    BY <1>4, <1>19 DEF ExecTypeOK, Running
  <2>4. ToSet(ready) \subseteq ToSet(ready')
    BY <1>5
  <2>5. QED
    BY <1>1, <1>10, <2>1, <2>2, <2>3, <2>4, StillArmed
<1>20. ASSUME NEW g \in ToSet(AfterPoll(fs))
       PROVE  /\ g.kind = "timeout" => g.scheduled
              /\ WillWake(p, g)'
  <2>1. PICK f \in Pending(fs) : IF f.kind = "timeout" THEN g = Timeout(f.deadline, TRUE) ELSE g = f
    BY <1>7
  <2>2. f \in ToSet(fs) /\ f \in Future /\ ~IsReady(f)
    BY <1>9
  <2>3. CASE f.kind = "timeout" /\ f.deadline \in 0..MaxTime /\ f.scheduled \in BOOLEAN
    <3>1. g.kind = "timeout" /\ g.deadline = f.deadline /\ g.scheduled
      BY <2>1, <2>3, TimeoutFuture
    <3>2. \E e \in events' : e.proc = p /\ e.time = f.deadline
      BY <1>1, <1>2, <1>3, <2>2, <2>3 DEF WillWake
    <3>3. QED
      BY <3>1, <3>2 DEF WillWake
  <2>4. CASE f.kind = "event" /\ f.event \in Event
    <3>1. g = f /\ f.event \notin fired' /\ p \in ToSet(listeners'[f.event])
      BY <1>1, <1>2, <2>1, <2>2, <2>4 DEF IsReady
    <3>2. QED
      BY <2>4, <3>1 DEF WillWake
  <2>5. CASE f.kind = "process" /\ f.child \in Proc
    <3>1. g = f /\ slot'[f.child] # "finished" /\ p \in joiner'[f.child]
      BY <1>2, <1>3, <1>10, <2>1, <2>2, <2>5
    <3>2. QED
      BY <2>5, <3>1 DEF WillWake
  <2>6. QED
    BY <2>2, <2>3, <2>4, <2>5, FutureCases
<1>21. Armed'
  <2>1. ASSUME NEW q \in Proc, NEW f \in ToSet(awaits'[q])
        PROVE  /\ f.kind = "timeout" => f.scheduled
               /\ \/ WillWake(q, f)'
                  \/ IsReady(f)' /\ (q \in ToSet(ready') \/ slot'[q] = "running")
    BY <1>8, <1>19, <1>20, <2>1
  <2>2. QED
    BY <2>1 DEF Armed, Running
<1>22. QED
  BY <1>12, <1>13, <1>14, <1>18, <1>21 DEF KInv

LEMMA PollAwaitsKInv ==
  ASSUME KInv, NEW p \in Proc, Running(p), NEW m \in {"any", "all"},
         NEW fs \in Seq(Future), fs # <<>>, PollAwaits(p, m, fs), PollReady(p, fs)
  PROVE  KInv'
BY PollResolvedKInv, PollPendingKInv

-----------------------------------------------------------------------------
(* The steps of a process. *)

LEMMA ResumeKInv ==
  ASSUME KInv, NEW p \in Proc, Resume(p)
  PROVE  KInv'
<1>1. /\ Running(p) /\ awaits[p] # <<>> /\ PollAwaits(p, mode[p], awaits[p])
      /\ handles' = handles /\ kept' = kept /\ awaited' = awaited
  BY DEF Resume
<1>2. TypeOK /\ HandlesExclusive /\ Armed
  BY DEF KInv
<1>3. mode[p] \in {"any", "all"} /\ awaits[p] \in Seq(Future)
  BY <1>2 DEF TypeOK
<1>4. ASSUME NEW f \in ToSet(awaits[p])
      PROVE  /\ ~IsReady(f) => WillWake(p, f)
             /\ f.kind = "process" => f.child \in Proc /\ Owns(p, f.child)
  <2>1. f \in Future
    BY <1>3 DEF ToSet
  <2>2. f.kind = "process" => f.child \in Proc /\ f = Handle(f.child)
    BY <2>1, FutureCases
  <2>3. QED
    BY <1>2, <2>2 DEF Armed, Owns
<1>5. PollReady(p, awaits[p])
  <2>1. \A c \in handles[p] : Handle(c) \notin ToSet(awaits[p])
    BY <1>2 DEF HandlesExclusive
  <2>2. \A f \in ToSet(awaits[p]) :
          f.kind = "process" /\ ~IsReady(f) => slot[f.child] # "finished"
    BY <1>4 DEF WillWake
  <2>3. QED
    BY <1>1, <1>2, <1>4, <2>1, <2>2 DEF PollReady, TypeOK
<1>6. QED
  BY <1>1, <1>3, <1>5, PollAwaitsKInv

\* The futures a process can put into a combination.
LEMMA AwaitableFutures ==
  ASSUME TypeOK, NEW p \in Proc, NEW f \in Awaitable(p)
  PROVE  /\ f \in Future
         /\ f.kind = "timeout" => ~f.scheduled
         /\ f.kind = "process" => f.child \in handles[p]
<1>1. /\ now \in 0..MaxTime /\ kept \in [Proc -> SUBSET (0..MaxTime)]
      /\ handles \in [Proc -> SUBSET Proc]
  BY DEF TypeOK, ExecTypeOK
<1>2. CASE \E d \in Delays : now + d <= MaxTime /\ f = Timeout(now + d, FALSE)
  <2>1. PICK d \in Delays : now + d <= MaxTime /\ f = Timeout(now + d, FALSE)
    BY <1>2
  <2>2. now + d \in 0..MaxTime
    BY <1>1, <2>1, DelaysAssumption, MaxTimeAssumption
  <2>3. f \in Future /\ f.kind = "timeout" /\ f.scheduled = FALSE
    BY <2>1, <2>2, TimeoutFuture
  <2>4. QED
    BY <2>3
<1>3. CASE \E d \in kept[p] : f = Timeout(d, FALSE)
  <2>1. PICK d \in kept[p] : f = Timeout(d, FALSE)
    BY <1>3
  <2>2. d \in 0..MaxTime
    BY <1>1
  <2>3. f \in Future /\ f.kind = "timeout" /\ f.scheduled = FALSE
    BY <2>1, <2>2, TimeoutFuture
  <2>4. QED
    BY <2>3
<1>4. CASE \E e \in Event : f = EventFut(e)
  BY <1>4 DEF EventFut, Future
<1>5. CASE \E c \in handles[p] : f = Handle(c)
  BY <1>1, <1>5 DEF Handle, Future
<1>6. QED
  BY <1>2, <1>3, <1>4, <1>5 DEF Awaitable

LEMMA CombinationsFutures ==
  ASSUME TypeOK, NEW p \in Proc, NEW fs \in Combinations(p)
  PROVE  fs \in Seq(Future) /\ fs # <<>> /\ ToSet(fs) \subseteq Awaitable(p)
<1>1. PICK n \in 1..MaxWidth : fs \in [1..n -> Awaitable(p)]
  BY DEF Combinations
<1>2. n \in Nat /\ n >= 1
  BY BoundsAssumption
<1>3. fs \in [1..n -> Future]
  BY <1>1, AwaitableFutures
<1>4. fs \in Seq(Future) /\ Len(fs) = n
  BY <1>2, <1>3
<1>5. QED
  BY <1>1, <1>2, <1>4 DEF ToSet

LEMMA AwaitKInv ==
  ASSUME KInv, NEW p \in Proc, Await(p)
  PROVE  KInv'
<1>1. PICK fs \in Combinations(p) :
        /\ \E m \in IF Len(fs) = 1 THEN {"any"} ELSE {"any", "all"} : PollAwaits(p, m, fs)
        /\ handles' = [handles EXCEPT ![p] = @ \ {c \in Proc : Handle(c) \in ToSet(fs)}]
        /\ kept' = [kept EXCEPT ![p] = @ \ {d \in 0..MaxTime : Timeout(d, FALSE) \in ToSet(fs)}]
  BY DEF Await
<1>2. PICK m \in {"any", "all"} : PollAwaits(p, m, fs)
  BY <1>1
<1>3. Running(p) /\ awaits[p] = <<>> /\ awaited < MaxAwaits /\ awaited' = awaited + 1
  BY DEF Await, Active
<1>4. TypeOK /\ HandlesExclusive
  BY DEF KInv
<1>5. /\ now \in 0..MaxTime /\ kept \in [Proc -> SUBSET (0..MaxTime)]
      /\ handles \in [Proc -> SUBSET Proc] /\ awaited \in 0..MaxAwaits
  BY <1>4 DEF TypeOK, ExecTypeOK
<1>6. ASSUME NEW f \in Awaitable(p)
      PROVE  /\ f \in Future
             /\ f.kind = "timeout" => ~f.scheduled
             /\ f.kind = "process" => f.child \in handles[p]
  BY <1>4, AwaitableFutures
<1>7. fs \in Seq(Future) /\ fs # <<>> /\ ToSet(fs) \subseteq Awaitable(p)
  BY <1>4, CombinationsFutures
<1>8. PollReady(p, fs)
  <2>1. /\ handles' \in [Proc -> SUBSET Proc]
        /\ \A q \in Proc \ {p} : handles'[q] = handles[q]
        /\ \A c \in handles'[p] : c \in handles[p] /\ Handle(c) \notin ToSet(fs)
    BY <1>1, <1>5
  <2>2. kept' \in [Proc -> SUBSET (0..MaxTime)]
    BY <1>1, <1>5
  <2>3. awaited' \in 0..MaxAwaits
    BY <1>3, <1>5, BoundsAssumption
  <2>4. ASSUME NEW f \in ToSet(fs)
        PROVE  /\ f.kind = "timeout" => ~f.scheduled
               /\ f.kind = "process" => /\ Owns(p, f.child)
                                        /\ ~IsReady(f) => slot[f.child] # "finished"
    <3>1. f \in Awaitable(p)
      BY <1>7
    <3>2. QED
      BY <1>4, <1>6, <3>1 DEF Owns, HandlesExclusive, IsReady
  <2>5. QED
    BY <2>1, <2>2, <2>3, <2>4 DEF PollReady
<1>9. QED
  BY <1>2, <1>3, <1>7, <1>8, PollAwaitsKInv

LEMMA KeepTimeoutKInv ==
  ASSUME KInv, NEW p \in Proc, KeepTimeout(p)
  PROVE  KInv'
<1>1. PICK d \in Delays : now + d <= MaxTime /\ kept' = [kept EXCEPT ![p] = {now + d}]
  BY DEF KeepTimeout
<1>2. UNCHANGED <<execVars, awaits, mode, fired, listeners, handles, results, joiner, awaited>>
  BY DEF KeepTimeout
<1>3. kept' \in [Proc -> SUBSET (0..MaxTime)]
  BY <1>1, DelaysAssumption, MaxTimeAssumption DEF KInv, TypeOK, ExecTypeOK
<1>4. TypeOK'
  BY <1>2, <1>3 DEF KInv, TypeOK, ExecTypeOK, execVars
<1>5. SpawnsDrained' /\ TableCoheres' /\ HandlesExclusive'
  BY <1>2 DEF KInv, execVars, SpawnsDrained, TableCoheres, Parked, HandlesExclusive, Owns
<1>6. Armed'
  BY <1>2 DEF KInv, execVars, Armed, WillWake, IsReady, Running
<1>7. QED
  BY <1>4, <1>5, <1>6 DEF KInv

\* A new process enters the pending spawns; its handle, if any, is p's.
LEMMA EnqueueKInv ==
  ASSUME KInv, NEW c \in Proc, EnqueueSpawn(c), phase \in {"poll", "host"},
         \/ handles' = handles
         \/ \E p \in Proc : awaits[p] = <<>> /\ handles' = [handles EXCEPT ![p] = @ \cup {c}],
         UNCHANGED <<now, events, nextSeq, ready, phase, until>>,
         UNCHANGED <<awaits, mode, fired, listeners, results, joiner, kept, awaited>>
  PROVE  KInv'
<1>1. /\ slot[c] = "unborn" /\ slot' = [slot EXCEPT ![c] = "spawned"]
      /\ pendingSpawns' = Append(pendingSpawns, c)
  BY DEF EnqueueSpawn, NextId
<1>2. TypeOK /\ ExecTypeOK /\ TableCoheres /\ HandlesExclusive /\ Armed
  BY DEF KInv, TypeOK
<1>3. slot \in [Proc -> SlotState] /\ pendingSpawns \in Seq(Proc) /\ handles \in [Proc -> SUBSET Proc]
  BY <1>2 DEF ExecTypeOK, TypeOK
<1>4. /\ slot' \in [Proc -> SlotState] /\ slot'[c] = "spawned"
      /\ \A q \in Proc \ {c} : slot'[q] = slot[q]
  BY <1>1, <1>3 DEF SlotState
<1>5. /\ pendingSpawns' \in Seq(Proc)
      /\ ToSet(pendingSpawns') = ToSet(pendingSpawns) \cup {c}
  BY <1>1, <1>3, AppendElements
<1>6. \A q \in Proc : slot'[q] = "running" <=> slot[q] = "running"
  BY <1>1, <1>4
<1>7. /\ handles' \in [Proc -> SUBSET Proc]
      /\ \A q \in Proc : handles'[q] \subseteq handles[q] \cup {c}
      /\ \A q, r \in Proc : c \in handles'[q] \ handles[q] /\ c \in handles'[r] \ handles[r] => q = r
      /\ \A q \in Proc : c \in handles'[q] \ handles[q] => awaits[q] = <<>>
  BY <1>3
<1>8. ExecTypeOK'
  BY <1>2, <1>4, <1>5, <1>6 DEF ExecTypeOK
<1>9. TypeOK'
  <2>1. results \subseteq {q \in Proc : slot'[q] = "finished"}
    BY <1>1, <1>2, <1>4 DEF TypeOK
  <2>2. QED
    BY <1>2, <1>7, <1>8, <2>1 DEF TypeOK
<1>10. SpawnsDrained'
  BY DEF SpawnsDrained
<1>11. TableCoheres'
  <2>1. \A q \in ToSet(pendingSpawns') : slot'[q] = "spawned"
    <3>1. \A q \in ToSet(pendingSpawns) : q \in Proc /\ slot[q] = "spawned"
      BY <1>2, <1>3 DEF TableCoheres, ToSet
    <3>2. QED
      BY <1>4, <1>5, <3>1
  <2>2. ASSUME NEW q \in Proc
        PROVE  /\ awaits[q] # <<>> => slot'[q] \in {"parked", "running"}
               /\ slot'[q] = "parked" /\ awaits[q] = <<>> => q \in ToSet(ready)
    BY <1>1, <1>2, <1>4 DEF TableCoheres, Parked
  <2>3. QED
    BY <1>2, <2>1, <2>2 DEF TableCoheres, Parked
<1>12. \A q \in Proc : ~Owns(q, c)
  BY <1>1, <1>2 DEF HandlesExclusive
<1>13. HandlesExclusive'
  <2>1. \A q \in Proc, d \in Proc : Owns(q, d)' => Owns(q, d) \/ (d = c /\ c \in handles'[q] \ handles[q])
    BY <1>7 DEF Owns
  <2>2. \A q, r, d \in Proc : Owns(q, d)' /\ Owns(r, d)' => q = r
    BY <1>2, <1>7, <1>12, <2>1 DEF HandlesExclusive
  <2>3. \A q, d \in Proc : Owns(q, d)' => slot'[d] # "unborn"
    BY <1>2, <1>4, <2>1 DEF HandlesExclusive
  <2>4. ASSUME NEW q \in Proc, NEW d \in handles'[q]
        PROVE  Handle(d) \notin ToSet(awaits[q]) /\ (slot'[d] = "finished" => d \in results)
    <3>1. CASE d \in handles[q]
      <4>1. d # c /\ d \in Proc
        BY <1>3, <1>12, <3>1 DEF Owns
      <4>2. QED
        BY <1>2, <1>4, <3>1, <4>1 DEF HandlesExclusive
    <3>2. CASE d \notin handles[q]
      <4>1. d = c /\ awaits[q] = <<>>
        BY <1>7, <2>4, <3>2
      <4>2. QED
        BY <1>4, <4>1 DEF ToSet
    <3>3. QED
      BY <3>1, <3>2
  <2>5. QED
    BY <2>2, <2>3, <2>4 DEF HandlesExclusive
<1>14. Armed'
  <2>1. ASSUME NEW q \in Proc, NEW f \in ToSet(awaits[q])
        PROVE  /\ f.kind = "timeout" => f.scheduled
               /\ \/ WillWake(q, f)'
                  \/ IsReady(f)' /\ (q \in ToSet(ready') \/ slot'[q] = "running")
    BY <1>4, <1>6, StillArmed DEF Running
  <2>2. QED
    BY <2>1 DEF Armed, Running
<1>15. QED
  BY <1>9, <1>10, <1>11, <1>13, <1>14 DEF KInv

LEMMA SpawnKInv ==
  ASSUME KInv, NEW p \in Proc, Spawn(p)
  PROVE  KInv'
<1>1. phase = "poll"
  BY DEF Spawn, Active, Running, KInv, TypeOK, ExecTypeOK
<1>2. PICK c \in Proc : EnqueueSpawn(c) /\ handles' = [handles EXCEPT ![p] = @ \cup {c}]
  BY DEF Spawn
<1>3. awaits[p] = <<>>
  BY DEF Spawn, Active
<1>4. /\ UNCHANGED <<now, events, nextSeq, ready, phase, until>>
      /\ UNCHANGED <<awaits, mode, fired, listeners, results, joiner, kept, awaited>>
  BY DEF Spawn
<1>5. QED
  BY <1>1, <1>2, <1>3, <1>4, EnqueueKInv

LEMMA HostSpawnKInv ==
  ASSUME KInv, HostSpawn
  PROVE  KInv'
<1>1. PICK c \in Proc : EnqueueSpawn(c)
  BY DEF HostSpawn
<1>2. /\ phase = "host" /\ handles' = handles
      /\ UNCHANGED <<now, events, nextSeq, ready, phase, until>>
      /\ UNCHANGED <<awaits, mode, fired, listeners, results, joiner, kept, awaited>>
  BY DEF HostSpawn, procVars
<1>3. QED
  BY <1>1, <1>2, EnqueueKInv

LEMMA FireKInv ==
  ASSUME KInv, NEW p \in Proc, Fire(p)
  PROVE  KInv'
<1>1. PICK e \in Event : FireEvent(e)
  BY DEF Fire
<1>2. /\ Running(p) /\ awaits[p] = <<>>
      /\ UNCHANGED <<now, events, nextSeq, pendingSpawns, slot, phase, until>>
      /\ UNCHANGED <<awaits, mode, handles, results, joiner, kept, awaited>>
  BY DEF Fire, Active
<1>3. TypeOK /\ ExecTypeOK /\ SpawnsDrained /\ TableCoheres /\ HandlesExclusive /\ Armed
  BY DEF KInv, TypeOK
<1>4. /\ fired \subseteq Event /\ listeners \in [Event -> Seq(Proc)] /\ ready \in Seq(Proc)
      /\ awaits \in [Proc -> Seq(Future)]
  BY <1>3 DEF TypeOK, ExecTypeOK
<1>5. /\ fired' = fired \cup {e} /\ ready' = ready \o listeners[e]
      /\ listeners' = [listeners EXCEPT ![e] = <<>>]
  BY <1>1 DEF FireEvent, WithWoken
<1>6. /\ ready' \in Seq(Proc) /\ ToSet(ready') = ToSet(ready) \cup ToSet(listeners[e])
  BY <1>4, <1>5, ConcatSet
<1>7. /\ listeners' \in [Event -> Seq(Proc)]
      /\ \A g \in Event \ {e} : listeners'[g] = listeners[g]
  BY <1>4, <1>5
<1>8. ExecTypeOK'
  BY <1>2, <1>3, <1>6 DEF ExecTypeOK
<1>9. TypeOK'
  BY <1>2, <1>3, <1>4, <1>5, <1>7, <1>8 DEF TypeOK
<1>10. phase = "poll"
  BY <1>2, <1>3 DEF ExecTypeOK, Running
<1>11. SpawnsDrained'
  BY <1>2, <1>10 DEF SpawnsDrained
<1>12. TableCoheres'
  BY <1>2, <1>3, <1>6, <1>10 DEF TableCoheres, Parked
<1>13. HandlesExclusive'
  BY <1>2, <1>3 DEF HandlesExclusive, Owns
<1>14. ASSUME NEW q \in Proc, NEW f \in ToSet(awaits[q])
       PROVE  /\ f.kind = "timeout" => f.scheduled
              /\ WillWake(q, f)' \/ (IsReady(f)' /\ (q \in ToSet(ready') \/ slot'[q] = "running"))
  <2>1. f \in Future
    BY <1>4 DEF ToSet
  <2>2. /\ f.kind = "timeout" => f.scheduled
        /\ WillWake(q, f) \/ (IsReady(f) /\ (q \in ToSet(ready) \/ slot[q] = "running"))
    BY <1>3 DEF Armed, Running
  <2>3. CASE f.kind = "timeout"
    BY <1>2, <1>6, <2>2, <2>3 DEF WillWake, IsReady
  <2>4. CASE f.kind = "event" /\ f.event \in Event
    <3>1. CASE f.event = e
      <4>1. IsReady(f)'
        BY <1>5, <2>4, <3>1 DEF IsReady
      <4>2. q \in ToSet(ready') \/ slot'[q] = "running"
        BY <1>2, <1>6, <2>2, <2>4, <3>1 DEF WillWake
      <4>3. QED
        BY <2>4, <4>1, <4>2
    <3>2. CASE f.event # e
      BY <1>2, <1>5, <1>6, <1>7, <2>2, <2>4, <3>2 DEF WillWake, IsReady
    <3>3. QED
      BY <3>1, <3>2
  <2>5. CASE f.kind = "process" /\ f.child \in Proc
    BY <1>2, <1>6, <2>2, <2>5 DEF WillWake, IsReady
  <2>6. QED
    BY <2>1, <2>3, <2>4, <2>5, FutureCases
<1>15. Armed'
  BY <1>2, <1>14 DEF Armed, Running
<1>16. QED
  BY <1>9, <1>11, <1>12, <1>13, <1>15 DEF KInv

\* A process finishes: who joined it is woken and finds the result.
LEMMA FinishKInv ==
  ASSUME KInv, NEW p \in Proc, Finish(p)
  PROVE  KInv'
<1>1. /\ Running(p) /\ awaits[p] = <<>>
      /\ results' = results \cup {p}
      /\ joiner' = [joiner EXCEPT ![p] = {}]
      /\ handles' = [handles EXCEPT ![p] = {}]
      /\ kept' = [kept EXCEPT ![p] = {}]
      /\ EndPoll(p, "finished", SetToSeq(joiner[p]))
      /\ UNCHANGED <<now, events, nextSeq, until, awaits, mode, fired, listeners, awaited>>
  BY DEF Finish, Active
<1>2. TypeOK /\ ExecTypeOK /\ SpawnsDrained /\ TableCoheres /\ HandlesExclusive /\ Armed
  BY DEF KInv, TypeOK
<1>3. /\ joiner \in [Proc -> SUBSET Proc] /\ handles \in [Proc -> SUBSET Proc]
      /\ kept \in [Proc -> SUBSET (0..MaxTime)] /\ awaits \in [Proc -> Seq(Future)]
      /\ results \subseteq {q \in Proc : slot[q] = "finished"}
      /\ \A q \in Proc : Cardinality(joiner[q]) <= 1
  BY <1>2 DEF TypeOK
<1>4. SetToSeq(joiner[p]) \in Seq(Proc) /\ ToSet(SetToSeq(joiner[p])) = joiner[p]
  <2>1. joiner[p] \in SUBSET Proc /\ IsFiniteSet(Proc)
    BY <1>3, FS_Interval, MaxProcsAssumption DEF Proc
  <2>2. IsFiniteSet(joiner[p])
    BY <2>1, FS_Subset
  <2>3. SetToSeq(joiner[p]) \in Seq(joiner[p]) /\ ToSet(SetToSeq(joiner[p])) = joiner[p]
    BY <2>2, SetToSeqSet
  <2>4. QED
    BY <2>1, <2>3
<1>5. /\ slot' \in [Proc -> SlotState]
      /\ slot'[p] = "finished"
      /\ \A q \in Proc \ {p} :
           /\ q \in ToSet(pendingSpawns) => slot[q] = "spawned" /\ slot'[q] = "parked"
           /\ q \notin ToSet(pendingSpawns) => slot'[q] = slot[q]
      /\ \A q \in Proc : slot'[q] # "running"
      /\ ready' \in Seq(Proc)
      /\ ToSet(ready') = ToSet(ready) \cup joiner[p] \cup ToSet(pendingSpawns)
      /\ pendingSpawns' = <<>> /\ pendingSpawns' \in Seq(Proc)
      /\ phase' = "ready"
  BY <1>1, <1>2, <1>4, EndPollFacts
<1>6. /\ joiner' \in [Proc -> SUBSET Proc] /\ joiner'[p] = {}
      /\ handles' \in [Proc -> SUBSET Proc] /\ handles'[p] = {}
      /\ kept' \in [Proc -> SUBSET (0..MaxTime)]
      /\ \A q \in Proc \ {p} : joiner'[q] = joiner[q] /\ handles'[q] = handles[q]
  BY <1>1, <1>3
<1>7. \A q \in Proc \ {p} : slot[q] = "finished" <=> slot'[q] = "finished"
  BY <1>5
<1>8. TypeOK'
  <2>1. ExecTypeOK'
    BY <1>1, <1>2, <1>5 DEF ExecTypeOK, Phase
  <2>2. results' \subseteq {q \in Proc : slot'[q] = "finished"}
    BY <1>1, <1>3, <1>5, <1>7
  <2>3. ASSUME NEW q \in Proc PROVE Cardinality(joiner'[q]) <= 1
    <3>1. Cardinality({}) = 0
      BY FS_EmptySet
    <3>2. CASE q = p
      <4>1. joiner'[q] = {}
        BY <1>6, <3>2
      <4>2. Cardinality(joiner'[q]) = 0
        BY <3>1, <4>1
      <4>3. QED
        BY <4>2
    <3>3. CASE q # p
      <4>1. joiner'[q] = joiner[q]
        BY <1>6, <3>3
      <4>2. QED
        BY <1>3, <4>1
    <3>4. QED
      BY <3>2, <3>3
  <2>4. QED
    BY <1>1, <1>2, <1>6, <2>1, <2>2, <2>3 DEF TypeOK
<1>9. SpawnsDrained'
  BY <1>5 DEF SpawnsDrained
<1>10. TableCoheres'
  <2>1. \A c \in ToSet(pendingSpawns') : slot'[c] = "spawned"
    BY <1>5 DEF ToSet
  <2>2. ASSUME NEW q \in Proc
        PROVE  /\ awaits[q] # <<>> => slot'[q] \in {"parked", "running"}
               /\ slot'[q] = "parked" /\ awaits[q] = <<>> => q \in ToSet(ready')
    <3>1. CASE q = p
      BY <1>1, <1>5, <3>1
    <3>2. CASE q # p
      BY <1>2, <1>5, <3>2 DEF TableCoheres, Parked
    <3>3. QED
      BY <3>1, <3>2
  <2>3. QED
    BY <1>1, <1>5, <2>1, <2>2 DEF TableCoheres, Parked
<1>11. HandlesExclusive'
  <2>1. \A q, c \in Proc : Owns(q, c)' => Owns(q, c)
    BY <1>1, <1>6 DEF Owns
  <2>2. \A c \in Proc : slot[c] # "unborn" => slot'[c] # "unborn"
    BY <1>5
  <2>3. ASSUME NEW q \in Proc, NEW c \in handles'[q]
        PROVE  /\ Handle(c) \notin ToSet(awaits[q])
               /\ slot'[c] = "finished" => c \in results'
    <3>1. q # p /\ c \in handles[q] /\ c \in Proc
      BY <1>3, <1>6, <2>3
    <3>2. QED
      BY <1>1, <1>2, <1>7, <3>1 DEF HandlesExclusive
  <2>4. QED
    BY <1>1, <1>2, <2>1, <2>2, <2>3 DEF HandlesExclusive
<1>12. ASSUME NEW q \in Proc, NEW f \in ToSet(awaits[q])
       PROVE  /\ f.kind = "timeout" => f.scheduled
              /\ WillWake(q, f)' \/ (IsReady(f)' /\ q \in ToSet(ready'))
  <2>1. f \in Future /\ q # p
    BY <1>1, <1>3 DEF ToSet
  <2>2. /\ f.kind = "timeout" => f.scheduled
        /\ WillWake(q, f) \/ (IsReady(f) /\ q \in ToSet(ready))
    BY <1>1, <1>2, <2>1 DEF Armed, Running, ExecTypeOK
  <2>3. CASE f.kind = "timeout" \/ f.kind = "event"
    BY <1>1, <1>5, <2>2, <2>3 DEF WillWake, IsReady
  <2>4. CASE f.kind = "process" /\ f.child = p
    <3>1. p \notin results
      BY <1>1, <1>3 DEF Running
    <3>2. q \in joiner[p]
      BY <2>2, <2>4, <3>1 DEF WillWake, IsReady
    <3>3. IsReady(f)' /\ q \in ToSet(ready')
      BY <1>1, <1>5, <2>4, <3>2 DEF IsReady
    <3>4. QED
      BY <2>4, <3>3
  <2>5. CASE f.kind = "process" /\ f.child \in Proc \ {p}
    BY <1>1, <1>5, <1>6, <1>7, <2>2, <2>5 DEF WillWake, IsReady
  <2>6. QED
    BY <2>1, <2>3, <2>4, <2>5, FutureCases
<1>13. Armed'
  BY <1>1, <1>12 DEF Armed
<1>14. QED
  BY <1>8, <1>9, <1>10, <1>11, <1>13 DEF KInv

-----------------------------------------------------------------------------
(* The steps of the run loops. *)

\* Between polls nobody runs.
LEMMA NobodyRuns ==
  ASSUME KInv, phase # "poll"
  PROVE  \A q \in Proc : slot[q] # "running"
BY DEF KInv, TypeOK, ExecTypeOK

\* At the head of the event loop nothing is ready: whoever is suspended has his
\* waker with each of his futures.
LEMMA LoopAwaitsWakers ==
  ASSUME KInv, phase \in {"loop", "host"}
  PROVE  /\ ready = <<>>
         /\ \A q \in Proc : \A f \in ToSet(awaits[q]) :
              WillWake(q, f) /\ (f.kind = "timeout" => f.scheduled)
<1>1. ready = <<>> /\ ToSet(<<>>) = {}
  BY DEF KInv, TableCoheres, ToSet
<1>2. \A q \in Proc : ~Running(q)
  BY NobodyRuns DEF Running
<1>3. QED
  BY <1>1, <1>2 DEF KInv, Armed

\* A step that admits the spawned processes outside polls.
LEMMA AdmitKInv ==
  ASSUME KInv, phase \in {"host", "loop"}, phase' = "ready",
         NEW queue \in Seq(Proc), DrainInto(queue), slot' = Admitted(slot),
         UNCHANGED procVars, events' \subseteq events, nextSeq' = nextSeq,
         now' \in 0..MaxTime, until' \in 0..Never, Armed'
  PROVE  KInv'
<1>1. TypeOK /\ ExecTypeOK /\ TableCoheres /\ HandlesExclusive
  BY DEF KInv, TypeOK
<1>2. slot \in [Proc -> SlotState] /\ \A q \in Proc : slot[q] # "running"
  BY <1>1, NobodyRuns DEF ExecTypeOK
<1>3. /\ ready' \in Seq(Proc)
      /\ ToSet(pendingSpawns) \subseteq ToSet(ready')
      /\ pendingSpawns' = <<>> /\ pendingSpawns' \in Seq(Proc)
  BY <1>1, DrainFacts
<1>4. /\ slot' \in [Proc -> SlotState]
      /\ \A q \in Proc : slot'[q] = IF q \in ToSet(pendingSpawns) THEN "parked" ELSE slot[q]
  BY <1>2, AdmittedFacts
<1>5. \A q \in ToSet(pendingSpawns) : slot[q] = "spawned"
  BY <1>1 DEF TableCoheres
<1>6. /\ \A q \in Proc : slot'[q] # "running"
      /\ \A q \in Proc : slot'[q] = "finished" <=> slot[q] = "finished"
      /\ \A q \in Proc : slot[q] # "unborn" => slot'[q] # "unborn"
      /\ \A q \in Proc : slot[q] = "parked" => slot'[q] = "parked"
  BY <1>2, <1>4, <1>5
<1>7. ExecTypeOK'
  BY <1>1, <1>3, <1>4, <1>6 DEF ExecTypeOK, Phase
<1>8. TypeOK'
  BY <1>1, <1>6, <1>7 DEF TypeOK, procVars
<1>9. SpawnsDrained'
  BY <1>3 DEF SpawnsDrained
<1>10. TableCoheres'
  <2>1. \A q \in ToSet(pendingSpawns') : slot'[q] = "spawned"
    BY <1>3 DEF ToSet
  <2>2. ready = <<>> /\ ToSet(ready) = {}
    BY <1>1 DEF TableCoheres, ToSet
  <2>3. \A q \in Proc : /\ awaits[q] # <<>> => slot'[q] \in {"parked", "running"}
                        /\ slot'[q] = "parked" /\ awaits[q] = <<>> => q \in ToSet(ready')
    BY <1>1, <1>2, <1>3, <1>4, <1>6, <2>2 DEF TableCoheres, Parked
  <2>4. QED
    BY <2>1, <2>3 DEF TableCoheres, Parked, procVars
<1>11. HandlesExclusive'
  <2>1. handles' = handles /\ awaits' = awaits /\ results' = results
    BY DEF procVars
  <2>2. \A q, c \in Proc : Owns(q, c)' <=> Owns(q, c)
    BY <2>1 DEF Owns
  <2>3. \A q, c \in Proc : Owns(q, c)' => slot'[c] # "unborn"
    BY <1>1, <1>6, <2>2 DEF HandlesExclusive
  <2>4. \A q, r, c \in Proc : Owns(q, c)' /\ Owns(r, c)' => q = r
    BY <1>1, <2>2 DEF HandlesExclusive
  <2>5. ASSUME NEW q \in Proc, NEW c \in handles[q]
        PROVE  Handle(c) \notin ToSet(awaits[q]) /\ (slot'[c] = "finished" => c \in results)
    <3>1. c \in Proc
      BY <1>1 DEF TypeOK
    <3>2. QED
      BY <1>1, <1>6, <3>1 DEF HandlesExclusive
  <2>6. QED
    BY <2>1, <2>3, <2>4, <2>5 DEF HandlesExclusive
<1>12. QED
  BY <1>8, <1>9, <1>10, <1>11 DEF KInv

LEMMA StartRunKInv ==
  ASSUME KInv, NEW u \in 0..Never, RunFor(u)
  PROVE  KInv'
<1>1. /\ phase = "host" /\ until' = u /\ phase' = "ready" /\ slot' = Admitted(slot)
      /\ DrainInto(ready) /\ now' = now /\ events' = events /\ nextSeq' = nextSeq
      /\ UNCHANGED procVars
  BY DEF RunFor, StartRun
<1>2. TypeOK /\ ready \in Seq(Proc) /\ now \in 0..MaxTime /\ slot \in [Proc -> SlotState]
      /\ TableCoheres /\ awaits \in [Proc -> Seq(Future)]
  BY DEF KInv, TypeOK, ExecTypeOK
<1>3. \A q \in Proc : slot[q] # "finished" => slot'[q] # "finished"
  BY <1>1, <1>2, AdmittedFacts
<1>4. Armed'
  <2>1. ASSUME NEW q \in Proc, NEW f \in ToSet(awaits[q])
        PROVE  WillWake(q, f)' /\ (f.kind = "timeout" => f.scheduled)
    <3>1. WillWake(q, f) /\ (f.kind = "timeout" => f.scheduled)
      BY <1>1, LoopAwaitsWakers
    <3>2. f \in Future
      BY <1>2 DEF ToSet
    <3>3. QED
      BY <1>1, <1>3, <3>1, <3>2, FutureCases DEF WillWake, procVars
  <2>2. QED
    BY <1>1, <2>1 DEF Armed, procVars
<1>5. QED
  BY <1>1, <1>2, <1>4, AdmitKInv

\* The popped event's process is ready, and finds its deadline reached.
LEMMA PopEventKInv ==
  ASSUME KInv, PopEvent, UNCHANGED procVars
  PROVE  KInv'
<1>1. PICK e \in events :
        /\ events' = events \ {e} /\ now' = e.time /\ DrainInto(WithWoken(<<e.proc>>))
  BY DEF PopEvent
<1>2. phase = "loop" /\ slot' = Admitted(slot) /\ phase' = "ready" /\ nextSeq' = nextSeq /\ until' = until
  BY DEF PopEvent
<1>3. /\ TypeOK /\ ready \in Seq(Proc) /\ events \subseteq [time : 0..MaxTime, seq : Nat, proc : Proc]
      /\ slot \in [Proc -> SlotState] /\ until \in 0..Never /\ awaits \in [Proc -> Seq(Future)]
  BY DEF KInv, TypeOK, ExecTypeOK
<1>4. e.time \in 0..MaxTime /\ e.proc \in Proc
  BY <1>3
<1>5. /\ ready \o <<e.proc>> \in Seq(Proc) /\ <<e.proc>> \in Seq(Proc)
      /\ ToSet(ready \o <<e.proc>>) = ToSet(ready) \cup ToSet(<<e.proc>>)
      /\ e.proc \in ToSet(<<e.proc>>)
  <2> DEFINE one == <<e.proc>>
  <2>1. one \in Seq(Proc) /\ e.proc \in ToSet(one)
    BY <1>4 DEF ToSet
  <2> HIDE DEF one
  <2>2. ready \o one \in Seq(Proc) /\ ToSet(ready \o one) = ToSet(ready) \cup ToSet(one)
    BY <1>3, <2>1, ConcatSet
  <2>3. QED
    BY <2>1, <2>2 DEF one
<1>6. e.proc \in ToSet(ready')
  BY <1>1, <1>3, <1>5, DrainFacts DEF WithWoken
<1>7. \A q \in Proc : slot[q] # "finished" => slot'[q] # "finished"
  BY <1>2, <1>3, AdmittedFacts
<1>8. Armed'
  <2>1. ASSUME NEW q \in Proc, NEW f \in ToSet(awaits[q])
        PROVE  /\ f.kind = "timeout" => f.scheduled
               /\ WillWake(q, f)' \/ (IsReady(f)' /\ q \in ToSet(ready'))
    <3>1. WillWake(q, f) /\ (f.kind = "timeout" => f.scheduled)
      BY <1>2, LoopAwaitsWakers
    <3>2. f \in Future
      BY <1>3 DEF ToSet
    <3>3. CASE f.kind = "timeout" /\ f.deadline \in 0..MaxTime
      <4>1. PICK g \in events : g.proc = q /\ g.time = f.deadline
        BY <3>1, <3>3 DEF WillWake
      <4>2. CASE g = e
        <5>1. IsReady(f)' /\ q \in ToSet(ready')
          BY <1>1, <1>4, <1>6, <3>1, <3>3, <4>1, <4>2 DEF IsReady
        <5>2. QED
          BY <3>1, <5>1
      <4>3. CASE g # e
        BY <1>1, <3>1, <3>3, <4>1, <4>3 DEF WillWake
      <4>4. QED
        BY <4>2, <4>3
    <3>4. CASE f.kind = "event"
      BY <3>1, <3>4 DEF WillWake, procVars
    <3>5. CASE f.kind = "process" /\ f.child \in Proc
      BY <1>7, <3>1, <3>5 DEF WillWake, procVars
    <3>6. \/ f.kind = "timeout" /\ f.deadline \in 0..MaxTime
          \/ f.kind = "event"
          \/ f.kind = "process" /\ f.child \in Proc
      BY <3>2, FutureCases
    <3>7. QED
      BY <3>3, <3>4, <3>5, <3>6
  <2>2. QED
    BY <2>1 DEF Armed, procVars
<1>9. QED
  BY <1>1, <1>2, <1>3, <1>4, <1>5, <1>8, AdmitKInv DEF WithWoken

LEMMA TakeReadyKInv ==
  ASSUME KInv, TakeReady, UNCHANGED procVars
  PROVE  KInv'
<1> DEFINE p == Head(ready)
<1>1. /\ phase = "ready" /\ ready # <<>> /\ slot[p] = "parked"
      /\ slot' = [slot EXCEPT ![p] = "running"] /\ ready' = Tail(ready) /\ phase' = "poll"
      /\ UNCHANGED <<now, events, nextSeq, pendingSpawns, until>>
  BY DEF TakeReady, Parked
<1>2. TypeOK /\ ExecTypeOK /\ SpawnsDrained /\ TableCoheres /\ HandlesExclusive /\ Armed
  BY DEF KInv, TypeOK
<1>3. ready \in Seq(Proc) /\ slot \in [Proc -> SlotState] /\ \A q \in Proc : slot[q] # "running"
  BY <1>1, <1>2, NobodyRuns DEF ExecTypeOK
<1>4. p \in Proc /\ ready' \in Seq(Proc) /\ ToSet(ready) = ToSet(ready') \cup {p}
  BY <1>1, <1>3, TailSet
<1> HIDE DEF p
<1>5. /\ slot' \in [Proc -> SlotState] /\ slot'[p] = "running"
      /\ \A q \in Proc \ {p} : slot'[q] = slot[q]
  BY <1>1, <1>3, <1>4 DEF SlotState
<1>6. \A q \in Proc : slot'[q] = "running" <=> q = p
  BY <1>3, <1>4, <1>5
<1>7. \A q \in Proc : slot'[q] = "finished" <=> slot[q] = "finished"
  BY <1>1, <1>5
<1>8. ExecTypeOK'
  BY <1>1, <1>2, <1>4, <1>5, <1>6 DEF ExecTypeOK, Phase
<1>9. TypeOK'
  BY <1>2, <1>7, <1>8 DEF TypeOK, procVars
<1>10. SpawnsDrained'
  BY <1>1 DEF SpawnsDrained
<1>11. TableCoheres'
  <2>1. pendingSpawns' = <<>> /\ ToSet(<<>>) = {}
    BY <1>1, <1>2 DEF SpawnsDrained, ToSet
  <2>2. \A q \in Proc : /\ awaits[q] # <<>> => slot'[q] \in {"parked", "running"}
                        /\ slot'[q] = "parked" /\ awaits[q] = <<>> => q \in ToSet(ready')
    BY <1>2, <1>4, <1>5 DEF TableCoheres, Parked
  <2>3. QED
    BY <1>1, <2>1, <2>2 DEF TableCoheres, Parked, procVars
<1>12. HandlesExclusive'
  BY <1>1, <1>2, <1>5, <1>7 DEF HandlesExclusive, Owns, procVars
<1>13. Armed'
  <2>1. ASSUME NEW q \in Proc, NEW f \in ToSet(awaits[q])
        PROVE  /\ f.kind = "timeout" => f.scheduled
               /\ \/ WillWake(q, f)'
                  \/ IsReady(f)' /\ (q \in ToSet(ready') \/ slot'[q] = "running")
    <3>1. q \in ToSet(ready) \/ Running(q) => q \in ToSet(ready') \/ slot'[q] = "running"
      BY <1>3, <1>4, <1>5 DEF Running
    <3>2. QED
      BY <1>1, <1>7, <3>1, StillArmed DEF procVars
  <2>2. QED
    BY <2>1 DEF Armed, Running, procVars
<1>14. QED
  BY <1>9, <1>10, <1>11, <1>12, <1>13 DEF KInv

\* The skipped id is of a finished process, which awaits nothing.
LEMMA SkipStaleKInv ==
  ASSUME KInv, SkipStale, UNCHANGED procVars
  PROVE  KInv'
<1> DEFINE p == Head(ready)
<1>1. /\ phase = "ready" /\ ready # <<>> /\ slot[p] = "finished" /\ ready' = Tail(ready)
      /\ UNCHANGED <<now, events, nextSeq, pendingSpawns, slot, phase, until>>
  BY DEF SkipStale
<1>2. TypeOK /\ ExecTypeOK /\ SpawnsDrained /\ TableCoheres /\ HandlesExclusive /\ Armed
  BY DEF KInv, TypeOK
<1>3. ready \in Seq(Proc)
  BY <1>2 DEF ExecTypeOK
<1>4. p \in Proc /\ ready' \in Seq(Proc) /\ ToSet(ready) = ToSet(ready') \cup {p}
  BY <1>1, <1>3, TailSet
<1> HIDE DEF p
<1>5. TypeOK' /\ SpawnsDrained' /\ HandlesExclusive'
  BY <1>1, <1>2, <1>4
     DEF TypeOK, ExecTypeOK, SpawnsDrained, HandlesExclusive, Owns, procVars
<1>6. TableCoheres'
  BY <1>1, <1>2, <1>4 DEF TableCoheres, Parked, procVars
<1>7. Armed'
  <2>1. ASSUME NEW q \in Proc, NEW f \in ToSet(awaits[q])
        PROVE  /\ f.kind = "timeout" => f.scheduled
               /\ \/ WillWake(q, f)'
                  \/ IsReady(f)' /\ (q \in ToSet(ready') \/ slot'[q] = "running")
    <3>1. q # p
      BY <1>1, <1>2, <2>1 DEF TableCoheres, ToSet
    <3>2. q \in ToSet(ready) \/ Running(q) => q \in ToSet(ready') \/ slot'[q] = "running"
      BY <1>1, <1>4, <3>1 DEF Running
    <3>3. QED
      BY <1>1, <3>2, StillArmed DEF procVars
  <2>2. QED
    BY <2>1 DEF Armed, Running, procVars
<1>8. QED
  BY <1>5, <1>6, <1>7 DEF KInv

LEMMA ReadyDrainedKInv ==
  ASSUME KInv, ReadyDrained, UNCHANGED procVars
  PROVE  KInv'
<1>1. /\ phase = "ready" /\ ready = <<>> /\ phase' = "loop"
      /\ UNCHANGED <<now, events, nextSeq, ready, pendingSpawns, slot, until>>
  BY DEF ReadyDrained
<1>2. TypeOK' /\ SpawnsDrained' /\ HandlesExclusive' /\ TableCoheres'
  BY <1>1 DEF KInv, TypeOK, ExecTypeOK, Phase, SpawnsDrained, HandlesExclusive, Owns,
              TableCoheres, Parked, procVars
<1>3. Armed'
  BY <1>1 DEF KInv, Armed, WillWake, IsReady, Running, procVars
<1>4. QED
  BY <1>2, <1>3 DEF KInv

LEMMA StopRunKInv ==
  ASSUME KInv, StopRun, UNCHANGED procVars
  PROVE  KInv'
<1>1. /\ phase = "loop" /\ phase' = "host"
      /\ now' = IF until # Never /\ until > now THEN until ELSE now
      /\ UNCHANGED <<events, nextSeq, ready, pendingSpawns, slot, until>>
  BY DEF StopRun
<1>2. ExecTypeOK /\ TypeOK /\ SpawnsDrained /\ HandlesExclusive /\ TableCoheres
  BY DEF KInv, TypeOK
<1>3. now' \in 0..MaxTime
  BY <1>1, <1>2, MaxTimeAssumption DEF ExecTypeOK, Never
<1>4. ExecTypeOK'
  BY <1>1, <1>2, <1>3 DEF ExecTypeOK, Phase
<1>5. TypeOK' /\ SpawnsDrained' /\ HandlesExclusive' /\ TableCoheres'
  BY <1>1, <1>2, <1>4 DEF TypeOK, SpawnsDrained, HandlesExclusive, Owns,
                          TableCoheres, Parked, procVars
<1>6. Armed'
  <2>1. \A q \in Proc : \A f \in ToSet(awaits[q]) :
          WillWake(q, f) /\ (f.kind = "timeout" => f.scheduled)
    BY <1>1, LoopAwaitsWakers
  <2>2. QED
    BY <1>1, <2>1 DEF Armed, WillWake, procVars
<1>7. QED
  BY <1>5, <1>6 DEF KInv

-----------------------------------------------------------------------------
(* The invariant. *)

LEMMA InitKInv == Init => KInv
<1> SUFFICES ASSUME Init PROVE KInv
  OBVIOUS
<1>1. ToSet(<<>>) = {} /\ Cardinality({}) = 0 /\ <<>> \in Seq(Future) /\ <<>> \in Seq(Proc)
  BY FS_EmptySet DEF ToSet
<1>2. ExecTypeOK
  BY <1>1, MaxTimeAssumption DEF Init, ExecInit, ExecTypeOK, SlotState, Phase, Never
<1>3. TypeOK
  BY <1>1, <1>2, BoundsAssumption DEF Init, TypeOK
<1>4. SpawnsDrained /\ TableCoheres /\ Armed
  BY <1>1 DEF Init, ExecInit, SpawnsDrained, TableCoheres, Armed, Parked
<1>5. HandlesExclusive
  BY <1>1 DEF Init, ExecInit, HandlesExclusive, Owns
<1>6. QED
  BY <1>3, <1>4, <1>5 DEF KInv

LEMMA StutterKInv ==
  ASSUME KInv, UNCHANGED vars
  PROVE  KInv'
<1>1. TypeOK' /\ SpawnsDrained' /\ TableCoheres' /\ HandlesExclusive'
  BY DEF KInv, vars, execVars, procVars, TypeOK, ExecTypeOK, SpawnsDrained, TableCoheres,
         Parked, HandlesExclusive, Owns
<1>2. Armed'
  BY DEF KInv, vars, execVars, procVars, Armed, WillWake, IsReady, Running
<1>3. QED
  BY <1>1, <1>2 DEF KInv

LEMMA NextKInv ==
  ASSUME KInv, Next
  PROVE  KInv'
<1>1. CASE LoopStep /\ UNCHANGED procVars
  BY <1>1, TakeReadyKInv, SkipStaleKInv, ReadyDrainedKInv, PopEventKInv, StopRunKInv DEF LoopStep
<1>2. ASSUME NEW p \in Proc, ProcStep(p) PROVE KInv'
  BY <1>2, ResumeKInv, AwaitKInv, KeepTimeoutKInv, SpawnKInv, FireKInv, FinishKInv DEF ProcStep
<1>3. CASE HostSpawn
  BY <1>3, HostSpawnKInv
<1>4. CASE Run \/ RunUntil
  <2>1. PICK u \in 0..Never : RunFor(u)
    BY <1>4, MaxTimeAssumption DEF Run, RunUntil, Never
  <2>2. QED
    BY <2>1, StartRunKInv
<1>5. QED
  BY <1>1, <1>2, <1>3, <1>4 DEF Next, KernelStep

\* What the executor maintains in every step: the table, the ready queue and the
\* pending spawns fit together, a handle has one owner, and every awaited future
\* holds a waker that will still be heard.
THEOREM KernelInductive == Spec => []KInv
<1>1. KInv /\ [Next]_vars => KInv'
  BY NextKInv, StutterKInv
<1>2. QED
  BY InitKInv, <1>1, PTL DEF Spec

\* Every variable keeps its type.
THEOREM KernelTypeCorrect == Spec => []TypeOK
<1>1. KInv => TypeOK
  BY DEF KInv
<1>2. QED
  BY KernelInductive, <1>1, PTL

\* A parked process that is not in the ready queue has a waker with every future it
\* is suspended on, and none of them is ready: no wakeup was lost.
THEOREM WakeupsKept == Spec => []NoLostWakeup
<1>1. ASSUME KInv PROVE NoLostWakeup
  <2> SUFFICES ASSUME NEW p \in Proc, Parked(p), p \notin ToSet(ready)
               PROVE  awaits[p] # <<>> /\ \A i \in DOMAIN awaits[p] : WillWake(p, awaits[p][i])
    BY DEF NoLostWakeup
  <2>1. awaits[p] # <<>>
    BY <1>1 DEF KInv, TableCoheres
  <2>2. \A f \in ToSet(awaits[p]) : WillWake(p, f)
    BY <1>1 DEF KInv, Armed, Parked, Running
  <2>3. QED
    BY <2>1, <2>2 DEF ToSet
<1>2. QED
  BY KernelInductive, <1>1, PTL

-----------------------------------------------------------------------------
(* The clock.  A timeout first awaited after its deadline has passed schedules a *)
(* wakeup in the past; without that, no step leaves one behind.                  *)

LEMMA InitOverdue == Init => NothingOverdue
BY DEF Init, ExecInit, NothingOverdue

\* A wakeup is scheduled by the first poll of a timeout, in Await.
LEMMA PollOverdue ==
  ASSUME KInv, NothingOverdue, NEW p \in Proc, Running(p), NEW m \in {"any", "all"},
         NEW fs \in Seq(Future), fs # <<>>, PollAwaits(p, m, fs),
         \A f \in ToSet(fs) : f.kind = "timeout" => f.deadline >= now
  PROVE  NothingOverdue'
<1>1. /\ now' = now
      /\ \A e \in events' \ events : \E f \in ToSet(fs) : f.kind = "timeout" /\ e.time = f.deadline
      /\ \/ awaits' = [awaits EXCEPT ![p] = <<>>]
         \/ ~Resolves(m, fs) /\ awaits' = [awaits EXCEPT ![p] = AfterPoll(fs)]
  <2>1. /\ PollLeaves(fs)
        /\ \/ awaits' = [awaits EXCEPT ![p] = <<>>]
           \/ ~Resolves(m, fs) /\ awaits' = [awaits EXCEPT ![p] = AfterPoll(fs)]
    BY PollAwaitsFacts
  <2>2. QED
    BY <2>1 DEF PollLeaves
<1>2. awaits \in [Proc -> Seq(Future)]
  BY DEF KInv, TypeOK
<1>3. \A e \in events' : e.time >= now'
  BY <1>1 DEF NothingOverdue
<1>4. ASSUME NEW q \in Proc, NEW i \in DOMAIN awaits'[q], awaits'[q][i].kind = "timeout"
      PROVE  awaits'[q][i].deadline >= now'
  <2>1. CASE awaits'[q] = awaits[q]
    BY <1>1, <1>4, <2>1 DEF NothingOverdue
  <2>2. CASE awaits'[q] = <<>>
    BY <1>4, <2>2
  <2>3. CASE ~Resolves(m, fs) /\ awaits'[q] = AfterPoll(fs)
    <3>1. awaits'[q][i] \in ToSet(AfterPoll(fs))
      BY <1>4, <2>3 DEF ToSet
    <3>2. PICK f \in Pending(fs) : IF f.kind = "timeout"
                                     THEN awaits'[q][i] = Timeout(f.deadline, TRUE)
                                     ELSE awaits'[q][i] = f
      BY <2>3, <3>1, AfterPollFacts
    <3>3. f \in ToSet(fs) /\ f.kind = "timeout"
      BY <1>4, <3>2 DEF Pending
    <3>4. awaits'[q][i].deadline = f.deadline
      BY <3>2, <3>3 DEF Timeout
    <3>5. QED
      BY <1>1, <3>3, <3>4
  <2>4. QED
    BY <1>1, <1>2, <2>1, <2>2, <2>3
<1>5. QED
  BY <1>3, <1>4 DEF NothingOverdue

LEMMA NextOverdue ==
  ASSUME ~LateAwaits, KInv, NothingOverdue, Next
  PROVE  NothingOverdue' /\ now' >= now
<1>0. /\ TypeOK /\ now \in 0..MaxTime /\ until \in 0..Never
      /\ events \subseteq [time : 0..MaxTime, seq : Nat, proc : Proc]
      /\ awaits \in [Proc -> Seq(Future)] /\ kept \in [Proc -> SUBSET (0..MaxTime)]
      /\ mode \in [Proc -> {"any", "all"}]
  BY DEF KInv, TypeOK, ExecTypeOK
<1>1. CASE now' = now /\ events' = events /\ awaits' = awaits
  BY <1>0, <1>1 DEF NothingOverdue
<1>2. CASE PopEvent /\ UNCHANGED procVars
  <2>1. PICK e \in events : /\ \A f \in events \ {e} : Earlier(e, f)
                            /\ events' = events \ {e} /\ now' = e.time
    BY <1>2 DEF PopEvent
  <2>2. e.time >= now
    BY <2>1 DEF NothingOverdue
  <2>3. ASSUME NEW f \in events PROVE f.time >= e.time
    <3>1. e.time \in Int /\ f.time \in Int
      BY <1>0
    <3>2. f = e \/ Earlier(e, f)
      BY <2>1
    <3>3. QED
      BY <3>1, <3>2 DEF Earlier
  <2>4. ASSUME NEW p \in Proc, NEW i \in DOMAIN awaits[p], awaits[p][i].kind = "timeout"
        PROVE  awaits[p][i].deadline >= e.time
    <3>1. WillWake(p, awaits[p][i])
      BY <1>2, LoopAwaitsWakers DEF PopEvent, ToSet
    <3>2. PICK f \in events : f.time = awaits[p][i].deadline
      BY <2>4, <3>1 DEF WillWake
    <3>3. QED
      BY <2>3, <3>2
  <2>5. QED
    BY <1>2, <2>1, <2>2, <2>3, <2>4 DEF NothingOverdue, procVars
<1>3. CASE StopRun /\ UNCHANGED procVars
  <2>1. /\ phase = "loop" /\ \A e \in events : e.time >= until
        /\ now' = IF until # Never /\ until > now THEN until ELSE now
        /\ events' = events
    BY <1>3 DEF StopRun
  <2>2. now' >= now /\ \A e \in events : e.time >= now'
    BY <1>0, <2>1 DEF NothingOverdue, Never
  <2>3. ASSUME NEW p \in Proc, NEW i \in DOMAIN awaits[p], awaits[p][i].kind = "timeout"
        PROVE  awaits[p][i].deadline >= now'
    <3>1. WillWake(p, awaits[p][i])
      BY <2>1, LoopAwaitsWakers DEF ToSet
    <3>2. PICK f \in events : f.time = awaits[p][i].deadline
      BY <2>3, <3>1 DEF WillWake
    <3>3. QED
      BY <2>2, <3>2
  <2>4. QED
    BY <1>3, <2>1, <2>2, <2>3 DEF NothingOverdue, procVars
<1>4. ASSUME NEW p \in Proc, NEW m \in {"any", "all"}, NEW fs \in Seq(Future), fs # <<>>,
             Running(p), PollAwaits(p, m, fs),
             \A f \in ToSet(fs) : f.kind = "timeout" => f.deadline >= now
      PROVE  NothingOverdue' /\ now' >= now
  <2>1. NothingOverdue'
    BY <1>4, PollOverdue
  <2>2. now' = now
    BY <1>4 DEF PollAwaits
  <2>3. QED
    BY <1>0, <2>1, <2>2
<1>5. ASSUME NEW p \in Proc, Resume(p) PROVE NothingOverdue' /\ now' >= now
  <2>1. Running(p) /\ awaits[p] # <<>> /\ PollAwaits(p, mode[p], awaits[p])
    BY <1>5 DEF Resume
  <2>2. \A f \in ToSet(awaits[p]) : f.kind = "timeout" => f.deadline >= now
    BY DEF NothingOverdue, ToSet
  <2>3. QED
    BY <1>0, <1>4, <2>1, <2>2
<1>6. ASSUME NEW p \in Proc, Await(p) PROVE NothingOverdue' /\ now' >= now
  <2>1. PICK fs \in Combinations(p) :
          \E m \in IF Len(fs) = 1 THEN {"any"} ELSE {"any", "all"} : PollAwaits(p, m, fs)
    BY <1>6 DEF Await
  <2>2. PICK m \in {"any", "all"} : PollAwaits(p, m, fs)
    BY <2>1
  <2>3. fs \in Seq(Future) /\ fs # <<>> /\ ToSet(fs) \subseteq Awaitable(p)
    BY <1>0, CombinationsFutures
  <2>4. ASSUME NEW f \in Awaitable(p), f.kind = "timeout" PROVE f.deadline >= now
    <3>1. CASE \E d \in Delays : f = Timeout(now + d, FALSE)
      BY <1>0, <3>1, DelaysAssumption DEF Timeout
    <3>2. CASE \E d \in kept[p] : d >= now /\ f = Timeout(d, FALSE)
      BY <3>2 DEF Timeout
    <3>3. CASE \E e \in Event : f = EventFut(e)
      BY <2>4, <3>3 DEF EventFut
    <3>4. CASE \E c \in handles[p] : f = Handle(c)
      BY <2>4, <3>4 DEF Handle
    <3>5. QED
      BY <3>1, <3>2, <3>3, <3>4 DEF Awaitable
  <2>5. Running(p)
    BY <1>6 DEF Await, Active
  <2>6. QED
    BY <1>4, <2>2, <2>3, <2>4, <2>5
<1>7. ASSUME NEW p \in Proc, KeepTimeout(p) \/ Spawn(p) \/ Fire(p) \/ Finish(p)
      PROVE  now' = now /\ events' = events /\ awaits' = awaits
  BY <1>7 DEF KeepTimeout, Spawn, Fire, Finish, execVars
<1>8. CASE (TakeReady \/ SkipStale \/ ReadyDrained) /\ UNCHANGED procVars
  BY <1>1, <1>8 DEF TakeReady, SkipStale, ReadyDrained, procVars
<1>9. CASE HostSpawn \/ Run \/ RunUntil
  BY <1>1, <1>9 DEF HostSpawn, Run, RunUntil, RunFor, StartRun, procVars
<1>10. QED
  BY <1>1, <1>2, <1>3, <1>5, <1>6, <1>7, <1>8, <1>9 DEF Next, KernelStep, LoopStep, ProcStep

\* When every timeout is first awaited before its deadline has passed, no wakeup
\* ever lies in the past and nobody is suspended on a deadline that is over.
THEOREM NeverOverdue ==
  ASSUME ~LateAwaits
  PROVE  Spec => []NothingOverdue
<1>1. KInv /\ NothingOverdue /\ [Next]_vars => NothingOverdue'
  <2>1. ASSUME NothingOverdue, UNCHANGED vars PROVE NothingOverdue'
    BY <2>1 DEF NothingOverdue, vars, execVars, procVars
  <2>2. QED
    BY <2>1, NextOverdue
<1>2. QED
  BY KernelInductive, InitOverdue, <1>1, PTL DEF Spec

\* Then simulated time is monotonic.
THEOREM ClockMonotonic ==
  ASSUME ~LateAwaits
  PROVE  Spec => TimeIsMonotonic
<1>1. ASSUME KInv, NothingOverdue, [Next]_vars PROVE [now' >= now]_vars
  BY <1>1, NextOverdue
<1>2. QED
  BY KernelInductive, NeverOverdue, <1>1, PTL DEF Spec, TimeIsMonotonic

-----------------------------------------------------------------------------
(* What the run loops look up: ids in the process table, and the next event. *)

\* Among finitely many positions, an earlier one has fewer before it.
LEMMA BeforeCounts ==
  ASSUME NEW n \in Nat, NEW U \in SUBSET (1..n)
  PROVE  /\ Cardinality(U) \in Nat
         /\ \A i \in U : Cardinality({k \in U : k < i}) \in 0..Cardinality(U) - 1
         /\ \A i, j \in U : i < j => Cardinality({k \in U : k < i}) < Cardinality({k \in U : k < j})
<1>1. IsFiniteSet(1..n)
  BY FS_Interval
<1>2. IsFiniteSet(U)
  BY <1>1, FS_Subset
<1>3. \A S \in SUBSET U : IsFiniteSet(S) /\ Cardinality(S) \in Nat
  BY <1>2, FS_Subset, FS_CardinalityType
<1>4. ASSUME NEW S \in SUBSET U, NEW T \in SUBSET S, NEW x \in S \ T
      PROVE  Cardinality(T) < Cardinality(S)
  <2>1. IsFiniteSet(S) /\ Cardinality(S) \in Nat /\ Cardinality(T) \in Nat
    BY <1>3
  <2>2. Cardinality(T) <= Cardinality(S) /\ (Cardinality(S) = Cardinality(T) => S = T)
    BY <2>1, FS_Subset
  <2>3. S # T
    BY <1>4
  <2>4. QED
    BY <2>1, <2>2, <2>3
<1>5. ASSUME NEW i \in U PROVE Cardinality({k \in U : k < i}) \in 0..Cardinality(U) - 1
  <2> DEFINE T == {k \in U : k < i}
  <2>1. T \in SUBSET U /\ i \in U \ T /\ U \in SUBSET U
    OBVIOUS
  <2> HIDE DEF T
  <2>2. Cardinality(T) < Cardinality(U) /\ Cardinality(T) \in Nat /\ Cardinality(U) \in Nat
    BY <1>3, <1>4, <2>1
  <2>3. QED
    BY <2>2 DEF T
<1>6. ASSUME NEW i \in U, NEW j \in U, i < j
      PROVE  Cardinality({k \in U : k < i}) < Cardinality({k \in U : k < j})
  <2> DEFINE T == {k \in U : k < i}
             S == {k \in U : k < j}
  <2>0. i \in Int /\ j \in Int /\ \A k \in U : k \in Int
    OBVIOUS
  <2>1. \A k \in T : k \in S
    BY <1>6, <2>0
  <2>2. S \in SUBSET U /\ i \in S /\ i \notin T
    BY <1>6, <2>0
  <2>3. T \in SUBSET S /\ i \in S \ T
    BY <2>1, <2>2
  <2> HIDE DEF T, S
  <2>4. Cardinality(T) < Cardinality(S)
    BY <1>4, <2>2, <2>3
  <2>5. QED
    BY <2>4 DEF T, S
<1>7. QED
  BY <1>3, <1>5, <1>6

\* A poll hands out the waker of the process polled, and numbers its wakeups anew.
LEMMA PollEffectsWakers ==
  ASSUME TypeOK, SeqsDistinct, NEW p \in Proc, NEW fs \in Seq(Future), PollEffects(p, fs)
  PROVE  /\ SeqsDistinct' /\ WakeupsInOrder
         /\ \A e \in events' : e \in events \/ e.proc = p
         /\ \A e \in Event : ToSet(listeners'[e]) \subseteq ToSet(listeners[e]) \cup {p}
         /\ \A c \in Proc : joiner'[c] \subseteq joiner[c] \cup {p}
<1> DEFINE pend     == Pending(fs)
           unsched  == {i \in DOMAIN fs : fs[i] \in pend /\ fs[i].kind = "timeout" /\ ~fs[i].scheduled}
           heard    == {f.event : f \in {g \in pend : g.kind = "event"}}
           children == {f.child : f \in {g \in pend : g.kind = "process"}}
           dl       == [i \in unsched |-> fs[i].deadline]
           Before(i) == Cardinality({j \in unsched : j < i})
           New(i)   == [time |-> dl[i], seq |-> nextSeq + Before(i), proc |-> p]
<1>1. /\ ScheduleWakeups(p, dl)
      /\ listeners' = [e \in Event |->
                        IF e \in heard /\ p \notin ToSet(listeners[e])
                          THEN Append(listeners[e], p) ELSE listeners[e]]
      /\ joiner' = [c \in Proc |-> IF c \in children THEN {p} ELSE joiner[c]]
  BY DEF PollEffects
<1>2. DOMAIN dl = unsched
  OBVIOUS
<1>3. /\ events' = events \cup {New(i) : i \in unsched}
      /\ nextSeq' = nextSeq + Cardinality(unsched)
  BY <1>1, <1>2 DEF ScheduleWakeups
<1>4. Len(fs) \in Nat /\ unsched \in SUBSET (1..Len(fs))
  OBVIOUS
<1>5. /\ events \subseteq [time : 0..MaxTime, seq : Nat, proc : Proc] /\ nextSeq \in Nat
      /\ listeners \in [Event -> Seq(Proc)] /\ joiner \in [Proc -> SUBSET Proc]
  BY DEF TypeOK, ExecTypeOK
<1> HIDE DEF heard, children, dl, unsched
<1>6. /\ Cardinality(unsched) \in Nat
      /\ \A i \in unsched : Before(i) \in 0..Cardinality(unsched) - 1
      /\ \A i, j \in unsched : i < j => Before(i) < Before(j)
  BY <1>4, BeforeCounts
<1> HIDE DEF Before
<1>7. \A i \in unsched : New(i).seq = nextSeq + Before(i) /\ New(i).proc = p
  OBVIOUS
<1> HIDE DEF New
<1>8. \A e \in events' : e \in events \/ \E i \in unsched : e = New(i)
  BY <1>3
<1>9. SeqsDistinct'
  <2>1. \A e \in events : e.seq \in Nat /\ e.seq < nextSeq
    BY <1>5 DEF SeqsDistinct
  <2>2. ASSUME NEW e \in events' PROVE e.seq < nextSeq'
    <3>1. CASE e \in events
      BY <1>3, <1>5, <1>6, <2>1, <3>1
    <3>2. CASE \E i \in unsched : e = New(i)
      <4>1. PICK i \in unsched : e = New(i)
        BY <3>2
      <4>2. e.seq = nextSeq + Before(i) /\ Before(i) \in 0..Cardinality(unsched) - 1
        BY <1>6, <1>7, <4>1
      <4>3. QED
        BY <1>3, <1>5, <1>6, <4>2
    <3>3. QED
      BY <1>8, <3>1, <3>2
  <2>3. ASSUME NEW e \in events', NEW f \in events', e.seq = f.seq PROVE e = f
    <3>1. ASSUME NEW g \in events, NEW i \in unsched PROVE g.seq # New(i).seq
      <4>1. New(i).seq = nextSeq + Before(i) /\ Before(i) \in Nat
        BY <1>6, <1>7
      <4>2. QED
        BY <1>5, <2>1, <4>1
    <3>2. ASSUME NEW i \in unsched, NEW j \in unsched, New(i).seq = New(j).seq PROVE i = j
      <4>1. /\ Before(i) \in Nat /\ Before(j) \in Nat
            /\ nextSeq + Before(i) = nextSeq + Before(j)
        BY <1>6, <1>7, <3>2
      <4>2. Before(i) = Before(j)
        BY <1>5, <4>1
      <4>3. i \in Nat /\ j \in Nat
        BY <1>4
      <4>4. ~(i < j) /\ ~(j < i)
        BY <1>6, <4>1, <4>2
      <4>5. QED
        BY <4>3, <4>4
    <3>3. QED
      BY <1>8, <2>3, <3>1, <3>2 DEF SeqsDistinct
  <2>4. QED
    BY <2>2, <2>3 DEF SeqsDistinct
<1>10. \A e \in events' : e \in events \/ e.proc = p
  BY <1>7, <1>8
<1>11. ASSUME NEW e \in Event PROVE ToSet(listeners'[e]) \subseteq ToSet(listeners[e]) \cup {p}
  <2>1. listeners[e] \in Seq(Proc)
    BY <1>5
  <2>2. ToSet(Append(listeners[e], p)) = ToSet(listeners[e]) \cup {p}
    BY <2>1, AppendElements
  <2>3. QED
    BY <1>1, <2>2
<1>12. \A c \in Proc : joiner'[c] \subseteq joiner[c] \cup {p}
  BY <1>1
<1>13. WakeupsInOrder
  <2>1. events \ events' = {}
    BY <1>3
  <2>2. ASSUME NEW e \in events, NEW f \in events' \ events PROVE e.seq < f.seq
    <3>1. PICK i \in unsched : f = New(i)
      BY <1>8
    <3>2. f.seq = nextSeq + Before(i) /\ Before(i) \in Nat
      BY <1>6, <1>7, <3>1
    <3>3. e.seq \in Nat /\ e.seq < nextSeq
      BY <1>5 DEF SeqsDistinct
    <3>4. QED
      BY <1>5, <3>2, <3>3
  <2>3. QED
    BY <2>1, <2>2 DEF WakeupsInOrder
<1>14. QED
  BY <1>9, <1>10, <1>11, <1>12, <1>13

\* Ids stay in the table, and a step pushes or stores no other id.
LEMMA WakersKept ==
  ASSUME WakersInTable, InTable \subseteq InTable', ToSet(ready') \subseteq InTable',
         \A e \in events' : e \in events \/ e.proc \in InTable',
         \A e \in Event : ToSet(listeners'[e]) \subseteq ToSet(listeners[e]) \cup InTable',
         \A c \in Proc : joiner'[c] \subseteq joiner[c] \cup InTable'
  PROVE  WakersInTable'
<1>1. /\ \A e \in events : e.proc \in InTable
      /\ \A e \in Event : ToSet(listeners[e]) \subseteq InTable
      /\ \A c \in Proc : joiner[c] \subseteq InTable
  BY DEF WakersInTable
<1> DEFINE Before == InTable
           After == InTable'
<1>2. /\ Before \subseteq After /\ ToSet(ready') \subseteq After
      /\ \A e \in events' : e \in events \/ e.proc \in After
      /\ \A e \in Event : ToSet(listeners'[e]) \subseteq ToSet(listeners[e]) \cup After
      /\ \A c \in Proc : joiner'[c] \subseteq joiner[c] \cup After
      /\ \A e \in events : e.proc \in Before
      /\ \A e \in Event : ToSet(listeners[e]) \subseteq Before
      /\ \A c \in Proc : joiner[c] \subseteq Before
  BY <1>1
<1> HIDE DEF Before, After
<1>3. /\ ToSet(ready') \subseteq After
      /\ \A e \in events' : e.proc \in After
      /\ \A e \in Event : ToSet(listeners'[e]) \subseteq After
      /\ \A c \in Proc : joiner'[c] \subseteq After
  BY <1>2
<1>4. QED
  BY <1>3 DEF WakersInTable, After

\* The end of a poll admits the children, and puts p back or lets it go.
LEMMA EndPollInTable ==
  ASSUME LoopInv, NEW p \in Proc, Running(p),
         NEW outcome \in {"parked", "finished"}, NEW woken \in Seq(Proc),
         ToSet(woken) \subseteq InTable, EndPoll(p, outcome, woken)
  PROVE  InTable \subseteq InTable' /\ ToSet(ready') \subseteq InTable' /\ p \in InTable'
<1>1. /\ TypeOK /\ TableCoheres /\ ToSet(ready) \subseteq InTable
  BY DEF LoopInv, KInv, WakersInTable
<1>2. /\ slot'[p] = outcome
      /\ \A q \in Proc \ {p} :
           /\ q \in ToSet(pendingSpawns) => slot[q] = "spawned" /\ slot'[q] = "parked"
           /\ q \notin ToSet(pendingSpawns) => slot'[q] = slot[q]
      /\ ToSet(ready') = ToSet(ready) \cup ToSet(woken) \cup ToSet(pendingSpawns)
  BY <1>1, EndPollFacts
<1>3. ToSet(pendingSpawns) \subseteq Proc
  BY <1>1 DEF TypeOK, ExecTypeOK, ToSet
<1>4. \A q \in ToSet(pendingSpawns) : q \in Proc /\ slot'[q] \notin {"unborn", "spawned"}
  BY <1>2, <1>3
<1>5. \A q \in InTable : q \in Proc /\ slot'[q] \notin {"unborn", "spawned"}
  BY <1>2 DEF InTable
<1>6. p \in InTable' /\ InTable \subseteq InTable' /\ ToSet(pendingSpawns) \subseteq InTable'
  BY <1>2, <1>4, <1>5 DEF InTable
<1>7. QED
  BY <1>1, <1>2, <1>6

\* So does a step of the loops outside polls.
LEMMA AdmitInTable ==
  ASSUME LoopInv, NEW queue \in Seq(Proc), ToSet(queue) \subseteq InTable,
         DrainInto(queue), slot' = Admitted(slot)
  PROVE  InTable \subseteq InTable' /\ ToSet(ready') \subseteq InTable'
<1>1. TypeOK /\ slot \in [Proc -> SlotState] /\ ToSet(pendingSpawns) \subseteq Proc
  BY DEF LoopInv, KInv, TypeOK, ExecTypeOK, ToSet
<1>2. ToSet(ready') = ToSet(queue) \cup ToSet(pendingSpawns)
  BY <1>1, DrainFacts
<1>3. \A q \in Proc : slot'[q] = IF q \in ToSet(pendingSpawns) THEN "parked" ELSE slot[q]
  BY <1>1, AdmittedFacts
<1>4. InTable \subseteq InTable' /\ ToSet(pendingSpawns) \subseteq InTable'
  BY <1>1, <1>3 DEF InTable
<1>5. QED
  BY <1>2, <1>4

\* A poll of awaited futures, resolved or not.
LEMMA PollAwaitsWakers ==
  ASSUME LoopInv, NEW p \in Proc, Running(p), NEW m \in {"any", "all"},
         NEW fs \in Seq(Future), fs # <<>>, PollAwaits(p, m, fs)
  PROVE  WakersInTable' /\ SeqsDistinct' /\ WakeupsInOrder
<1>1. TypeOK /\ SeqsDistinct /\ WakersInTable
  BY DEF LoopInv, KInv
<1>2. Polled(m, fs) \in Seq(Future) /\ PollEffects(p, Polled(m, fs))
  BY PolledFacts DEF PollAwaits
<1>3. /\ SeqsDistinct' /\ WakeupsInOrder
      /\ \A e \in events' : e \in events \/ e.proc = p
      /\ \A e \in Event : ToSet(listeners'[e]) \subseteq ToSet(listeners[e]) \cup {p}
      /\ \A c \in Proc : joiner'[c] \subseteq joiner[c] \cup {p}
  BY <1>1, <1>2, PollEffectsWakers
<1>4. InTable \subseteq InTable' /\ ToSet(ready') \subseteq InTable' /\ p \in InTable'
  <2>1. CASE Resolves(m, fs)
    <3>1. slot' = slot /\ ready' = ready
      BY <2>1 DEF PollAwaits
    <3>2. QED
      BY <1>1, <3>1 DEF InTable, WakersInTable, Running
  <2>2. CASE ~Resolves(m, fs)
    <3>1. EndPoll(p, "parked", <<>>)
      BY <2>2 DEF PollAwaits
    <3>2. <<>> \in Seq(Proc) /\ ToSet(<<>>) = {}
      BY DEF ToSet
    <3>3. QED
      BY <3>1, <3>2, EndPollInTable
  <2>3. QED
    BY <2>1, <2>2
<1>5. WakersInTable'
  <2> DEFINE After == InTable'
  <2>1. p \in After
    BY <1>4
  <2> HIDE DEF After
  <2>2. /\ \A e \in events' : e \in events \/ e.proc \in After
        /\ \A e \in Event : ToSet(listeners'[e]) \subseteq ToSet(listeners[e]) \cup After
        /\ \A c \in Proc : joiner'[c] \subseteq joiner[c] \cup After
    BY <1>3, <2>1
  <2>3. QED
    BY <1>1, <1>4, <2>2, WakersKept DEF After
<1>6. QED
  BY <1>3, <1>5

LEMMA ResumeWakers ==
  ASSUME LoopInv, NEW p \in Proc, Resume(p)
  PROVE  WakersInTable' /\ SeqsDistinct' /\ WakeupsInOrder
<1>1. Running(p) /\ awaits[p] # <<>> /\ PollAwaits(p, mode[p], awaits[p])
  BY DEF Resume
<1>2. mode[p] \in {"any", "all"} /\ awaits[p] \in Seq(Future)
  BY DEF LoopInv, KInv, TypeOK
<1>3. QED
  BY <1>1, <1>2, PollAwaitsWakers

LEMMA AwaitWakers ==
  ASSUME LoopInv, NEW p \in Proc, Await(p)
  PROVE  WakersInTable' /\ SeqsDistinct' /\ WakeupsInOrder
<1>1. PICK fs \in Combinations(p) :
        \E m \in IF Len(fs) = 1 THEN {"any"} ELSE {"any", "all"} : PollAwaits(p, m, fs)
  BY DEF Await
<1>2. PICK m \in {"any", "all"} : PollAwaits(p, m, fs)
  BY <1>1
<1>3. fs \in Seq(Future) /\ fs # <<>>
  BY CombinationsFutures DEF LoopInv, KInv
<1>4. Running(p)
  BY DEF Await, Active
<1>5. QED
  BY <1>2, <1>3, <1>4, PollAwaitsWakers

\* The listeners of a fired event move to the ready queue.
LEMMA FireWakers ==
  ASSUME LoopInv, NEW p \in Proc, Fire(p)
  PROVE  WakersInTable' /\ SeqsDistinct'
<1>1. PICK e \in Event : FireEvent(e)
  BY DEF Fire
<1>2. /\ ready' = ready \o listeners[e] /\ listeners' = [listeners EXCEPT ![e] = <<>>]
      /\ events' = events /\ nextSeq' = nextSeq /\ slot' = slot /\ joiner' = joiner
  BY <1>1 DEF Fire, FireEvent, WithWoken
<1>3. ready \in Seq(Proc) /\ listeners \in [Event -> Seq(Proc)] /\ WakersInTable /\ SeqsDistinct
  BY DEF LoopInv, KInv, TypeOK, ExecTypeOK
<1>4. ToSet(ready') = ToSet(ready) \cup ToSet(listeners[e])
  BY <1>2, <1>3, ConcatSet
<1>5. InTable' = InTable
  BY <1>2 DEF InTable
<1>6. \A g \in Event : ToSet(listeners'[g]) \subseteq ToSet(listeners[g])
  BY <1>2, <1>3 DEF ToSet
<1>7. WakersInTable'
  BY <1>2, <1>3, <1>4, <1>5, <1>6 DEF WakersInTable
<1>8. QED
  BY <1>2, <1>3, <1>7 DEF SeqsDistinct

\* The joiner of a finished process moves to the ready queue.
LEMMA FinishWakers ==
  ASSUME LoopInv, NEW p \in Proc, Finish(p)
  PROVE  WakersInTable' /\ SeqsDistinct'
<1>1. /\ Running(p) /\ EndPoll(p, "finished", SetToSeq(joiner[p]))
      /\ joiner' = [joiner EXCEPT ![p] = {}] /\ UNCHANGED <<events, nextSeq, listeners>>
  BY DEF Finish, Active
<1>2. joiner \in [Proc -> SUBSET Proc] /\ WakersInTable /\ SeqsDistinct
  BY DEF LoopInv, KInv, TypeOK
<1>3. SetToSeq(joiner[p]) \in Seq(Proc) /\ ToSet(SetToSeq(joiner[p])) = joiner[p]
  <2>1. joiner[p] \in SUBSET Proc /\ IsFiniteSet(Proc)
    BY <1>2, FS_Interval, MaxProcsAssumption DEF Proc
  <2>2. IsFiniteSet(joiner[p])
    BY <2>1, FS_Subset
  <2>3. SetToSeq(joiner[p]) \in Seq(joiner[p]) /\ ToSet(SetToSeq(joiner[p])) = joiner[p]
    BY <2>2, SetToSeqSet
  <2>4. QED
    BY <2>1, <2>3
<1>4. joiner[p] \subseteq InTable
  BY <1>2 DEF WakersInTable
<1>5. InTable \subseteq InTable' /\ ToSet(ready') \subseteq InTable'
  BY <1>1, <1>3, <1>4, EndPollInTable
<1>6. \A c \in Proc : joiner'[c] \subseteq joiner[c]
  BY <1>1, <1>2
<1>7. WakersInTable'
  BY <1>1, <1>2, <1>5, <1>6, WakersKept
<1>8. QED
  BY <1>1, <1>2, <1>7 DEF SeqsDistinct

\* A new process is in no waker until it is admitted.
LEMMA EnqueueWakers ==
  ASSUME LoopInv, NEW c \in Proc, EnqueueSpawn(c),
         UNCHANGED <<events, nextSeq, ready, listeners, joiner>>
  PROVE  WakersInTable' /\ SeqsDistinct'
<1>1. slot[c] = "unborn" /\ slot' = [slot EXCEPT ![c] = "spawned"] /\ slot \in [Proc -> SlotState]
  BY DEF EnqueueSpawn, NextId, LoopInv, KInv, TypeOK, ExecTypeOK
<1>2. InTable' = InTable
  BY <1>1 DEF InTable
<1>3. QED
  BY <1>2 DEF LoopInv, WakersInTable, SeqsDistinct

LEMMA StartRunWakers ==
  ASSUME LoopInv, NEW u, RunFor(u)
  PROVE  WakersInTable' /\ SeqsDistinct'
<1>1. /\ slot' = Admitted(slot) /\ DrainInto(ready)
      /\ UNCHANGED <<events, nextSeq, listeners, joiner>>
  BY DEF RunFor, StartRun, procVars
<1>2. ready \in Seq(Proc) /\ WakersInTable /\ SeqsDistinct
  BY DEF LoopInv, KInv, TypeOK, ExecTypeOK
<1>3. InTable \subseteq InTable' /\ ToSet(ready') \subseteq InTable'
  BY <1>1, <1>2, AdmitInTable DEF WakersInTable
<1>4. WakersInTable'
  BY <1>1, <1>2, <1>3, WakersKept
<1>5. QED
  BY <1>1, <1>2, <1>4 DEF SeqsDistinct

LEMMA PopEventWakers ==
  ASSUME LoopInv, PopEvent, UNCHANGED procVars
  PROVE  WakersInTable' /\ SeqsDistinct'
<1>1. PICK e \in events : events' = events \ {e} /\ DrainInto(ready \o <<e.proc>>)
  BY DEF PopEvent, WithWoken
<1>2. slot' = Admitted(slot) /\ UNCHANGED <<nextSeq, listeners, joiner>>
  BY DEF PopEvent, procVars
<1>3. /\ ready \in Seq(Proc) /\ events \subseteq [time : 0..MaxTime, seq : Nat, proc : Proc]
      /\ WakersInTable /\ SeqsDistinct
  BY DEF LoopInv, KInv, TypeOK, ExecTypeOK
<1> DEFINE queue == ready \o <<e.proc>>
<1>4. queue \in Seq(Proc) /\ ToSet(queue) = ToSet(ready) \cup {e.proc}
  <2> DEFINE one == <<e.proc>>
  <2>1. one \in Seq(Proc) /\ ToSet(one) = {e.proc}
    BY <1>3 DEF ToSet
  <2> HIDE DEF one
  <2>2. ready \o one \in Seq(Proc) /\ ToSet(ready \o one) = ToSet(ready) \cup ToSet(one)
    BY <1>3, <2>1, ConcatSet
  <2>3. QED
    BY <2>1, <2>2 DEF one
<1>5. ToSet(queue) \subseteq InTable
  BY <1>3, <1>4 DEF WakersInTable
<1> HIDE DEF queue
<1>6. InTable \subseteq InTable' /\ ToSet(ready') \subseteq InTable'
  BY <1>1, <1>2, <1>4, <1>5, AdmitInTable DEF queue
<1>7. WakersInTable'
  BY <1>1, <1>2, <1>3, <1>6, WakersKept
<1>8. QED
  BY <1>1, <1>2, <1>3, <1>7 DEF SeqsDistinct

\* An id leaves the ready queue.
LEMMA TailWakers ==
  ASSUME LoopInv, ready # <<>>, ready' = Tail(ready), InTable' = InTable,
         UNCHANGED <<events, nextSeq, listeners, joiner>>
  PROVE  WakersInTable' /\ SeqsDistinct'
<1>1. ready \in Seq(Proc)
  BY DEF LoopInv, KInv, TypeOK, ExecTypeOK
<1>2. ToSet(ready') \subseteq ToSet(ready)
  BY <1>1, TailSet
<1>3. QED
  BY <1>2 DEF LoopInv, WakersInTable, SeqsDistinct

LEMMA TakeReadyWakers ==
  ASSUME LoopInv, TakeReady, UNCHANGED procVars
  PROVE  WakersInTable' /\ SeqsDistinct'
<1>1. /\ ready # <<>> /\ slot[Head(ready)] = "parked" /\ ready' = Tail(ready)
      /\ slot' = [slot EXCEPT ![Head(ready)] = "running"]
      /\ UNCHANGED <<events, nextSeq, listeners, joiner>>
  BY DEF TakeReady, Parked, procVars
<1>2. slot \in [Proc -> SlotState]
  BY DEF LoopInv, KInv, TypeOK, ExecTypeOK
<1>3. InTable' = InTable
  BY <1>1, <1>2 DEF InTable
<1>4. QED
  BY <1>1, <1>3, TailWakers

LEMMA NextLoopInv ==
  ASSUME LoopInv, Next
  PROVE  LoopInv'
<1>0. KInv'
  BY NextKInv DEF LoopInv
<1>1. CASE UNCHANGED <<events, nextSeq, ready, slot, listeners, joiner>>
  BY <1>0, <1>1 DEF LoopInv, WakersInTable, SeqsDistinct, InTable
<1>2. CASE TakeReady /\ UNCHANGED procVars
  BY <1>0, <1>2, TakeReadyWakers DEF LoopInv
<1>3. CASE SkipStale /\ UNCHANGED procVars
  <2>1. /\ ready # <<>> /\ ready' = Tail(ready) /\ InTable' = InTable
        /\ UNCHANGED <<events, nextSeq, listeners, joiner>>
    BY <1>3 DEF SkipStale, procVars, InTable
  <2>2. QED
    BY <1>0, <2>1, TailWakers DEF LoopInv
<1>4. CASE (ReadyDrained \/ StopRun) /\ UNCHANGED procVars
  BY <1>1, <1>4 DEF ReadyDrained, StopRun, procVars
<1>5. CASE PopEvent /\ UNCHANGED procVars
  BY <1>0, <1>5, PopEventWakers DEF LoopInv
<1>6. ASSUME NEW p \in Proc, ProcStep(p) PROVE LoopInv'
  <2>1. CASE Resume(p) \/ Await(p)
    BY <1>0, <2>1, ResumeWakers, AwaitWakers DEF LoopInv
  <2>2. CASE KeepTimeout(p)
    BY <1>1, <2>2 DEF KeepTimeout, execVars
  <2>3. CASE Spawn(p)
    <3>1. PICK c \in Proc : EnqueueSpawn(c)
      BY <2>3 DEF Spawn
    <3>2. UNCHANGED <<events, nextSeq, ready, listeners, joiner>>
      BY <2>3 DEF Spawn
    <3>3. QED
      BY <1>0, <3>1, <3>2, EnqueueWakers DEF LoopInv
  <2>4. CASE Fire(p) \/ Finish(p)
    BY <1>0, <2>4, FireWakers, FinishWakers DEF LoopInv
  <2>5. QED
    BY <1>6, <2>1, <2>2, <2>3, <2>4 DEF ProcStep
<1>7. CASE HostSpawn
  <2>1. PICK c \in Proc : EnqueueSpawn(c)
    BY <1>7 DEF HostSpawn
  <2>2. UNCHANGED <<events, nextSeq, ready, listeners, joiner>>
    BY <1>7 DEF HostSpawn, procVars
  <2>3. QED
    BY <1>0, <2>1, <2>2, EnqueueWakers DEF LoopInv
<1>8. CASE Run \/ RunUntil
  <2>1. PICK u \in 0..Never : RunFor(u)
    BY <1>8, MaxTimeAssumption DEF Run, RunUntil, Never
  <2>2. QED
    BY <1>0, <2>1, StartRunWakers DEF LoopInv
<1>9. QED
  BY <1>2, <1>3, <1>4, <1>5, <1>6, <1>7, <1>8 DEF Next, KernelStep, LoopStep

\* What the run loops look up is there: no waker names a process that was not
\* admitted, and no two wakeups have the same number.
THEOREM LoopInductive == Spec => []LoopInv
<1>1. Init => LoopInv
  <2> SUFFICES ASSUME Init PROVE LoopInv
    OBVIOUS
  <2>1. KInv /\ ToSet(<<>>) = {}
    BY InitKInv DEF ToSet
  <2>2. QED
    BY <2>1 DEF Init, ExecInit, LoopInv, WakersInTable, SeqsDistinct
<1>2. ASSUME LoopInv, UNCHANGED vars PROVE LoopInv'
  <2>1. KInv'
    BY <1>2, StutterKInv DEF LoopInv
  <2>2. QED
    BY <1>2, <2>1 DEF LoopInv, WakersInTable, SeqsDistinct, InTable, vars, execVars, procVars
<1>3. LoopInv /\ [Next]_vars => LoopInv'
  BY <1>2, NextLoopInv
<1>4. QED
  BY <1>1, <1>3, PTL DEF Spec

\* drain_pending_spawns leaves no spawned process out of the table when the run
\* loops look, and poll_ready finds every id it takes from the ready queue there.
THEOREM SpawnsReachTable == Spec => []SpawnsAdmitted
<1>1. ASSUME LoopInv PROVE SpawnsAdmitted
  <2>1. KInv /\ slot \in [Proc -> SlotState] /\ ToSet(ready) \subseteq InTable
    BY <1>1 DEF LoopInv, WakersInTable, KInv, TypeOK, ExecTypeOK
  <2>2. ASSUME phase = "ready", NEW p \in ToSet(ready) PROVE slot[p] \in {"parked", "finished"}
    <3>1. p \in Proc /\ slot[p] \in SlotState /\ slot[p] \notin {"unborn", "spawned"}
      BY <2>1, <2>2 DEF InTable
    <3>2. slot[p] # "running"
      BY <2>1, <2>2, <3>1, NobodyRuns
    <3>3. QED
      BY <3>1, <3>2 DEF SlotState
  <2>3. QED
    BY <2>1, <2>2 DEF SpawnsAdmitted, KInv
<1>2. QED
  BY LoopInductive, <1>1, PTL

\* Of the wakeups in the queue exactly one is before all others, however many have
\* the same time: a binary heap has one outcome, and a run no choice of its own.
THEOREM EventOrderDecides == Spec => []NextEventDetermined
<1>1. ASSUME LoopInv, events # {}
      PROVE  \E e \in events : \A f \in events \ {e} : Earlier(e, f) /\ ~Earlier(f, e)
  <2>1. /\ \A e \in events : e.time \in Nat /\ e.seq \in Nat
        /\ \A e, f \in events : e.seq = f.seq => e = f
    BY <1>1 DEF LoopInv, KInv, TypeOK, ExecTypeOK, SeqsDistinct
  <2> DEFINE times == {e.time : e \in events}
  <2>2. times \in SUBSET Nat /\ times # {}
    BY <1>1, <2>1
  <2> HIDE DEF times
  <2>3. PICK t \in times : \A u \in times : t <= u
    BY <2>2, LeastElement
  <2> DEFINE seqs == {e.seq : e \in {g \in events : g.time = t}}
  <2>4. seqs \in SUBSET Nat /\ seqs # {}
    BY <2>1, <2>3 DEF times
  <2> HIDE DEF seqs
  <2>5. PICK s \in seqs : \A u \in seqs : s <= u
    BY <2>4, LeastElement
  <2>6. PICK e \in events : e.time = t /\ e.seq = s
    BY <2>5 DEF seqs
  <2>7. ASSUME NEW f \in events \ {e} PROVE Earlier(e, f) /\ ~Earlier(f, e)
    <3>1. e.time <= f.time
      BY <2>3, <2>6 DEF times
    <3>2. f.time = e.time => e.seq <= f.seq
      BY <2>5, <2>6 DEF seqs
    <3>3. e.seq # f.seq
      BY <2>1
    <3>4. e.time \in Nat /\ f.time \in Nat /\ e.seq \in Nat /\ f.seq \in Nat
      BY <2>1
    <3>5. QED
      BY <3>1, <3>2, <3>3, <3>4 DEF Earlier
  <2>8. QED
    BY <2>7
<1>2. LoopInv => NextEventDetermined
  BY <1>1 DEF NextEventDetermined
<1>3. QED
  BY LoopInductive, <1>2, PTL

-----------------------------------------------------------------------------
(* The order of the wakeups, and the boundary of run_until. *)

LEMMA NextInOrder ==
  ASSUME LoopInv, [Next]_vars
  PROVE  WakeupsInOrder
<1>1. CASE events' = events
  BY <1>1 DEF WakeupsInOrder
<1>2. CASE PopEvent
  <2>1. PICK e \in events : /\ \A f \in events \ {e} : Earlier(e, f)
                            /\ events' = events \ {e}
    BY <1>2 DEF PopEvent
  <2>2. QED
    BY <2>1 DEF WakeupsInOrder, Earlier
<1>3. ASSUME NEW p \in Proc, ProcStep(p) PROVE WakeupsInOrder
  <2>1. CASE Resume(p) \/ Await(p)
    BY <2>1, ResumeWakers, AwaitWakers
  <2>2. CASE KeepTimeout(p) \/ Spawn(p) \/ Fire(p) \/ Finish(p)
    BY <1>1, <2>2 DEF KeepTimeout, Spawn, Fire, Finish, execVars
  <2>3. QED
    BY <1>3, <2>1, <2>2 DEF ProcStep
<1>4. CASE TakeReady \/ SkipStale \/ ReadyDrained \/ StopRun
  BY <1>1, <1>4 DEF TakeReady, SkipStale, ReadyDrained, StopRun
<1>5. CASE HostSpawn \/ Run \/ RunUntil
  BY <1>1, <1>5 DEF HostSpawn, Run, RunUntil, RunFor, StartRun
<1>6. CASE UNCHANGED vars
  BY <1>1, <1>6 DEF vars, execVars
<1>7. QED
  BY <1>2, <1>3, <1>4, <1>5, <1>6 DEF Next, KernelStep, LoopStep

\* run_until handles the wakeups before its boundary by time and order of
\* scheduling, and none from the boundary on; when it returns, nobody is ready or
\* suspended on a deadline before the boundary, and the clock stands at the
\* boundary unless it was past it.
THEOREM RunUntilStopsExactly == Spec => RunUntilExact
<1>1. ASSUME KInv, [Next]_vars PROVE [StopsAtBoundary]_vars
  <2>0. /\ TypeOK /\ now \in 0..MaxTime /\ until \in 0..Never
        /\ events \subseteq [time : 0..MaxTime, seq : Nat, proc : Proc]
        /\ awaits \in [Proc -> Seq(Future)] /\ \A p \in Proc : Running(p) => phase = "poll"
    BY <1>1 DEF KInv, TypeOK, ExecTypeOK, Running
  <2>1. CASE TakeReady \/ SkipStale \/ ReadyDrained
    BY <2>1 DEF TakeReady, SkipStale, ReadyDrained, StopsAtBoundary
  <2>2. CASE PopEvent
    <3>1. PICK e \in events : e.time < until /\ now' = e.time /\ phase' = "ready"
      BY <2>2 DEF PopEvent
    <3>2. QED
      BY <3>1 DEF StopsAtBoundary
  <2>3. CASE StopRun
    <3>1. /\ phase = "loop" /\ phase' = "host" /\ \A e \in events : e.time >= until
          /\ now' = IF until # Never /\ until > now THEN until ELSE now
      BY <2>3 DEF StopRun
    <3>2. until # Never => now' >= until
      BY <2>0, <3>1 DEF Never
    <3>3. ready = <<>> /\ ToSet(<<>>) = {}
      BY <1>1, <3>1, LoopAwaitsWakers DEF ToSet
    <3>4. ASSUME NEW p \in Proc, NEW i \in DOMAIN awaits[p], awaits[p][i].kind = "timeout"
          PROVE  awaits[p][i].deadline >= until
      <4>1. WillWake(p, awaits[p][i])
        BY <1>1, <3>1, LoopAwaitsWakers DEF ToSet
      <4>2. PICK e \in events : e.time = awaits[p][i].deadline
        BY <3>4, <4>1 DEF WillWake
      <4>3. QED
        BY <3>1, <4>2
    <3>5. QED
      BY <3>1, <3>2, <3>3, <3>4 DEF StopsAtBoundary
  <2>4. ASSUME NEW p \in Proc, ProcStep(p) PROVE StopsAtBoundary
    <3>1. Running(p) /\ now' = now /\ until' = until
      BY <2>4 DEF ProcStep, Resume, Await, KeepTimeout, Spawn, Fire, Finish, Active, PollAwaits,
                  execVars
    <3>2. phase' \in {"poll", "ready"}
      BY <2>0, <2>4, <3>1 DEF ProcStep, Resume, Await, KeepTimeout, Spawn, Fire, Finish,
                              PollAwaits, EndPoll, execVars
    <3>3. QED
      BY <2>0, <3>1, <3>2 DEF StopsAtBoundary
  <2>5. CASE HostSpawn \/ Run \/ RunUntil
    BY <2>5 DEF HostSpawn, Run, RunUntil, RunFor, StartRun, StopsAtBoundary
  <2>6. CASE UNCHANGED vars
    BY <2>6
  <2>7. QED
    BY <1>1, <2>1, <2>2, <2>3, <2>4, <2>5, <2>6 DEF Next, KernelStep, LoopStep
<1>2. ASSUME LoopInv, [Next]_vars PROVE [WakeupsInOrder /\ StopsAtBoundary]_vars
  BY <1>1, <1>2, NextInOrder DEF LoopInv
<1>3. Spec => [][WakeupsInOrder /\ StopsAtBoundary]_vars
  BY LoopInductive, <1>2, PTL DEF Spec
<1>4. QED
  BY <1>3 DEF RunUntilExact

=============================================================================

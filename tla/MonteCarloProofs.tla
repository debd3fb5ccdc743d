---------------------------- MODULE MonteCarloProofs ----------------------------
(***************************************************************************)
(* Proofs about MonteCarlo, for any number of seeds, any closure and any   *)
(* feed: what a replication draws depends on its seed alone, and the call  *)
(* keeps the promise of Replications in every interleaving of its threads. *)
(***************************************************************************)
EXTENDS MonteCarlo, SequenceLemmas

N == Len(Script)

LEMMA Sizes ==
  /\ Len(Seeds) \in Nat /\ Replication = 1..Len(Seeds) /\ N \in Nat /\ DOMAIN Script = 1..N
BY SeedsAssumption, ScriptAssumption DEF Replication, N

-----------------------------------------------------------------------------
(* A closure and its feed. *)

\* The recursion of FeedAt, solved by induction on the calls.
LEMMA FeedAtSteps ==
  ASSUME NEW i
  PROVE  /\ FeedAt(i)[0] = Seeds[i]
         /\ \A k \in 1..N : FeedAt(i)[k] = NextFeed(FeedAt(i)[k - 1], Script[k])
<1> DEFINE Loop(f) == f = [k \in 0..N |->
                             IF k = 0 THEN Seeds[i] ELSE NextFeed(f[k - 1], Script[k])]
           at == CHOOSE f : Loop(f)
           Solves(f, n) == /\ f = [k \in 0..n |-> f[k]]
                           /\ f[0] = Seeds[i]
                           /\ \A k \in 1..n : f[k] = NextFeed(f[k - 1], Script[k])
           D == {n \in Nat : \E f : Solves(f, n)}
<1>1. FeedAt(i) = at
  BY DEF FeedAt, N
<1>2. N \in Nat
  BY Sizes
<1> HIDE DEF Solves, Loop, at
<1>3. 0 \in D
  <2>1. Solves([k \in 0..0 |-> Seeds[i]], 0)
    BY DEF Solves
  <2>2. QED
    BY <2>1
<1>4. ASSUME NEW n \in Nat, n \in D PROVE n + 1 \in D
  <2>1. PICK f : Solves(f, n)
    BY <1>4
  <2>2. f[0] = Seeds[i] /\ \A k \in 1..n : f[k] = NextFeed(f[k - 1], Script[k])
    BY <2>1 DEF Solves
  <2> DEFINE last == NextFeed(f[n], Script[n + 1])
             g == [k \in 0..n + 1 |-> IF k <= n THEN f[k] ELSE last]
  <2> HIDE DEF last
  <2>3. /\ g = [k \in 0..n + 1 |-> g[k]]
        /\ \A k \in 0..n : g[k] = f[k]
        /\ g[n + 1] = last
    OBVIOUS
  <2> HIDE DEF g
  <2>4. ASSUME NEW k \in 1..n + 1 PROVE g[k] = NextFeed(g[k - 1], Script[k])
    <3>1. CASE k <= n
      <4>1. k \in 1..n /\ k \in 0..n /\ k - 1 \in 0..n
        BY <3>1
      <4>2. QED
        BY <2>2, <2>3, <4>1
    <3>2. CASE k = n + 1
      <4>1. k - 1 = n /\ n \in 0..n
        BY <3>2
      <4>2. QED
        BY <2>3, <3>2, <4>1 DEF last
    <3>3. QED
      BY <3>1, <3>2
  <2>5. 0 \in 0..n
    OBVIOUS
  <2>6. Solves(g, n + 1)
    BY <2>2, <2>3, <2>4, <2>5 DEF Solves
  <2>7. QED
    BY <2>6
<1>5. Nat \subseteq D
  <2> HIDE DEF D
  <2>1. QED
    BY <1>3, <1>4, SetInduction
<1>6. PICK g : Solves(g, N)
  BY <1>2, <1>5
<1>7. Loop(g)
  <2>1. /\ g = [k \in 0..N |-> g[k]] /\ g[0] = Seeds[i]
        /\ \A k \in 1..N : g[k] = NextFeed(g[k - 1], Script[k])
    BY <1>6 DEF Solves
  <2>2. \A k \in 0..N : k = 0 \/ k \in 1..N
    BY <1>2
  <2>3. \A k \in 0..N : g[k] = IF k = 0 THEN Seeds[i] ELSE NextFeed(g[k - 1], Script[k])
    BY <2>1, <2>2
  <2>4. QED
    BY <2>1, <2>3 DEF Loop
<1>8. Loop(at)
  BY <1>7 DEF at
<1>9. \A k \in 0..N : at[k] = IF k = 0 THEN Seeds[i] ELSE NextFeed(at[k - 1], Script[k])
  BY <1>8 DEF Loop
<1>10. 0 \in 0..N /\ \A k \in 1..N : k \in 0..N /\ k # 0
  BY <1>2
<1>11. QED
  BY <1>1, <1>9, <1>10

\* What the closure of a seed draws with its first n calls.
Drawn(i, n) == [k \in 1..n |-> Expected(i)[k]]

\* One more call of the closure.
LEMMA Extended ==
  ASSUME NEW i, NEW n \in 0..N - 1
  PROVE  LET longer == Append(Drawn(i, n), Answer(FeedAt(i)[n], Script[n + 1]))
         IN  Len(longer) = n + 1 /\ longer = Drawn(i, n + 1)
<1> DEFINE s == Drawn(i, n)
           x == Answer(FeedAt(i)[n], Script[n + 1])
           S == {Expected(i)[k] : k \in 1..n} \cup {x}
<1>1. N \in Nat /\ DOMAIN Script = 1..N /\ n \in Nat /\ n + 1 \in 1..N /\ (n + 1) - 1 = n
  BY Sizes
<1>2. Expected(i)[n + 1] = x
  BY <1>1 DEF Expected
<1>3. s \in Seq(S) /\ Len(s) = n /\ \A k \in 1..n : s[k] = Expected(i)[k]
  <2>1. s \in [1..n -> S] /\ \A k \in 1..n : s[k] = Expected(i)[k]
    BY DEF Drawn
  <2>2. QED
    BY <1>1, <2>1
<1>4. x \in S
  OBVIOUS
<1> HIDE DEF S, s
<1>5. /\ Append(s, x) \in Seq(S) /\ Len(Append(s, x)) = n + 1
      /\ \A k \in 1..n : Append(s, x)[k] = s[k]
      /\ Append(s, x)[n + 1] = x
  BY <1>1, <1>3, <1>4
<1>6. \A k \in 1..n + 1 : Append(s, x)[k] = Expected(i)[k]
  <2>1. \A k \in 1..n + 1 : k \in 1..n \/ k = n + 1
    BY <1>1
  <2>2. QED
    BY <1>2, <1>3, <1>5, <2>1
<1> DEFINE a == Append(s, x)
<1>7. a = [k \in 1..n + 1 |-> a[k]]
  BY <1>1, <1>5
<1> HIDE DEF a, x
<1>8. a = Drawn(i, n + 1) /\ Len(a) = n + 1
  BY <1>5, <1>6, <1>7 DEF a, Drawn
<1>9. QED
  BY <1>8 DEF a, s, x

\* A closure that returned has drawn what its seed determines.
LEMMA DrawnAll ==
  ASSUME IInv, NEW i \in Replication, status[i] = "returned"
  PROVE  drawn[i] = Expected(i)
<1>1. drawn[i] = [k \in 1..N |-> Expected(i)[k]] /\ DOMAIN Script = 1..N
  BY Sizes DEF IInv, StreamsInOrder, N
<1>2. Expected(i) = [k \in 1..N |-> Expected(i)[k]]
  BY <1>1 DEF Expected
<1>3. QED
  BY <1>1, <1>2

-----------------------------------------------------------------------------
(* The inductive invariant. *)

LEMMA InitIInv == Init => IInv
<1> SUFFICES ASSUME Init PROVE IInv
  OBVIOUS
<1>1. Len(Seeds) \in Nat /\ Replication = 1..Len(Seeds) /\ N \in Nat
  BY Sizes
<1>2. Len(<<>>) = 0 /\ Cardinality({}) = 0
  BY FS_EmptySet
<1>3. DOMAIN Seeds = Replication
  BY DEF Replication
<1>4. TypeOK
  BY <1>1, <1>2, <1>3 DEF Init, TypeOK, Pending, N
<1>5. CallerCoheres
  BY <1>1 DEF Init, CallerCoheres, Running
<1>6. JoinedInOrder
  BY DEF Init, JoinedInOrder
<1>7. StreamsInOrder
  <2> SUFFICES ASSUME NEW i \in Replication
               PROVE  /\ <<>> = [k \in 1..0 |-> Expected(i)[k]]
                      /\ Seeds[i] = FeedAt(i)[0]
    BY <1>2 DEF Init, StreamsInOrder
  <2>1. QED
    BY FeedAtSteps
<1>8. QED
  BY <1>4, <1>5, <1>6, <1>7 DEF IInv

\* A step of a closure.
LEMMA WorkIInv ==
  ASSUME IInv, NEW i \in Replication, Work(i)
  PROVE  IInv'
<1> DEFINE n == Len(drawn[i])
           d == Script[n + 1]
           x == Answer(feed[i], d)
<1>1. /\ status[i] = "running" /\ n < N
      /\ drawn' = [drawn EXCEPT ![i] = Append(drawn[i], x)]
      /\ feed' = [feed EXCEPT ![i] = NextFeed(feed[i], d)]
      /\ UNCHANGED <<callerVars, status>>
  BY DEF Work, Advance, Running, N
<1>2. /\ TypeOK /\ CallerCoheres /\ JoinedInOrder /\ StreamsInOrder /\ N \in Nat
  BY Sizes DEF IInv
<1>3. /\ DOMAIN feed = Replication /\ DOMAIN drawn = Replication /\ n \in 0..N - 1
      /\ drawn[i] = Drawn(i, n) /\ feed[i] = FeedAt(i)[n]
  BY <1>1, <1>2 DEF TypeOK, StreamsInOrder, N, Drawn
<1> HIDE DEF n, d
<1>4. x = Answer(FeedAt(i)[n], Script[n + 1])
  BY <1>3 DEF d
<1> HIDE DEF x
<1>5. Len(Append(drawn[i], x)) = n + 1 /\ Append(drawn[i], x) = Drawn(i, n + 1)
  BY <1>3, <1>4, Extended
<1>6. NextFeed(feed[i], d) = FeedAt(i)[n + 1]
  <2>1. n + 1 \in 1..N /\ (n + 1) - 1 = n
    BY <1>2, <1>3
  <2>2. QED
    BY <1>3, <2>1, FeedAtSteps DEF d
<1>7. /\ DOMAIN drawn' = Replication /\ DOMAIN feed' = Replication
      /\ drawn'[i] = Append(drawn[i], x) /\ feed'[i] = FeedAt(i)[n + 1]
      /\ \A j \in Replication \ {i} : drawn'[j] = drawn[j] /\ feed'[j] = feed[j]
  BY <1>1, <1>3, <1>6
<1>8. ASSUME NEW j \in Replication
      PROVE  /\ Len(drawn'[j]) \in 0..N
             /\ drawn'[j] = [k \in 1..Len(drawn'[j]) |-> Expected(j)[k]]
             /\ feed'[j] = FeedAt(j)[Len(drawn'[j])]
             /\ status[j] = "returned" => Len(drawn'[j]) = N
  <2>1. CASE j = i
    <3>1. Len(drawn'[i]) = n + 1 /\ n + 1 \in 0..N
      BY <1>2, <1>3, <1>5, <1>7
    <3>2. QED
      BY <1>1, <1>5, <1>7, <2>1, <3>1 DEF Drawn
  <2>2. CASE j # i
    BY <1>2, <1>7, <2>2 DEF TypeOK, StreamsInOrder, N
  <2>3. QED
    BY <2>1, <2>2
<1>9. TypeOK'
  BY <1>1, <1>2, <1>7, <1>8 DEF TypeOK, callerVars, N
<1>10. CallerCoheres' /\ JoinedInOrder'
  BY <1>1, <1>2 DEF CallerCoheres, JoinedInOrder, Lost, Running, callerVars
<1>11. StreamsInOrder'
  BY <1>1, <1>8 DEF StreamsInOrder, N
<1>12. QED
  BY <1>9, <1>10, <1>11 DEF IInv

\* A thread comes to an end.  Nobody it has not joined yet is among Lost.
LEMMA EndIInv ==
  ASSUME IInv, NEW i \in Replication, Return(i) \/ Panic(i)
  PROVE  IInv'
<1>1. /\ status[i] = "running" /\ UNCHANGED <<callerVars, feed, drawn>>
      /\ \/ status' = [status EXCEPT ![i] = "returned"] /\ Len(drawn[i]) = Len(Script)
         \/ status' = [status EXCEPT ![i] = "panicked"]
  BY DEF Return, Panic, Running
<1>2. TypeOK /\ CallerCoheres /\ JoinedInOrder /\ StreamsInOrder /\ Replication = 1..Len(Seeds)
      /\ Len(Seeds) \in Nat
  BY Sizes DEF IInv
<1>3. /\ status' \in [Replication -> {"unborn", "running", "returned", "panicked"}]
      /\ status'[i] \in {"returned", "panicked"}
      /\ status'[i] = "returned" => Len(drawn[i]) = Len(Script)
      /\ \A j \in Replication \ {i} : status'[j] = status[j]
  BY <1>1, <1>2 DEF TypeOK
<1>4. TypeOK'
  BY <1>1, <1>2, <1>3 DEF TypeOK, callerVars
<1>5. phase # "over"
  BY <1>1, <1>2 DEF CallerCoheres, Running
<1>6. CallerCoheres'
  <2>1. \A j \in Replication : status'[j] = "unborn" <=> status[j] = "unborn"
    BY <1>1, <1>3
  <2>2. \A j \in Replication : status'[j] = "running" => status[j] = "running"
    BY <1>1, <1>3
  <2>3. QED
    BY <1>1, <1>2, <1>5, <2>1, <2>2 DEF CallerCoheres, Running, callerVars
<1>7. JoinedInOrder'
  <2>1. phase = "joining" => Lost' = Lost
    <3> SUFFICES ASSUME phase = "joining" PROVE Lost' = Lost
      OBVIOUS
    <3>1. i >= next
      BY <1>1, <1>2 DEF CallerCoheres, Running
    <3>2. ~(i < next)
      BY <1>2, <3>1 DEF TypeOK
    <3>3. QED
      BY <1>1, <1>3, <3>2 DEF Lost, callerVars
  <2>2. QED
    BY <1>1, <1>2, <2>1 DEF JoinedInOrder, callerVars
<1>8. StreamsInOrder'
  BY <1>1, <1>2, <1>3 DEF StreamsInOrder
<1>9. QED
  BY <1>4, <1>6, <1>7, <1>8 DEF IInv

LEMMA SpawnIInv ==
  ASSUME IInv, Spawn
  PROVE  IInv'
<1>1. /\ phase = "spawning" /\ next <= Len(Seeds)
      /\ status' = [status EXCEPT ![next] = "running"] /\ next' = next + 1
      /\ UNCHANGED <<phase, results, firstPanic, outcome, feed, drawn>>
  BY DEF Spawn
<1>2. TypeOK /\ CallerCoheres /\ JoinedInOrder /\ StreamsInOrder /\ Replication = 1..Len(Seeds)
      /\ Len(Seeds) \in Nat
  BY Sizes DEF IInv
<1>3. next \in Replication /\ next + 1 \in 1..Len(Seeds) + 1
  BY <1>1, <1>2 DEF TypeOK
<1>4. /\ status' \in [Replication -> {"unborn", "running", "returned", "panicked"}]
      /\ status'[next] = "running"
      /\ \A j \in Replication \ {next} : status'[j] = status[j]
  BY <1>1, <1>2, <1>3 DEF TypeOK
<1>5. TypeOK'
  <2>1. Len(results) \in 0..next' - 1
    BY <1>1, <1>2, <1>3 DEF TypeOK
  <2>2. QED
    BY <1>1, <1>2, <1>3, <1>4, <2>1 DEF TypeOK
<1>6. CallerCoheres'
  <2>1. ASSUME NEW j \in Replication PROVE status'[j] # "unborn" <=> j < next + 1
    <3>1. CASE j = next
      BY <1>3, <1>4, <3>1
    <3>2. CASE j # next
      <4>1. status'[j] # "unborn" <=> j < next
        BY <1>1, <1>2, <1>4, <3>2 DEF CallerCoheres
      <4>2. j < next <=> j < next + 1
        BY <1>2, <1>3, <3>2
      <4>3. QED
        BY <4>1, <4>2
    <3>3. QED
      BY <3>1, <3>2
  <2>2. QED
    BY <1>1, <1>2, <2>1 DEF CallerCoheres, Running
<1>7. JoinedInOrder'
  BY <1>1, <1>2 DEF JoinedInOrder
<1>8. StreamsInOrder'
  BY <1>1, <1>2, <1>4 DEF StreamsInOrder
<1>9. QED
  BY <1>5, <1>6, <1>7, <1>8 DEF IInv

LEMMA SpawnFailsIInv ==
  ASSUME IInv, SpawnFails
  PROVE  IInv'
<1>1. /\ phase = "spawning" /\ next <= Len(Seeds) /\ phase' = "unwinding"
      /\ UNCHANGED <<next, results, firstPanic, outcome, threadVars>>
  BY DEF SpawnFails
<1>2. TypeOK /\ CallerCoheres /\ JoinedInOrder /\ StreamsInOrder /\ Replication = 1..Len(Seeds)
      /\ Len(Seeds) \in Nat
  BY Sizes DEF IInv
<1>3. next \in Replication /\ ~(next < next)
  BY <1>1, <1>2 DEF TypeOK
<1>4. status[next] = "unborn"
  BY <1>1, <1>2, <1>3 DEF CallerCoheres
<1>5. TypeOK' /\ JoinedInOrder' /\ StreamsInOrder'
  BY <1>1, <1>2 DEF TypeOK, JoinedInOrder, StreamsInOrder, threadVars
<1>6. CallerCoheres'
  BY <1>1, <1>2, <1>3, <1>4 DEF CallerCoheres, threadVars
<1>7. QED
  BY <1>5, <1>6 DEF IInv

LEMMA SpawnedAllIInv ==
  ASSUME IInv, SpawnedAll
  PROVE  IInv'
<1>1. /\ phase = "spawning" /\ next > Len(Seeds) /\ phase' = "joining" /\ next' = 1
      /\ UNCHANGED <<results, firstPanic, outcome, threadVars>>
  BY DEF SpawnedAll
<1>2. TypeOK /\ CallerCoheres /\ JoinedInOrder /\ StreamsInOrder /\ Replication = 1..Len(Seeds)
      /\ Len(Seeds) \in Nat
  BY Sizes DEF IInv
<1>3. results = <<>> /\ firstPanic = {} /\ Len(<<>>) = 0 /\ 1 - 1 = 0
  BY <1>1, <1>2 DEF CallerCoheres
<1>4. TypeOK'
  BY <1>1, <1>2, <1>3 DEF TypeOK, threadVars
<1>5. CallerCoheres'
  <2>1. \A j \in Replication : j < next /\ j >= 1
    BY <1>1, <1>2 DEF TypeOK
  <2>2. QED
    BY <1>1, <1>2, <2>1 DEF CallerCoheres, Running, threadVars
<1>6. JoinedInOrder'
  <2>1. Lost' = {}
    BY <1>1, <1>2 DEF Lost
  <2>2. results' = [j \in 1..next' - 1 |-> Expected(j)]
    BY <1>1, <1>3
  <2>3. QED
    BY <1>1, <1>2, <1>3, <2>1, <2>2 DEF JoinedInOrder
<1>7. StreamsInOrder'
  BY <1>1, <1>2 DEF StreamsInOrder, threadVars
<1>8. QED
  BY <1>4, <1>5, <1>6, <1>7 DEF IInv

\* The joined thread adds its result behind those of the seeds before it, or is
\* the first panic if there was none.
LEMMA JoinIInv ==
  ASSUME IInv, Join
  PROVE  IInv'
<1>1. /\ phase = "joining" /\ next <= Len(Seeds) /\ status[next] # "running"
      /\ next' = next + 1
      /\ status[next] = "returned" =>
           results' = Append(results, drawn[next]) /\ firstPanic' = firstPanic
      /\ status[next] # "returned" =>
           firstPanic' = (IF firstPanic = {} THEN {next} ELSE firstPanic) /\ results' = results
      /\ UNCHANGED <<phase, outcome, threadVars>>
  BY DEF Join, Running
<1>2. IInv /\ TypeOK /\ CallerCoheres /\ JoinedInOrder /\ StreamsInOrder
      /\ Replication = 1..Len(Seeds) /\ Len(Seeds) \in Nat
  BY Sizes DEF IInv
<1>3. next \in Replication /\ next \in Nat /\ next + 1 \in 1..Len(Seeds) + 1
  BY <1>1, <1>2 DEF TypeOK
<1>4. status[next] \in {"returned", "panicked"}
  BY <1>1, <1>2, <1>3 DEF TypeOK, CallerCoheres
<1>5. status[next] = "returned" => drawn[next] = Expected(next)
  BY <1>2, <1>3, DrawnAll
<1> DEFINE S == {Expected(i) : i \in Replication}
<1>6. results \in Seq(S) /\ Len(results) \in 0..next - 1
  BY <1>2 DEF JoinedInOrder, TypeOK
<1>7. Expected(next) \in S
  BY <1>3
<1> HIDE DEF S
<1>8. results' \in Seq(S) /\ Len(results') \in 0..next' - 1
  <2>1. CASE status[next] = "returned"
    <3>1. results' = Append(results, Expected(next))
      BY <1>1, <1>5, <2>1
    <3>2. results' \in Seq(S) /\ Len(results') = Len(results) + 1
      BY <1>6, <1>7, <3>1
    <3>3. QED
      BY <1>1, <1>3, <1>6, <3>2
  <2>2. CASE status[next] # "returned"
    BY <1>1, <1>3, <1>6, <2>2
  <2>3. QED
    BY <2>1, <2>2
<1>9. TypeOK'
  <2>1. firstPanic' \subseteq Replication /\ Cardinality(firstPanic') <= 1
    <3>1. Cardinality({next}) = 1
      BY FS_Singleton
    <3>2. firstPanic \subseteq Replication /\ Cardinality(firstPanic) <= 1
      BY <1>2 DEF TypeOK
    <3>3. firstPanic' = firstPanic \/ firstPanic' = {next}
      BY <1>1
    <3>4. CASE firstPanic' = firstPanic
      BY <3>2, <3>4
    <3>5. CASE firstPanic' = {next}
      <4>1. Cardinality(firstPanic') = 1
        BY <3>1, <3>5
      <4>2. QED
        BY <1>3, <3>5, <4>1
    <3>6. QED
      BY <3>3, <3>4, <3>5
  <2>2. QED
    BY <1>1, <1>2, <1>3, <1>8, <2>1 DEF TypeOK, threadVars
<1>10. CallerCoheres'
  <2>1. \A j \in Replication : status[j] = "running" => j >= next + 1
    <3> SUFFICES ASSUME NEW j \in Replication, status[j] = "running" PROVE j >= next + 1
      OBVIOUS
    <3>1. j >= next /\ j # next
      BY <1>1, <1>2 DEF CallerCoheres, Running
    <3>2. QED
      BY <1>2, <1>3, <3>1
  <2>2. QED
    BY <1>1, <1>2, <2>1 DEF CallerCoheres, Running, threadVars
<1>11. \A j \in Replication : j < next + 1 <=> j < next \/ j = next
  BY <1>2, <1>3
<1>12. JoinedInOrder'
  <2>1. CASE status[next] = "returned"
    <3>1. Lost' = Lost
      BY <1>1, <1>3, <1>11, <2>1 DEF Lost, threadVars
    <3>2. ASSUME results = [i \in 1..next - 1 |-> Expected(i)]
          PROVE  results' = [i \in 1..next' - 1 |-> Expected(i)]
      <4>1. results' = Append(results, Expected(next))
        BY <1>1, <1>5, <2>1
      <4>2. Len(results) = next - 1
        BY <1>3, <1>6, <3>2
      <4>3. /\ results' \in Seq(S) /\ Len(results') = next
            /\ \A k \in 1..next - 1 : results'[k] = results[k]
            /\ results'[next] = Expected(next)
        BY <1>3, <1>6, <1>7, <4>1, <4>2
      <4>4. \A k \in 1..next : k \in 1..next - 1 \/ k = next
        BY <1>3
      <4>5. \A k \in 1..next : results'[k] = Expected(k)
        BY <3>2, <4>3, <4>4
      <4>6. results' = [k \in 1..next |-> results'[k]]
        BY <4>3
      <4>7. next' - 1 = next
        BY <1>1, <1>3
      <4>8. QED
        BY <4>5, <4>6, <4>7
    <3>3. QED
      BY <1>1, <1>2, <1>8, <2>1, <3>1, <3>2 DEF JoinedInOrder, S
  <2>2. CASE status[next] = "panicked"
    <3>1. Lost' = Lost \cup {next}
      BY <1>1, <1>3, <1>11, <2>2 DEF Lost, threadVars
    <3>2. \A j \in Lost : j < next /\ j \in Nat
      BY <1>2 DEF Lost
    <3>3. CASE Lost = {} /\ firstPanic = {}
      <4>1. firstPanic' = {next} /\ Lost' = {next} /\ next <= next
        BY <1>1, <1>3, <2>2, <3>1, <3>3
      <4>2. QED
        BY <1>8, <4>1 DEF JoinedInOrder, S
    <3>4. CASE \E m \in Lost : firstPanic = {m} /\ \A i \in Lost : m <= i
      <4>1. PICK m \in Lost : firstPanic = {m} /\ \A i \in Lost : m <= i
        BY <3>4
      <4>2. firstPanic' = {m} /\ m \in Lost' /\ m <= next
        BY <1>1, <1>3, <2>2, <3>1, <3>2, <4>1
      <4>3. QED
        BY <1>8, <3>1, <4>1, <4>2 DEF JoinedInOrder, S
    <3>5. QED
      BY <1>1, <1>2, <3>3, <3>4 DEF JoinedInOrder
  <2>3. QED
    BY <1>4, <2>1, <2>2
<1>13. StreamsInOrder'
  BY <1>1, <1>2 DEF StreamsInOrder, threadVars
<1>14. QED
  BY <1>9, <1>10, <1>12, <1>13 DEF IInv

LEMMA FinishIInv ==
  ASSUME IInv, Finish
  PROVE  IInv'
<1>1. /\ phase = "joining" /\ next > Len(Seeds) /\ phase' = "over"
      /\ outcome' = IF firstPanic = {} THEN [kind |-> "returned", value |-> results]
                    ELSE [kind |-> "raised", value |-> CHOOSE i \in firstPanic : TRUE]
      /\ UNCHANGED <<next, results, firstPanic, threadVars>>
  BY DEF Finish
<1>2. TypeOK /\ CallerCoheres /\ JoinedInOrder /\ StreamsInOrder /\ Replication = 1..Len(Seeds)
      /\ Len(Seeds) \in Nat
  BY Sizes DEF IInv
<1>3. outcome'.kind \in {"returned", "raised"} /\ outcome' # Pending
  BY <1>1 DEF Pending
<1>4. TypeOK'
  BY <1>1, <1>2, <1>3 DEF TypeOK, threadVars
<1>5. \A j \in Replication : ~(j >= next)
  BY <1>1, <1>2 DEF TypeOK
<1>6. CallerCoheres'
  BY <1>1, <1>2, <1>3, <1>5 DEF CallerCoheres, Running, threadVars
<1>7. JoinedInOrder' /\ StreamsInOrder'
  BY <1>1, <1>2 DEF JoinedInOrder, StreamsInOrder, threadVars
<1>8. QED
  BY <1>4, <1>6, <1>7 DEF IInv

LEMMA UnwindIInv ==
  ASSUME IInv, Unwind
  PROVE  IInv'
<1>1. /\ phase = "unwinding" /\ (\A i \in Replication : ~Running(i)) /\ phase' = "over"
      /\ outcome' = [kind |-> "failed", value |-> <<>>]
      /\ UNCHANGED <<next, results, firstPanic, threadVars>>
  BY DEF Unwind
<1>2. TypeOK /\ CallerCoheres /\ JoinedInOrder /\ StreamsInOrder
  BY DEF IInv
<1>3. TypeOK'
  BY <1>1, <1>2 DEF TypeOK, threadVars
<1>4. CallerCoheres'
  BY <1>1, <1>2 DEF CallerCoheres, Running, threadVars, Pending
<1>5. JoinedInOrder' /\ StreamsInOrder'
  BY <1>1, <1>2 DEF JoinedInOrder, StreamsInOrder, threadVars
<1>6. QED
  BY <1>3, <1>4, <1>5 DEF IInv

LEMMA NextIInv == IInv /\ [Next]_vars => IInv'
<1>1. ASSUME IInv, UNCHANGED vars PROVE IInv'
  BY <1>1 DEF vars, callerVars, threadVars, IInv, TypeOK, CallerCoheres, JoinedInOrder, Lost,
              StreamsInOrder, Running
<1>2. QED
  BY <1>1, WorkIInv, EndIInv, SpawnIInv, SpawnFailsIInv, SpawnedAllIInv, JoinIInv, FinishIInv,
     UnwindIInv DEF Next, Caller, Worker

\* However the threads interleave: results are collected in seed order, the lowest
\* panic is kept, and what a closure draws depends on its seed alone.
THEOREM MonteCarloInductive == Spec => []IInv
<1>1. QED
  BY InitIInv, NextIInv, PTL DEF Spec

\* Every variable keeps its type; at most one panic payload is kept.
THEOREM MonteCarloTypeCorrect == Spec => []TypeOK
<1>1. IInv => TypeOK
  BY DEF IInv
<1>2. QED
  BY <1>1, MonteCarloInductive, PTL

-----------------------------------------------------------------------------
(* The threads implement Replications. *)

startedBar == {i \in Replication : status[i] # "unborn"}
panickedBar == {i \in Replication : status[i] = "panicked"}

\* A step of a thread, or none, that tells the caller nothing.
LEMMA SilentMaps ==
  ASSUME status' = status, outcome' = outcome
  PROVE  UNCHANGED Contract!replVars
BY DEF Contract!replVars, Settled

LEMMA SpawnMaps ==
  ASSUME IInv, Spawn
  PROVE  Contract!Next
<1>1. /\ phase = "spawning" /\ next <= Len(Seeds) /\ status' = [status EXCEPT ![next] = "running"]
      /\ outcome' = outcome
  BY DEF Spawn
<1>2. TypeOK /\ CallerCoheres /\ Replication = 1..Len(Seeds) /\ Len(Seeds) \in Nat
  BY Sizes DEF IInv
<1>3. next \in Replication /\ outcome = Pending
  BY <1>1, <1>2 DEF TypeOK, CallerCoheres
<1>4. status[next] = "unborn"
  BY <1>1, <1>2, <1>3 DEF TypeOK, CallerCoheres
<1>5. /\ status'[next] = "running"
      /\ \A j \in Replication \ {next} : status'[j] = status[j]
  BY <1>1, <1>2, <1>3 DEF TypeOK
<1>6. {i \in Replication : status'[i] # "unborn"} = startedBar \cup {next}
  BY <1>3, <1>5 DEF startedBar
<1>7. {i \in Replication : status'[i] = "panicked"} = panickedBar
  BY <1>3, <1>4, <1>5 DEF panickedBar
<1>8. Settled' = Settled
  BY <1>3, <1>4, <1>5 DEF Settled
<1>9. Contract!Start(next)
  BY <1>1, <1>3, <1>6, <1>7, <1>8 DEF Contract!Start, Contract!Pending, Pending, startedBar, panickedBar
<1>10. ASSUME NEW i \in Replication, i = next PROVE Contract!Start(i)
  BY <1>9, <1>10 DEF Contract!Start
<1>11. \E i \in Replication : Contract!Start(i)
  BY <1>3, <1>10
<1>12. QED
  BY <1>11 DEF Contract!Next

LEMMA EndMaps ==
  ASSUME IInv, NEW i \in Replication, Return(i) \/ Panic(i)
  PROVE  Contract!Next
<1>1. /\ status[i] = "running" /\ outcome' = outcome
      /\ \/ status' = [status EXCEPT ![i] = "returned"]
         \/ status' = [status EXCEPT ![i] = "panicked"]
  BY DEF Return, Panic, Running, callerVars
<1>2. TypeOK /\ CallerCoheres
  BY DEF IInv
<1>3. /\ status'[i] \in {"returned", "panicked"}
      /\ \A j \in Replication \ {i} : status'[j] = status[j]
  BY <1>1, <1>2 DEF TypeOK
<1>4. outcome = Pending
  BY <1>1, <1>2 DEF CallerCoheres, Running
<1>5. {j \in Replication : status'[j] # "unborn"} = startedBar
  BY <1>1, <1>3 DEF startedBar
<1>6. {j \in Replication : status'[j] = "panicked"} \in {panickedBar, panickedBar \cup {i}}
  BY <1>1, <1>3 DEF panickedBar
<1>7. Settled' = Settled \cup {i} /\ i \in startedBar \ Settled
  BY <1>1, <1>3 DEF Settled, startedBar
<1>8. Contract!Settle(i)
  BY <1>1, <1>4, <1>5, <1>6, <1>7
  DEF Contract!Settle, Contract!Pending, Pending, startedBar, panickedBar
<1>9. QED
  BY <1>8 DEF Contract!Next

\* Every thread is joined: none is lost and the results are complete, or the
\* payload kept is that of the lowest seed.
LEMMA FinishMaps ==
  ASSUME IInv, Finish
  PROVE  Contract!Next
<1>1. /\ phase = "joining" /\ next > Len(Seeds) /\ status' = status
      /\ outcome' = IF firstPanic = {} THEN [kind |-> "returned", value |-> results]
                    ELSE [kind |-> "raised", value |-> CHOOSE i \in firstPanic : TRUE]
  BY DEF Finish, threadVars
<1>2. TypeOK /\ CallerCoheres /\ JoinedInOrder /\ Replication = 1..Len(Seeds) /\ Len(Seeds) \in Nat
  BY Sizes DEF IInv
<1>3. next = Len(Seeds) + 1 /\ next - 1 = Len(Seeds) /\ outcome = Pending
  BY <1>1, <1>2 DEF TypeOK, CallerCoheres
<1>4. \A i \in Replication : i < next /\ ~(i >= next) /\ i \in Nat
  BY <1>2, <1>3
<1>5. Lost = panickedBar
  BY <1>4 DEF Lost, panickedBar
<1>6. Settled = Replication
  <2>1. \A i \in Replication : status[i] \in {"returned", "panicked"}
    BY <1>1, <1>2, <1>4 DEF TypeOK, CallerCoheres, Running
  <2>2. QED
    BY <2>1 DEF Settled
<1>7. outcome' = IF panickedBar = {} THEN Contract!Returned ELSE Contract!Raised
  <2>1. CASE Lost = {} /\ firstPanic = {} /\ results = [i \in 1..next - 1 |-> Expected(i)]
    BY <1>1, <1>2, <1>3, <1>5, <2>1 DEF Contract!Returned
  <2>2. CASE \E m \in Lost : firstPanic = {m} /\ \A i \in Lost : m <= i
    <3>1. PICK m \in Lost : firstPanic = {m} /\ \A i \in Lost : m <= i
      BY <2>2
    <3>2. outcome' = [kind |-> "raised", value |-> m]
      BY <1>1, <3>1
    <3>3. Contract!Min(panickedBar) = m
      <4>1. \A y \in Lost : (\A i \in Lost : y <= i) => y = m
        BY <1>4, <3>1 DEF Lost
      <4>2. QED
        BY <1>5, <3>1, <4>1 DEF Contract!Min
    <3>4. QED
      BY <1>5, <3>1, <3>2, <3>3 DEF Contract!Raised, panickedBar
  <2>3. QED
    BY <1>1, <1>2, <2>1, <2>2 DEF JoinedInOrder
<1>8. Contract!Conclude
  BY <1>1, <1>3, <1>6, <1>7 DEF Contract!Conclude, Contract!Pending, Pending, Settled, panickedBar
<1>9. QED
  BY <1>8 DEF Contract!Next

LEMMA UnwindMaps ==
  ASSUME IInv, Unwind
  PROVE  Contract!Next
<1>1. /\ phase = "unwinding" /\ (\A i \in Replication : status[i] # "running") /\ status' = status
      /\ outcome' = [kind |-> "failed", value |-> <<>>]
  BY DEF Unwind, Running, threadVars
<1>2. TypeOK /\ CallerCoheres
  BY DEF IInv
<1>3. outcome = Pending /\ startedBar # Replication
  BY <1>1, <1>2 DEF CallerCoheres, startedBar
<1>4. Settled = startedBar
  BY <1>1, <1>2 DEF TypeOK, Settled, startedBar
<1>5. Contract!GiveUp
  BY <1>1, <1>3, <1>4
  DEF Contract!GiveUp, Contract!Failed, Contract!Pending, Pending, Settled, startedBar
<1>6. QED
  BY <1>5 DEF Contract!Next

\* src/src/monte_carlo.rs: in every interleaving of the threads the call returns the
\* results in seed order or raises the panic of the lowest seed, and only when no
\* thread is left running, also when starting them failed half way.
THEOREM ImplementsContract == Spec => ImplementsReplications
<1>1. Init => Contract!Init
  BY DEF Init, Contract!Init, Contract!Pending, Pending, Settled
<1>2. ASSUME IInv, [Next]_vars PROVE [Contract!Next]_(Contract!replVars)
  <2>1. CASE UNCHANGED vars
    BY <2>1, SilentMaps DEF vars, callerVars, threadVars
  <2>2. ASSUME NEW i \in Replication, Worker(i) PROVE [Contract!Next]_(Contract!replVars)
    <3>1. CASE Work(i)
      BY <3>1, SilentMaps DEF Work, callerVars
    <3>2. CASE Return(i) \/ Panic(i)
      BY <1>2, <3>2, EndMaps
    <3>3. QED
      BY <2>2, <3>1, <3>2 DEF Worker
  <2>3. CASE SpawnFails \/ SpawnedAll \/ Join
    <3>1. status' = status /\ outcome' = outcome
      BY <2>3 DEF SpawnFails, SpawnedAll, Join, threadVars
    <3>2. QED
      BY <3>1, SilentMaps
  <2>4. CASE Spawn
    BY <1>2, <2>4, SpawnMaps
  <2>5. CASE Finish
    BY <1>2, <2>5, FinishMaps
  <2>6. CASE Unwind
    BY <1>2, <2>6, UnwindMaps
  <2>7. QED
    BY <1>2, <2>1, <2>2, <2>3, <2>4, <2>5, <2>6 DEF Next, Caller
<1>3. QED
  BY <1>1, <1>2, MonteCarloInductive, PTL DEF Spec, ImplementsReplications, Contract!Spec

=============================================================================

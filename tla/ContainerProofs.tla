---------------------------- MODULE ContainerProofs ----------------------------
(***************************************************************************)
(* Proofs about Container, for all futures, amounts and capacities: the    *)
(* level is conserved and in bounds, the queues are exact, what can be     *)
(* served at the front of a queue has been served, and nobody is passed.   *)
(*                                                                         *)
(* The loop of trigger_cascade is the hard part.  Its recursion is solved  *)
(* by hand: from the states it is called in, the first pass already leaves *)
(* nothing to do, so that it is the least fixpoint of the loop.            *)
(***************************************************************************)
EXTENDS Container, FiniteSetTheorems, SequenceLemmas

-----------------------------------------------------------------------------
(* Amounts. *)

\* The amounts TypeOK allows.
AmountOK == amount \in [Req -> 1..Capacity]

LEMMA UnitsFinite ==
  ASSUME NEW rs \in SUBSET Req
  PROVE  IsFiniteSet(Units(rs)) /\ Total(rs) \in Nat
<1>1. IsFiniteSet(rs) /\ IsFiniteSet(1..Capacity)
  BY RequestsAssumption, CapacityAssumption, FS_Subset, FS_Interval
<1>2. IsFiniteSet(rs \X (1..Capacity))
  BY <1>1, FS_Product
<1>3. Units(rs) \subseteq rs \X (1..Capacity)
  BY DEF Units
<1>4. QED
  BY <1>2, <1>3, FS_Subset, FS_CardinalityType DEF Total

\* The units of different futures are different.
LEMMA TotalAdds ==
  ASSUME NEW rs \in SUBSET Req, NEW ss \in SUBSET Req, rs \cap ss = {}
  PROVE  Total(rs \cup ss) = Total(rs) + Total(ss)
<1> DEFINE A == Units(rs)
           B == Units(ss)
<1>1. Units(rs \cup ss) = A \cup B /\ A \cap B = {}
  BY DEF Units
<1>2. /\ IsFiniteSet(A) /\ IsFiniteSet(B)
      /\ Cardinality(A) \in Nat /\ Cardinality(B) \in Nat
  BY UnitsFinite DEF Total
<1> HIDE DEF A, B
<1>3. Cardinality(A \cup B) = Cardinality(A) + Cardinality(B) - Cardinality(A \cap B)
  BY <1>2, FS_Union
<1>4. Cardinality(A \cap B) = 0
  BY <1>1, FS_EmptySet
<1>5. Cardinality(A \cup B) = Cardinality(A) + Cardinality(B)
  BY <1>2, <1>3, <1>4
<1>6. QED
  BY <1>1, <1>5 DEF Total, A, B

LEMMA TotalGrows ==
  ASSUME NEW ss \in SUBSET Req, NEW rs \in SUBSET ss
  PROVE  Total(rs) <= Total(ss)
<1>1. Units(rs) \subseteq Units(ss)
  BY DEF Units
<1>2. QED
  BY <1>1, UnitsFinite, FS_Subset DEF Total

LEMMA TotalEmpty == Total({}) = 0
<1>1. Units({}) = {}
  BY DEF Units
<1>2. QED
  BY <1>1, FS_EmptySet DEF Total

LEMMA TotalOne ==
  ASSUME AmountOK, NEW r \in Req
  PROVE  Total({r}) = amount[r]
<1> DEFINE unit == [i \in 1..amount[r] |-> <<r, i>>]
<1>1. amount[r] \in 1..Capacity /\ amount[r] \in Nat
  BY CapacityAssumption DEF AmountOK
<1>2. IsFiniteSet(1..amount[r]) /\ Cardinality(1..amount[r]) = amount[r]
  BY <1>1, FS_Interval
<1>3. Units({r}) = {<<r, i>> : i \in 1..amount[r]}
  <2>1. ASSUME NEW u \in Units({r}) PROVE u \in {<<r, i>> : i \in 1..amount[r]}
    BY <1>1, CapacityAssumption DEF Units
  <2>2. ASSUME NEW i \in 1..amount[r] PROVE <<r, i>> \in Units({r})
    BY <1>1, CapacityAssumption DEF Units
  <2>3. QED
    BY <2>1, <2>2
<1>4. unit \in Bijection(1..amount[r], Units({r}))
  BY <1>3 DEF Bijection, Injection, Surjection, IsInjective
<1>5. ExistsBijection(1..amount[r], Units({r}))
  BY <1>4 DEF ExistsBijection
<1>6. QED
  BY <1>2, <1>5, FS_Bijection DEF Total

-----------------------------------------------------------------------------
(* The cascade. *)

\* The loop ends with the result of its first pass when a second one would
\* change nothing.
LEMMA CascadeIsOnePass ==
  ASSUME NEW s, NEW t, Len(s.gets) + Len(s.puts) \in Nat,
         WakePuts(WakeGets(s)) = t, WakePuts(WakeGets(t)) = t
  PROVE  Cascade(s) = t
<1> DEFINE N == Len(s.gets) + Len(s.puts) + 1
           Pass(x) == WakePuts(WakeGets(x))
           Loop(f) == f = [n \in 0..N |-> IF n = 0 THEN s ELSE Pass(f[n - 1])]
           after == CHOOSE f : Loop(f)
           g == [n \in 0..N |-> IF n = 0 THEN s ELSE t]
<1>1. Cascade(s) = after[N]
  BY DEF Cascade
<1> DEFINE M == Len(s.gets) + Len(s.puts)
<1>2. N \in Nat /\ N >= 1
  <2>1. M \in Nat /\ N = M + 1
    OBVIOUS
  <2> HIDE DEF M, N
  <2>2. QED
    BY <2>1
<1> HIDE DEF N
<1>3. Loop(g)
  <2>1. ASSUME NEW n \in 0..N PROVE g[n] = IF n = 0 THEN s ELSE Pass(g[n - 1])
    <3>1. CASE n = 0
      BY <3>1
    <3>2. CASE n # 0
      <4>1. n - 1 \in 0..N
        BY <1>2, <3>2
      <4>2. g[n - 1] \in {s, t} /\ Pass(s) = t /\ Pass(t) = t
        BY <4>1
      <4>3. QED
        BY <3>2, <4>2
    <3>3. QED
      BY <3>1, <3>2
  <2>2. QED
    BY <2>1
<1>4. Loop(after)
  <2> HIDE DEF g, Loop
  <2>1. QED
    BY <1>3
<1> HIDE DEF after, g
<1>5. \A n \in 0..N : after[n] = IF n = 0 THEN s ELSE Pass(after[n - 1])
  BY <1>4
<1> DEFINE T == {n \in Nat : n + 1 <= N => after[n + 1] = t}
<1>6. 0 \in T
  <2>1. 0 \in 0..N /\ 1 \in 0..N /\ 1 - 1 = 0
    BY <1>2
  <2>2. after[0] = s
    BY <1>5, <2>1
  <2>3. after[1] = Pass(after[1 - 1])
    BY <1>5, <2>1
  <2>4. after[1] = t
    BY <2>1, <2>2, <2>3
  <2>5. QED
    BY <2>4
<1>7. ASSUME NEW n \in Nat, n \in T PROVE n + 1 \in T
  <2> SUFFICES ASSUME (n + 1) + 1 <= N PROVE after[(n + 1) + 1] = t
    OBVIOUS
  <2>1. after[n + 1] = t
    BY <1>2, <1>7
  <2>2. (n + 1) + 1 \in 0..N /\ (n + 1) + 1 # 0 /\ ((n + 1) + 1) - 1 = n + 1
    BY <1>2
  <2>3. after[(n + 1) + 1] = Pass(after[n + 1])
    BY <1>5, <2>2
  <2>4. QED
    BY <2>1, <2>3
<1> HIDE DEF T
<1>8. Nat \subseteq T
  BY <1>6, <1>7, SetInduction
<1>9. N - 1 \in T
  BY <1>2, <1>8
<1>10. after[N] = t
  BY <1>2, <1>9 DEF T
<1>11. QED
  BY <1>1, <1>10

\* The live entries among the first m.
LEMMA LivePrefixElements ==
  ASSUME NEW S, NEW q \in Seq(S), NEW m \in 0..Len(q)
  PROVE  /\ LivePrefix(q, m) = {q[j] : j \in 1..m} \ canceled
         /\ LivePrefix(q, m) \subseteq ToSet(q) \ canceled
         /\ LivePrefix(q, m) \subseteq S
<1>1. Len(q) \in Nat /\ DOMAIN q = 1..Len(q) /\ \A j \in 1..Len(q) : q[j] \in S
  OBVIOUS
<1>2. 1 \in 1..Len(q) + 1 /\ m \in 1 - 1..Len(q)
  BY <1>1
<1>3. ToSet(SubSeq(q, 1, m)) = {q[j] : j \in 1..m}
  BY <1>2, SubSeqSet
<1>4. \A j \in 1..m : j \in 1..Len(q)
  BY <1>1
<1>5. ToSet(q) = {q[j] : j \in 1..Len(q)}
  BY <1>1 DEF ToSet
<1>6. QED
  BY <1>1, <1>3, <1>4, <1>5 DEF LivePrefix

\* What one pass over a queue serves and leaves.
LEMMA ServedFacts ==
  ASSUME AmountOK, NEW S \in SUBSET Req, NEW q \in Seq(S), IsInjective(q), NEW room \in Nat
  PROVE  LET n    == Served(q, room)
             rs   == LivePrefix(q, n)
             rest == SubSeq(q, n + 1, Len(q))
         IN  /\ n \in 0..Len(q)
             /\ rs \subseteq ToSet(q) \ canceled /\ rs \subseteq S
             /\ Total(rs) \in 0..room
             /\ rest \in Seq(S) /\ IsInjective(rest)
             /\ ToSet(rest) \ canceled = (ToSet(q) \ canceled) \ rs
             /\ ToSet(rest) \subseteq ToSet(q)
             /\ rest # <<>> => /\ Head(rest) \in S \ canceled
                               /\ Total(rs) + amount[Head(rest)] > room
<1> DEFINE Fit  == {m \in 0..Len(q) : Total(LivePrefix(q, m)) <= room}
           n    == Served(q, room)
           rs   == LivePrefix(q, n)
           rest == SubSeq(q, n + 1, Len(q))
<1>1. Len(q) \in Nat /\ DOMAIN q = 1..Len(q) /\ \A j \in 1..Len(q) : q[j] \in S
  OBVIOUS
<1>2. ASSUME NEW m \in 0..Len(q)
      PROVE  /\ LivePrefix(q, m) = {q[j] : j \in 1..m} \ canceled
             /\ LivePrefix(q, m) \subseteq ToSet(q) \ canceled
             /\ LivePrefix(q, m) \subseteq S
  BY LivePrefixElements
<1>3. n \in Fit /\ \A k \in Fit : k <= n
  <2>1. LivePrefix(q, 0) = {}
    BY <1>1, <1>2
  <2>2. 0 \in Fit
    BY <1>1, <2>1, TotalEmpty
  <2>3. Fit \in SUBSET (0..Len(q)) /\ Fit # {}
    BY <2>2
  <2>4. n = Max(Fit)
    BY DEF Served
  <2> HIDE DEF Fit, n
  <2>5. QED
    BY <1>1, <2>3, <2>4, MaxOfBounded
<1>4. n \in 0..Len(q) /\ Total(rs) <= room
  BY <1>3
<1>5. rs \subseteq ToSet(q) \ canceled /\ rs \subseteq S /\ rs = {q[j] : j \in 1..n} \ canceled
  BY <1>2, <1>4
<1>6. Total(rs) \in 0..room
  <2>1. rs \in SUBSET Req
    BY <1>5
  <2> HIDE DEF rs
  <2>2. Total(rs) \in Nat
    BY <2>1, UnitsFinite
  <2>3. QED
    BY <1>4, <2>2
<1>7. /\ rest \in Seq(S) /\ IsInjective(rest)
      /\ ToSet(rest) = ToSet(q) \ ToSet(SubSeq(q, 1, n))
  <2> HIDE DEF n
  <2>1. QED
    BY <1>4, SuffixSet
<1>8. rs = ToSet(SubSeq(q, 1, n)) \ canceled
  BY DEF LivePrefix
<1>9. rest # <<>> => /\ Head(rest) \in S \ canceled
                     /\ Total(rs) + amount[Head(rest)] > room
  <2> SUFFICES ASSUME rest # <<>>
               PROVE  Head(rest) \in S \ canceled /\ Total(rs) + amount[Head(rest)] > room
    OBVIOUS
  <2> HIDE DEF n, Fit
  <2>1. /\ n + 1 \in 1..Len(q) + 1 /\ Len(q) \in (n + 1) - 1..Len(q)
        /\ n \in Nat /\ n <= Len(q)
    BY <1>1, <1>4
  <2>2. /\ Len(rest) = Len(q) - (n + 1) + 1
        /\ \A i \in 1..Len(q) - (n + 1) + 1 : rest[i] = q[(n + 1) + i - 1]
    BY <2>1, SubSeqSet
  <2> HIDE DEF rest
  <2>3. Len(rest) \in Nat /\ Len(rest) # 0 /\ Head(rest) = rest[1]
    BY <1>7
  <2>4. n < Len(q)
    <3>1. \A L \in Nat : n <= L /\ L - (n + 1) + 1 # 0 => n < L
      BY <2>1
    <3>2. Len(q) - (n + 1) + 1 # 0
      BY <2>2, <2>3
    <3>3. QED
      BY <1>1, <2>1, <3>1, <3>2
  <2>5. 1 \in 1..Len(q) - (n + 1) + 1 /\ (n + 1) + 1 - 1 = n + 1 /\ n + 1 \in 1..Len(q)
    BY <1>1, <2>1, <2>4
  <2>6. Head(rest) = q[n + 1] /\ q[n + 1] \in S
    BY <1>1, <2>2, <2>3, <2>5
  <2> DEFINE x == q[n + 1]
             more == LivePrefix(q, n + 1)
  <2>7. \A j \in 1..n + 1 : j \in 1..n \/ j = n + 1
    BY <2>1
  <2>8. n + 1 \in 0..Len(q) /\ more = {q[j] : j \in 1..n + 1} \ canceled
    BY <1>2, <2>1, <2>4
  <2>9. \A j \in 1..n : j \in 1..n + 1
    BY <2>1
  <2>10. n + 1 \in 1..n + 1
    BY <2>1
  <2>11. more = rs \cup ({x} \ canceled)
    BY <1>5, <2>7, <2>8, <2>9, <2>10
  <2>12. n + 1 \notin Fit
    <3>1. ~(n + 1 <= n)
      BY <2>1
    <3>2. QED
      BY <1>3, <3>1
  <2>13. ~(Total(more) <= room)
    BY <2>8, <2>12 DEF Fit
  <2>14. x \notin canceled
    <3>1. x \in canceled => more = rs
      BY <2>11
    <3> HIDE DEF more, rs, x
    <3>2. QED
      BY <1>4, <2>13, <3>1
  <2>15. more = rs \cup {x}
    BY <2>11, <2>14
  <2>16. x \notin rs
    <3>1. ASSUME NEW j \in 1..n, q[j] = q[n + 1] PROVE FALSE
      <4>1. j \in DOMAIN q /\ n + 1 \in DOMAIN q /\ j # n + 1
        BY <1>1, <2>1, <2>5
      <4>2. QED
        BY <3>1, <4>1 DEF IsInjective
    <3>2. QED
      BY <1>5, <3>1
  <2>17. rs \in SUBSET Req /\ {x} \in SUBSET Req /\ x \in Req
    BY <1>5, <2>6
  <2> HIDE DEF rs, more, x
  <2>18. Total(more) = Total(rs) + Total({x}) /\ Total({x}) = amount[x]
    BY <2>15, <2>16, <2>17, TotalAdds, TotalOne
  <2>19. amount[x] \in Nat
    BY <2>17, CapacityAssumption DEF AmountOK
  <2>20. Total(rs) + amount[x] > room
    BY <1>6, <2>13, <2>18, <2>19
  <2>21. QED
    BY <2>6, <2>14, <2>20 DEF x
<1>10. ToSet(rest) \ canceled = (ToSet(q) \ canceled) \ rs
  <2> HIDE DEF rest, rs
  <2>1. QED
    BY <1>7, <1>8
<1>11. ToSet(rest) \subseteq ToSet(q)
  <2> HIDE DEF rest, rs
  <2>1. QED
    BY <1>7, <1>8
<1>12. QED
  BY <1>4, <1>5, <1>6, <1>7, <1>9, <1>10, <1>11

\* A queue of canceled entries is emptied for nothing.
LEMMA ServedCanceled ==
  ASSUME AmountOK, NEW S \in SUBSET Req, NEW q \in Seq(S), IsInjective(q), NEW room \in Nat,
         ~HasLive(q)
  PROVE  /\ LivePrefix(q, Served(q, room)) = {}
         /\ SubSeq(q, Served(q, room) + 1, Len(q)) = <<>>
<1> DEFINE rs   == LivePrefix(q, Served(q, room))
           rest == SubSeq(q, Served(q, room) + 1, Len(q))
<1>1. /\ rs \subseteq ToSet(q) \ canceled
      /\ rest \in Seq(S)
      /\ ToSet(rest) \subseteq ToSet(q)
      /\ rest # <<>> => Head(rest) \notin canceled
  BY ServedFacts
<1> HIDE DEF rs, rest
<1>2. ToSet(q) \ canceled = {}
  BY DEF HasLive
<1>3. rs = {}
  BY <1>1, <1>2
<1>4. ASSUME rest # <<>> PROVE FALSE
  <2>1. Head(rest) \in ToSet(rest)
    <3>1. Len(rest) \in Nat /\ Len(rest) # 0 /\ DOMAIN rest = 1..Len(rest) /\ Head(rest) = rest[1]
      BY <1>1, <1>4
    <3>2. 1 \in DOMAIN rest
      BY <3>1
    <3>3. QED
      BY <3>1, <3>2 DEF ToSet
  <2>2. QED
    BY <1>1, <1>2, <1>4, <2>1
<1>5. QED
  BY <1>3, <1>4 DEF rs, rest

\* A queue that is empty or blocked at its head is left as it is.
LEMMA ServedNobody ==
  ASSUME AmountOK, NEW S \in SUBSET Req, NEW q \in Seq(S), IsInjective(q), NEW room \in Nat,
         q # <<>> => Head(q) \notin canceled /\ amount[Head(q)] > room
  PROVE  /\ LivePrefix(q, Served(q, room)) = {}
         /\ SubSeq(q, Served(q, room) + 1, Len(q)) = q
<1> DEFINE n  == Served(q, room)
           rs == LivePrefix(q, n)
<1>1. Len(q) \in Nat /\ DOMAIN q = 1..Len(q) /\ \A j \in 1..Len(q) : q[j] \in S
  OBVIOUS
<1>2. n \in 0..Len(q) /\ Total(rs) \in 0..room
  BY ServedFacts
<1> HIDE DEF n
<1>3. n = 0
  <2> SUFFICES ASSUME n # 0 PROVE FALSE
    OBVIOUS
  <2>1. 1 \in 1..n /\ 1 \in 1..Len(q) /\ Len(q) # 0
    BY <1>1, <1>2
  <2>2. q # <<>> /\ Head(q) = q[1] /\ q[1] \in Req
    BY <1>1, <2>1
  <2>3. rs = {q[j] : j \in 1..n} \ canceled /\ rs \subseteq S
    BY <1>2, LivePrefixElements
  <2>4. {q[1]} \in SUBSET rs /\ rs \in SUBSET Req
    BY <2>1, <2>2, <2>3
  <2> HIDE DEF rs
  <2>5. Total({q[1]}) <= Total(rs) /\ Total({q[1]}) = amount[q[1]]
    BY <2>2, <2>4, TotalGrows, TotalOne
  <2>6. amount[q[1]] \in Nat /\ amount[q[1]] > room
    BY <2>2, CapacityAssumption DEF AmountOK
  <2>7. QED
    BY <1>2, <2>5, <2>6
<1>4. rs = {}
  <2>1. rs = {q[j] : j \in 1..n} \ canceled
    BY <1>2, LivePrefixElements
  <2> HIDE DEF rs
  <2>2. 1..n = {}
    BY <1>3
  <2>3. QED
    BY <2>1, <2>2
<1>5. SubSeq(q, n + 1, Len(q)) = q
  <2>1. n + 1 = 1
    BY <1>3
  <2>2. SubSeq(q, 1, Len(q)) = q
    OBVIOUS
  <2>3. QED
    BY <2>1, <2>2
<1>6. QED
  BY <1>4, <1>5 DEF n

\* Whoever is served has only served and canceled entries before it.
LEMMA ServedInOrder ==
  ASSUME AmountOK, NEW S \in SUBSET Req, NEW q \in Seq(S), IsInjective(q), NEW room \in Nat,
         NEW r \in LivePrefix(q, Served(q, room))
  PROVE  Ahead(q, r) \subseteq canceled \cup LivePrefix(q, Served(q, room))
<1> DEFINE n  == Served(q, room)
           rs == LivePrefix(q, n)
<1>1. Len(q) \in Nat /\ DOMAIN q = 1..Len(q)
  OBVIOUS
<1>2. n \in 0..Len(q)
  BY ServedFacts
<1> HIDE DEF n
<1>3. rs = {q[j] : j \in 1..n} \ canceled /\ rs \subseteq ToSet(q)
  BY <1>2, LivePrefixElements
<1>4. r \in rs
  BY DEF n
<1> HIDE DEF rs
<1>5. PICK k \in 1..n : r = q[k]
  BY <1>3, <1>4
<1>6. Ahead(q, r) = {q[j] : j \in {j \in 1..Len(q) : \E i \in j + 1..Len(q) : q[i] = r}}
  BY <1>3, <1>4 DEF Ahead
<1>7. ASSUME NEW j \in 1..Len(q), NEW i \in j + 1..Len(q), q[i] = r
      PROVE  q[j] \in canceled \cup rs
  <2>1. i \in 1..Len(q) /\ k \in 1..Len(q)
    BY <1>1, <1>2
  <2>2. i = k
    BY <1>1, <1>5, <1>7, <2>1 DEF IsInjective
  <2>3. j \in 1..n
    BY <1>1, <1>2, <2>2
  <2>4. QED
    BY <1>3, <2>3
<1>8. QED
  BY <1>6, <1>7 DEF rs, n

\* The two halves of a pass, on explicit records.
LEMMA WakeGetsOf ==
  ASSUME NEW lv, NEW gq, NEW pq, NEW d
  PROVE  LET n == Served(gq, lv)
         IN  WakeGets([level |-> lv, gets |-> gq, puts |-> pq, done |-> d]) =
               [level |-> lv - Total(LivePrefix(gq, n)), gets |-> SubSeq(gq, n + 1, Len(gq)),
                puts |-> pq, done |-> d \cup LivePrefix(gq, n)]
<1> DEFINE s  == [level |-> lv, gets |-> gq, puts |-> pq, done |-> d]
           n  == Served(gq, lv)
           rs == LivePrefix(gq, n)
<1>1. s.gets = gq /\ s.level = lv /\ s.done = d
  OBVIOUS
<1>2. WakeGets(s) = [s EXCEPT !.gets = SubSeq(gq, n + 1, Len(gq)), !.level = lv - Total(rs),
                              !.done = d \cup rs]
  BY <1>1 DEF WakeGets
<1> HIDE DEF n, rs
<1>3. QED
  BY <1>2 DEF n, rs

LEMMA WakePutsOf ==
  ASSUME NEW lv, NEW gq, NEW pq, NEW d
  PROVE  LET n == Served(pq, Capacity - lv)
         IN  WakePuts([level |-> lv, gets |-> gq, puts |-> pq, done |-> d]) =
               [level |-> lv + Total(LivePrefix(pq, n)), gets |-> gq,
                puts |-> SubSeq(pq, n + 1, Len(pq)), done |-> d \cup LivePrefix(pq, n)]
<1> DEFINE s  == [level |-> lv, gets |-> gq, puts |-> pq, done |-> d]
           n  == Served(pq, Capacity - lv)
           rs == LivePrefix(pq, n)
<1>1. s.puts = pq /\ s.level = lv /\ s.done = d
  OBVIOUS
<1>2. WakePuts(s) = [s EXCEPT !.puts = SubSeq(pq, n + 1, Len(pq)), !.level = lv + Total(rs),
                              !.done = d \cup rs]
  BY <1>1 DEF WakePuts
<1> HIDE DEF n, rs
<1>3. QED
  BY <1>2 DEF n, rs

\* After a get only puts are served: a newcomer gets past no live waiter of its
\* own kind, so that there is none.
LEMMA CascadeAfterGet ==
  ASSUME AmountOK, NEW lv \in 0..Capacity, NEW d,
         NEW gq \in Seq(Getters), IsInjective(gq), ~HasLive(gq),
         NEW pq \in Seq(Putters), IsInjective(pq)
  PROVE  LET n  == Served(pq, Capacity - lv)
             rs == LivePrefix(pq, n)
         IN  Cascade([level |-> lv, gets |-> gq, puts |-> pq, done |-> d]) =
               [level |-> lv + Total(rs), gets |-> <<>>,
                puts |-> SubSeq(pq, n + 1, Len(pq)), done |-> d \cup rs]
<1> DEFINE n    == Served(pq, Capacity - lv)
           rs   == LivePrefix(pq, n)
           rest == SubSeq(pq, n + 1, Len(pq))
           s    == [level |-> lv, gets |-> gq, puts |-> pq, done |-> d]
           t    == [level |-> lv + Total(rs), gets |-> <<>>, puts |-> rest, done |-> d \cup rs]
           mid  == [level |-> lv, gets |-> <<>>, puts |-> pq, done |-> d]
<1>1. /\ lv \in Nat /\ Capacity \in Nat /\ Capacity - lv \in Nat
      /\ Getters \in SUBSET Req /\ Putters \in SUBSET Req
  BY CapacityAssumption DEF Req
<1>2. /\ rs \subseteq Putters /\ Total(rs) \in 0..Capacity - lv
      /\ rest \in Seq(Putters) /\ IsInjective(rest)
      /\ rest # <<>> => /\ Head(rest) \in Putters \ canceled
                        /\ Total(rs) + amount[Head(rest)] > Capacity - lv
  BY <1>1, ServedFacts
<1> HIDE DEF n, rs, rest
<1>3. WakeGets(s) = mid
  <2>1. /\ LivePrefix(gq, Served(gq, lv)) = {}
        /\ SubSeq(gq, Served(gq, lv) + 1, Len(gq)) = <<>>
    BY <1>1, ServedCanceled
  <2>2. lv - Total({}) = lv
    BY <1>1, TotalEmpty
  <2>3. d \cup {} = d
    OBVIOUS
  <2>4. WakeGets(s) = [level |-> lv - Total(LivePrefix(gq, Served(gq, lv))),
                       gets |-> SubSeq(gq, Served(gq, lv) + 1, Len(gq)),
                       puts |-> pq, done |-> d \cup LivePrefix(gq, Served(gq, lv))]
    BY WakeGetsOf
  <2>5. QED
    BY <2>1, <2>2, <2>3, <2>4
<1>4. WakePuts(mid) = t
  BY WakePutsOf DEF n, rs, rest
<1>5. lv + Total(rs) \in Nat /\ Capacity - (lv + Total(rs)) \in Nat /\ Total(rs) \in Nat
  BY <1>1, <1>2
<1> DEFINE lw == lv + Total(rs)
           dw == d \cup rs
<1> HIDE DEF lw, dw
<1>6. t = [level |-> lw, gets |-> <<>>, puts |-> rest, done |-> dw]
  BY DEF lw, dw
<1>7. WakeGets(t) = t
  <2>1. <<>> \in Seq(Getters) /\ IsInjective(<<>>) /\ lw \in Nat
    BY <1>5 DEF IsInjective, lw
  <2>2. ~HasLive(<<>>)
    BY DEF HasLive, ToSet
  <2>3. /\ LivePrefix(<<>>, Served(<<>>, lw)) = {}
        /\ SubSeq(<<>>, Served(<<>>, lw) + 1, Len(<<>>)) = <<>>
    BY <1>1, <2>1, <2>2, ServedCanceled
  <2>4. lw - Total({}) = lw
    BY <2>1, TotalEmpty
  <2>5. dw \cup {} = dw
    OBVIOUS
  <2>6. WakeGets(t) = [level |-> lw - Total(LivePrefix(<<>>, Served(<<>>, lw))),
                       gets |-> SubSeq(<<>>, Served(<<>>, lw) + 1, Len(<<>>)),
                       puts |-> rest, done |-> dw \cup LivePrefix(<<>>, Served(<<>>, lw))]
    <3> HIDE DEF t
    <3>1. QED
      BY <1>6, WakeGetsOf
  <2>7. QED
    BY <1>6, <2>3, <2>4, <2>5, <2>6
<1>8. WakePuts(t) = t
  <2>1. rest # <<>> => Head(rest) \notin canceled /\ amount[Head(rest)] > Capacity - lw
    <3> SUFFICES ASSUME rest # <<>>
                 PROVE  Head(rest) \notin canceled /\ amount[Head(rest)] > Capacity - lw
      OBVIOUS
    <3>1. amount[Head(rest)] \in Nat
      BY <1>1, <1>2 DEF AmountOK
    <3>2. QED
      BY <1>1, <1>2, <1>5, <3>1 DEF lw
  <2>2. Capacity - lw \in Nat /\ lw \in Nat
    BY <1>5 DEF lw
  <2>3. /\ LivePrefix(rest, Served(rest, Capacity - lw)) = {}
        /\ SubSeq(rest, Served(rest, Capacity - lw) + 1, Len(rest)) = rest
    BY <1>1, <1>2, <2>1, <2>2, ServedNobody
  <2>4. lw + Total({}) = lw
    BY <2>2, TotalEmpty
  <2>5. dw \cup {} = dw
    OBVIOUS
  <2> DEFINE room == Capacity - lw
  <2>6. WakePuts(t) = [level |-> lw + Total(LivePrefix(rest, Served(rest, room))), gets |-> <<>>,
                       puts |-> SubSeq(rest, Served(rest, room) + 1, Len(rest)),
                       done |-> dw \cup LivePrefix(rest, Served(rest, room))]
    <3> HIDE DEF t
    <3>1. QED
      BY <1>6, WakePutsOf
  <2>7. QED
    BY <1>6, <2>3, <2>4, <2>5, <2>6
<1>9. Len(s.gets) + Len(s.puts) \in Nat
  <2>1. s.gets = gq /\ s.puts = pq
    OBVIOUS
  <2>2. Len(gq) \in Nat /\ Len(pq) \in Nat
    OBVIOUS
  <2>3. QED
    BY <2>1, <2>2
<1>10. Cascade(s) = t
  <2> HIDE DEF s, t, mid
  <2>1. QED
    BY <1>3, <1>4, <1>7, <1>8, <1>9, CascadeIsOnePass
<1>11. QED
  BY <1>10 DEF n, rs, rest

\* After a put only gets are served.
LEMMA CascadeAfterPut ==
  ASSUME AmountOK, NEW lv \in 0..Capacity, NEW d,
         NEW gq \in Seq(Getters), IsInjective(gq),
         NEW pq \in Seq(Putters), IsInjective(pq), ~HasLive(pq)
  PROVE  LET n  == Served(gq, lv)
             rs == LivePrefix(gq, n)
         IN  Cascade([level |-> lv, gets |-> gq, puts |-> pq, done |-> d]) =
               [level |-> lv - Total(rs), gets |-> SubSeq(gq, n + 1, Len(gq)),
                puts |-> <<>>, done |-> d \cup rs]
<1> DEFINE n    == Served(gq, lv)
           rs   == LivePrefix(gq, n)
           rest == SubSeq(gq, n + 1, Len(gq))
           lw   == lv - Total(rs)
           dw   == d \cup rs
           room == Capacity - lw
           s    == [level |-> lv, gets |-> gq, puts |-> pq, done |-> d]
           mid  == [level |-> lw, gets |-> rest, puts |-> pq, done |-> dw]
           t    == [level |-> lw, gets |-> rest, puts |-> <<>>, done |-> dw]
<1>1. /\ lv \in Nat /\ Capacity \in Nat
      /\ Getters \in SUBSET Req /\ Putters \in SUBSET Req
  BY CapacityAssumption DEF Req
<1>2. /\ rs \subseteq Getters /\ Total(rs) \in 0..lv
      /\ rest \in Seq(Getters) /\ IsInjective(rest)
      /\ rest # <<>> => /\ Head(rest) \in Getters \ canceled
                        /\ Total(rs) + amount[Head(rest)] > lv
  BY <1>1, ServedFacts
<1> HIDE DEF n, rs, rest
<1>3. WakeGets(s) = mid
  BY WakeGetsOf DEF n, rs, rest
<1>4. lw \in 0..Capacity /\ lw \in Nat /\ room \in Nat
  BY <1>1, <1>2
<1>5. rest # <<>> => Head(rest) \notin canceled /\ amount[Head(rest)] > lw
  <2> SUFFICES ASSUME rest # <<>> PROVE Head(rest) \notin canceled /\ amount[Head(rest)] > lw
    OBVIOUS
  <2>1. amount[Head(rest)] \in Nat
    BY <1>1, <1>2 DEF AmountOK
  <2>2. QED
    BY <1>1, <1>2, <2>1
<1> HIDE DEF lw, dw, room
<1>6. lw + Total({}) = lw /\ lw - Total({}) = lw /\ dw \cup {} = dw
  BY <1>4, TotalEmpty
<1>7. WakePuts(mid) = t
  <2>1. /\ LivePrefix(pq, Served(pq, room)) = {}
        /\ SubSeq(pq, Served(pq, room) + 1, Len(pq)) = <<>>
    BY <1>1, <1>4, ServedCanceled
  <2>2. WakePuts(mid) = [level |-> lw + Total(LivePrefix(pq, Served(pq, room))), gets |-> rest,
                         puts |-> SubSeq(pq, Served(pq, room) + 1, Len(pq)),
                         done |-> dw \cup LivePrefix(pq, Served(pq, room))]
    BY WakePutsOf DEF room
  <2>3. QED
    BY <1>6, <2>1, <2>2
<1>8. WakeGets(t) = t
  <2>1. /\ LivePrefix(rest, Served(rest, lw)) = {}
        /\ SubSeq(rest, Served(rest, lw) + 1, Len(rest)) = rest
    BY <1>1, <1>2, <1>4, <1>5, ServedNobody
  <2>2. WakeGets(t) = [level |-> lw - Total(LivePrefix(rest, Served(rest, lw))),
                       gets |-> SubSeq(rest, Served(rest, lw) + 1, Len(rest)),
                       puts |-> <<>>, done |-> dw \cup LivePrefix(rest, Served(rest, lw))]
    BY WakeGetsOf
  <2>3. QED
    BY <1>6, <2>1, <2>2
<1>9. WakePuts(t) = t
  <2>1. <<>> \in Seq(Putters) /\ IsInjective(<<>>)
    BY DEF IsInjective
  <2>2. ~HasLive(<<>>)
    BY DEF HasLive, ToSet
  <2>3. /\ LivePrefix(<<>>, Served(<<>>, room)) = {}
        /\ SubSeq(<<>>, Served(<<>>, room) + 1, Len(<<>>)) = <<>>
    BY <1>1, <1>4, <2>1, <2>2, ServedCanceled
  <2>4. WakePuts(t) = [level |-> lw + Total(LivePrefix(<<>>, Served(<<>>, room))),
                       gets |-> rest, puts |-> SubSeq(<<>>, Served(<<>>, room) + 1, Len(<<>>)),
                       done |-> dw \cup LivePrefix(<<>>, Served(<<>>, room))]
    BY WakePutsOf DEF room
  <2>5. QED
    BY <1>6, <2>3, <2>4
<1>10. Len(s.gets) + Len(s.puts) \in Nat
  <2>1. s.gets = gq /\ s.puts = pq
    OBVIOUS
  <2>2. Len(gq) \in Nat /\ Len(pq) \in Nat
    OBVIOUS
  <2>3. QED
    BY <2>1, <2>2
<1>11. Cascade(s) = t
  <2> HIDE DEF s, t, mid
  <2>1. QED
    BY <1>3, <1>7, <1>8, <1>9, <1>10, CascadeIsOnePass
<1>12. QED
  BY <1>11 DEF n, rs, rest, lw, dw

-----------------------------------------------------------------------------
(* What a poll that changes the level does: rs are the waiters it serves. *)

GetEffect(r, rs) ==
  /\ r \notin registered
  /\ ToSet(getWaiters) \subseteq canceled
  /\ rs \subseteq ToSet(putWaiters) \ canceled
  /\ level' = level - amount[r] + Total(rs) /\ level' \in 0..Capacity
  /\ getWaiters' = <<>>
  /\ putWaiters' \in Seq(Putters) /\ IsInjective(putWaiters')
  /\ ToSet(putWaiters') \subseteq ToSet(putWaiters)
  /\ ToSet(putWaiters') \ canceled = (ToSet(putWaiters) \ canceled) \ rs
  /\ putWaiters' # <<>> => level' + amount[Head(putWaiters')] > Capacity
  /\ \A x \in rs : Ahead(putWaiters, x) \subseteq canceled \cup rs
  /\ done' = done \cup rs
  /\ woken' = (woken \cup (rs \ done)) \ {r}
  /\ resolved' = resolved \cup {r}
  /\ UNCHANGED <<initial, amount, requested, registered, canceled, dropped>>

PutEffect(r, rs) ==
  /\ r \notin registered
  /\ ToSet(putWaiters) \subseteq canceled
  /\ rs \subseteq ToSet(getWaiters) \ canceled
  /\ level' = level + amount[r] - Total(rs) /\ level' \in 0..Capacity
  /\ putWaiters' = <<>>
  /\ getWaiters' \in Seq(Getters) /\ IsInjective(getWaiters')
  /\ ToSet(getWaiters') \subseteq ToSet(getWaiters)
  /\ ToSet(getWaiters') \ canceled = (ToSet(getWaiters) \ canceled) \ rs
  /\ getWaiters' # <<>> => amount[Head(getWaiters')] > level'
  /\ \A x \in rs : Ahead(getWaiters, x) \subseteq canceled \cup rs
  /\ done' = done \cup rs
  /\ woken' = (woken \cup (rs \ done)) \ {r}
  /\ resolved' = resolved \cup {r}
  /\ UNCHANGED <<initial, amount, requested, registered, canceled, dropped>>

LEMMA TypedAmounts ==
  ASSUME TypeOK
  PROVE  AmountOK
BY AmountsAssumption DEF TypeOK, AmountOK

LEMMA GetImmediateEffect ==
  ASSUME TypeOK, NEW r \in Getters, GetImmediate(r)
  PROVE  \E rs : GetEffect(r, rs)
<1> DEFINE lv == level - amount[r]
           n  == Served(putWaiters, Capacity - lv)
           rs == LivePrefix(putWaiters, n)
           rest == SubSeq(putWaiters, n + 1, Len(putWaiters))
<1>1. AmountOK
  BY TypedAmounts
<1>2. /\ r \in Req /\ amount[r] \in 1..Capacity /\ Capacity \in Nat
      /\ Getters \in SUBSET Req /\ Putters \in SUBSET Req
  BY <1>1, CapacityAssumption DEF Req, AmountOK
<1>3. r \notin registered /\ ~HasLive(getWaiters) /\ level >= amount[r] /\ Commit(r, lv)
  BY DEF GetImmediate, GetFits
<1>4. lv \in 0..Capacity /\ Capacity - lv \in Nat /\ level \in Nat
  BY <1>2, <1>3 DEF TypeOK
<1>5. /\ getWaiters \in Seq(Getters) /\ IsInjective(getWaiters)
      /\ putWaiters \in Seq(Putters) /\ IsInjective(putWaiters)
  BY DEF TypeOK
<1> HIDE DEF lv
<1>6. Cascade([level |-> lv, gets |-> getWaiters, puts |-> putWaiters, done |-> done]) =
        [level |-> lv + Total(rs), gets |-> <<>>, puts |-> rest, done |-> done \cup rs]
  BY <1>1, <1>3, <1>4, <1>5, CascadeAfterGet
<1>7. /\ rs \subseteq ToSet(putWaiters) \ canceled
      /\ Total(rs) \in 0..Capacity - lv
      /\ rest \in Seq(Putters) /\ IsInjective(rest)
      /\ ToSet(rest) \ canceled = (ToSet(putWaiters) \ canceled) \ rs
      /\ ToSet(rest) \subseteq ToSet(putWaiters)
      /\ rest # <<>> => /\ Head(rest) \in Putters
                        /\ Total(rs) + amount[Head(rest)] > Capacity - lv
  BY <1>1, <1>2, <1>4, <1>5, ServedFacts
<1>8. \A x \in rs : Ahead(putWaiters, x) \subseteq canceled \cup rs
  BY <1>1, <1>2, <1>4, <1>5, ServedInOrder
<1> HIDE DEF n, rs, rest
<1>9. /\ level' = lv + Total(rs) /\ getWaiters' = <<>> /\ putWaiters' = rest
      /\ done' = done \cup rs
      /\ woken' = (woken \cup ((done \cup rs) \ done)) \ {r}
      /\ resolved' = resolved \cup {r}
      /\ UNCHANGED <<initial, amount, requested, registered, canceled, dropped>>
  BY <1>3, <1>6 DEF Commit
<1>10. level' \in 0..Capacity
  BY <1>2, <1>4, <1>7, <1>9
<1>11. rest # <<>> => level' + amount[Head(rest)] > Capacity
  <2> SUFFICES ASSUME rest # <<>> PROVE level' + amount[Head(rest)] > Capacity
    OBVIOUS
  <2>1. amount[Head(rest)] \in Nat
    BY <1>1, <1>2, <1>7 DEF AmountOK
  <2>2. QED
    BY <1>2, <1>4, <1>7, <1>9, <2>1
<1>12. (done \cup rs) \ done = rs \ done
  OBVIOUS
<1>13. ToSet(getWaiters) \subseteq canceled
  BY <1>3 DEF HasLive
<1>14. GetEffect(r, rs)
  BY <1>3, <1>7, <1>8, <1>9, <1>10, <1>11, <1>12, <1>13 DEF GetEffect, lv
<1>15. QED
  BY <1>14

LEMMA PutImmediateEffect ==
  ASSUME TypeOK, NEW r \in Putters, PutImmediate(r)
  PROVE  \E rs : PutEffect(r, rs)
<1> DEFINE lv == level + amount[r]
           n  == Served(getWaiters, lv)
           rs == LivePrefix(getWaiters, n)
           rest == SubSeq(getWaiters, n + 1, Len(getWaiters))
<1>1. AmountOK
  BY TypedAmounts
<1>2. /\ r \in Req /\ amount[r] \in 1..Capacity /\ Capacity \in Nat
      /\ Getters \in SUBSET Req /\ Putters \in SUBSET Req
  BY <1>1, CapacityAssumption DEF Req, AmountOK
<1>3. r \notin registered /\ ~HasLive(putWaiters) /\ lv <= Capacity /\ Commit(r, lv)
  BY DEF PutImmediate, PutFits
<1>4. lv \in 0..Capacity /\ lv \in Nat /\ level \in Nat
  BY <1>2, <1>3 DEF TypeOK
<1>5. /\ getWaiters \in Seq(Getters) /\ IsInjective(getWaiters)
      /\ putWaiters \in Seq(Putters) /\ IsInjective(putWaiters)
  BY DEF TypeOK
<1> HIDE DEF lv
<1>6. Cascade([level |-> lv, gets |-> getWaiters, puts |-> putWaiters, done |-> done]) =
        [level |-> lv - Total(rs), gets |-> rest, puts |-> <<>>, done |-> done \cup rs]
  BY <1>1, <1>3, <1>4, <1>5, CascadeAfterPut
<1>7. /\ rs \subseteq ToSet(getWaiters) \ canceled
      /\ Total(rs) \in 0..lv
      /\ rest \in Seq(Getters) /\ IsInjective(rest)
      /\ ToSet(rest) \ canceled = (ToSet(getWaiters) \ canceled) \ rs
      /\ ToSet(rest) \subseteq ToSet(getWaiters)
      /\ rest # <<>> => /\ Head(rest) \in Getters
                        /\ Total(rs) + amount[Head(rest)] > lv
  BY <1>1, <1>2, <1>4, <1>5, ServedFacts
<1>8. \A x \in rs : Ahead(getWaiters, x) \subseteq canceled \cup rs
  BY <1>1, <1>2, <1>4, <1>5, ServedInOrder
<1> HIDE DEF n, rs, rest
<1>9. /\ level' = lv - Total(rs) /\ putWaiters' = <<>> /\ getWaiters' = rest
      /\ done' = done \cup rs
      /\ woken' = (woken \cup ((done \cup rs) \ done)) \ {r}
      /\ resolved' = resolved \cup {r}
      /\ UNCHANGED <<initial, amount, requested, registered, canceled, dropped>>
  BY <1>3, <1>6 DEF Commit
<1>10. level' \in 0..Capacity
  BY <1>2, <1>4, <1>7, <1>9
<1>11. rest # <<>> => amount[Head(rest)] > level'
  <2> SUFFICES ASSUME rest # <<>> PROVE amount[Head(rest)] > level'
    OBVIOUS
  <2>1. amount[Head(rest)] \in Nat
    BY <1>1, <1>2, <1>7 DEF AmountOK
  <2>2. QED
    BY <1>2, <1>4, <1>7, <1>9, <2>1
<1>12. (done \cup rs) \ done = rs \ done
  OBVIOUS
<1>13. ToSet(putWaiters) \subseteq canceled
  BY <1>3 DEF HasLive
<1>14. level' = level + amount[r] - Total(rs)
  BY <1>2, <1>4, <1>7, <1>9 DEF lv
<1>15. PutEffect(r, rs)
  <2>1. woken' = (woken \cup (rs \ done)) \ {r}
    BY <1>9, <1>12
  <2>2. QED
    BY <1>3, <1>7, <1>8, <1>9, <1>10, <1>11, <1>13, <1>14, <2>1 DEF PutEffect
<1>16. QED
  BY <1>15

-----------------------------------------------------------------------------
(* Each action preserves IInv. *)

LEMMA InitIInv ==
  ASSUME Init
  PROVE  IInv
<1>1. ToSet(<<>>) = {} /\ IsInjective(<<>>)
  BY DEF ToSet, IsInjective
<1>2. TypeOK /\ FlagsCohere /\ QueuesMatchFutures /\ FrontIsBlocked /\ ServedAreWoken
  BY <1>1 DEF Init, TypeOK, FlagsCohere, QueuesMatchFutures, FrontIsBlocked, ServedAreWoken
<1>3. LevelConserved
  <2>1. Committed \cap Putters = {} /\ Committed \cap Getters = {}
    BY DEF Init, Committed
  <2>2. initial \in Nat /\ level = initial
    BY CapacityAssumption DEF Init
  <2>3. level = initial + Total({}) - Total({})
    BY <2>2, TotalEmpty
  <2>4. QED
    BY <2>1, <2>3 DEF LevelConserved
<1>4. QED
  BY <1>2, <1>3 DEF IInv

LEMMA StutterIInv ==
  ASSUME IInv, UNCHANGED vars
  PROVE  IInv'
BY DEF IInv, vars, stateVars, TypeOK, FlagsCohere, LevelConserved, Committed, Total, Units,
  QueuesMatchFutures, FrontIsBlocked, ServedAreWoken

LEMMA RequestIInv ==
  ASSUME IInv, NEW r \in Req, Request(r)
  PROVE  IInv'
BY DEF IInv, Request, stateVars, TypeOK, FlagsCohere, LevelConserved, Committed, Total, Units,
  QueuesMatchFutures, FrontIsBlocked, ServedAreWoken

LEMMA DropIInv ==
  ASSUME IInv, NEW r \in Req, Drop(r)
  PROVE  IInv'
<1>1. TypeOK'
  BY DEF IInv, Drop, stateVars, TypeOK
<1>2. FlagsCohere' /\ ServedAreWoken'
  BY DEF IInv, Drop, stateVars, FlagsCohere, ServedAreWoken
<1>3. LevelConserved'
  BY DEF IInv, Drop, stateVars, LevelConserved, Committed, Total, Units
<1>4. QueuesMatchFutures'
  BY DEF IInv, Drop, stateVars, QueuesMatchFutures
<1>5. FrontIsBlocked'
  BY DEF IInv, Drop, stateVars, FrontIsBlocked
<1>6. QED
  BY <1>1, <1>2, <1>3, <1>4, <1>5 DEF IInv

LEMMA PollDoneIInv ==
  ASSUME IInv, NEW r \in Req, r \in Pollable, PollDone(r)
  PROVE  IInv'
<1>1. TypeOK'
  BY DEF IInv, PollDone, Pollable, TypeOK
<1>2. FlagsCohere' /\ QueuesMatchFutures' /\ FrontIsBlocked'
  BY DEF IInv, PollDone, FlagsCohere, QueuesMatchFutures, FrontIsBlocked
<1>3. ServedAreWoken'
  BY DEF IInv, PollDone, ServedAreWoken
<1>4. LevelConserved'
  <2>1. done \cup (resolved \cup {r}) = done \cup resolved
    BY DEF PollDone
  <2>2. QED
    BY <2>1 DEF IInv, PollDone, LevelConserved, Committed, Total, Units
<1>5. QED
  BY <1>1, <1>2, <1>3, <1>4 DEF IInv

LEMMA GetParkIInv ==
  ASSUME IInv, NEW r \in Getters, r \in Pollable, GetPark(r)
  PROVE  IInv'
<1>1. /\ r \notin registered /\ ~GetFits(r)
      /\ getWaiters' = Append(getWaiters, r)
      /\ registered' = registered \cup {r}
      /\ level' = level /\ putWaiters' = putWaiters /\ done' = done /\ woken' = woken
      /\ initial' = initial /\ amount' = amount /\ requested' = requested
      /\ resolved' = resolved /\ canceled' = canceled /\ dropped' = dropped
  BY DEF GetPark
<1>2. r \in requested /\ r \notin resolved /\ r \notin dropped /\ r \notin Putters /\ r \in Req
  BY RequestsAssumption DEF Pollable, Req
<1>3. TypeOK /\ FlagsCohere /\ LevelConserved /\ QueuesMatchFutures /\ FrontIsBlocked /\ ServedAreWoken
  BY DEF IInv
<1>4. done \cup canceled \subseteq registered /\ getWaiters \in Seq(Getters) /\ IsInjective(getWaiters)
  BY <1>3 DEF TypeOK
<1>5. r \notin ToSet(getWaiters) /\ r \notin done /\ r \notin canceled
  BY <1>1, <1>3, <1>4 DEF FlagsCohere
<1>6. /\ getWaiters' \in Seq(Getters) /\ IsInjective(getWaiters')
      /\ ToSet(getWaiters') = ToSet(getWaiters) \cup {r}
  BY <1>1, <1>4, <1>5, AppendSet
<1>7. TypeOK'
  <2>1. (registered \cup {r}) \cup resolved \cup dropped \subseteq requested
    BY <1>2, <1>3 DEF TypeOK
  <2>2. done \cup canceled \subseteq registered \cup {r}
    BY <1>4
  <2>3. QED
    BY <1>1, <1>3, <1>6, <2>1, <2>2 DEF TypeOK
<1>8. FlagsCohere'
  BY <1>1, <1>2, <1>3, <1>6 DEF FlagsCohere
<1>9. LevelConserved'
  BY <1>1, <1>3 DEF LevelConserved, Committed, Total, Units
<1>10. QueuesMatchFutures'
  <2>1. (ToSet(getWaiters) \cup {r}) \ canceled =
          ((registered \cup {r}) \cap Getters) \ (done \cup dropped)
    BY <1>2, <1>3, <1>5 DEF QueuesMatchFutures
  <2>2. ToSet(putWaiters) \ canceled = ((registered \cup {r}) \cap Putters) \ (done \cup dropped)
    BY <1>2, <1>3 DEF QueuesMatchFutures
  <2>3. QED
    BY <1>1, <1>6, <2>1, <2>2 DEF QueuesMatchFutures
<1>11. FrontIsBlocked'
  <2>1. CASE getWaiters = <<>>
    <3>1. ~HasLive(<<>>)
      BY DEF HasLive, ToSet
    <3>2. amount[r] > level
      <4>1. ~(level >= amount[r])
        BY <1>1, <2>1, <3>1 DEF GetFits
      <4>2. level \in Nat /\ amount[r] \in Nat
        BY <1>2, <1>3, TypedAmounts, CapacityAssumption DEF TypeOK, AmountOK
      <4>3. QED
        BY <4>1, <4>2
    <3>3. Head(getWaiters') = r
      BY <1>1, <2>1
    <3>4. QED
      BY <1>1, <1>3, <3>2, <3>3 DEF FrontIsBlocked
  <2>2. CASE getWaiters # <<>>
    <3>1. Head(getWaiters') = Head(getWaiters)
      BY <1>1, <1>4, <2>2
    <3>2. QED
      BY <1>1, <1>3, <2>2, <3>1 DEF FrontIsBlocked
  <2>3. QED
    BY <2>1, <2>2
<1>12. ServedAreWoken'
  BY <1>1, <1>3 DEF ServedAreWoken
<1>13. QED
  BY <1>7, <1>8, <1>9, <1>10, <1>11, <1>12 DEF IInv

LEMMA PutParkIInv ==
  ASSUME IInv, NEW r \in Putters, r \in Pollable, PutPark(r)
  PROVE  IInv'
<1>1. /\ r \notin registered /\ ~PutFits(r)
      /\ putWaiters' = Append(putWaiters, r)
      /\ registered' = registered \cup {r}
      /\ level' = level /\ getWaiters' = getWaiters /\ done' = done /\ woken' = woken
      /\ initial' = initial /\ amount' = amount /\ requested' = requested
      /\ resolved' = resolved /\ canceled' = canceled /\ dropped' = dropped
  BY DEF PutPark
<1>2. r \in requested /\ r \notin resolved /\ r \notin dropped /\ r \notin Getters /\ r \in Req
  BY RequestsAssumption DEF Pollable, Req
<1>3. TypeOK /\ FlagsCohere /\ LevelConserved /\ QueuesMatchFutures /\ FrontIsBlocked /\ ServedAreWoken
  BY DEF IInv
<1>4. done \cup canceled \subseteq registered /\ putWaiters \in Seq(Putters) /\ IsInjective(putWaiters)
  BY <1>3 DEF TypeOK
<1>5. r \notin ToSet(putWaiters) /\ r \notin done /\ r \notin canceled
  BY <1>1, <1>3, <1>4 DEF FlagsCohere
<1>6. /\ putWaiters' \in Seq(Putters) /\ IsInjective(putWaiters')
      /\ ToSet(putWaiters') = ToSet(putWaiters) \cup {r}
  BY <1>1, <1>4, <1>5, AppendSet
<1>7. TypeOK'
  <2>1. (registered \cup {r}) \cup resolved \cup dropped \subseteq requested
    BY <1>2, <1>3 DEF TypeOK
  <2>2. done \cup canceled \subseteq registered \cup {r}
    BY <1>4
  <2>3. QED
    BY <1>1, <1>3, <1>6, <2>1, <2>2 DEF TypeOK
<1>8. FlagsCohere'
  BY <1>1, <1>2, <1>3, <1>6 DEF FlagsCohere
<1>9. LevelConserved'
  BY <1>1, <1>3 DEF LevelConserved, Committed, Total, Units
<1>10. QueuesMatchFutures'
  <2>1. (ToSet(putWaiters) \cup {r}) \ canceled =
          ((registered \cup {r}) \cap Putters) \ (done \cup dropped)
    BY <1>2, <1>3, <1>5 DEF QueuesMatchFutures
  <2>2. ToSet(getWaiters) \ canceled = ((registered \cup {r}) \cap Getters) \ (done \cup dropped)
    BY <1>2, <1>3 DEF QueuesMatchFutures
  <2>3. QED
    BY <1>1, <1>6, <2>1, <2>2 DEF QueuesMatchFutures
<1>11. FrontIsBlocked'
  <2>1. CASE putWaiters = <<>>
    <3>1. ~HasLive(<<>>)
      BY DEF HasLive, ToSet
    <3>2. level + amount[r] > Capacity
      <4>1. ~(level + amount[r] <= Capacity)
        BY <1>1, <2>1, <3>1 DEF PutFits
      <4>2. Capacity \in Nat /\ level \in Nat /\ amount[r] \in Nat
        BY <1>2, <1>3, TypedAmounts, CapacityAssumption DEF TypeOK, AmountOK
      <4>3. QED
        BY <4>1, <4>2
    <3>3. Head(putWaiters') = r
      BY <1>1, <2>1
    <3>4. QED
      BY <1>1, <1>3, <3>2, <3>3 DEF FrontIsBlocked
  <2>2. CASE putWaiters # <<>>
    <3>1. Head(putWaiters') = Head(putWaiters)
      BY <1>1, <1>4, <2>2
    <3>2. QED
      BY <1>1, <1>3, <2>2, <3>1 DEF FrontIsBlocked
  <2>3. QED
    BY <2>1, <2>2
<1>12. ServedAreWoken'
  BY <1>1, <1>3 DEF ServedAreWoken
<1>13. QED
  BY <1>7, <1>8, <1>9, <1>10, <1>11, <1>12 DEF IInv

LEMMA GetImmediateIInv ==
  ASSUME IInv, NEW r \in Getters, r \in Pollable, GetImmediate(r)
  PROVE  IInv'
<1>1. PICK rs : GetEffect(r, rs)
  BY GetImmediateEffect DEF IInv
<1>2. /\ rs \subseteq ToSet(putWaiters) \ canceled
      /\ ToSet(getWaiters) \subseteq canceled
      /\ level' = level - amount[r] + Total(rs) /\ level' \in 0..Capacity
      /\ getWaiters' = <<>>
      /\ putWaiters' \in Seq(Putters) /\ IsInjective(putWaiters')
      /\ ToSet(putWaiters') \subseteq ToSet(putWaiters)
      /\ ToSet(putWaiters') \ canceled = (ToSet(putWaiters) \ canceled) \ rs
      /\ putWaiters' # <<>> => level' + amount[Head(putWaiters')] > Capacity
      /\ done' = done \cup rs
      /\ woken' = (woken \cup (rs \ done)) \ {r}
      /\ resolved' = resolved \cup {r}
      /\ r \notin registered
      /\ initial' = initial /\ amount' = amount /\ requested' = requested
      /\ registered' = registered /\ canceled' = canceled /\ dropped' = dropped
  BY <1>1 DEF GetEffect
<1>3. r \in requested /\ r \notin resolved /\ r \notin Putters /\ r \in Req
  BY RequestsAssumption DEF Pollable, Req
<1>4. TypeOK /\ FlagsCohere /\ QueuesMatchFutures /\ ServedAreWoken
  BY DEF IInv
<1>5. /\ registered \cup resolved \cup dropped \subseteq requested /\ requested \subseteq Req
      /\ done \cup canceled \subseteq registered /\ woken \subseteq done
      /\ initial \in 0..Capacity /\ amount \in [Req -> Amounts] /\ level \in 0..Capacity
  BY <1>4 DEF TypeOK
<1>6. rs \subseteq registered /\ rs \subseteq Putters /\ rs \cap done = {} /\ rs \cap dropped = {}
  BY <1>2, <1>4 DEF FlagsCohere, QueuesMatchFutures
<1>7. rs \cap resolved = {}
  BY <1>4, <1>6 DEF FlagsCohere
<1>8. ToSet(<<>>) = {} /\ <<>> \in Seq(Getters) /\ IsInjective(<<>>)
  BY DEF ToSet, IsInjective
<1>9. TypeOK'
  <2>1. registered \cup (resolved \cup {r}) \cup dropped \subseteq requested
    BY <1>3, <1>5
  <2>2. (done \cup rs) \cup canceled \subseteq registered
    BY <1>5, <1>6
  <2>3. (woken \cup (rs \ done)) \ {r} \subseteq done \cup rs
    BY <1>5
  <2>4. QED
    BY <1>2, <1>5, <1>8, <2>1, <2>2, <2>3 DEF TypeOK
<1>10. FlagsCohere'
  <2>1. {} \cup ToSet(putWaiters') \subseteq registered
    BY <1>2, <1>4 DEF FlagsCohere
  <2>2. registered \cap (resolved \cup {r}) \subseteq done \cup rs
    BY <1>2, <1>4 DEF FlagsCohere
  <2>3. QED
    BY <1>2, <1>8, <2>1, <2>2 DEF FlagsCohere
<1>11. LevelConserved'
  <2> DEFINE other    == Committed \cap Putters
             own      == Committed \cap Getters
             otherNow == ((done \cup rs) \cup (resolved \cup {r})) \cap Putters
             ownNow   == ((done \cup rs) \cup (resolved \cup {r})) \cap Getters
  <2>1. LevelConserved' <=> level' = initial + Total(otherNow) - Total(ownNow)
    BY <1>2 DEF LevelConserved, Committed, Total, Units
  <2>2. otherNow = other \cup rs /\ other \cap rs = {} /\ rs \in SUBSET Req /\ other \in SUBSET Req
    BY <1>3, <1>6, <1>7 DEF Committed, Req
  <2>3. ownNow = own \cup {r} /\ own \cap {r} = {} /\ {r} \in SUBSET Req /\ own \in SUBSET Req
    BY <1>2, <1>3, <1>5, <1>6, RequestsAssumption DEF Committed, Req
  <2>4. level = initial + Total(other) - Total(own)
    BY DEF IInv, LevelConserved
  <2> HIDE DEF other, own, otherNow, ownNow
  <2>5. Total(otherNow) = Total(other) + Total(rs) /\ Total(other) \in Nat /\ Total(rs) \in Nat
    BY <2>2, TotalAdds, UnitsFinite
  <2>6. Total(ownNow) = Total(own) + Total({r}) /\ Total(own) \in Nat
    BY <2>3, TotalAdds, UnitsFinite
  <2>7. Total({r}) = amount[r] /\ amount[r] \in 1..Capacity
    BY <1>3, <1>4, TypedAmounts, TotalOne DEF AmountOK
  <2>8. level' = initial + Total(otherNow) - Total(ownNow)
    <3>1. Capacity \in Nat /\ initial \in Nat /\ level \in Nat /\ amount[r] \in Nat
      BY <1>5, <2>7, CapacityAssumption
    <3>2. QED
      BY <1>2, <2>4, <2>5, <2>6, <2>7, <3>1
  <2>9. QED
    BY <2>1, <2>8
<1>12. QueuesMatchFutures'
  <2>1. {} \ canceled = (registered \cap Getters) \ ((done \cup rs) \cup dropped)
    BY <1>2, <1>4 DEF QueuesMatchFutures
  <2>2. ToSet(putWaiters') \ canceled = (registered \cap Putters) \ ((done \cup rs) \cup dropped)
    BY <1>2, <1>4 DEF QueuesMatchFutures
  <2>3. QED
    BY <1>2, <1>8, <2>1, <2>2 DEF QueuesMatchFutures
<1>13. FrontIsBlocked'
  BY <1>2 DEF FrontIsBlocked
<1>14. ServedAreWoken'
  <2>1. (done \cup rs) \ ((resolved \cup {r}) \cup dropped) \subseteq (woken \cup (rs \ done)) \ {r}
    BY <1>4 DEF ServedAreWoken
  <2>2. QED
    BY <1>2, <2>1 DEF ServedAreWoken
<1>15. QED
  BY <1>9, <1>10, <1>11, <1>12, <1>13, <1>14 DEF IInv

LEMMA PutImmediateIInv ==
  ASSUME IInv, NEW r \in Putters, r \in Pollable, PutImmediate(r)
  PROVE  IInv'
<1>1. PICK rs : PutEffect(r, rs)
  BY PutImmediateEffect DEF IInv
<1>2. /\ rs \subseteq ToSet(getWaiters) \ canceled
      /\ ToSet(putWaiters) \subseteq canceled
      /\ level' = level + amount[r] - Total(rs) /\ level' \in 0..Capacity
      /\ putWaiters' = <<>>
      /\ getWaiters' \in Seq(Getters) /\ IsInjective(getWaiters')
      /\ ToSet(getWaiters') \subseteq ToSet(getWaiters)
      /\ ToSet(getWaiters') \ canceled = (ToSet(getWaiters) \ canceled) \ rs
      /\ getWaiters' # <<>> => amount[Head(getWaiters')] > level'
      /\ done' = done \cup rs
      /\ woken' = (woken \cup (rs \ done)) \ {r}
      /\ resolved' = resolved \cup {r}
      /\ r \notin registered
      /\ initial' = initial /\ amount' = amount /\ requested' = requested
      /\ registered' = registered /\ canceled' = canceled /\ dropped' = dropped
  BY <1>1 DEF PutEffect
<1>3. r \in requested /\ r \notin resolved /\ r \notin Getters /\ r \in Req
  BY RequestsAssumption DEF Pollable, Req
<1>4. TypeOK /\ FlagsCohere /\ QueuesMatchFutures /\ ServedAreWoken
  BY DEF IInv
<1>5. /\ registered \cup resolved \cup dropped \subseteq requested /\ requested \subseteq Req
      /\ done \cup canceled \subseteq registered /\ woken \subseteq done
      /\ initial \in 0..Capacity /\ amount \in [Req -> Amounts] /\ level \in 0..Capacity
  BY <1>4 DEF TypeOK
<1>6. rs \subseteq registered /\ rs \subseteq Getters /\ rs \cap done = {} /\ rs \cap dropped = {}
  BY <1>2, <1>4 DEF FlagsCohere, QueuesMatchFutures
<1>7. rs \cap resolved = {}
  BY <1>4, <1>6 DEF FlagsCohere
<1>8. ToSet(<<>>) = {} /\ <<>> \in Seq(Putters) /\ IsInjective(<<>>)
  BY DEF ToSet, IsInjective
<1>9. TypeOK'
  <2>1. registered \cup (resolved \cup {r}) \cup dropped \subseteq requested
    BY <1>3, <1>5
  <2>2. (done \cup rs) \cup canceled \subseteq registered
    BY <1>5, <1>6
  <2>3. (woken \cup (rs \ done)) \ {r} \subseteq done \cup rs
    BY <1>5
  <2>4. QED
    BY <1>2, <1>5, <1>8, <2>1, <2>2, <2>3 DEF TypeOK
<1>10. FlagsCohere'
  <2>1. ToSet(getWaiters') \cup {} \subseteq registered
    BY <1>2, <1>4 DEF FlagsCohere
  <2>2. registered \cap (resolved \cup {r}) \subseteq done \cup rs
    BY <1>2, <1>4 DEF FlagsCohere
  <2>3. QED
    BY <1>2, <1>8, <2>1, <2>2 DEF FlagsCohere
<1>11. LevelConserved'
  <2> DEFINE other    == Committed \cap Getters
             own      == Committed \cap Putters
             otherNow == ((done \cup rs) \cup (resolved \cup {r})) \cap Getters
             ownNow   == ((done \cup rs) \cup (resolved \cup {r})) \cap Putters
  <2>1. LevelConserved' <=> level' = initial + Total(ownNow) - Total(otherNow)
    BY <1>2 DEF LevelConserved, Committed, Total, Units
  <2>2. otherNow = other \cup rs /\ other \cap rs = {} /\ rs \in SUBSET Req /\ other \in SUBSET Req
    BY <1>3, <1>6, <1>7 DEF Committed, Req
  <2>3. ownNow = own \cup {r} /\ own \cap {r} = {} /\ {r} \in SUBSET Req /\ own \in SUBSET Req
    BY <1>2, <1>3, <1>5, <1>6, RequestsAssumption DEF Committed, Req
  <2>4. level = initial + Total(own) - Total(other)
    BY DEF IInv, LevelConserved
  <2> HIDE DEF other, own, otherNow, ownNow
  <2>5. Total(otherNow) = Total(other) + Total(rs) /\ Total(other) \in Nat /\ Total(rs) \in Nat
    BY <2>2, TotalAdds, UnitsFinite
  <2>6. Total(ownNow) = Total(own) + Total({r}) /\ Total(own) \in Nat
    BY <2>3, TotalAdds, UnitsFinite
  <2>7. Total({r}) = amount[r] /\ amount[r] \in 1..Capacity
    BY <1>3, <1>4, TypedAmounts, TotalOne DEF AmountOK
  <2>8. level' = initial + Total(ownNow) - Total(otherNow)
    <3>1. Capacity \in Nat /\ initial \in Nat /\ level \in Nat /\ amount[r] \in Nat
      BY <1>5, <2>7, CapacityAssumption
    <3>2. QED
      BY <1>2, <2>4, <2>5, <2>6, <2>7, <3>1
  <2>9. QED
    BY <2>1, <2>8
<1>12. QueuesMatchFutures'
  <2>1. {} \ canceled = (registered \cap Putters) \ ((done \cup rs) \cup dropped)
    BY <1>2, <1>4 DEF QueuesMatchFutures
  <2>2. ToSet(getWaiters') \ canceled = (registered \cap Getters) \ ((done \cup rs) \cup dropped)
    BY <1>2, <1>4 DEF QueuesMatchFutures
  <2>3. QED
    BY <1>2, <1>8, <2>1, <2>2 DEF QueuesMatchFutures
<1>13. FrontIsBlocked'
  BY <1>2 DEF FrontIsBlocked
<1>14. ServedAreWoken'
  <2>1. (done \cup rs) \ ((resolved \cup {r}) \cup dropped) \subseteq (woken \cup (rs \ done)) \ {r}
    BY <1>4 DEF ServedAreWoken
  <2>2. QED
    BY <1>2, <2>1 DEF ServedAreWoken
<1>15. QED
  BY <1>9, <1>10, <1>11, <1>12, <1>13, <1>14 DEF IInv

LEMMA NextIInv ==
  ASSUME IInv, [Next]_vars
  PROVE  IInv'
<1>1. ASSUME NEW r \in Req, Request(r) \/ Drop(r) PROVE IInv'
  BY <1>1, RequestIInv, DropIInv
<1>2. ASSUME NEW r \in Getters, PollGet(r) PROVE IInv'
  <2>1. r \in Pollable /\ r \in Req
    BY <1>2 DEF PollGet, Req
  <2>2. CASE PollDone(r)
    BY <2>1, <2>2, PollDoneIInv
  <2>3. CASE PollPending(r)
    BY <2>3, StutterIInv DEF PollPending
  <2>4. CASE GetImmediate(r)
    BY <2>1, <2>4, GetImmediateIInv
  <2>5. CASE GetPark(r)
    BY <2>1, <2>5, GetParkIInv
  <2>6. QED
    BY <1>2, <2>2, <2>3, <2>4, <2>5 DEF PollGet
<1>3. ASSUME NEW r \in Putters, PollPut(r) PROVE IInv'
  <2>1. r \in Pollable /\ r \in Req
    BY <1>3 DEF PollPut, Req
  <2>2. CASE PollDone(r)
    BY <2>1, <2>2, PollDoneIInv
  <2>3. CASE PollPending(r)
    BY <2>3, StutterIInv DEF PollPending
  <2>4. CASE PutImmediate(r)
    BY <2>1, <2>4, PutImmediateIInv
  <2>5. CASE PutPark(r)
    BY <2>1, <2>5, PutParkIInv
  <2>6. QED
    BY <1>3, <2>2, <2>3, <2>4, <2>5 DEF PollPut
<1>4. CASE UNCHANGED vars
  BY <1>4, StutterIInv
<1>5. QED
  BY <1>1, <1>2, <1>3, <1>4 DEF Next

-----------------------------------------------------------------------------
(* Steps: who is served, and past whom. *)

LEMMA AheadInQueue ==
  ASSUME NEW S, NEW q \in Seq(S), NEW r
  PROVE  Ahead(q, r) \subseteq ToSet(q)
<1>1. DOMAIN q = 1..Len(q)
  OBVIOUS
<1>2. QED
  BY <1>1 DEF Ahead, ToSet

\* The actions that commit nobody.
LEMMA Quiet ==
  ASSUME NEW r \in Req,
         \/ Request(r) \/ Drop(r) \/ PollDone(r) \/ PollPending(r) \/ GetPark(r) \/ PutPark(r)
         \/ UNCHANGED vars
  PROVE  Committed' = Committed /\ done' = done
BY DEF Request, Drop, PollDone, PollPending, GetPark, PutPark, vars, stateVars, Committed

LEMMA GetImmediateInLine ==
  ASSUME IInv, NEW r \in Getters, r \in Pollable, GetImmediate(r), NEW x \in Committed' \ Committed
  PROVE  /\ x \in Getters => Ahead(getWaiters, x) \subseteq canceled \cup Committed'
         /\ x \in Putters => Ahead(putWaiters, x) \subseteq canceled \cup Committed'
<1>1. PICK rs : GetEffect(r, rs)
  BY GetImmediateEffect DEF IInv
<1>2. /\ rs \subseteq ToSet(putWaiters) /\ ToSet(getWaiters) \subseteq canceled
      /\ Committed' = Committed \cup rs \cup {r}
      /\ \A y \in rs : Ahead(putWaiters, y) \subseteq canceled \cup rs
  BY <1>1 DEF GetEffect, Committed
<1>3. getWaiters \in Seq(Getters) /\ putWaiters \in Seq(Putters)
  BY DEF IInv, TypeOK
<1>4. rs \subseteq Putters
  BY <1>2, <1>3 DEF ToSet
<1>5. x \in Getters => Ahead(getWaiters, x) \subseteq canceled
  BY <1>2, <1>3, AheadInQueue
<1>6. x \in Putters => x \in rs
  BY <1>2, RequestsAssumption
<1>7. QED
  BY <1>2, <1>5, <1>6

LEMMA PutImmediateInLine ==
  ASSUME IInv, NEW r \in Putters, r \in Pollable, PutImmediate(r), NEW x \in Committed' \ Committed
  PROVE  /\ x \in Getters => Ahead(getWaiters, x) \subseteq canceled \cup Committed'
         /\ x \in Putters => Ahead(putWaiters, x) \subseteq canceled \cup Committed'
<1>1. PICK rs : PutEffect(r, rs)
  BY PutImmediateEffect DEF IInv
<1>2. /\ rs \subseteq ToSet(getWaiters) /\ ToSet(putWaiters) \subseteq canceled
      /\ Committed' = Committed \cup rs \cup {r}
      /\ \A y \in rs : Ahead(getWaiters, y) \subseteq canceled \cup rs
  BY <1>1 DEF PutEffect, Committed
<1>3. getWaiters \in Seq(Getters) /\ putWaiters \in Seq(Putters)
  BY DEF IInv, TypeOK
<1>4. x \in Putters => Ahead(putWaiters, x) \subseteq canceled
  BY <1>2, <1>3, AheadInQueue
<1>5. x \in Getters => x \in rs
  BY <1>2, RequestsAssumption
<1>6. QED
  BY <1>2, <1>4, <1>5

LEMMA NextInLine ==
  ASSUME IInv, [Next]_vars, NEW x \in Committed' \ Committed
  PROVE  /\ x \in Getters => Ahead(getWaiters, x) \subseteq canceled \cup Committed'
         /\ x \in Putters => Ahead(putWaiters, x) \subseteq canceled \cup Committed'
<1>1. \A r \in Req : ~Request(r) /\ ~Drop(r) /\ ~PollDone(r) /\ ~PollPending(r)
  BY Quiet
<1>2. \A r \in Getters : ~GetPark(r)
  BY Quiet DEF Req
<1>3. \A r \in Putters : ~PutPark(r)
  BY Quiet DEF Req
<1>4. ~UNCHANGED vars
  BY DEF vars, stateVars, Committed
<1>5. CASE \E r \in Getters : r \in Pollable /\ GetImmediate(r)
  BY <1>5, GetImmediateInLine
<1>6. CASE \E r \in Putters : r \in Pollable /\ PutImmediate(r)
  BY <1>6, PutImmediateInLine
<1>7. QED
  BY <1>1, <1>2, <1>3, <1>4, <1>5, <1>6 DEF Next, PollGet, PollPut, Req

\* Of one kind are those a step commits without their own poll.
LEMMA NextServesOneQueue ==
  ASSUME IInv, [Next]_vars
  PROVE  (done' \ done) \cap Getters = {} \/ (done' \ done) \cap Putters = {}
<1>1. CASE done' = done
  BY <1>1
<1>2. ASSUME NEW r \in Getters, GetImmediate(r) PROVE (done' \ done) \cap Getters = {}
  <2>1. PICK rs : GetEffect(r, rs)
    BY <1>2, GetImmediateEffect DEF IInv
  <2>2. rs \subseteq ToSet(putWaiters) /\ done' = done \cup rs
    BY <2>1 DEF GetEffect
  <2>3. rs \subseteq Putters
    BY <2>2 DEF IInv, TypeOK, ToSet
  <2>4. QED
    BY <2>2, <2>3, RequestsAssumption
<1>3. ASSUME NEW r \in Putters, PutImmediate(r) PROVE (done' \ done) \cap Putters = {}
  <2>1. PICK rs : PutEffect(r, rs)
    BY <1>3, PutImmediateEffect DEF IInv
  <2>2. rs \subseteq ToSet(getWaiters) /\ done' = done \cup rs
    BY <2>1 DEF PutEffect
  <2>3. rs \subseteq Getters
    BY <2>2 DEF IInv, TypeOK, ToSet
  <2>4. QED
    BY <2>2, <2>3, RequestsAssumption
<1>4. CASE done' # done
  <2>1. \A r \in Req : ~Request(r) /\ ~Drop(r) /\ ~PollDone(r) /\ ~PollPending(r)
    BY <1>4, Quiet
  <2>2. \A r \in Getters : ~GetPark(r)
    BY <1>4, Quiet DEF Req
  <2>3. \A r \in Putters : ~PutPark(r)
    BY <1>4, Quiet DEF Req
  <2>4. ~UNCHANGED vars
    BY <1>4 DEF vars, stateVars
  <2>5. QED
    BY <1>2, <1>3, <2>1, <2>2, <2>3, <2>4 DEF Next, PollGet, PollPut, Req
<1>5. QED
  BY <1>1, <1>4

-----------------------------------------------------------------------------
(* The theorems. *)

\* IInv holds of every state the container reaches.
THEOREM ContainerInductive == Spec => []IInv
<1>1. Init => IInv
  BY InitIInv
<1>2. IInv /\ [Next]_vars => IInv'
  BY NextIInv
<1>3. QED
  BY <1>1, <1>2, PTL DEF Spec

\* The level stays between 0 and the capacity, whatever the cascade moves.
THEOREM ContainerTypeCorrect == Spec => []TypeOK
<1>1. IInv => TypeOK
  BY DEF IInv
<1>2. QED
  BY <1>1, ContainerInductive, PTL

\* Nothing is made or lost: the level is what was put in less what was taken
\* out, each committed future counted once.
THEOREM ContainerConserves == Spec => []LevelConserved
<1>1. IInv => LevelConserved
  BY DEF IInv
<1>2. QED
  BY <1>1, ContainerInductive, PTL

\* The live entries of the two queues are exactly the futures that parked and
\* were neither served nor dropped since.
THEOREM ContainerQueuesCorrect == Spec => []QueuesMatchFutures
<1>1. IInv => QueuesMatchFutures
  BY DEF IInv
<1>2. QED
  BY <1>1, ContainerInductive, PTL

\* A live future at the front of its queue cannot be served at the current
\* level: the one pass of the cascade has gone as far as any number would.
THEOREM ContainerFrontIsBlocked == Spec => []FrontIsBlocked
<1>1. IInv => FrontIsBlocked
  BY DEF IInv
<1>2. QED
  BY <1>1, ContainerInductive, PTL

\* A future the cascade committed was woken and stays so until it is polled.
THEOREM ContainerWakes == Spec => []ServedAreWoken
<1>1. IInv => ServedAreWoken
  BY DEF IInv
<1>2. QED
  BY <1>1, ContainerInductive, PTL

\* Nobody slips past a live waiter of its own kind.
THEOREM ContainerHeadOfLine == Spec => HeadOfLine
<1> DEFINE A == \A r \in Committed' \ Committed :
                  /\ r \in Getters => Ahead(getWaiters, r) \subseteq canceled \cup Committed'
                  /\ r \in Putters => Ahead(putWaiters, r) \subseteq canceled \cup Committed'
<1>1. IInv /\ [Next]_vars => [A]_vars
  BY NextInLine
<1>2. QED
  BY <1>1, ContainerInductive, PTL DEF Spec, HeadOfLine

\* A level change serves one of the two queues only.
THEOREM ContainerServesOneQueue == Spec => CascadeServesOneQueue
<1> DEFINE A == (done' \ done) \cap Getters = {} \/ (done' \ done) \cap Putters = {}
<1>1. IInv /\ [Next]_vars => [A]_vars
  BY NextServesOneQueue
<1>2. QED
  BY <1>1, ContainerInductive, PTL DEF Spec, CascadeServesOneQueue

=============================================================================

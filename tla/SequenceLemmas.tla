---------------------------- MODULE SequenceLemmas ----------------------------
(***************************************************************************)
(* Facts about the sequence operators of the models (queues, holder        *)
(* records, the line of the abstract pool) that several proofs cite.       *)
(***************************************************************************)
EXTENDS Integers, SequencesExt, SequenceTheorems, FiniteSetTheorems, NaturalsInduction, TLAPS

-----------------------------------------------------------------------------
(* Inserting and removing one element. *)

\* What RemoveAt returns, element by element.
LEMMA RemoveAtElements ==
  ASSUME NEW S, NEW s \in Seq(S), NEW i \in 1..Len(s)
  PROVE  /\ RemoveAt(s, i) \in Seq(S)
         /\ Len(RemoveAt(s, i)) = Len(s) - 1
         /\ \A j \in 1..Len(s) - 1 : RemoveAt(s, i)[j] = IF j < i THEN s[j] ELSE s[j + 1]
<1> DEFINE front == SubSeq(s, 1, i - 1)
           back  == SubSeq(s, i + 1, Len(s))
<1>1. Len(s) \in Nat /\ i \in Nat /\ i >= 1 /\ i <= Len(s)
  OBVIOUS
<1>2. front \in Seq(S) /\ Len(front) = i - 1 /\ \A j \in 1..i - 1 : front[j] = s[j]
  BY <1>1
<1>3. back \in Seq(S) /\ Len(back) = Len(s) - i /\ \A j \in 1..Len(s) - i : back[j] = s[i + j]
  BY <1>1
<1>4. RemoveAt(s, i) = front \o back
  BY DEF RemoveAt
<1> HIDE DEF front, back
<1>5. /\ front \o back \in Seq(S) /\ Len(front \o back) = Len(front) + Len(back)
      /\ \A j \in 1..Len(front) + Len(back) :
           (front \o back)[j] = IF j <= Len(front) THEN front[j] ELSE back[j - Len(front)]
  BY <1>2, <1>3, ConcatProperties
<1>6. ASSUME NEW j \in 1..Len(s) - 1
      PROVE  (front \o back)[j] = IF j < i THEN s[j] ELSE s[j + 1]
  <2>1. CASE j < i
    <3>1. j \in 1..i - 1 /\ j <= Len(front) /\ j \in 1..Len(front) + Len(back)
      BY <1>1, <1>2, <1>3, <2>1
    <3>2. (front \o back)[j] = front[j]
      BY <1>5, <3>1
    <3>3. QED
      BY <1>2, <2>1, <3>1, <3>2
  <2>2. CASE j >= i
    <3>1. (front \o back)[j] = back[j - (i - 1)]
      BY <1>1, <1>2, <1>3, <1>5, <2>2
    <3>2. j - (i - 1) \in 1..Len(s) - i /\ i + (j - (i - 1)) = j + 1
      BY <1>1, <2>2
    <3>3. QED
      BY <1>1, <1>3, <2>2, <3>1, <3>2
  <2>3. j < i \/ j >= i
    BY <1>1
  <2>4. QED
    BY <2>1, <2>2, <2>3
<1>7. Len(front) + Len(back) = Len(s) - 1
  BY <1>1, <1>2, <1>3
<1>8. QED
  BY <1>4, <1>5, <1>6, <1>7

\* What InsertAt returns, element by element.
LEMMA InsertAtElements ==
  ASSUME NEW S, NEW s \in Seq(S), NEW i \in 1..Len(s) + 1, NEW e \in S
  PROVE  /\ InsertAt(s, i, e) \in Seq(S)
         /\ Len(InsertAt(s, i, e)) = Len(s) + 1
         /\ \A j \in 1..Len(s) + 1 : InsertAt(s, i, e)[j] =
              IF j < i THEN s[j] ELSE IF j = i THEN e ELSE s[j - 1]
<1> DEFINE front == SubSeq(s, 1, i - 1)
           back  == SubSeq(s, i, Len(s))
<1>1. Len(s) \in Nat /\ i \in Nat /\ i >= 1 /\ i <= Len(s) + 1
  OBVIOUS
<1>2. front \in Seq(S) /\ Len(front) = i - 1 /\ \A j \in 1..i - 1 : front[j] = s[j]
  BY <1>1
<1>3. /\ back \in Seq(S) /\ Len(back) = Len(s) - i + 1
      /\ \A j \in 1..Len(s) - i + 1 : back[j] = s[i + j - 1]
  BY <1>1
<1>4. InsertAt(s, i, e) = (front \o <<e>>) \o back
  BY DEF InsertAt
<1> HIDE DEF front, back
<1>5. /\ front \o <<e>> \in Seq(S) /\ Len(front \o <<e>>) = i
      /\ \A j \in 1..i : (front \o <<e>>)[j] = IF j <= i - 1 THEN s[j] ELSE e
  <2>1. /\ front \o <<e>> \in Seq(S) /\ Len(front \o <<e>>) = Len(front) + Len(<<e>>)
        /\ \A j \in 1..Len(front) + Len(<<e>>) :
             (front \o <<e>>)[j] = IF j <= Len(front) THEN front[j] ELSE <<e>>[j - Len(front)]
    BY <1>2, ConcatProperties
  <2>2. Len(<<e>>) = 1 /\ <<e>>[1] = e
    OBVIOUS
  <2>3. QED
    BY <1>1, <1>2, <2>1, <2>2
<1> DEFINE pre == front \o <<e>>
<1> HIDE DEF pre
<1>6. /\ pre \in Seq(S) /\ Len(pre) = i
      /\ \A j \in 1..i : pre[j] = IF j <= i - 1 THEN s[j] ELSE e
  BY <1>5 DEF pre
<1>7. /\ pre \o back \in Seq(S) /\ Len(pre \o back) = Len(pre) + Len(back)
      /\ \A j \in 1..Len(pre) + Len(back) :
           (pre \o back)[j] = IF j <= Len(pre) THEN pre[j] ELSE back[j - Len(pre)]
  BY <1>3, <1>6, ConcatProperties
<1>8. ASSUME NEW j \in 1..Len(s) + 1
      PROVE  (pre \o back)[j] = IF j < i THEN s[j] ELSE IF j = i THEN e ELSE s[j - 1]
  <2>1. CASE j <= i
    BY <1>1, <1>3, <1>6, <1>7, <2>1
  <2>2. CASE j > i
    <3>1. (pre \o back)[j] = back[j - i]
      BY <1>1, <1>3, <1>6, <1>7, <2>2
    <3>2. j - i \in 1..Len(s) - i + 1 /\ i + (j - i) - 1 = j - 1
      BY <1>1, <2>2
    <3>3. back[j - i] = s[i + (j - i) - 1]
      BY <1>3, <3>2
    <3>4. QED
      BY <1>1, <2>2, <3>1, <3>2, <3>3
  <2>3. j <= i \/ j > i
    BY <1>1
  <2>4. QED
    BY <2>1, <2>2, <2>3
<1>9. Len(pre) + Len(back) = Len(s) + 1
  BY <1>1, <1>3, <1>6
<1>10. QED
  BY <1>4, <1>7, <1>8, <1>9 DEF pre

\* A sequence with those elements is that sequence.
LEMMA InsertAtEqual ==
  ASSUME NEW S, NEW s \in Seq(S), NEW t \in Seq(S), NEW i \in 1..Len(s) + 1, NEW e \in S,
         Len(t) = Len(s) + 1,
         \A j \in 1..Len(s) + 1 : t[j] = IF j < i THEN s[j] ELSE IF j = i THEN e ELSE s[j - 1]
  PROVE  t = InsertAt(s, i, e)
<1> DEFINE u == InsertAt(s, i, e)
<1>1. /\ u \in Seq(S) /\ Len(u) = Len(s) + 1
      /\ \A j \in 1..Len(s) + 1 : u[j] = IF j < i THEN s[j] ELSE IF j = i THEN e ELSE s[j - 1]
  BY InsertAtElements
<1> HIDE DEF u
<1>2. \A j \in 1..Len(t) : t[j] = u[j]
  BY <1>1
<1>3. QED
  BY <1>1, <1>2, SeqEqual DEF u

\* One element leaves a sequence without repetitions.
LEMMA RemoveAtSet ==
  ASSUME NEW S, NEW s \in Seq(S), IsInjective(s), NEW i \in 1..Len(s)
  PROVE  /\ RemoveAt(s, i) \in Seq(S)
         /\ IsInjective(RemoveAt(s, i))
         /\ ToSet(RemoveAt(s, i)) = ToSet(s) \ {s[i]}
<1> DEFINE t == RemoveAt(s, i)
<1>1. /\ t \in Seq(S) /\ Len(t) = Len(s) - 1
      /\ \A j \in 1..Len(s) - 1 : t[j] = IF j < i THEN s[j] ELSE s[j + 1]
  BY RemoveAtElements
<1> HIDE DEF t
<1>2. Len(s) \in Nat /\ DOMAIN s = 1..Len(s) /\ DOMAIN t = 1..Len(s) - 1
  BY <1>1
<1>3. IsInjective(t)
  <2> SUFFICES ASSUME NEW a \in 1..Len(s) - 1, NEW b \in 1..Len(s) - 1, t[a] = t[b]
               PROVE  a = b
    BY <1>2 DEF IsInjective
  <2> DEFINE up(j) == IF j < i THEN j ELSE j + 1
  <2>1. t[a] = s[up(a)] /\ t[b] = s[up(b)] /\ up(a) \in 1..Len(s) /\ up(b) \in 1..Len(s)
    BY <1>1, <1>2
  <2>2. up(a) = up(b)
    BY <2>1, <1>2 DEF IsInjective
  <2>3. QED
    BY <2>2, <1>2
<1>4. ASSUME NEW x \in ToSet(t) PROVE x \in ToSet(s) \ {s[i]}
  <2>1. PICK a \in 1..Len(s) - 1 : x = t[a]
    BY <1>2 DEF ToSet
  <2>2. CASE a < i
    BY <1>1, <1>2, <2>1, <2>2 DEF ToSet, IsInjective
  <2>3. CASE a >= i
    <3>1. x = s[a + 1] /\ a + 1 \in 1..Len(s) /\ a + 1 # i
      BY <1>1, <1>2, <2>1, <2>3
    <3>2. QED
      BY <1>2, <3>1 DEF ToSet, IsInjective
  <2>4. QED
    BY <1>2, <2>2, <2>3
<1>5. ASSUME NEW x \in ToSet(s) \ {s[i]} PROVE x \in ToSet(t)
  <2>1. PICK a \in 1..Len(s) : x = s[a] /\ a # i
    BY <1>2 DEF ToSet
  <2>2. CASE a < i
    <3>1. a \in 1..Len(s) - 1 /\ t[a] = x
      BY <1>1, <1>2, <2>1, <2>2
    <3>2. QED
      BY <1>2, <3>1 DEF ToSet
  <2>3. CASE a > i
    <3>1. a - 1 \in 1..Len(s) - 1 /\ ~(a - 1 < i) /\ (a - 1) + 1 = a
      BY <1>2, <2>1, <2>3
    <3>2. t[a - 1] = x
      BY <1>1, <2>1, <3>1
    <3>3. QED
      BY <1>2, <3>1, <3>2 DEF ToSet
  <2>4. QED
    BY <1>2, <2>1, <2>2, <2>3
<1>6. QED
  BY <1>1, <1>3, <1>4, <1>5 DEF t

\* RemoveFirst does the same by value, and nothing when the value is absent.
LEMMA RemoveFirstSet ==
  ASSUME NEW S, NEW s \in Seq(S), IsInjective(s), NEW r
  PROVE  /\ RemoveFirst(s, r) \in Seq(S)
         /\ IsInjective(RemoveFirst(s, r))
         /\ ToSet(RemoveFirst(s, r)) = ToSet(s) \ {r}
<1>1. DOMAIN s = 1..Len(s) /\ Len(s) \in Nat
  OBVIOUS
<1>2. CASE r \notin ToSet(s)
  <2>1. RemoveFirst(s, r) = s
    BY <1>1, <1>2 DEF RemoveFirst, ToSet
  <2>2. QED
    BY <1>2, <2>1
<1>3. CASE r \in ToSet(s)
  <2>1. PICK i \in 1..Len(s) : s[i] = r
    BY <1>1, <1>3 DEF ToSet
  <2>2. {j \in 1..Len(s) : s[j] = r} = {i}
    BY <1>1, <2>1 DEF IsInjective
  <2>3. Min({i}) = i
    BY <2>1 DEF Min
  <2>4. SelectInSeq(s, LAMBDA v : v = r) = i
    BY <2>2, <2>3 DEF SelectInSeq
  <2>5. RemoveFirst(s, r) = RemoveAt(s, i)
    BY <2>1, <2>4 DEF RemoveFirst
  <2>6. QED
    BY <2>1, <2>5, RemoveAtSet
<1>4. QED
  BY <1>2, <1>3

\* Append, as sets.
LEMMA AppendElements ==
  ASSUME NEW S, NEW s \in Seq(S), NEW r \in S
  PROVE  Append(s, r) \in Seq(S) /\ ToSet(Append(s, r)) = ToSet(s) \cup {r}
<1>1. /\ Append(s, r) \in Seq(S) /\ Len(Append(s, r)) = Len(s) + 1 /\ Len(s) \in Nat
      /\ \A j \in 1..Len(s) : Append(s, r)[j] = s[j]
      /\ Append(s, r)[Len(s) + 1] = r
  OBVIOUS
<1>2. DOMAIN s = 1..Len(s) /\ DOMAIN Append(s, r) = 1..Len(s) + 1
  BY <1>1
<1>3. \A j \in 1..Len(s) + 1 : j \in 1..Len(s) \/ j = Len(s) + 1
  BY <1>1
<1>4. \A j \in 1..Len(s) : j \in 1..Len(s) + 1
  BY <1>1
<1>5. Len(s) + 1 \in 1..Len(s) + 1
  BY <1>1
<1>6. QED
  BY <1>1, <1>2, <1>3, <1>4, <1>5 DEF ToSet

\* A new element joins a sequence without repetitions.
LEMMA AppendSet ==
  ASSUME NEW S, NEW s \in Seq(S), IsInjective(s), NEW r \in S, r \notin ToSet(s)
  PROVE  /\ Append(s, r) \in Seq(S)
         /\ IsInjective(Append(s, r))
         /\ ToSet(Append(s, r)) = ToSet(s) \cup {r}
<1>1. /\ Append(s, r) \in Seq(S) /\ Len(Append(s, r)) = Len(s) + 1 /\ Len(s) \in Nat
      /\ \A j \in 1..Len(s) : Append(s, r)[j] = s[j]
      /\ Append(s, r)[Len(s) + 1] = r
  OBVIOUS
<1>2. DOMAIN s = 1..Len(s) /\ DOMAIN Append(s, r) = 1..Len(s) + 1
  BY <1>1
<1>3. QED
  BY <1>1, <1>2 DEF ToSet, IsInjective

\* What SubSeq returns, and its elements as a set.
LEMMA SubSeqSet ==
  ASSUME NEW S, NEW s \in Seq(S), NEW m \in 1..Len(s) + 1, NEW n \in m - 1..Len(s)
  PROVE  /\ SubSeq(s, m, n) \in Seq(S)
         /\ Len(SubSeq(s, m, n)) = n - m + 1
         /\ \A i \in 1..n - m + 1 : SubSeq(s, m, n)[i] = s[m + i - 1]
         /\ ToSet(SubSeq(s, m, n)) = {s[j] : j \in m..n}
<1> DEFINE t == SubSeq(s, m, n)
<1>1. Len(s) \in Nat /\ m \in Nat /\ m >= 1 /\ m <= Len(s) + 1 /\ n \in Nat /\ n >= m - 1 /\ n <= Len(s)
  OBVIOUS
<1>2. \A i \in m..n : s[i] \in S
  BY <1>1
<1>3. /\ t \in Seq(S) /\ Len(t) = (IF m <= n THEN n - m + 1 ELSE 0)
      /\ \A i \in 1..n - m + 1 : t[i] = s[m + i - 1]
  BY <1>1, <1>2, SubSeqProperties
<1> HIDE DEF t
<1>4. Len(t) = n - m + 1 /\ DOMAIN t = 1..n - m + 1
  BY <1>1, <1>3
<1>5. ASSUME NEW x \in ToSet(t) PROVE x \in {s[j] : j \in m..n}
  <2>1. PICK i \in 1..n - m + 1 : x = t[i]
    BY <1>4 DEF ToSet
  <2>2. x = s[m + i - 1] /\ m + i - 1 \in m..n
    BY <1>1, <1>3, <2>1
  <2>3. QED
    BY <2>2
<1>6. ASSUME NEW j \in m..n PROVE s[j] \in ToSet(t)
  <2>1. j - m + 1 \in 1..n - m + 1 /\ m + (j - m + 1) - 1 = j
    BY <1>1
  <2>2. s[j] = t[j - m + 1]
    BY <1>3, <2>1
  <2>3. QED
    BY <1>4, <2>1, <2>2 DEF ToSet
<1>7. QED
  BY <1>3, <1>4, <1>5, <1>6 DEF t

\* The suffix of a sequence without repetitions keeps what the prefix leaves.
LEMMA SuffixSet ==
  ASSUME NEW S, NEW s \in Seq(S), IsInjective(s), NEW n \in 0..Len(s)
  PROVE  /\ SubSeq(s, n + 1, Len(s)) \in Seq(S)
         /\ IsInjective(SubSeq(s, n + 1, Len(s)))
         /\ ToSet(SubSeq(s, n + 1, Len(s))) = ToSet(s) \ ToSet(SubSeq(s, 1, n))
<1> DEFINE t == SubSeq(s, n + 1, Len(s))
           u == SubSeq(s, 1, n)
<1>1. Len(s) \in Nat /\ n \in Nat /\ n <= Len(s) /\ DOMAIN s = 1..Len(s)
  OBVIOUS
<1>2. /\ t \in Seq(S) /\ Len(t) = Len(s) - n
      /\ \A i \in 1..Len(s) - n : t[i] = s[n + i]
      /\ ToSet(t) = {s[j] : j \in n + 1..Len(s)}
  <2>1. n + 1 \in 1..Len(s) + 1 /\ Len(s) \in (n + 1) - 1..Len(s)
    BY <1>1
  <2>2. /\ t \in Seq(S) /\ Len(t) = Len(s) - (n + 1) + 1
        /\ \A i \in 1..Len(s) - (n + 1) + 1 : t[i] = s[(n + 1) + i - 1]
        /\ ToSet(t) = {s[j] : j \in n + 1..Len(s)}
    BY <2>1, SubSeqSet
  <2> HIDE DEF t
  <2>3. Len(t) = Len(s) - n
    BY <1>1, <2>2
  <2>4. ASSUME NEW i \in 1..Len(s) - n PROVE t[i] = s[n + i]
    <3>1. i \in 1..Len(s) - (n + 1) + 1 /\ (n + 1) + i - 1 = n + i
      BY <1>1
    <3>2. t[i] = s[(n + 1) + i - 1]
      BY <2>2, <3>1
    <3>3. QED
      BY <3>1, <3>2
  <2>5. QED
    BY <2>2, <2>3, <2>4
<1>3. ToSet(u) = {s[j] : j \in 1..n}
  <2>1. 1 \in 1..Len(s) + 1 /\ n \in 1 - 1..Len(s)
    BY <1>1
  <2>2. QED
    BY <2>1, SubSeqSet
<1> HIDE DEF t, u
<1>4. DOMAIN t = 1..Len(s) - n
  BY <1>1, <1>2
<1>5. IsInjective(t)
  <2> SUFFICES ASSUME NEW a \in 1..Len(s) - n, NEW b \in 1..Len(s) - n, t[a] = t[b]
               PROVE  a = b
    BY <1>4 DEF IsInjective
  <2>1. n + a \in DOMAIN s /\ n + b \in DOMAIN s /\ s[n + a] = s[n + b]
    BY <1>1, <1>2
  <2>2. n + a = n + b
    BY <2>1 DEF IsInjective
  <2>3. QED
    BY <1>1, <2>2
<1>6. \A i \in 1..n, j \in n + 1..Len(s) : s[i] # s[j]
  <2> SUFFICES ASSUME NEW i \in 1..n, NEW j \in n + 1..Len(s), s[i] = s[j] PROVE FALSE
    OBVIOUS
  <2>1. i \in DOMAIN s /\ j \in DOMAIN s /\ i # j
    BY <1>1
  <2>2. QED
    BY <2>1 DEF IsInjective
<1>7. \A i \in 1..Len(s) : i \in 1..n \/ i \in n + 1..Len(s)
  BY <1>1
<1>8. ToSet(s) = {s[j] : j \in 1..Len(s)}
  BY <1>1 DEF ToSet
<1>9. ToSet(t) = ToSet(s) \ ToSet(u)
  <2>1. \A j \in n + 1..Len(s) : j \in 1..Len(s)
    BY <1>1
  <2>2. QED
    BY <1>2, <1>3, <1>6, <1>7, <1>8, <2>1
<1>10. QED
  BY <1>2, <1>5, <1>9 DEF t, u

\* Concatenation, as sets.
LEMMA ConcatSet ==
  ASSUME NEW S, NEW s \in Seq(S), NEW t \in Seq(S)
  PROVE  s \o t \in Seq(S) /\ ToSet(s \o t) = ToSet(s) \cup ToSet(t)
<1> DEFINE u == s \o t
<1>1. /\ u \in Seq(S) /\ Len(u) = Len(s) + Len(t)
      /\ \A i \in 1..Len(s) + Len(t) : u[i] = IF i <= Len(s) THEN s[i] ELSE t[i - Len(s)]
  BY ConcatProperties
<1> HIDE DEF u
<1>2. /\ Len(s) \in Nat /\ Len(t) \in Nat
      /\ DOMAIN s = 1..Len(s) /\ DOMAIN t = 1..Len(t) /\ DOMAIN u = 1..Len(s) + Len(t)
  BY <1>1
<1>3. ASSUME NEW i \in DOMAIN u PROVE u[i] \in ToSet(s) \cup ToSet(t)
  <2>1. CASE i <= Len(s)
    <3>1. i \in DOMAIN s /\ u[i] = s[i]
      BY <1>1, <1>2, <2>1
    <3>2. QED
      BY <3>1 DEF ToSet
  <2>2. CASE i > Len(s)
    <3>1. i - Len(s) \in DOMAIN t /\ u[i] = t[i - Len(s)]
      BY <1>1, <1>2, <2>2
    <3>2. QED
      BY <3>1 DEF ToSet
  <2>3. QED
    BY <1>2, <2>1, <2>2
<1>4. ASSUME NEW i \in DOMAIN s PROVE s[i] \in ToSet(u)
  <2>1. i \in DOMAIN u /\ u[i] = s[i]
    BY <1>1, <1>2
  <2>2. QED
    BY <2>1 DEF ToSet
<1>5. ASSUME NEW i \in DOMAIN t PROVE t[i] \in ToSet(u)
  <2>1. /\ Len(s) + i \in 1..Len(s) + Len(t)
        /\ ~(Len(s) + i <= Len(s)) /\ (Len(s) + i) - Len(s) = i
    BY <1>2
  <2>2. Len(s) + i \in DOMAIN u /\ u[Len(s) + i] = t[i]
    BY <1>1, <1>2, <2>1
  <2>3. QED
    BY <2>2 DEF ToSet
<1>6. QED
  BY <1>1, <1>3, <1>4, <1>5 DEF ToSet, u

\* Taking the head leaves a queue with everything else, and perhaps the same
\* value again.
LEMMA TailSet ==
  ASSUME NEW S, NEW s \in Seq(S), s # <<>>
  PROVE  /\ Head(s) \in S /\ Head(s) \in ToSet(s)
         /\ Tail(s) \in Seq(S)
         /\ ToSet(s) = ToSet(Tail(s)) \cup {Head(s)}
<1> DEFINE t == Tail(s)
<1>1. /\ Len(s) \in Nat /\ Len(s) >= 1 /\ DOMAIN s = 1..Len(s)
      /\ Head(s) = s[1] /\ s[1] \in S /\ 1 \in DOMAIN s
  OBVIOUS
<1>2. t \in Seq(S) /\ Len(t) = Len(s) - 1 /\ \A i \in 1..Len(s) - 1 : t[i] = s[i + 1]
  BY <1>1
<1> HIDE DEF t
<1>3. DOMAIN t = 1..Len(s) - 1
  BY <1>2
<1>4. ASSUME NEW i \in DOMAIN s PROVE s[i] \in ToSet(t) \cup {s[1]}
  <2>1. CASE i = 1
    BY <2>1
  <2>2. CASE i # 1
    <3>1. i - 1 \in DOMAIN t /\ t[i - 1] = s[(i - 1) + 1] /\ (i - 1) + 1 = i
      BY <1>1, <1>2, <1>3, <2>2
    <3>2. QED
      BY <3>1 DEF ToSet
  <2>3. QED
    BY <2>1, <2>2
<1>5. ASSUME NEW i \in DOMAIN t PROVE t[i] \in ToSet(s)
  <2>1. i + 1 \in DOMAIN s /\ t[i] = s[i + 1]
    BY <1>1, <1>2, <1>3
  <2>2. QED
    BY <2>1 DEF ToSet
<1>6. QED
  BY <1>1, <1>2, <1>4, <1>5 DEF ToSet, t

\* SetToSeq lists a finite set.
LEMMA SetToSeqSet ==
  ASSUME NEW S, IsFiniteSet(S)
  PROVE  SetToSeq(S) \in Seq(S) /\ ToSet(SetToSeq(S)) = S
<1> DEFINE n == Cardinality(S)
           s == SetToSeq(S)
<1>1. n \in Nat /\ ExistsBijection(1..n, S)
  BY FS_CardinalityType
<1>2. IsFiniteSet(1..n) /\ Cardinality(1..n) = n
  BY <1>1, FS_Interval
<1>3. PICK f : f \in Bijection(1..n, S)
  BY <1>1 DEF ExistsBijection
<1>4. f \in [1..n -> S] /\ IsInjective(f)
  BY <1>3 DEF Bijection, Injection, IsInjective
<1>5. s \in [1..n -> S] /\ IsInjective(s)
  BY <1>4 DEF SetToSeq
<1> HIDE DEF s, n
<1>6. s \in Injection(1..n, S)
  BY <1>5 DEF Injection, IsInjective
<1>7. s \in Surjection(1..n, S)
  BY <1>2, <1>6, FS_Injection DEF n
<1>8. QED
  BY <1>1, <1>5, <1>7 DEF Surjection, ToSet, s

-----------------------------------------------------------------------------
(* Natural numbers, without an operator parameter: the provers instantiate *)
(* sets, not predicates.                                                   *)

\* A set of natural numbers has a least element.
LEMMA LeastElement ==
  ASSUME NEW D \in SUBSET Nat, D # {}
  PROVE  \E d \in D : \A e \in D : d <= e
<1> DEFINE R == OpToRel(<, Nat)
<1>1. \A d, e \in Nat : e < d => <<e, d>> \in R
  BY DEF OpToRel
<1> HIDE DEF R
<1>2. \E d \in D : \A e \in D : <<e, d>> \notin R
  BY NatLessThanWellFounded, WFMin DEF R
<1>3. \A d, e \in D : <<e, d>> \notin R => d <= e
  BY <1>1
<1>4. QED
  BY <1>2, <1>3

\* A set with 0 and the successors of its elements has every natural number.
LEMMA SetInduction ==
  ASSUME NEW T, 0 \in T, \A n \in Nat : n \in T => n + 1 \in T
  PROVE  Nat \subseteq T
<1> SUFFICES ASSUME Nat \ T # {} PROVE FALSE
  OBVIOUS
<1>1. PICK m \in Nat \ T : \A k \in Nat \ T : m <= k
  BY LeastElement
<1>2. m # 0 /\ m - 1 \in Nat /\ (m - 1) + 1 = m
  OBVIOUS
<1>3. m - 1 \in Nat \ T
  BY <1>2
<1>4. QED
  BY <1>1, <1>2, <1>3

\* A bounded set of natural numbers has a greatest element, which Max returns.
LEMMA MaxOfBounded ==
  ASSUME NEW N \in Nat, NEW S \in SUBSET (0..N), S # {}
  PROVE  Max(S) \in S /\ \A k \in S : k <= Max(S)
<1> DEFINE D == {N - k : k \in S}
<1>1. D \in SUBSET Nat /\ D # {}
  <2>1. \A k \in S : N - k \in Nat
    OBVIOUS
  <2>2. PICK k \in S : TRUE
    OBVIOUS
  <2>3. N - k \in D
    OBVIOUS
  <2>4. D \subseteq Nat
    BY <2>1
  <2>5. QED
    BY <2>3, <2>4
<1>2. PICK d \in D : \A e \in D : d <= e
  <2> HIDE DEF D
  <2>1. QED
    BY <1>1, LeastElement
<1>3. PICK m \in S : d = N - m
  OBVIOUS
<1>4. \A k \in S : k <= m
  BY <1>2, <1>3
<1>5. QED
  BY <1>4 DEF Max

=============================================================================

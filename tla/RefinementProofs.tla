--------------------------- MODULE RefinementProofs ---------------------------
(***************************************************************************)
(* Resource implements UnitPool, for every set of requests, every set of   *)
(* keys and every capacity; so does PriorityResource.  PreemptiveResource  *)
(* implements PreemptivePool, when no request urgent enough to evict is    *)
(* re-polled while it is parked.                                           *)
(*                                                                         *)
(* The heap is a set, the line a sequence.  The first part shows that the  *)
(* rank of an entry orders a heap as a sequence, and that adding or        *)
(* removing an entry inserts or removes one element of that sequence.  The *)
(* second part says what parking, leaving and a hand-over do to the line,  *)
(* whatever the pool.  The third maps every step of Resource, with IInv as *)
(* its invariant, the last every step of PreemptiveResource, with EInv.    *)
(***************************************************************************)
EXTENDS PriorityResource, PreemptiveRefinement, PreemptiveProofs

-----------------------------------------------------------------------------
(* The order of a heap. *)

\* What the live waiters are: finitely many entries with tickets of their own.
Heap(W) ==
  /\ W \subseteq Entry
  /\ IsFiniteSet(W)
  /\ \A e, f \in W : e.seq = f.seq => e = f

Item == [req : Req, key : Keys]

ItemOf(e) == [req |-> e.req, key |-> e.key]

\* Before is a strict total order on a heap.
LEMMA BeforeIsStrictOrder ==
  ASSUME NEW W, Heap(W), NEW e \in W, NEW f \in W, NEW g \in W
  PROVE  /\ ~Before(e, e)
         /\ Before(e, f) /\ Before(f, g) => Before(e, g)
         /\ Before(e, f) => ~Before(f, e)
         /\ e # f => Before(e, f) \/ Before(f, e)
<1>1. \A x \in {e, f, g} : x.key \in Nat /\ x.seq \in Nat
  BY KeysAssumption DEF Heap, Entry
<1>2. e # f => e.seq # f.seq
  BY DEF Heap
<1>3. QED
  BY <1>1, <1>2 DEF Before

\* An entry stands further back than those popped before it.
LEMMA RankOrders ==
  ASSUME NEW W, Heap(W), NEW e \in W, NEW f \in W, Before(e, f)
  PROVE  Rank(W, e) < Rank(W, f)
<1> DEFINE E == {g \in W : Before(g, e)}
           F == {g \in W : Before(g, f)}
<1>1. IsFiniteSet(E) /\ IsFiniteSet(F) /\ Cardinality(E) \in Nat /\ Cardinality(F) \in Nat
  BY FS_Subset, FS_CardinalityType DEF Heap
<1>2. e \notin E /\ E \cup {e} \subseteq F
  BY BeforeIsStrictOrder
<1> HIDE DEF E, F
<1>3. Cardinality(E \cup {e}) = Cardinality(E) + 1
  BY <1>1, <1>2, FS_AddElement
<1>4. Cardinality(E \cup {e}) <= Cardinality(F)
  BY <1>1, <1>2, FS_Subset
<1>5. Cardinality(E) < Cardinality(F)
  BY <1>1, <1>3, <1>4
<1>6. QED
  BY <1>1, <1>5 DEF Rank, E, F

LEMMA RankRange ==
  ASSUME NEW W, Heap(W), NEW e \in W
  PROVE  Rank(W, e) \in 1..Cardinality(W)
<1> DEFINE E == {g \in W : Before(g, e)}
<1>1. IsFiniteSet(W) /\ Cardinality(W) \in Nat
  BY FS_CardinalityType DEF Heap
<1>2. IsFiniteSet(W \ {e}) /\ Cardinality(W \ {e}) = Cardinality(W) - 1
  BY <1>1, FS_RemoveElement
<1>3. E \subseteq W \ {e}
  BY BeforeIsStrictOrder
<1>4. IsFiniteSet(E) /\ Cardinality(E) <= Cardinality(W) - 1 /\ Cardinality(E) \in Nat
  BY <1>2, <1>3, FS_Subset, FS_CardinalityType
<1>5. QED
  BY <1>1, <1>4 DEF Rank

\* Ranks are places: every place is taken by exactly one entry.
LEMMA PlacesAreTaken ==
  ASSUME NEW W, Heap(W)
  PROVE  /\ \A e \in W : At(W, Rank(W, e)) = e
         /\ \A i \in 1..Cardinality(W) : At(W, i) \in W /\ Rank(W, At(W, i)) = i
<1> DEFINE N == Cardinality(W)
           place == [e \in W |-> Rank(W, e)]
<1>1. IsFiniteSet(W) /\ N \in Nat
  BY FS_CardinalityType DEF Heap
<1>2. \A e \in W : Rank(W, e) \in 1..N
  BY RankRange
<1>3. \A e, f \in W : Rank(W, e) = Rank(W, f) => e = f
  <2> SUFFICES ASSUME NEW e \in W, NEW f \in W, e # f PROVE Rank(W, e) # Rank(W, f)
    OBVIOUS
  <2>1. Rank(W, e) < Rank(W, f) \/ Rank(W, f) < Rank(W, e)
    BY BeforeIsStrictOrder, RankOrders
  <2>2. QED
    BY <1>1, <1>2, <2>1
<1>4. place \in Injection(W, 1..N)
  BY <1>2, <1>3 DEF Injection, IsInjective
<1>5. IsFiniteSet(1..N) /\ Cardinality(1..N) = N
  BY <1>1, FS_Interval
<1> HIDE DEF place
<1>6. place \in Surjection(W, 1..N)
  BY <1>4, <1>5, FS_Injection
<1>7. \A i \in 1..N : \E e \in W : Rank(W, e) = i
  BY <1>6 DEF Surjection, place
<1>8. \A e \in W : At(W, Rank(W, e)) = e
  BY <1>3 DEF At
<1>9. \A i \in 1..N : At(W, i) \in W /\ Rank(W, At(W, i)) = i
  BY <1>7 DEF At
<1>10. QED
  BY <1>8, <1>9

LEMMA OrderedIsSequence ==
  ASSUME NEW W, Heap(W)
  PROVE  /\ Ordered(W) \in Seq(Item)
         /\ Len(Ordered(W)) = Cardinality(W)
         /\ \A i \in 1..Cardinality(W) : Ordered(W)[i] = ItemOf(At(W, i))
         /\ Cardinality(W) \in Nat
<1>1. Cardinality(W) \in Nat
  BY FS_CardinalityType DEF Heap
<1>2. \A i \in 1..Cardinality(W) : ItemOf(At(W, i)) \in Item
  BY PlacesAreTaken DEF Heap, Entry, Item, ItemOf
<1>3. Ordered(W) = [i \in 1..Cardinality(W) |-> ItemOf(At(W, i))]
  BY DEF Ordered, ItemOf
<1>4. Ordered(W) \in [1..Cardinality(W) -> Item]
  BY <1>2, <1>3
<1>5. QED
  BY <1>1, <1>3, <1>4

\* A newcomer moves those behind it back by one place.
LEMMA RankGrows ==
  ASSUME NEW W, NEW n, n \notin W, Heap(W \cup {n}), NEW e \in W
  PROVE  Rank(W \cup {n}, e) = IF Before(e, n) THEN Rank(W, e) ELSE Rank(W, e) + 1
<1> DEFINE V == W \cup {n}
           E == {g \in W : Before(g, e)}
           F == {g \in V : Before(g, e)}
<1>1. IsFiniteSet(E) /\ Cardinality(E) \in Nat
  BY FS_Subset, FS_CardinalityType DEF Heap
<1>2. Before(e, n) <=> ~Before(n, e)
  BY BeforeIsStrictOrder
<1>3. F = IF Before(e, n) THEN E ELSE E \cup {n}
  BY <1>2
<1>4. n \notin E
  OBVIOUS
<1> HIDE DEF E, F
<1>5. Cardinality(F) = IF Before(e, n) THEN Cardinality(E) ELSE Cardinality(E) + 1
  BY <1>1, <1>3, <1>4, FS_AddElement
<1>6. QED
  BY <1>1, <1>5 DEF Rank, E, F

LEMMA SubHeap ==
  ASSUME NEW V, Heap(V), NEW W \in SUBSET V
  PROVE  Heap(W)
BY FS_Subset DEF Heap

\* Who stands where when n joins W at place p.
LEMMA PlacesShift ==
  ASSUME NEW W, NEW n, n \notin W, Heap(W \cup {n}),
         NEW p, p = Rank(W \cup {n}, n), NEW i \in 1..Cardinality(W) + 1
  PROVE  At(W \cup {n}, i) = IF i < p THEN At(W, i) ELSE IF i = p THEN n ELSE At(W, i - 1)
<1> DEFINE V == W \cup {n}
           f == At(V, i)
<1>1. Heap(W)
  BY SubHeap
<1>2. Cardinality(V) = Cardinality(W) + 1 /\ Cardinality(W) \in Nat
  BY <1>1, FS_AddElement, FS_CardinalityType DEF Heap
<1>3. p \in 1..Cardinality(V) /\ At(V, p) = n
  BY RankRange, PlacesAreTaken
<1>4. f \in V /\ Rank(V, f) = i
  BY <1>2, PlacesAreTaken
<1> HIDE DEF f
<1>5. ASSUME f \in W
      PROVE  /\ Rank(W, f) \in Nat /\ At(W, Rank(W, f)) = f
             /\ Before(f, n) => i < p /\ Rank(W, f) = i
             /\ ~Before(f, n) => p < i /\ Rank(W, f) = i - 1
  <2>1. Rank(W, f) \in 1..Cardinality(W) /\ At(W, Rank(W, f)) = f
    BY <1>1, <1>5, RankRange, PlacesAreTaken
  <2>2. Before(f, n) => i < p
    BY <1>4, RankOrders
  <2>3. ~Before(f, n) => p < i
    BY <1>4, <1>5, RankOrders, BeforeIsStrictOrder
  <2>4. i = IF Before(f, n) THEN Rank(W, f) ELSE Rank(W, f) + 1
    BY <1>4, <1>5, RankGrows
  <2>5. QED
    BY <1>2, <2>1, <2>2, <2>3, <2>4
<1>6. CASE i = p
  BY <1>3, <1>6
<1>7. CASE i # p
  <2>1. f \in W
    BY <1>3, <1>4, <1>7
  <2>2. CASE Before(f, n)
    BY <1>2, <1>3, <1>5, <2>1, <2>2 DEF f
  <2>3. CASE ~Before(f, n)
    <3>1. ~(i < p) /\ At(W, i - 1) = f
      BY <1>2, <1>3, <1>5, <2>1, <2>3
    <3>2. QED
      BY <1>7, <3>1 DEF f
  <2>4. QED
    BY <2>2, <2>3
<1>8. QED
  BY <1>6, <1>7

\* An entry that joins a heap is inserted at its place in the line, and one
\* that leaves is taken out there.
LEMMA OrderedChanges ==
  ASSUME NEW W, NEW n, n \notin W, Heap(W \cup {n})
  PROVE  LET p == Rank(W \cup {n}, n)
         IN  /\ p \in 1..Cardinality(W) + 1
             /\ Ordered(W \cup {n}) = InsertAt(Ordered(W), p, ItemOf(n))
             /\ Ordered(W) = RemoveAt(Ordered(W \cup {n}), p)
             /\ Ordered(W \cup {n})[p] = ItemOf(n)
<1> DEFINE p == Rank(W \cup {n}, n)
           V == W \cup {n}
           N == Cardinality(W)
           s == Ordered(W)
           t == Ordered(V)
<1>1. Heap(W) /\ Heap(V)
  BY SubHeap
<1>2. Cardinality(V) = N + 1 /\ N \in Nat
  BY <1>1, FS_AddElement, FS_CardinalityType DEF Heap
<1>3. p \in 1..N + 1
  BY <1>2, RankRange
<1>4. s \in Seq(Item) /\ Len(s) = N /\ \A i \in 1..N : s[i] = ItemOf(At(W, i))
  BY <1>1, OrderedIsSequence
<1>5. t \in Seq(Item) /\ Len(t) = N + 1 /\ \A i \in 1..N + 1 : t[i] = ItemOf(At(V, i))
  BY <1>1, <1>2, OrderedIsSequence
<1>6. ItemOf(n) \in Item
  BY DEF Heap, Entry, Item, ItemOf
<1>7. \A i \in 1..N + 1 : At(V, i) = IF i < p THEN At(W, i) ELSE IF i = p THEN n ELSE At(W, i - 1)
  BY PlacesShift
<1> HIDE DEF p, V, N, s, t
<1>8. \A i \in 1..N + 1 : t[i] = IF i < p THEN s[i] ELSE IF i = p THEN ItemOf(n) ELSE s[i - 1]
  <2> SUFFICES ASSUME NEW i \in 1..N + 1
               PROVE  t[i] = IF i < p THEN s[i] ELSE IF i = p THEN ItemOf(n) ELSE s[i - 1]
    OBVIOUS
  <2>1. CASE i < p
    <3>1. i \in 1..N /\ At(V, i) = At(W, i)
      BY <1>2, <1>3, <1>7, <2>1
    <3>2. QED
      BY <1>4, <1>5, <2>1, <3>1
  <2>2. CASE i = p
    <3>1. At(V, i) = n /\ ~(i < p)
      BY <1>2, <1>3, <1>7, <2>2
    <3>2. QED
      BY <1>5, <2>2, <3>1
  <2>3. CASE i > p
    <3>1. i - 1 \in 1..N /\ At(V, i) = At(W, i - 1) /\ ~(i < p) /\ i # p
      BY <1>2, <1>3, <1>7, <2>3
    <3>2. QED
      BY <1>4, <1>5, <3>1
  <2>4. i < p \/ i = p \/ i > p
    BY <1>2, <1>3
  <2>5. QED
    BY <2>1, <2>2, <2>3, <2>4
<1>9. t = InsertAt(s, p, ItemOf(n))
  <2>1. p \in 1..Len(s) + 1 /\ Len(t) = Len(s) + 1
    BY <1>3, <1>4, <1>5
  <2>2. \A j \in 1..Len(s) + 1 :
          t[j] = IF j < p THEN s[j] ELSE IF j = p THEN ItemOf(n) ELSE s[j - 1]
    BY <1>4, <1>8
  <2>3. QED
    BY <1>4, <1>5, <1>6, <2>1, <2>2, InsertAtEqual
<1>10. s = RemoveAt(t, p)
  <2> DEFINE u == RemoveAt(t, p)
  <2>1. /\ u \in Seq(Item) /\ Len(u) = N
        /\ \A j \in 1..N : u[j] = IF j < p THEN t[j] ELSE t[j + 1]
    <3>1. Len(t) - 1 = N /\ p \in 1..Len(t)
      BY <1>2, <1>3, <1>5
    <3>2. QED
      BY <1>5, <3>1, RemoveAtElements
  <2> HIDE DEF u
  <2>2. ASSUME NEW j \in 1..N PROVE s[j] = u[j]
    <3>1. CASE j < p
      <4>1. j \in 1..N + 1
        BY <1>2
      <4>2. QED
        BY <1>8, <2>1, <3>1, <4>1
    <3>2. CASE j >= p
      <4>1. j + 1 \in 1..N + 1 /\ ~(j + 1 < p) /\ j + 1 # p /\ (j + 1) - 1 = j /\ ~(j < p)
        BY <1>2, <1>3, <3>2
      <4>2. t[j + 1] = s[j]
        BY <1>8, <4>1
      <4>3. QED
        BY <2>1, <4>1, <4>2
    <3>3. j < p \/ j >= p
      BY <1>2, <1>3
    <3>4. QED
      BY <3>1, <3>2, <3>3
  <2>3. QED
    BY <1>4, <2>1, <2>2, SeqEqual DEF u
<1>11. t[p] = ItemOf(n)
  BY <1>2, <1>3, <1>8
<1>12. QED
  BY <1>3, <1>9, <1>10, <1>11 DEF p, V, N, s, t

LEMMA OrderedRemoves ==
  ASSUME NEW V, Heap(V), NEW e \in V
  PROVE  /\ Ordered(V \ {e}) = RemoveAt(Ordered(V), Rank(V, e))
         /\ Ordered(V)[Rank(V, e)] = ItemOf(e)
<1> DEFINE W == V \ {e}
           p == Rank(V, e)
<1>1. V = W \cup {e} /\ e \notin W
  OBVIOUS
<1>2. Heap(W \cup {e}) /\ p = Rank(W \cup {e}, e)
  BY <1>1
<1>3. e \notin W
  OBVIOUS
<1> HIDE DEF W, p
<1>4. /\ Ordered(W) = RemoveAt(Ordered(W \cup {e}), p)
      /\ Ordered(W \cup {e})[p] = ItemOf(e)
  BY <1>2, <1>3, OrderedChanges
<1>5. QED
  BY <1>1, <1>4 DEF W, p

-----------------------------------------------------------------------------
(* The line of either pool. *)

LEMMA LiveIsHeap ==
  ASSUME TypeOK, QueueInv
  PROVE  Heap(LiveWaiters)
<1> DEFINE own == [e \in waiters |-> e.req]
<1>1. TypeOK /\ QueueMatchesRequests /\ TicketsDistinct
  BY DEF QueueInv
<1>2. waiters \subseteq Entry /\ LiveWaiters \subseteq waiters
  BY <1>1 DEF TypeOK, PoolTypeOK, LiveWaiters
<1>3. own \in Injection(waiters, Req)
  BY <1>1, <1>2 DEF Entry, QueueMatchesRequests, Injection, IsInjective
<1>4. IsFiniteSet(waiters)
  BY <1>3, ReqAssumption, FS_Injection
<1>5. QED
  BY <1>1, <1>2, <1>4, FS_Subset DEF Heap, TicketsDistinct

InLine == {Line[i].req : i \in 1..Len(Line)}

\* The line is empty when nobody waits, and its people are the parked requests.
LEMMA LineIsQueue ==
  ASSUME TypeOK, QueueInv
  PROVE  /\ Line \in Seq(Item) /\ Len(Line) = Cardinality(LiveWaiters)
         /\ Line = <<>> <=> LiveWaiters = {}
         /\ InLine = registered \ (granted \cup consumed \cup dropped)
<1>1. Heap(LiveWaiters)
  BY LiveIsHeap
<1>2. /\ Line \in Seq(Item) /\ Len(Line) = Cardinality(LiveWaiters)
      /\ Cardinality(LiveWaiters) \in Nat
      /\ \A i \in 1..Len(Line) : Line[i] = ItemOf(At(LiveWaiters, i))
  BY <1>1, OrderedIsSequence DEF Line
<1>3. Line = <<>> <=> LiveWaiters = {}
  BY <1>1, <1>2, FS_EmptySet DEF Heap
<1>4. InLine = {e.req : e \in LiveWaiters}
  <2>1. ASSUME NEW i \in 1..Len(Line) PROVE Line[i].req \in {e.req : e \in LiveWaiters}
    BY <1>1, <1>2, PlacesAreTaken DEF ItemOf
  <2>2. ASSUME NEW e \in LiveWaiters PROVE e.req \in {Line[i].req : i \in 1..Len(Line)}
    BY <1>1, <1>2, RankRange, PlacesAreTaken DEF ItemOf
  <2>3. QED
    BY <2>1, <2>2 DEF InLine
<1>5. QED
  BY <1>2, <1>3, <1>4 DEF QueueInv, QueueMatchesRequests

\* A parked request stands where its key and its arrival put it.
LEMMA ParkLine ==
  ASSUME TypeOK, QueueInv, NEW r \in Pollable, PollPark(r)
  PROVE  /\ r \notin InLine
         /\ \E i \in 1..Len(Line) + 1 :
              /\ \A j \in 1..Len(Line) : j < i <=> Line[j].key <= priority[r]
              /\ Line' = InsertAt(Line, i, [req |-> r, key |-> priority[r]])
<1> DEFINE e == [req |-> r, key |-> priority[r], seq |-> nextSeq]
           W == LiveWaiters
           p == Rank(W \cup {e}, e)
<1> USE DEF PollPark, Register
<1>1. r \in Req /\ r \notin granted \cup consumed \cup dropped \cup registered \cup guards
  BY DEF TypeOK, Pollable
<1>2. r \notin canceled /\ \A f \in waiters : f.req # r
  BY <1>1 DEF QueueInv, FlagsCohere
<1>3. W' = W \cup {e} /\ e \notin W
  BY <1>2 DEF LiveWaiters
<1>4. Heap(W) /\ Heap(W \cup {e})
  <2>1. Heap(W)
    BY LiveIsHeap
  <2>2. e \in Entry /\ e.seq = nextSeq /\ nextSeq \in Nat
    BY <1>1 DEF TypeOK, PoolTypeOK, Entry
  <2>3. \A f \in W : f.seq \in Nat /\ f.seq < nextSeq
    BY DEF TypeOK, PoolTypeOK, QueueInv, TicketsDistinct, LiveWaiters, Entry
  <2> HIDE DEF e
  <2>4. QED
    BY <2>1, <2>2, <2>3, FS_AddElement DEF Heap
<1>5. Line' = Ordered(W \cup {e})
  BY <1>3 DEF Line
<1>6. /\ p \in 1..Cardinality(W) + 1
      /\ Ordered(W \cup {e}) = InsertAt(Line, p, ItemOf(e))
  BY <1>3, <1>4, OrderedChanges DEF Line
<1>7. Len(Line) = Cardinality(W) /\ Cardinality(W) \in Nat
  BY <1>4, OrderedIsSequence DEF Line
<1>8. ASSUME NEW j \in 1..Len(Line) PROVE j < p <=> Line[j].key <= priority[r]
  <2> DEFINE f == At(W, j)
  <2>1. f \in W /\ Rank(W, f) = j /\ Line[j].key = f.key
    <3>1. j \in 1..Cardinality(W)
      BY <1>7
    <3>2. Line[j] = ItemOf(f)
      BY <1>4, <3>1, OrderedIsSequence DEF Line
    <3>3. QED
      BY <1>4, <3>1, <3>2, PlacesAreTaken DEF ItemOf
  <2> HIDE DEF f
  <2>2. f.key \in Nat /\ f.seq \in Nat /\ f.seq < nextSeq /\ nextSeq \in Nat /\ priority[r] \in Nat
    BY <1>1, <2>1, KeysAssumption DEF TypeOK, PoolTypeOK, QueueInv, TicketsDistinct, LiveWaiters, Entry
  <2>3. Before(f, e) <=> f.key <= priority[r]
    BY <2>2 DEF Before
  <2>4. Before(f, e) <=> j < p
    <3>1. Rank(W \cup {e}, f) = IF Before(f, e) THEN j ELSE j + 1
      BY <1>3, <1>4, <2>1, RankGrows
    <3>2. Before(f, e) => Rank(W \cup {e}, f) < p
      BY <1>4, <2>1, RankOrders
    <3>3. ~Before(f, e) => p < Rank(W \cup {e}, f)
      BY <1>3, <1>4, <2>1, RankOrders, BeforeIsStrictOrder
    <3>4. QED
      BY <1>6, <1>7, <3>1, <3>2, <3>3
  <2>5. QED
    BY <2>1, <2>3, <2>4
<1>9. r \notin InLine
  BY <1>1, LineIsQueue
<1>10. ItemOf(e) = [req |-> r, key |-> priority[r]]
  BY DEF ItemOf
<1> HIDE DEF e, W, p
<1>11. /\ p \in 1..Len(Line) + 1
       /\ Line' = InsertAt(Line, p, [req |-> r, key |-> priority[r]])
  BY <1>5, <1>6, <1>7, <1>10
<1>12. QED
  BY <1>8, <1>9, <1>11

\* An abandoned request leaves, the others keep their places.
LEMMA AbandonLine ==
  ASSUME TypeOK, QueueInv, NEW r \in Req, DropRequest(r), DropParked(r)
  PROVE  \E i \in 1..Len(Line) : Line[i].req = r /\ Line' = RemoveAt(Line, i)
<1>1. /\ waiters' = waiters /\ canceled' = canceled \cup {r}
      /\ r \notin dropped /\ r \in registered \ (granted \cup consumed)
  BY DEF DropRequest, DropParked
<1>2. PICK e \in LiveWaiters : e.req = r
  BY <1>1 DEF QueueInv, QueueMatchesRequests
<1> DEFINE W == LiveWaiters \ {e}
           p == Rank(LiveWaiters, e)
<1>3. LiveWaiters' = W
  BY <1>1, <1>2 DEF LiveWaiters, QueueInv, QueueMatchesRequests
<1>4. Heap(LiveWaiters)
  BY LiveIsHeap
<1>5. Line' = Ordered(W)
  BY <1>3 DEF Line
<1>6. Ordered(W) = RemoveAt(Line, p) /\ Line[p] = ItemOf(e)
  BY <1>4, OrderedRemoves DEF Line
<1>7. p \in 1..Len(Line)
  BY <1>4, RankRange, LineIsQueue
<1>8. Line[p].req = r
  BY <1>2, <1>6 DEF ItemOf
<1> HIDE DEF W, p
<1>9. QED
  BY <1>5, <1>6, <1>7, <1>8

\* A released unit goes to the head of the line.
LEMMA HandOverLine ==
  ASSUME TypeOK, QueueInv, NEW e \in LiveWaiters, HandOver(e), canceled' = canceled
  PROVE  /\ Line # <<>> /\ Line' = Tail(Line) /\ Head(Line).req = e.req
         /\ e.req \in registered \ (granted \cup consumed \cup dropped)
<1> DEFINE W == LiveWaiters \ {e}
<1>1. LiveWaiters' = W
  BY HandOverServesOne
<1>2. Heap(LiveWaiters)
  BY LiveIsHeap
<1>3. Rank(LiveWaiters, e) = 1
  <2>1. {f \in LiveWaiters : Before(f, e)} = {}
    BY <1>2, BeforeIsStrictOrder DEF HandOver
  <2>2. QED
    BY <2>1, FS_EmptySet DEF Rank
<1>4. Line' = RemoveAt(Line, 1) /\ Line[1] = ItemOf(e)
  BY <1>1, <1>2, <1>3, OrderedRemoves DEF Line
<1>5. Line \in Seq(Item) /\ Line # <<>>
  BY LineIsQueue
<1>6. RemoveAt(Line, 1) = Tail(Line)
  <2>1. /\ RemoveAt(Line, 1) \in Seq(Item) /\ Len(RemoveAt(Line, 1)) = Len(Line) - 1
        /\ \A j \in 1..Len(Line) - 1 : RemoveAt(Line, 1)[j] = IF j < 1 THEN Line[j] ELSE Line[j + 1]
    BY <1>5, RemoveAtElements
  <2>2. /\ Tail(Line) \in Seq(Item) /\ Len(Tail(Line)) = Len(Line) - 1
        /\ \A j \in 1..Len(Line) - 1 : Tail(Line)[j] = Line[j + 1]
    BY <1>5
  <2>3. QED
    BY <2>1, <2>2, SeqEqual
<1>7. e.req \in registered \ (granted \cup consumed \cup dropped)
  BY DEF QueueInv, QueueMatchesRequests
<1>8. QED
  BY <1>4, <1>5, <1>6, <1>7 DEF ItemOf

\* The line is out of a step's reach when the live waiters are.
LEMMA LineKept == ASSUME LiveWaiters' = LiveWaiters PROVE Line' = Line
BY DEF Line

\* A release with nobody to serve finds the line empty and leaves it so.
LEMMA FreeLine ==
  ASSUME TypeOK, QueueInv, Free, canceled' = canceled
  PROVE  Line = <<>> /\ Line' = Line
<1>1. LiveWaiters = {} /\ LiveWaiters' = LiveWaiters
  BY DEF Free, LiveWaiters
<1>2. QED
  BY <1>1, LineIsQueue, LineKept

\* Whoever finds a free unit finds nobody in line.
LEMMA AcquireLine ==
  ASSUME TypeOK, QueueInv, TryAcquire
  PROVE  Line = <<>> /\ Line' = Line
<1>1. LiveWaiters = {} /\ LiveWaiters' = LiveWaiters
  BY DEF QueueInv, NoFreeUnitWhileWaiting, TryAcquire, LiveWaiters
<1>2. QED
  BY <1>1, LineIsQueue, LineKept

-----------------------------------------------------------------------------
(* The steps of Resource as steps of the pool. *)

LEMMA ResourceInv == ASSUME IInv PROVE TypeOK /\ QueueInv
BY DEF IInv

\* What the pool does not see.
LEMMA StutterMaps ==
  ASSUME Owners' = Owners, LiveWaiters' = LiveWaiters
  PROVE  UNCHANGED Pool!poolVars
BY DEF Pool!poolVars, Line

\* UnitPool counts as Resource does.
LEMMA PoolCounts == \A S : Pool!Cardinality(S) = Cardinality(S)
BY DEF Pool!Cardinality, Cardinality

LEMMA InitMaps == Init => Pool!Init
<1> SUFFICES ASSUME Init PROVE Pool!Init
  OBVIOUS
<1>1. Owners = {} /\ LiveWaiters = {}
  BY DEF Init, PoolInit, Owners, Handed, LiveWaiters
<1>2. Line = <<>>
  BY <1>1, InitIInv, ResourceInv, LineIsQueue
<1>3. QED
  BY <1>1, <1>2 DEF Pool!Init

LEMMA AcquireMaps ==
  ASSUME IInv, NEW r \in Pollable, PollAcquire(r)
  PROVE  Pool!Take(r)
<1> USE DEF PollAcquire, TryAcquire, Resolve
<1>1. Line = <<>> /\ Line' = Line
  BY ResourceInv, AcquireLine
<1>2. r \notin Owners /\ Owners' = Owners \cup {r}
  BY DEF IInv, TypeOK, Pollable, Owners, Handed
<1>3. Cardinality(Owners) < Capacity
  BY DEF IInv, UnitsAccounted, HasFreeUnit
<1>4. QED
  BY <1>1, <1>2, <1>3, PoolCounts DEF Pool!Take

LEMMA ParkMaps ==
  ASSUME IInv, NEW r \in Pollable, PollPark(r)
  PROVE  Pool!Enter(r, priority[r])
<1>1. r \notin Owners /\ Owners' = Owners
  BY DEF IInv, TypeOK, Pollable, PollPark, Register, Owners, Handed
<1>2. Cardinality(Owners) = Capacity
  BY CapacityAssumption DEF PollPark, IInv, UnitsAccounted, TypeOK, PoolTypeOK, HasFreeUnit
<1>3. /\ r \notin Pool!Waiting
      /\ \E i \in 1..Len(Line) + 1 :
           /\ \A j \in 1..Len(Line) : j < i <=> Line[j].key <= priority[r]
           /\ Line' = InsertAt(Line, i, [req |-> r, key |-> priority[r]])
  BY ResourceInv, ParkLine DEF InLine, Pool!Waiting
<1>4. QED
  BY <1>1, <1>2, <1>3, PoolCounts DEF Pool!Enter, Pool!InsertAt, InsertAt

LEMMA AbandonMaps ==
  ASSUME IInv, NEW r \in Req, DropRequest(r), DropParked(r)
  PROVE  Pool!Leave(r)
<1>1. Owners' = Owners
  BY DEF DropRequest, DropParked, Owners, Handed
<1>2. \E i \in 1..Len(Line) : Line[i].req = r /\ Line' = RemoveAt(Line, i)
  BY ResourceInv, AbandonLine
<1>3. QED
  BY <1>1, <1>2 DEF Pool!Leave, Pool!RemoveAt, RemoveAt

\* Whoever gives a unit back, the head of the line has it in the same step.
LEMMA ReleaseMaps ==
  ASSUME IInv, NEW r \in Owners, Release,
         dropped' \ {r} = dropped \ {r}, consumed' = consumed,
         r \notin guards', r \notin Handed', guards' \cup {r} = guards \cup {r}
  PROVE  Pool!GiveBack(r)
<1>1. CASE Free
  <2>1. Line = <<>> /\ Line' = Line
    BY <1>1, ResourceInv, FreeLine DEF Release
  <2>2. Owners' = Owners \ {r}
    BY <1>1 DEF Free, Owners, Handed
  <2>3. QED
    BY <2>1, <2>2 DEF Pool!GiveBack
<1>2. CASE \E e \in LiveWaiters : HandOver(e)
  <2>1. PICK e \in LiveWaiters : HandOver(e)
    BY <1>2
  <2>2. /\ Line # <<>> /\ Line' = Tail(Line) /\ Head(Line).req = e.req
        /\ e.req \in registered \ (granted \cup consumed \cup dropped)
    BY <2>1, ResourceInv, HandOverLine DEF Release
  <2>3. e.req \notin Owners /\ e.req # r
    BY <2>2 DEF Owners, Handed, IInv, TypeOK
  <2>4. Owners' = (Owners \ {r}) \cup {e.req}
    BY <2>1, <2>2, <2>3 DEF HandOver, Owners, Handed
  <2>5. QED
    BY <2>2, <2>4 DEF Pool!GiveBack
<1>3. QED
  BY <1>1, <1>2 DEF Release

LEMMA PollMaps ==
  ASSUME IInv, NEW r \in Req, Poll(r)
  PROVE  [Pool!Next]_(Pool!poolVars)
<1>1. r \in Pollable /\ priority[r] \in Keys
  BY DEF Poll, IInv, TypeOK
<1>2. CASE PollGranted(r)
  <2>1. Owners' = Owners /\ LiveWaiters' = LiveWaiters
    BY <1>1, <1>2 DEF PollGranted, Resolve, Pollable, Owners, Handed, LiveWaiters
  <2>2. QED
    BY <2>1, StutterMaps
<1>3. CASE PollAcquire(r)
  BY <1>1, <1>3, AcquireMaps DEF Pool!Next
<1>4. CASE PollPark(r)
  BY <1>1, <1>4, ParkMaps DEF Pool!Next
<1>5. CASE PollPending(r)
  <2>1. Owners' = Owners /\ LiveWaiters' = LiveWaiters
    BY <1>5 DEF PollPending, requestVars, Owners, Handed, LiveWaiters
  <2>2. QED
    BY <2>1, StutterMaps
<1>6. QED
  BY <1>2, <1>3, <1>4, <1>5 DEF Poll

LEMMA DropRequestMaps ==
  ASSUME IInv, NEW r \in Req, DropRequest(r)
  PROVE  [Pool!Next]_(Pool!poolVars)
<1>1. UNCHANGED <<consumed, guards>> /\ dropped' = dropped \cup {r} /\ r \notin dropped
  BY DEF DropRequest
<1>2. CASE DropInert(r)
  <2>1. Owners' = Owners /\ LiveWaiters' = LiveWaiters
    BY <1>1, <1>2 DEF DropInert, poolVars, Owners, Handed, LiveWaiters
  <2>2. QED
    BY <2>1, StutterMaps
<1>3. CASE DropGranted(r)
  <2>1. r \in Owners /\ r \notin guards' /\ r \notin Handed'
    BY <1>1, <1>3 DEF DropGranted, IInv, TypeOK, Owners, Handed
  <2>2. QED
    BY <1>1, <1>3, <2>1, ReleaseMaps DEF DropGranted, Pool!Next
<1>4. CASE DropParked(r)
  BY <1>4, AbandonMaps DEF Pool!Next
<1>5. QED
  BY <1>2, <1>3, <1>4 DEF DropRequest

LEMMA DropGuardMaps ==
  ASSUME IInv, NEW r \in Req, DropGuard(r)
  PROVE  [Pool!Next]_(Pool!poolVars)
<1>1. r \in guards /\ r \in consumed /\ UNCHANGED <<consumed, dropped>> /\ guards' = guards \ {r}
  BY DEF DropGuard, IInv, TypeOK
<1>2. r \in Owners /\ r \notin guards' /\ r \notin Handed'
  BY <1>1 DEF Owners, Handed
<1>3. QED
  BY <1>1, <1>2, ReleaseMaps DEF DropGuard, Pool!Next

LEMMA NextMaps == IInv /\ [Next]_vars => [Pool!Next]_(Pool!poolVars)
<1> SUFFICES ASSUME IInv, [Next]_vars PROVE [Pool!Next]_(Pool!poolVars)
  OBVIOUS
<1>1. ASSUME NEW r \in Req, Request(r) PROVE Owners' = Owners /\ LiveWaiters' = LiveWaiters
  BY <1>1 DEF Request, poolVars, Owners, Handed, LiveWaiters
<1>2. ASSUME UNCHANGED vars PROVE Owners' = Owners /\ LiveWaiters' = LiveWaiters
  BY <1>2 DEF vars, poolVars, requestVars, Owners, Handed, LiveWaiters
<1>3. QED
  BY <1>1, <1>2, StutterMaps, PollMaps, DropRequestMaps, DropGuardMaps DEF Next

\* The FIFO resource keeps the promise of UnitPool: strictly ordered service,
\* no barging and one-step hand-over, in spite of flags, tombstones and
\* collected-later grants.
THEOREM Refinement == Spec => ImplementsUnitPool
<1>1. QED
  BY InitMaps, NextMaps, Inductive, PTL DEF Spec, ImplementsUnitPool, Pool!Spec

\* PriorityResource takes the same steps, so that every theorem about Spec
\* holds of it, this one included.
THEOREM PriorityRefinement == PrioritySpec => Spec /\ ImplementsUnitPool
<1>1. PriorityNext => Next
  BY DEF PriorityNext, PriorityRequest, PriorityRequestPoll, PriorityRequestDrop,
     PriorityGuardDrop, Next
<1>2. QED
  BY <1>1, Refinement, PTL DEF PrioritySpec, Spec

-----------------------------------------------------------------------------
(* The steps of PreemptiveResource as steps of the preemptive pool. *)

\* What victim_index returns: a victim is found if and only if some holder is
\* strictly less urgent, and then there is one answer.
THEOREM VictimFound ==
  ASSUME PreemptTypeOK, NEW k \in Nat
  PROVE  /\ (Victims(k) # {}) <=> \E o \in Held : k < priority[o]
         /\ \A i, j \in Victims(k) : i = j
<1> DEFINE N == Len(holders)
           p(i) == priority[holders[i]]
           best(n, b) == /\ b \in 1..n
                         /\ \A j \in 1..n : p(j) < p(b) \/ (p(j) = p(b) /\ j <= b)
           T == {n \in Nat : 1 <= n /\ n <= N => \E b \in 1..n : best(n, b)}
<1>1. N \in Nat /\ \A i \in 1..N : holders[i] \in Req /\ p(i) \in Nat
  <2>1. holders \in Seq(Req) /\ priority \in [Req -> Nat]
    BY KeysAssumption DEF PreemptTypeOK, TypeOK
  <2>2. QED
    BY <2>1
<1> HIDE DEF N, p
<1>2. Nat \subseteq T
  <2>1. 0 \in T
    OBVIOUS
  <2>2. ASSUME NEW n \in Nat, n \in T PROVE n + 1 \in T
    <3>1. CASE n = 0
      <4>1. best(1, 1)
        OBVIOUS
      <4>2. QED
        BY <3>1, <4>1
    <3>2. CASE n >= N
      BY <1>1, <3>2
    <3>3. CASE n # 0 /\ n < N
      <4>1. PICK b \in 1..n : best(n, b)
        <5>1. 1 <= n /\ n <= N
          BY <1>1, <3>3
        <5> HIDE DEF best
        <5>2. QED
          BY <2>2, <5>1
      <4>2. p(b) \in Nat /\ p(n + 1) \in Nat /\ \A j \in 1..n : p(j) \in Nat
        BY <1>1, <3>3, <4>1
      <4>3. \A j \in 1..n + 1 : j \in 1..n \/ j = n + 1
        OBVIOUS
      <4>4. best(n + 1, b) \/ best(n + 1, n + 1)
        <5>1. CASE p(n + 1) < p(b)
          BY <4>1, <4>2, <4>3, <5>1
        <5>2. CASE p(b) <= p(n + 1)
          BY <4>1, <4>2, <4>3, <5>2
        <5>3. QED
          BY <4>2, <5>1, <5>2
      <4>5. QED
        BY <4>4
    <3>4. QED
      BY <1>1, <3>1, <3>2, <3>3
  <2> HIDE DEF T
  <2>3. QED
    BY <2>1, <2>2, SetInduction
<1>3. Held = {holders[i] : i \in 1..N}
  BY DEF Held, ToSet, N, PreemptTypeOK
<1>4. Victims(k) = {i \in 1..N : p(i) > k /\ \A j \in 1..N : p(j) < p(i) \/ (p(j) = p(i) /\ j <= i)}
  BY DEF Victims, IsVictim, N, p
<1>5. ASSUME NEW i \in Victims(k) PROVE \E o \in Held : k < priority[o]
  BY <1>1, <1>3, <1>4 DEF p
<1>6. ASSUME NEW o \in Held, k < priority[o] PROVE Victims(k) # {}
  <2>1. PICK i \in 1..N : o = holders[i]
    BY <1>3
  <2>2. k < p(i)
    BY <1>6, <2>1 DEF p
  <2>3. PICK b \in 1..N : best(N, b)
    <3> HIDE DEF best
    <3>1. N \in T
      <4> HIDE DEF T
      <4>1. QED
        BY <1>1, <1>2
    <3>2. 1 <= N
      BY <1>1, <2>1
    <3>3. QED
      BY <1>1, <3>1, <3>2
  <2>4. p(i) \in Nat /\ p(b) \in Nat /\ p(i) <= p(b)
    BY <1>1, <2>1, <2>3
  <2>5. b \in Victims(k)
    BY <1>4, <2>2, <2>3, <2>4
  <2>6. QED
    BY <2>5
<1>7. ASSUME NEW i \in Victims(k), NEW j \in Victims(k) PROVE i = j
  BY <1>1, <1>4
<1>8. QED
  BY <1>5, <1>6, <1>7

LEMMA PreemptInvs ==
  ASSUME EInv
  PROVE  /\ PreemptTypeOK /\ TypeOK /\ QueueInv /\ HoldersAreLiveGuards /\ Held \subseteq consumed
         /\ inUse = Cardinality(Units)
BY DEF EInv, HInv, PreemptTypeOK, TypeOK, HoldersAreLiveGuards, PreemptUnitsAccounted, Units

\* What the preemptive pool does not see.
LEMMA PreemptStutterMaps ==
  ASSUME Units' = Units, LiveWaiters' = LiveWaiters, UNCHANGED <<holders, priority>>
  PROVE  UNCHANGED Contended!preemptivePoolVars
<1>1. Line' = Line /\ Held' = Held
  BY LineKept DEF Held
<1>2. QED
  BY <1>1 DEF Contended!preemptivePoolVars, Contended!poolVars, Units

LEMMA ContendedCounts == \A S : Contended!Cardinality(S) = Cardinality(S)
BY DEF Contended!Cardinality, Cardinality

LEMMA PreemptInitMaps == PreemptInit => Contended!PreemptivePoolInit
<1> SUFFICES ASSUME PreemptInit PROVE Contended!PreemptivePoolInit
  OBVIOUS
<1>1. Held = {} /\ Handed = {} /\ LiveWaiters = {}
  BY DEF PreemptInit, Init, PoolInit, Held, ToSet, Handed, LiveWaiters
<1>2. Line = <<>>
  BY <1>1, InitEInv, PreemptInvs, LineIsQueue
<1>3. priority \in [Req -> Keys]
  BY DEF PreemptInit, Init
<1>4. QED
  BY <1>1, <1>2, <1>3 DEF Contended!PreemptivePoolInit, Contended!Init

LEMMA PollFreeMaps ==
  ASSUME EInv, NEW r \in Pollable, PollFree(r)
  PROVE  Contended!TakeFree(r)
<1> USE DEF PollFree, PollAcquire, TryAcquire, Resolve, Grant
<1>1. Line = <<>> /\ Line' = Line
  BY PreemptInvs, AcquireLine
<1>2. r \notin Held /\ Held' = Held \cup {r}
  BY PolledHoldsNothing, AppendSet DEF EInv, HInv, PreemptTypeOK, HoldersAreLiveGuards, Held
<1>3. r \notin Units /\ Units' = Units \cup {r}
  BY <1>2, PreemptInvs DEF Pollable, Units, Handed
<1>4. Cardinality(Units) < Capacity
  BY PreemptInvs DEF HasFreeUnit
<1>5. QED
  BY <1>1, <1>2, <1>3, <1>4, ContendedCounts DEF Contended!TakeFree, Contended!Take, Units

\* The unit was the request's since it was handed over.
LEMMA CollectMaps ==
  ASSUME EInv, NEW r \in Pollable, PreemptPollGranted(r)
  PROVE  Contended!Collect(r)
<1> USE DEF PreemptPollGranted, PollGranted, Resolve, Grant
<1>1. r \notin Held /\ Held' = Held \cup {r}
  BY PolledHoldsNothing, AppendSet DEF EInv, HInv, PreemptTypeOK, HoldersAreLiveGuards, Held
<1>2. r \in Units /\ Units' = Units
  BY <1>1, PreemptInvs DEF Pollable, Units, Handed
<1>3. Line' = Line
  BY LineKept DEF LiveWaiters
<1>4. QED
  BY <1>1, <1>2, <1>3 DEF Contended!Collect, Contended!poolVars, Units

\* Nobody parks who could evict a holder.
LEMMA PreemptParkMaps ==
  ASSUME EInv, NEW r \in Pollable, PollBlock(r), PollPark(r)
  PROVE  Contended!EnterLine(r)
<1>1. /\ Held' = Held /\ Units' = Units
      /\ r \notin granted /\ ~HasFreeUnit /\ Victims(priority[r]) = {}
  BY DEF PollBlock, PollPark, Register, holderVars, Held, Units, Handed
<1>2. r \in Req /\ r \notin Units /\ priority[r] \in Nat
  BY <1>1, PolledHoldsNothing, PreemptInvs, KeysAssumption DEF EInv, TypeOK, Units, Handed
<1>3. Cardinality(Units) = Capacity
  BY <1>1, PreemptInvs, CapacityAssumption DEF TypeOK, PoolTypeOK, HasFreeUnit
<1>4. ASSUME NEW o \in Held PROVE priority[o] <= priority[r]
  <2>1. ~(priority[r] < priority[o])
    BY <1>1, <1>2, PreemptInvs, VictimFound
  <2>2. priority[o] \in Nat
    BY PreemptInvs, KeysAssumption DEF TypeOK
  <2>3. QED
    BY <1>2, <2>1, <2>2
<1>5. /\ r \notin Contended!Waiting
      /\ \E i \in 1..Len(Line) + 1 :
           /\ \A j \in 1..Len(Line) : j < i <=> Line[j].key <= priority[r]
           /\ Line' = InsertAt(Line, i, [req |-> r, key |-> priority[r]])
  BY PreemptInvs, ParkLine DEF InLine, Contended!Waiting
<1>6. Contended!Enter(r, priority[r])
  BY <1>1, <1>2, <1>3, <1>5, ContendedCounts
     DEF Contended!Enter, Contended!InsertAt, InsertAt, Units
<1>7. QED
  BY <1>1, <1>4, <1>6 DEF Contended!EnterLine

\* The newcomer has the unit of the least urgent holder in the same step.
LEMMA EvictMaps ==
  ASSUME RepolledAreWeakest, EInv, NEW r \in Req, PreemptPoll(r), PollPreempt(r)
  PROVE  \E v \in Req : Contended!Evict(r, v)
<1>1. /\ r \in Pollable /\ r \notin registered /\ r \notin granted /\ ~HasFreeUnit
      /\ UNCHANGED <<waiters, canceled, granted, dropped>> /\ consumed' = consumed \cup {r}
  BY EvictorsAreFresh DEF PreemptPoll, PollPreempt, Resolve
<1>2. PICK i \in Victims(priority[r]) : holders' = Append(RemoveAt(holders, i), r)
  BY DEF PollPreempt
<1> DEFINE v == holders[i]
<1>3. holders \in Seq(Req) /\ IsInjective(holders) /\ i \in 1..Len(holders) /\ r \notin Held
  BY <1>1, <1>2, PreemptInvs, PolledHoldsNothing
     DEF EInv, PreemptTypeOK, HoldersAreLiveGuards, Victims
<1>4. v \in Held /\ Held' = (Held \ {v}) \cup {r}
  <2>1. v \in Held
    BY <1>3 DEF Held, ToSet
  <2>2. /\ RemoveAt(holders, i) \in Seq(Req) /\ IsInjective(RemoveAt(holders, i))
        /\ ToSet(RemoveAt(holders, i)) = Held \ {v}
    BY <1>3, RemoveAtSet DEF Held
  <2>3. QED
    BY <1>2, <1>3, <2>1, <2>2, AppendSet DEF Held
<1>5. /\ priority[r] < priority[v]
      /\ \A o \in Held : priority[o] <= priority[v]
  <2>1. \A j \in 1..Len(holders) : priority[holders[j]] \in Nat
    <3>1. \A j \in 1..Len(holders) : holders[j] \in Req
      BY <1>3
    <3>2. priority \in [Req -> Keys]
      BY PreemptInvs DEF TypeOK
    <3>3. QED
      BY <3>1, <3>2, KeysAssumption
  <2>2. priority[r] \in Nat
    BY PreemptInvs, KeysAssumption DEF TypeOK
  <2>3. \A j \in 1..Len(holders) : priority[holders[j]] <= priority[v]
    BY <1>2, <1>3, <2>1 DEF Victims, IsVictim
  <2>4. Held = {holders[j] : j \in 1..Len(holders)}
    BY DEF Held, ToSet
  <2>5. QED
    BY <1>2, <1>3, <2>1, <2>2, <2>3, <2>4 DEF Victims, IsVictim
<1> HIDE DEF v
<1>6. v \in consumed /\ v # r /\ v \in Req
  BY <1>3, <1>4, PreemptInvs DEF v
<1>7. /\ r \notin Units /\ Units' = (Units \ {v}) \cup {r}
  BY <1>1, <1>3, <1>4, <1>6 DEF Pollable, Units, Handed
<1>8. Cardinality(Units) = Capacity
  BY <1>1, PreemptInvs, CapacityAssumption DEF TypeOK, PoolTypeOK, HasFreeUnit
<1>9. r \notin Contended!Waiting
  BY <1>1, PreemptInvs, LineIsQueue DEF InLine, Contended!Waiting
<1>10. Line' = Line
  BY <1>1, LineKept DEF LiveWaiters
<1>11. Contended!Evict(r, v)
  BY <1>4, <1>5, <1>7, <1>8, <1>9, <1>10, ContendedCounts DEF Contended!Evict, Units
<1>12. QED
  BY <1>6, <1>11

\* Whoever gives a unit back, the head of the line has it in the same step.
LEMMA PreemptReleaseMaps ==
  ASSUME EInv, NEW r \in Units, Release,
         dropped' \ {r} = dropped \ {r}, consumed' = consumed,
         Held' = Held \ {r}, r \notin Handed'
  PROVE  Contended!GiveUnitBack(r)
<1>1. CASE Free
  <2>1. Line = <<>> /\ Line' = Line
    BY <1>1, PreemptInvs, FreeLine DEF Release
  <2>2. Units' = Units \ {r}
    BY <1>1 DEF Free, Units, Handed
  <2>3. QED
    BY <2>1, <2>2 DEF Contended!GiveUnitBack, Contended!GiveBack, Units
<1>2. CASE \E e \in LiveWaiters : HandOver(e)
  <2>1. PICK e \in LiveWaiters : HandOver(e)
    BY <1>2
  <2>2. /\ Line # <<>> /\ Line' = Tail(Line) /\ Head(Line).req = e.req
        /\ e.req \in registered \ (granted \cup consumed \cup dropped)
    BY <2>1, PreemptInvs, HandOverLine DEF Release
  <2>3. e.req \notin Units /\ e.req # r
    BY <2>2, PreemptInvs DEF Units, Handed
  <2>4. Units' = (Units \ {r}) \cup {e.req}
    BY <2>1, <2>2, <2>3 DEF HandOver, Units, Handed
  <2>5. QED
    BY <2>2, <2>4 DEF Contended!GiveUnitBack, Contended!GiveBack, Units
<1>3. QED
  BY <1>1, <1>2 DEF Release

LEMMA PreemptPollMaps ==
  ASSUME RepolledAreWeakest, EInv, NEW r \in Req, PreemptPoll(r)
  PROVE  [Contended!PreemptivePoolNext]_(Contended!preemptivePoolVars)
<1>1. r \in Pollable
  BY DEF PreemptPoll
<1>2. priority' = priority
  BY DEF PreemptPoll, PreemptPollGranted, PollGranted, PollFree, PollAcquire, PollPreempt,
     PollBlock, PollPark, PollPending, Resolve, requestVars
<1>3. CASE PreemptPollGranted(r)
  BY <1>1, <1>2, <1>3, CollectMaps DEF Contended!PreemptivePoolNext
<1>4. CASE PollFree(r)
  BY <1>1, <1>2, <1>4, PollFreeMaps DEF Contended!PreemptivePoolNext
<1>5. CASE PollPreempt(r)
  BY <1>2, <1>5, EvictMaps DEF Contended!PreemptivePoolNext
<1>6. CASE PollBlock(r) /\ PollPark(r)
  BY <1>1, <1>2, <1>6, PreemptParkMaps DEF Contended!PreemptivePoolNext
<1>7. CASE PollBlock(r) /\ PollPending(r)
  <2>1. Units' = Units /\ LiveWaiters' = LiveWaiters /\ UNCHANGED <<holders, priority>>
    BY <1>7 DEF PollBlock, PollPending, requestVars, holderVars, Units, Held, Handed, LiveWaiters
  <2>2. QED
    BY <2>1, PreemptStutterMaps
<1>8. QED
  BY <1>3, <1>4, <1>5, <1>6, <1>7 DEF PreemptPoll, PollBlock

LEMMA PreemptDropRequestMaps ==
  ASSUME EInv, NEW r \in Req, PreemptDropRequest(r)
  PROVE  [Contended!PreemptivePoolNext]_(Contended!preemptivePoolVars)
<1>1. /\ UNCHANGED <<consumed, priority, holders>> /\ DropRequest(r)
      /\ dropped' = dropped \cup {r} /\ r \notin dropped /\ Held' = Held
  BY DEF PreemptDropRequest, DropRequest, holderVars, Held
<1>2. CASE DropInert(r)
  <2>1. Units' = Units /\ LiveWaiters' = LiveWaiters
    BY <1>1, <1>2 DEF DropInert, poolVars, Units, Handed, LiveWaiters
  <2>2. QED
    BY <1>1, <2>1, PreemptStutterMaps
<1>3. CASE DropGranted(r)
  <2>1. r \in Units /\ r \notin Held /\ r \notin Handed'
    BY <1>1, <1>3, PreemptInvs DEF DropGranted, Units, Handed
  <2>2. Contended!GiveUnitBack(r)
    BY <1>1, <1>3, <2>1, PreemptReleaseMaps DEF DropGranted
  <2>3. QED
    BY <1>1, <2>2 DEF Contended!PreemptivePoolNext
<1>4. CASE DropParked(r)
  <2>1. Units' = Units
    BY <1>1, <1>4 DEF DropParked, Units, Handed
  <2>2. \E i \in 1..Len(Line) : Line[i].req = r /\ Line' = RemoveAt(Line, i)
    BY <1>1, <1>4, PreemptInvs, AbandonLine
  <2>3. Contended!LeaveLine(r)
    BY <1>1, <2>1, <2>2
       DEF Contended!LeaveLine, Contended!Leave, Contended!RemoveAt, RemoveAt, Units
  <2>4. QED
    BY <1>1, <2>3 DEF Contended!PreemptivePoolNext
<1>5. QED
  BY <1>1, <1>2, <1>3, <1>4 DEF DropRequest

LEMMA DropHoldingMaps ==
  ASSUME EInv, NEW r \in Req, DropHoldingGuard(r)
  PROVE  [Contended!PreemptivePoolNext]_(Contended!preemptivePoolVars)
<1>1. /\ r \in guards \ preempted /\ Release /\ holders' = RemoveFirst(holders, r)
      /\ UNCHANGED <<dropped, consumed, priority>>
  BY DEF DropHoldingGuard, DropGuard
<1>2. Held' = Held \ {r}
  BY <1>1, RemoveFirstSet DEF EInv, HInv, PreemptTypeOK, HoldersAreLiveGuards, Held
<1>3. r \in Units /\ r \notin Handed'
  BY <1>1, PreemptInvs DEF HoldersAreLiveGuards, Units, Handed
<1>4. Contended!GiveUnitBack(r)
  BY <1>1, <1>2, <1>3, PreemptReleaseMaps
<1>5. QED
  BY <1>1, <1>4 DEF Contended!PreemptivePoolNext

LEMMA PreemptNextMaps ==
  ASSUME RepolledAreWeakest, EInv, [PreemptNext]_preemptVars
  PROVE  [Contended!PreemptivePoolNext]_(Contended!preemptivePoolVars)
<1> DEFINE hidden == /\ Units' = Units /\ LiveWaiters' = LiveWaiters
                     /\ UNCHANGED <<holders, priority>>
<1>1. ASSUME NEW r \in Req, Request(r), UNCHANGED holderVars PROVE hidden
  BY <1>1 DEF Request, poolVars, holderVars, Units, Held, Handed, LiveWaiters
<1>2. ASSUME NEW r \in Req, DropEvictedGuard(r) PROVE hidden
  BY <1>2 DEF DropEvictedGuard, poolVars, holderVars, Units, Held, Handed, LiveWaiters
<1>3. ASSUME UNCHANGED preemptVars PROVE hidden
  BY <1>3 DEF preemptVars, vars, poolVars, requestVars, holderVars, Units, Held, Handed, LiveWaiters
<1>4. hidden => UNCHANGED Contended!preemptivePoolVars
  BY PreemptStutterMaps
<1> HIDE DEF hidden
<1>5. QED
  BY <1>1, <1>2, <1>3, <1>4, PreemptPollMaps, PreemptDropRequestMaps, DropHoldingMaps
     DEF PreemptNext

\* The preemptive pool keeps the promise of PreemptivePool when no request
\* urgent enough to evict is re-polled while parked: an eviction is one unit
\* changing hands from the least urgent holder, the line is otherwise served in
\* order, and the late drop of an evicted guard is invisible.
THEOREM PreemptiveRefinementHolds ==
  ASSUME RepolledAreWeakest
  PROVE  PreemptSpec => ImplementsPreemptivePool
<1>1. PreemptInit => Contended!PreemptivePoolInit
  BY PreemptInitMaps
<1>2. EInv /\ [PreemptNext]_preemptVars
        => [Contended!PreemptivePoolNext]_(Contended!preemptivePoolVars)
  BY PreemptNextMaps
<1>3. PreemptSpec => []EInv
  BY ExactInductive
<1>4. QED
  BY <1>1, <1>2, <1>3, PTL DEF PreemptSpec, ImplementsPreemptivePool, Contended!PreemptivePoolSpec

=============================================================================

------------------------- MODULE PlaceMemoryProofs -------------------------
(***************************************************************************)
(* What is proved of PlaceMemory for every value of its constants: any     *)
(* finite number of nodes and replicas, any size of the memory, any number *)
(* of conflicts, failed calls and new processes.                           *)
(***************************************************************************)
EXTENDS PlaceMemory, FiniteSetTheorems, FunctionTheorems, SequenceTheorems, TLAPS

USE NamesSort, ClusterIsFinite, BoundsAreNumbers, KindsKnown

---------------------------------------------------------------------------
\* Sets of numbers and their order.

Rank(S) == [n \in S |-> Cardinality({m \in S : m <= n})]

(* Among the numbers of a finite set every rank is taken once. *)
LEMMA RankBijection ==
    ASSUME NEW S \in SUBSET Nat, IsFiniteSet(S)
    PROVE  Cardinality(S) \in Nat /\ Rank(S) \in Bijection(S, 1..Cardinality(S))
  <1> DEFINE Upto(n) == {m \in S : m <= n}
             top == Cardinality(S)
  <1>1. top \in Nat
    BY FS_CardinalityType
  <1>2. \A n \in S : IsFiniteSet(Upto(n)) /\ Cardinality(Upto(n)) \in 1..top
    <2>1. TAKE n \in S
    <2>2. Upto(n) \in SUBSET S /\ n \in Upto(n)
      OBVIOUS
    <2>3. IsFiniteSet(Upto(n)) /\ Cardinality(Upto(n)) <= top
      BY <2>2, FS_Subset
    <2>4. Cardinality(Upto(n)) \in Nat /\ Cardinality(Upto(n)) # 0
      BY <2>2, <2>3, FS_CardinalityType, FS_EmptySet
    <2>5. QED
      BY <1>1, <2>3, <2>4
  <1>3. \A n \in S, o \in S : n < o => Cardinality(Upto(n)) < Cardinality(Upto(o))
    <2>1. SUFFICES ASSUME NEW n \in S, NEW o \in S, n < o
                   PROVE  Cardinality(Upto(n)) < Cardinality(Upto(o))
      OBVIOUS
    <2>2. n \in Nat /\ o \in Nat
      OBVIOUS
    <2>3. Upto(n) \in SUBSET Upto(o) /\ o \in Upto(o) /\ o \notin Upto(n)
      <3>1. \A m \in S : m \in Nat
        OBVIOUS
      <3>2. \A m \in S : m <= n => m <= o
        BY <2>1, <2>2, <3>1
      <3>3. o <= o /\ ~(o <= n)
        BY <2>1, <2>2
      <3>4. QED
        BY <3>2, <3>3
    <2>4. /\ Cardinality(Upto(n)) <= Cardinality(Upto(o))
          /\ Cardinality(Upto(n)) # Cardinality(Upto(o))
      BY <1>2, <2>3, FS_Subset
    <2>5. QED
      BY <1>2, <2>4
  <1>4. Rank(S) \in [S -> 1..top] /\ \A n \in S : Rank(S)[n] = Cardinality(Upto(n))
    BY <1>2 DEF Rank
  <1>5. \A n \in S, o \in S : Rank(S)[n] = Rank(S)[o] => n = o
    <2>1. SUFFICES ASSUME NEW n \in S, NEW o \in S, Rank(S)[n] = Rank(S)[o]
                   PROVE  n = o
      OBVIOUS
    <2>2. n \in Nat /\ o \in Nat /\ Rank(S)[n] \in Nat
      BY <1>2, <1>4
    <2>3. ~(n < o) /\ ~(o < n)
      <3>1. Cardinality(Upto(n)) = Cardinality(Upto(o)) /\ Cardinality(Upto(n)) \in Nat
        BY <1>4, <2>1, <2>2
      <3>2. /\ n < o => Cardinality(Upto(n)) < Cardinality(Upto(o))
            /\ o < n => Cardinality(Upto(o)) < Cardinality(Upto(n))
        BY <1>3
      <3> HIDE DEF Upto
      <3>3. QED
        BY <3>1, <3>2
    <2>4. QED
      BY <2>2, <2>3
  <1>6. Rank(S) \in Injection(S, 1..top)
    BY <1>4, <1>5, Fun_IsInj
  <1>7. IsFiniteSet(1..top) /\ Cardinality(1..top) = top
    BY <1>1, FS_Interval
  <1>8. Rank(S) \in Surjection(S, 1..top)
    BY <1>6, <1>7, FS_Injection
  <1>9. QED
    BY <1>1, <1>6, <1>8 DEF Bijection

(* A finite set of numbers put in order has each of them once. *)
LEMMA InOrderType ==
    ASSUME NEW S \in SUBSET Nat, IsFiniteSet(S)
    PROVE  /\ Cardinality(S) \in Nat
           /\ InOrder[S] \in [1..Cardinality(S) -> S]
           /\ \A n \in S : \E i \in 1..Cardinality(S) : InOrder[S][i] = n
           /\ \A i, j \in 1..Cardinality(S) : InOrder[S][i] = InOrder[S][j] => i = j
  <1>1. /\ Cardinality(S) \in Nat /\ Rank(S) \in [S -> 1..Cardinality(S)]
        /\ \A i \in 1..Cardinality(S) : \E n \in S : Rank(S)[n] = i
        /\ \A n \in S, o \in S : Rank(S)[n] = Rank(S)[o] => n = o
    <2>1. Cardinality(S) \in Nat /\ Rank(S) \in Bijection(S, 1..Cardinality(S))
      BY RankBijection
    <2>2. QED
      BY <2>1 DEF Bijection, Injection, Surjection, IsInjective
  <1>2. \A n \in S : Rank(S)[n] = Cardinality({m \in S : m <= n})
    BY DEF Rank
  <1>3. \A i \in 1..Cardinality(S) : InOrder[S][i] \in S /\ Rank(S)[InOrder[S][i]] = i
    <2>1. TAKE i \in 1..Cardinality(S)
    <2>2. InOrder[S][i] = CHOOSE n \in S : Cardinality({m \in S : m <= n}) = i
      BY DEF InOrder
    <2>3. \E n \in S : Cardinality({m \in S : m <= n}) = i
      BY <1>1, <1>2
    <2>4. InOrder[S][i] \in S /\ Cardinality({m \in S : m <= InOrder[S][i]}) = i
      BY <2>2, <2>3
    <2>5. QED
      BY <1>2, <2>4
  <1>4. InOrder[S] \in [1..Cardinality(S) -> S]
    BY <1>3 DEF InOrder
  <1>5. \A n \in S : InOrder[S][Rank(S)[n]] = n
    BY <1>1, <1>3
  <1>6. \A n \in S : \E i \in 1..Cardinality(S) : InOrder[S][i] = n
    BY <1>1, <1>5
  <1>7. \A i, j \in 1..Cardinality(S) : InOrder[S][i] = InOrder[S][j] => i = j
    BY <1>3
  <1>8. QED
    BY <1>1, <1>4, <1>6, <1>7

(* The largest numbers of a finite set are as many as were asked for, or all. *)
LEMMA LargestType ==
    ASSUME NEW S \in SUBSET Nat, IsFiniteSet(S), NEW k \in Nat
    PROVE  /\ Largest(k, S) \in SUBSET S /\ IsFiniteSet(Largest(k, S))
           /\ Cardinality(Largest(k, S)) \in Nat /\ Cardinality(Largest(k, S)) <= k
           /\ Cardinality(Largest(k, S)) = k \/ Largest(k, S) = S
  <1> DEFINE L == Largest(k, S)
             top == Cardinality(S)
  <1>1. /\ top \in Nat /\ Rank(S) \in [S -> 1..top]
        /\ \A i \in 1..top : \E n \in S : Rank(S)[n] = i
        /\ \A n \in S, o \in S : Rank(S)[n] = Rank(S)[o] => n = o
    <2>1. top \in Nat /\ Rank(S) \in Bijection(S, 1..top)
      BY RankBijection
    <2>2. QED
      BY <2>1 DEF Bijection, Injection, Surjection, IsInjective
  <1>2. L \in SUBSET S
    BY DEF Largest
  <1>3. IsFiniteSet(L) /\ Cardinality(L) \in Nat
    BY <1>2, FS_Subset, FS_CardinalityType
  <1>4. \A n \in S : n \in L <=> top - Rank(S)[n] < k
    <2>1. TAKE n \in S
    <2>2. DEFINE upto == {m \in S : m <= n}
                 above == {m \in S : m > n}
    <2>3. above = S \ upto /\ S \cap upto = upto
      <3>1. \A m \in S : m > n <=> ~(m <= n)
        OBVIOUS
      <3>2. QED
        BY <3>1
    <2>4. Cardinality(above) = top - Cardinality(upto)
      BY <2>3, FS_Difference
    <2>5. Rank(S)[n] = Cardinality(upto)
      BY DEF Rank
    <2>6. n \in L <=> Cardinality(above) < k
      BY DEF Largest
    <2>7. QED
      BY <2>4, <2>5, <2>6
  <1>5. CASE top <= k
    <2>1. \A n \in S : n \in L
      BY <1>1, <1>4, <1>5
    <2>2. L = S
      BY <1>2, <2>1
    <2>3. QED
      BY <1>2, <1>3, <1>5, <2>2
  <1>6. CASE k < top
    <2>1. DEFINE low == top - k + 1
                 r == [n \in L |-> Rank(S)[n]]
    <2>2. low \in Nat /\ low <= top + 1 /\ low >= 1 /\ top - low + 1 = k
      BY <1>1, <1>6
    <2>3. r \in [L -> low..top]
      <3>1. \A n \in L : n \in S /\ Rank(S)[n] \in 1..top /\ top - Rank(S)[n] < k
        BY <1>1, <1>2, <1>4
      <3>2. \A n \in L : Rank(S)[n] \in low..top
        BY <1>1, <3>1
      <3>3. QED
        BY <3>2
    <2>4. \A a, b \in L : r[a] = r[b] => a = b
      BY <1>1, <1>2
    <2>5. \A i \in low..top : \E n \in L : r[n] = i
      <3>1. TAKE i \in low..top
      <3>2. i \in 1..top /\ top - i < k
        BY <1>1, <2>2
      <3>3. PICK n \in S : Rank(S)[n] = i
        BY <1>1, <3>2
      <3>4. QED
        BY <1>4, <3>2, <3>3
    <2> HIDE DEF r
    <2>6. r \in Bijection(L, low..top)
      BY <2>3, <2>4, <2>5, Fun_IsBij
    <2>7. Cardinality(low..top) = Cardinality(L)
      BY <1>3, <2>6, FS_Bijection DEF ExistsBijection
    <2>8. Cardinality(low..top) = k
      <3>1. low \in Int /\ top \in Int
        BY <1>1, <2>2
      <3>2. Cardinality(low..top) = IF low > top THEN 0 ELSE top - low + 1
        BY <3>1, FS_Interval
      <3>3. QED
        BY <1>1, <2>2, <3>2
    <2>9. QED
      BY <1>2, <1>3, <2>7, <2>8
  <1>7. QED
    BY <1>1, <1>5, <1>6

---------------------------------------------------------------------------
\* What Recall makes of a memory.

(* A function without repetition has as many values as arguments. *)
LEMMA RangeOfInjective ==
    ASSUME NEW n \in Nat, NEW T, NEW f \in [1..n -> T], IsInjective(f)
    PROVE  IsFiniteSet(Range(f)) /\ Cardinality(Range(f)) = n
  <1>1. f \in Surjection(1..n, Range(f))
    BY Fun_RangeProperties
  <1>2. f \in Injection(1..n, Range(f))
    BY <1>1 DEF Surjection, Injection
  <1>3. IsFiniteSet(1..n) /\ Cardinality(1..n) = n
    <2>1. Cardinality(1..n) = IF 1 > n THEN 0 ELSE n - 1 + 1
      BY FS_Interval
    <2>2. QED
      BY <2>1, FS_Interval
  <1>4. QED
    BY <1>1, <1>2, <1>3, FS_Surjection

(* The new homes before the old ones: a list of all of them, each once. *)
LEMMA HomesJoined ==
    ASSUME NEW previous \in Seq(Node), IsInjective(previous), NEW current \in SUBSET Node
    PROVE  LET nodes == InOrder[current \ Range(previous)] \o previous
           IN  /\ nodes \in Seq(Node)
               /\ \A i, j \in 1..Len(nodes) : nodes[i] = nodes[j] => i = j
               /\ \A x \in current \union Range(previous) : \E i \in 1..Len(nodes) : nodes[i] = x
  <1> DEFINE fresh == current \ Range(previous)
             a == InOrder[fresh]
             c == Cardinality(fresh)
             l == Len(previous)
             nodes == a \o previous
  <1>1. fresh \in SUBSET Nat /\ IsFiniteSet(fresh) /\ fresh \subseteq Node
    <2>1. fresh \in SUBSET Node
      OBVIOUS
    <2>2. QED
      BY <2>1, FS_Subset
  <1>2. /\ c \in Nat /\ a \in [1..c -> fresh]
        /\ \A n \in fresh : \E i \in 1..c : a[i] = n
        /\ \A i, j \in 1..c : a[i] = a[j] => i = j
    BY <1>1, InOrderType
  <1>3. /\ l \in Nat /\ previous \in [1..l -> Node]
        /\ \A i, j \in 1..l : previous[i] = previous[j] => i = j
        /\ \A i \in 1..l : previous[i] \in Range(previous)
        /\ \A x \in Range(previous) : \E i \in 1..l : previous[i] = x
    <2>1. l \in Nat /\ previous \in [1..l -> Node] /\ DOMAIN previous = 1..l
      BY LenProperties
    <2>2. QED
      BY <2>1 DEF IsInjective, Range
  <1> HIDE DEF fresh, a, c, l
  <1>4. a \in Seq(Node) /\ Len(a) = c
    <2>1. a \in [1..c -> Node]
      BY <1>1, <1>2
    <2>2. a \in Seq(Node)
      BY <1>2, <2>1, SeqDef
    <2>3. QED
      BY <1>2, <2>1, <2>2, LenProperties
  <1>5. /\ nodes \in Seq(Node) /\ Len(nodes) = c + l
        /\ \A i \in 1..c + l : nodes[i] = IF i <= c THEN a[i] ELSE previous[i - c]
    BY <1>4, ConcatProperties DEF l
  <1> HIDE DEF nodes
  <1>6. \A i \in 1..c : nodes[i] = a[i] /\ nodes[i] \in fresh
    <2>1. TAKE i \in 1..c
    <2>2. i \in 1..c + l /\ i <= c
      BY <1>2, <1>3
    <2>3. QED
      BY <1>2, <1>5, <2>2
  <1>7. \A i \in c + 1..c + l : /\ nodes[i] = previous[i - c] /\ i - c \in 1..l
                                /\ nodes[i] \notin fresh
    <2>1. TAKE i \in c + 1..c + l
    <2>2. i \in 1..c + l /\ ~(i <= c) /\ i - c \in 1..l
      BY <1>2, <1>3
    <2>3. nodes[i] = previous[i - c]
      BY <1>5, <2>2
    <2>4. QED
      BY <1>3, <2>2, <2>3 DEF fresh
  <1>8. \A i, j \in 1..c + l : nodes[i] = nodes[j] => i = j
    <2>1. SUFFICES ASSUME NEW i \in 1..c + l, NEW j \in 1..c + l, nodes[i] = nodes[j]
                   PROVE  i = j
      OBVIOUS
    <2>2. (i \in 1..c \/ i \in c + 1..c + l) /\ (j \in 1..c \/ j \in c + 1..c + l)
      BY <1>2, <1>3
    <2>3. CASE i \in 1..c /\ j \in 1..c
      BY <1>2, <1>6, <2>1, <2>3
    <2>4. CASE i \in c + 1..c + l /\ j \in c + 1..c + l
      <3>1. i - c \in 1..l /\ j - c \in 1..l /\ previous[i - c] = previous[j - c]
        BY <1>7, <2>1, <2>4
      <3>2. i - c = j - c
        BY <1>3, <3>1
      <3>3. QED
        BY <1>2, <1>3, <3>2
    <2>5. CASE \/ i \in 1..c /\ j \in c + 1..c + l
               \/ j \in 1..c /\ i \in c + 1..c + l
      BY <1>6, <1>7, <2>1, <2>5
    <2>6. QED
      BY <2>2, <2>3, <2>4, <2>5
  <1>9. \A x \in current \union Range(previous) : \E i \in 1..c + l : nodes[i] = x
    <2>1. TAKE x \in current \union Range(previous)
    <2>2. CASE x \in fresh
      <3>1. PICK i \in 1..c : a[i] = x
        BY <1>2, <2>2
      <3>2. i \in 1..c + l /\ nodes[i] = x
        BY <1>2, <1>3, <1>6, <3>1
      <3>3. QED
        BY <3>2
    <2>3. CASE x \notin fresh
      <3>1. PICK i \in 1..l : previous[i] = x
        BY <1>3, <2>3 DEF fresh
      <3> DEFINE j == i + c
      <3>2. j \in c + 1..c + l /\ j - c = i /\ j \in 1..c + l
        BY <1>2, <1>3
      <3> HIDE DEF j
      <3>3. nodes[j] = previous[j - c]
        BY <1>7, <3>2
      <3>4. nodes[j] = x
        BY <3>1, <3>2, <3>3
      <3>5. QED
        BY <3>2, <3>4
    <2>4. QED
      BY <2>2, <2>3
  <1>10. QED
    BY <1>5, <1>8, <1>9 DEF nodes, a, fresh

(* What a pass makes of a list of homes: a list of homes again, each once and no
   more than fit, with every node the workload was seen on and, unless it is full,
   every home it had. *)
LEMMA RecallNodesSound ==
    ASSUME NEW previous \in Seq(Node), IsInjective(previous),
           NEW current \in SUBSET Node, limit \in Nat, Cardinality(current) <= limit
    PROVE  LET new == RecallNodes(previous, current)
           IN  /\ new \in Seq(Node) /\ IsInjective(new) /\ Len(new) <= limit
               /\ current \subseteq Range(new)
               /\ \/ Range(previous) \subseteq Range(new)
                  \/ Cardinality(Range(new)) >= limit
  <1> DEFINE nodes == InOrder[current \ Range(previous)] \o previous
             l == Len(nodes)
             idle == {i \in DOMAIN nodes : nodes[i] \notin current}
             gone == Largest(Excess(l), idle)
             left == DOMAIN nodes \ gone
             kept == InOrder[left]
             k == Cardinality(left)
             new == [i \in DOMAIN kept |-> nodes[kept[i]]]
  <1>1. /\ nodes \in Seq(Node)
        /\ \A i, j \in 1..l : nodes[i] = nodes[j] => i = j
        /\ \A x \in current \union Range(previous) : \E i \in 1..l : nodes[i] = x
    BY HomesJoined
  <1>2. new = RecallNodes(previous, current)
    BY DEF RecallNodes
  <1> HIDE DEF nodes
  <1>3. l \in Nat /\ DOMAIN nodes = 1..l /\ nodes \in [1..l -> Node]
    BY <1>1, LenProperties
  <1> HIDE DEF l
  <1>4. Excess(l) \in Nat /\ (l <= limit => Excess(l) = 0) /\ (l > limit => Excess(l) = l - limit)
    BY <1>3 DEF Excess
  <1>5. IsFiniteSet(1..l) /\ Cardinality(1..l) = l
    <2>1. Cardinality(1..l) = IF 1 > l THEN 0 ELSE l - 1 + 1
      BY <1>3, FS_Interval
    <2>2. QED
      BY <1>3, <2>1, FS_Interval
  <1>6. idle \in SUBSET (1..l) /\ idle \in SUBSET Nat /\ IsFiniteSet(idle)
    <2>1. idle \in SUBSET (1..l)
      BY <1>3
    <2>2. \A i \in 1..l : i \in Nat
      BY <1>3
    <2>3. IsFiniteSet(idle)
      BY <1>5, <2>1, FS_Subset
    <2>4. QED
      BY <2>1, <2>2, <2>3
  <1> HIDE DEF idle
  <1>7. /\ gone \in SUBSET idle /\ Cardinality(gone) \in Nat
        /\ Cardinality(gone) <= Excess(l)
        /\ Cardinality(gone) = Excess(l) \/ gone = idle
    BY <1>4, <1>6, LargestType
  <1>8. IsFiniteSet(gone)
    BY <1>6, <1>7, FS_Subset
  <1> HIDE DEF gone
  <1>9. left = 1..l \ gone /\ left \in SUBSET Nat /\ left \in SUBSET (1..l)
    BY <1>3
  <1>10. IsFiniteSet(left) /\ k = l - Cardinality(gone)
    <2>1. (1..l) \cap gone = gone
      BY <1>6, <1>7
    <2>2. QED
      BY <1>5, <1>9, <2>1, FS_Difference
  <1> HIDE DEF left
  <1>11. /\ k \in Nat /\ kept \in [1..k -> left]
         /\ \A i \in left : \E j \in 1..k : kept[j] = i
         /\ \A i, j \in 1..k : kept[i] = kept[j] => i = j
    BY <1>9, <1>10, InOrderType
  <1> HIDE DEF kept, k
  <1>12. /\ new \in [1..k -> Node]
         /\ \A j \in 1..k : new[j] = nodes[kept[j]]
    <2>1. \A j \in 1..k : nodes[kept[j]] \in Node
      BY <1>3, <1>9, <1>11
    <2>2. DOMAIN kept = 1..k
      BY <1>11
    <2>3. QED
      BY <2>1, <2>2
  <1> HIDE DEF new
  <1>13. IsInjective(new)
    <2>1. SUFFICES ASSUME NEW i \in 1..k, NEW j \in 1..k, new[i] = new[j] PROVE i = j
      BY <1>12 DEF IsInjective
    <2>2. kept[i] \in 1..l /\ kept[j] \in 1..l /\ nodes[kept[i]] = nodes[kept[j]]
      BY <1>9, <1>11, <1>12, <2>1
    <2>3. kept[i] = kept[j]
      BY <1>1, <2>2
    <2>4. QED
      BY <1>11, <2>3
  <1>14. new \in Seq(Node) /\ Len(new) = k
    <2>1. new \in Seq(Node)
      BY <1>11, <1>12, SeqDef
    <2>2. QED
      BY <1>11, <1>12, <2>1, LenProperties
  <1>15. IsFiniteSet(Range(new)) /\ Cardinality(Range(new)) = k
    BY <1>11, <1>12, <1>13, RangeOfInjective
  <1>16. k <= limit
    <2>1. CASE Cardinality(gone) = Excess(l)
      BY <1>3, <1>4, <1>10, <2>1
    <2>2. CASE gone = idle
      <3>1. Range(new) \subseteq current
        <4>1. \A i \in left : nodes[i] \in current
          BY <1>3, <1>9, <2>2 DEF idle
        <4>2. \A j \in 1..k : new[j] \in current
          BY <1>11, <1>12, <4>1
        <4>3. QED
          BY <1>12, <4>2 DEF Range
      <3>2. IsFiniteSet(current)
        BY FS_Subset
      <3>3. Cardinality(Range(new)) <= Cardinality(current) /\ Cardinality(current) \in Nat
        BY <3>1, <3>2, FS_Subset, FS_CardinalityType
      <3>4. QED
        BY <1>11, <1>15, <3>3
    <2>3. QED
      BY <1>7, <2>1, <2>2
  <1>17. \A i \in left : nodes[i] \in Range(new)
    <2>1. TAKE i \in left
    <2>2. PICK j \in 1..k : kept[j] = i
      BY <1>11
    <2>3. new[j] = nodes[i] /\ j \in DOMAIN new
      BY <1>12, <2>2
    <2>4. QED
      BY <2>3 DEF Range
  <1>18. current \subseteq Range(new)
    <2>1. SUFFICES ASSUME NEW x \in current PROVE x \in Range(new)
      OBVIOUS
    <2>2. PICK i \in 1..l : nodes[i] = x
      BY <1>1
    <2>3. i \notin idle
      BY <2>2 DEF idle
    <2>4. i \in left
      BY <1>7, <1>9, <2>3
    <2>5. QED
      BY <1>17, <2>2, <2>4
  <1>19. Range(previous) \subseteq Range(new) \/ Cardinality(Range(new)) >= limit
    <2>1. CASE l <= limit
      <3>1. Cardinality(gone) = 0
        BY <1>4, <1>7, <2>1
      <3>2. gone = {}
        BY <1>8, <3>1, FS_EmptySet
      <3>3. \A x \in Range(previous) : \E i \in left : nodes[i] = x
        BY <1>1, <1>9, <3>2
      <3>4. QED
        BY <1>17, <3>3
    <2>2. CASE l > limit
      <3>1. Excess(l) = l - limit
        BY <1>4, <2>2
      <3>2. k >= limit
        BY <1>3, <1>7, <1>10, <3>1
      <3>3. QED
        BY <1>15, <3>2
    <2>3. QED
      BY <1>3, <2>1, <2>2
  <1>20. QED
    BY <1>2, <1>13, <1>14, <1>16, <1>18, <1>19

(* What a pass makes of a StatefulSet's pairs: the ordinals that run, where they run,
   and of the others each that was there before, unless there is no room. *)
LEMMA RecallOrdinalsSound ==
    ASSUME NEW previous \in Placed, NEW running \in Placed, limit \in Nat
    PROVE  LET new == RecallOrdinals(previous, running)
           IN  /\ new \in Placed
               /\ DOMAIN running \subseteq DOMAIN new
               /\ \/ DOMAIN previous \subseteq DOMAIN new
                  \/ Cardinality(DOMAIN new) >= limit
               /\ \A o \in DOMAIN new : \/ o \in DOMAIN running /\ new[o] = running[o]
                                        \/ o \in DOMAIN previous /\ new[o] = previous[o]
  <1> DEFINE ords == DOMAIN previous \union DOMAIN running
             idle == ords \ DOMAIN running
             gone == Largest(Excess(Cardinality(ords)), idle)
             left == ords \ gone
             new == [o \in left |-> IF o \in DOMAIN running THEN running[o] ELSE previous[o]]
  <1>1. new = RecallOrdinals(previous, running)
    BY DEF RecallOrdinals
  <1>2. /\ DOMAIN previous \in SUBSET Replica /\ previous \in [DOMAIN previous -> Node]
        /\ DOMAIN running \in SUBSET Replica /\ running \in [DOMAIN running -> Node]
    BY DEF Placed
  <1>3. ords \in SUBSET Replica /\ IsFiniteSet(ords) /\ Cardinality(ords) \in Nat
    <2>1. ords \in SUBSET Replica
      BY <1>2
    <2>2. QED
      BY <2>1, FS_Subset, FS_CardinalityType
  <1>4. /\ Excess(Cardinality(ords)) \in Nat
        /\ Cardinality(ords) <= limit => Excess(Cardinality(ords)) = 0
        /\ Cardinality(ords) > limit => Excess(Cardinality(ords)) = Cardinality(ords) - limit
    <2> DEFINE n == Cardinality(ords)
    <2>1. n \in Nat
      BY <1>3
    <2> HIDE DEF n
    <2>2. Excess(n) \in Nat /\ (n <= limit => Excess(n) = 0) /\ (n > limit => Excess(n) = n - limit)
      BY <2>1 DEF Excess
    <2>3. QED
      BY <2>2 DEF n
  <1>5. idle \in SUBSET ords /\ idle \in SUBSET Nat /\ IsFiniteSet(idle)
    <2>1. idle \in SUBSET ords /\ idle \in SUBSET Replica
      BY <1>3
    <2>2. idle \in SUBSET Nat
      BY <2>1
    <2>3. QED
      BY <1>3, <2>1, <2>2, FS_Subset
  <1>6. /\ gone \in SUBSET idle /\ IsFiniteSet(gone) /\ Cardinality(gone) \in Nat
        /\ Cardinality(gone) <= Excess(Cardinality(ords))
    BY <1>4, <1>5, LargestType
  <1>7. gone \cap DOMAIN running = {} /\ gone \in SUBSET ords
    BY <1>5, <1>6
  <1> HIDE DEF gone, ords
  <1>8. Cardinality(left) = Cardinality(ords) - Cardinality(gone)
    <2>1. ords \cap gone = gone
      BY <1>7
    <2>2. QED
      BY <1>3, <2>1, FS_Difference
  <1>9. left \in SUBSET Replica /\ DOMAIN running \subseteq left
        /\ left \subseteq DOMAIN previous \union DOMAIN running
    BY <1>3, <1>7 DEF ords
  <1> HIDE DEF left
  <1>10. /\ \A o \in left : o \in DOMAIN running => new[o] = running[o]
         /\ \A o \in left : o \notin DOMAIN running => new[o] = previous[o]
         /\ DOMAIN new = left
    OBVIOUS
  <1>11. new \in [left -> Node]
    <2>1. \A o \in left : (IF o \in DOMAIN running THEN running[o] ELSE previous[o]) \in Node
      BY <1>2, <1>9
    <2>2. QED
      BY <2>1
  <1> HIDE DEF new
  <1>12. new \in Placed
    BY <1>9, <1>11 DEF Placed
  <1>13. DOMAIN previous \subseteq DOMAIN new \/ Cardinality(DOMAIN new) >= limit
    <2>1. CASE Cardinality(ords) <= limit
      <3>1. Cardinality(gone) = 0
        BY <1>4, <1>6, <2>1
      <3>2. gone = {}
        BY <1>6, <3>1, FS_EmptySet
      <3>3. QED
        BY <1>10, <3>2 DEF left, ords
    <2>2. CASE Cardinality(ords) > limit
      <3>1. Excess(Cardinality(ords)) = Cardinality(ords) - limit
        BY <1>4, <2>2
      <3> HIDE DEF idle
      <3>2. Cardinality(left) >= limit
        BY <1>3, <1>6, <1>8, <3>1
      <3>3. QED
        BY <1>10, <3>2
    <2>3. QED
      BY <1>3, <2>1, <2>2
  <1>14. QED
    BY <1>1, <1>9, <1>10, <1>12, <1>13

---------------------------------------------------------------------------
\* What every memory, stored, cached or about to be written, is.

\* A list of homes names each once and no more than fit.
Homes == {m \in Memory : kind # "StatefulSet" => Len(m) <= limit /\ IsInjective(m)}

(* What runs is replicas on nodes. *)
LEMMA RunningType ==
    ASSUME NEW where \in [Replica -> Node \union {None}]
    PROVE  Running(where) \in Placed
  <1> DEFINE up == {q \in Replica : where[q] # None}
  <1>1. Running(where) = [r \in up |-> where[r]]
    BY DEF Running
  <1>2. \A r \in up : where[r] \in Node
    OBVIOUS
  <1>3. Running(where) \in [up -> Node] /\ up \in SUBSET Replica
    BY <1>1, <1>2
  <1>4. QED
    BY <1>3 DEF Placed

(* A list of different nodes is a memory. *)
LEMMA ListIsMemory ==
    ASSUME kind # "StatefulSet"
    PROVE  /\ \A m \in Memory : m \in Seq(Node)
           /\ \A m \in Seq(Node) : IsInjective(m) => m \in Memory
  <1>1. Cardinality(Node) \in Nat
    BY FS_CardinalityType
  <1>2. ASSUME NEW m \in Memory PROVE m \in Seq(Node)
    <2>1. PICK k \in 0..Cardinality(Node) : m \in [1..k -> Node]
      BY <1>2 DEF Memory
    <2>2. k \in Nat
      BY <1>1
    <2>3. QED
      BY <2>1, <2>2, SeqDef
  <1>3. ASSUME NEW m \in Seq(Node), IsInjective(m) PROVE m \in Memory
    <2>1. Len(m) \in Nat /\ m \in [1..Len(m) -> Node]
      BY LenProperties
    <2>2. IsFiniteSet(Range(m)) /\ Cardinality(Range(m)) = Len(m)
      BY <1>3, <2>1, RangeOfInjective
    <2>3. Range(m) \in SUBSET Node
      BY <2>1 DEF Range
    <2>4. Len(m) <= Cardinality(Node)
      BY <2>2, <2>3, FS_Subset
    <2>5. Len(m) \in 0..Cardinality(Node)
      BY <1>1, <2>1, <2>4
    <2>6. QED
      BY <2>1, <2>5 DEF Memory
  <1>4. QED
    BY <1>2, <1>3

(* The absent annotation is a memory. *)
LEMMA NothingType ==
    ASSUME limit \in Nat
    PROVE  Nothing \in Homes /\ Nothing \in Placed
  <1>1. Nothing \in [{} -> Node]
    BY DEF Nothing
  <1>2. Nothing \in Placed
    BY <1>1 DEF Placed
  <1>3. CASE kind = "StatefulSet"
    BY <1>2, <1>3 DEF Homes, Memory
  <1>4. CASE kind # "StatefulSet"
    <2>1. Nothing \in Seq(Node) /\ Len(Nothing) = 0 /\ DOMAIN Nothing = {}
      BY DEF Nothing
    <2>2. IsInjective(Nothing)
      BY <2>1 DEF IsInjective
    <2>3. Nothing \in Memory
      BY <1>4, <2>1, <2>2, ListIsMemory
    <2>4. Len(Nothing) <= limit
      BY <2>1
    <2>5. QED
      BY <1>2, <2>2, <2>3, <2>4, Zenon DEF Homes
  <1>5. QED
    BY <1>2, <1>3, <1>4

(* Recall makes a memory of a memory, and what it lets go makes room. *)
LEMMA RecallSound ==
    ASSUME limit \in Nat, NEW previous \in Homes, NEW pods \in Placed
    PROVE  /\ Recall(previous, pods) \in Homes
           /\ MakesRoom(previous, Recall(previous, pods), pods)
  <1> DEFINE new == Recall(previous, pods)
             here == Range(pods)
  <1>1. here \in SUBSET Node /\ IsFiniteSet(here) /\ Cardinality(here) \in Nat
    <2>1. pods \in [DOMAIN pods -> Node]
      BY DEF Placed
    <2>2. here \in SUBSET Node
      BY <2>1, Fun_RangeProperties
    <2>3. QED
      BY <2>2, FS_Subset, FS_CardinalityType
  <1>2. CASE Cardinality(here) > limit
    <2>1. new = Nothing
      BY <1>2 DEF Recall
    <2>2. QED
      BY <1>2, <2>1, NothingType DEF MakesRoom
  <1>3. CASE ~(Cardinality(here) > limit) /\ kind = "StatefulSet"
    <2>1. new = RecallOrdinals(previous, pods) /\ previous \in Placed
      BY <1>3 DEF Recall, Homes, Memory
    <2>2. /\ new \in Placed
          /\ DOMAIN pods \subseteq DOMAIN new
          /\ DOMAIN previous \subseteq DOMAIN new \/ Cardinality(DOMAIN new) >= limit
          /\ \A o \in DOMAIN new : \/ o \in DOMAIN pods /\ new[o] = pods[o]
                                   \/ o \in DOMAIN previous /\ new[o] = previous[o]
      BY <2>1, RecallOrdinalsSound
    <2> HIDE DEF new
    <2>3. new \in Homes
      BY <1>3, <2>2 DEF Homes, Memory
    <2>4. MakesRoom(previous, new, pods)
      BY <1>3, <2>2 DEF MakesRoom, Entries
    <2>5. QED
      BY <2>3, <2>4 DEF new
  <1>4. CASE ~(Cardinality(here) > limit) /\ kind # "StatefulSet"
    <2>1. previous \in Seq(Node) /\ IsInjective(previous)
      BY <1>4, ListIsMemory DEF Homes
    <2>2. Cardinality(here) <= limit
      BY <1>1, <1>4
    <2>3. new = RecallNodes(previous, here)
      BY <1>4 DEF Recall
    <2> HIDE DEF here
    <2>4. /\ new \in Seq(Node) /\ IsInjective(new) /\ Len(new) <= limit
          /\ here \subseteq Range(new)
          /\ Range(previous) \subseteq Range(new) \/ Cardinality(Range(new)) >= limit
      BY <1>1, <2>1, <2>2, <2>3, RecallNodesSound
    <2> HIDE DEF new
    <2>5. new \in Homes
      BY <1>4, <2>4, ListIsMemory DEF Homes
    <2>6. MakesRoom(previous, new, pods)
      BY <1>4, <2>4 DEF MakesRoom, Entries, here
    <2>7. QED
      BY <2>5, <2>6 DEF new
  <1>5. QED
    BY <1>2, <1>3, <1>4

(***************************************************************************)
(* The inductive invariant.  Besides the types it says of every memory     *)
(* under way what MemoryBounded says of the one stored; that a cached      *)
(* holder the watch has nothing newer for is the holder; and that a write  *)
(* the API server would take makes room in the memory it will replace.     *)
(***************************************************************************)
Current == ~behind => seenHolder = holder

Fitting == worker.pc = "write" /\ ~worker.old
             => MakesRoom(holder.memory, worker.want, worker.pods)

Kept == /\ TypeOK
        /\ holder.memory \in Homes /\ seenHolder.memory \in Homes /\ worker.want \in Homes
        /\ Current /\ Fitting

(* What counts as a memory, a holder or a sync stays the same. *)
LEMMA Steady ==
    ASSUME kind' = kind, limit' = limit
    PROVE  /\ Memory' = Memory /\ Homes' = Homes /\ HolderObject' = HolderObject
           /\ Work' = Work
  <1>1. Memory' = Memory
    BY DEF Memory
  <1>2. Homes' = Homes
    BY <1>1 DEF Homes
  <1>3. HolderObject' = HolderObject /\ Work' = Work
    BY <1>1 DEF HolderObject, Work
  <1>4. QED
    BY <1>1, <1>2, <1>3

(* One turn of the loop: to rest, or a write that makes room. *)
LEMMA AttemptType ==
    ASSUME limit \in Nat, NEW previous \in Homes, NEW pods \in Placed,
           NEW old \in BOOLEAN, NEW n \in 0..MaxAttempts
    PROVE  LET w == Attempt(previous, old, pods, n)
           IN  /\ w \in Work /\ w.want \in Homes
               /\ w.pc = "write" => /\ w.old = old
                                    /\ MakesRoom(previous, w.want, w.pods)
               /\ w = Idle \/ w.pc = "write"
  <1>1. Recall(previous, pods) \in Homes /\ MakesRoom(previous, Recall(previous, pods), pods)
    BY RecallSound
  <1>2. \A m \in Homes : m \in Memory
    BY DEF Homes
  <1>3. Idle \in Work /\ Idle.want \in Homes /\ Idle.pc = "idle"
    BY <1>2, NothingType DEF Idle, Work
  <1>4. CASE Recall(previous, pods) = previous
    <2>1. Attempt(previous, old, pods, n) = Idle
      BY <1>4 DEF Attempt
    <2>2. QED
      BY <1>3, <2>1
  <1>5. CASE Recall(previous, pods) # previous
    <2>1. Attempt(previous, old, pods, n)
            = [pc |-> "write", pods |-> pods, want |-> Recall(previous, pods), old |-> old,
               attempt |-> n]
      BY <1>5 DEF Attempt
    <2>2. QED
      BY <1>1, <1>2, <2>1 DEF Work
  <1>6. QED
    BY <1>4, <1>5

Places == [Replica -> Node \union {None}]
Counts == [moves : 0..MaxMoves, trouble : 0..MaxTrouble]

(* What a step has to establish, said of its new values one by one. *)
LEMMA KeptFrom ==
    ASSUME Kept, kind' = kind, limit' = limit, tie' = tie,
           behind' \in BOOLEAN, queued' \in BOOLEAN, at' \in Places, seenPods' \in Places,
           synced' \subseteq Informers, spent' \in Counts,
           holder' \in HolderObject, holder'.memory \in Homes,
           seenHolder' \in HolderObject, seenHolder'.memory \in Homes,
           ~behind' => seenHolder' = holder',
           worker' \in Work, worker'.want \in Homes,
           worker'.pc = "write" /\ ~worker'.old
             => MakesRoom(holder'.memory, worker'.want, worker'.pods)
    PROVE  Kept'
  <1>1. HolderObject' = HolderObject /\ Work' = Work /\ Homes' = Homes
    BY Steady
  <1>2. kind \in Kinds /\ limit \in Limits /\ tie \in BOOLEAN
    BY DEF Kept, TypeOK
  <1>3. TypeOK'
    BY <1>1, <1>2 DEF TypeOK, Places, Counts
  <1>4. Fitting'
    BY DEF Fitting, MakesRoom, Entries
  <1>5. Current'
    BY DEF Current
  <1>6. QED
    BY <1>1, <1>3, <1>4, <1>5 DEF Kept

(* What holds before a step, one by one. *)
LEMMA KeptNow ==
    ASSUME Kept
    PROVE  /\ limit \in Nat /\ tie \in BOOLEAN /\ behind \in BOOLEAN /\ queued \in BOOLEAN
           /\ at \in Places /\ seenPods \in Places /\ synced \subseteq Informers
           /\ spent \in Counts
           /\ holder \in HolderObject /\ holder.memory \in Homes
           /\ seenHolder \in HolderObject /\ seenHolder.memory \in Homes
           /\ ~behind => seenHolder = holder
           /\ worker \in Work /\ worker.want \in Homes
           /\ worker.pc = "write" /\ ~worker.old
                => MakesRoom(holder.memory, worker.want, worker.pods)
           /\ Idle \in Work /\ Idle.want \in Homes /\ Idle.pc = "idle"
  <1>1. limit \in Nat
    BY DEF Kept, TypeOK
  <1>2. Idle \in Work /\ Idle.want \in Homes /\ Idle.pc = "idle"
    <2>1. \A m \in Homes : m \in Memory
      BY DEF Homes
    <2>2. QED
      BY <1>1, <2>1, NothingType DEF Idle, Work
  <1>3. QED
    BY <1>1, <1>2 DEF Kept, TypeOK, Places, Counts, Current, Fitting

(* A step that leaves holder, copy and sync alone. *)
LEMMA AsideKept ==
    ASSUME Kept, UNCHANGED <<kind, limit, tie, holder, seenHolder, behind, worker>>,
           queued' \in BOOLEAN, at' \in Places, seenPods' \in Places,
           synced' \subseteq Informers, spent' \in Counts
    PROVE  Kept'
  BY KeptNow, KeptFrom

(* A step of the worker that changes no object. *)
LEMMA WorkKept ==
    ASSUME Kept, UNCHANGED <<kind, limit, tie, api, cache>>,
           queued' \in BOOLEAN, spent' \in Counts,
           worker' \in Work, worker'.want \in Homes,
           worker'.pc = "write" /\ ~worker'.old
             => MakesRoom(holder.memory, worker'.want, worker'.pods)
    PROVE  Kept'
  BY KeptNow, KeptFrom DEF api, cache

(* A change of the holder makes the copy and the write under way old. *)
LEMMA PutKept ==
    ASSUME Kept, UNCHANGED <<kind, limit, tie, at, seenPods, seenHolder, synced>>,
           queued' \in BOOLEAN, spent' \in Counts,
           NEW new \in HolderObject, new.memory \in Homes,
           NEW w \in Work, w.want \in Homes, Put(new, w)
    PROVE  Kept'
  <1>1. /\ worker' \in Work /\ worker'.want \in Homes
        /\ worker'.pc = "write" => worker'.old
    BY DEF Put, Work
  <1>2. holder' = new /\ behind'
    BY DEF Put
  <1>3. QED
    BY <1>1, <1>2, KeptNow, KeptFrom

(* A counted trouble stays within its bound. *)
LEMMA TroubleType ==
    ASSUME spent \in Counts, Trouble
    PROVE  spent' \in Counts
  BY DEF Trouble, Counts

(* The initial state has an empty memory and copies of it. *)
LEMMA InitKept == Init => Kept
  <1>1. SUFFICES ASSUME Init PROVE Kept
    OBVIOUS
  <1>2. kind \in Kinds /\ limit \in Limits /\ tie \in BOOLEAN /\ limit \in Nat
    BY <1>1 DEF Init
  <1>3. Nothing \in Homes /\ Nothing \in Memory /\ Idle \in Work
    <2>1. Nothing \in Homes /\ Nothing \in Placed
      BY <1>2, NothingType
    <2>2. QED
      BY <2>1 DEF Homes, Idle, Work
  <1>4. Cardinality(Replica) \in 0..Cardinality(Replica)
    BY FS_CardinalityType
  <1>5. holder \in HolderObject /\ holder.memory = Nothing
    BY <1>1, <1>3, <1>4 DEF Init, HolderObject
  <1>6. at \in [Replica -> Node \union {None}] /\ seenPods = at
    BY <1>1 DEF Init
  <1>7. worker = Idle /\ worker.want = Nothing /\ worker.pc = "idle"
    BY <1>1 DEF Init, Idle
  <1>8. spent \in [moves : 0..MaxMoves, trouble : 0..MaxTrouble]
    BY <1>1 DEF Init
  <1>9. TypeOK
    BY <1>1, <1>2, <1>3, <1>5, <1>6, <1>7, <1>8 DEF Init, TypeOK
  <1>10. QED
    BY <1>1, <1>3, <1>5, <1>7, <1>9 DEF Init, Kept, Current, Fitting

(* The controller keeps the invariant. *)
LEMMA ControllerKept ==
    ASSUME Kept, Controller
    PROVE  Kept'
  <1> USE KeptNow
  <1>1. ASSUME NEW r \in Replica, Watch(r) PROVE Kept'
    <2>1. seenPods' \in Places
      BY <1>1 DEF Watch, Places
    <2>2. queued' \in BOOLEAN
      BY <1>1 DEF Watch, EnqueuePod
    <2>3. QED
      BY <1>1, <2>1, <2>2, AsideKept DEF Watch, api
  <1>2. ASSUME NEW r \in Replica, Resync(r) PROVE Kept'
    <2>1. queued' \in BOOLEAN
      BY <1>2 DEF Resync, EnqueuePod
    <2>2. QED
      BY <1>2, <2>1, AsideKept DEF Resync, api, cache
  <1>3. CASE WatchHolder
    <2>1. queued' \in BOOLEAN
      BY <1>3 DEF WatchHolder
    <2>2. QED
      BY <1>3, <2>1, KeptFrom DEF WatchHolder, api
  <1>4. ASSUME NEW i \in Informers, FillCache(i) PROVE Kept'
    BY <1>4, AsideKept DEF FillCache, api
  <1>5. CASE Sync
    <2>1. queued' \in BOOLEAN /\ UNCHANGED <<kind, limit, tie, api, cache, spent>>
      BY <1>5 DEF Sync
    <2>2. CASE ~seenHolder.exists
      <3>1. worker' = Idle
        BY <1>5, <2>2 DEF Sync
      <3>2. QED
        BY <2>1, <3>1, WorkKept
    <2>3. CASE seenHolder.exists
      <3>1. worker' = Attempt(seenHolder.memory, behind, Running(seenPods), 1)
        BY <1>5, <2>3 DEF Sync
      <3>2. Running(seenPods) \in Placed
        BY RunningType DEF Places
      <3>3. 1 \in 0..MaxAttempts
        OBVIOUS
      <3>4. /\ worker' \in Work /\ worker'.want \in Homes
            /\ worker'.pc = "write"
                 => /\ worker'.old = behind
                    /\ MakesRoom(seenHolder.memory, worker'.want, worker'.pods)
        BY <3>1, <3>2, <3>3, AttemptType
      <3>5. QED
        BY <2>1, <3>4, WorkKept
    <2>4. QED
      BY <2>2, <2>3
  <1>6. ASSUME Accepted, Store, queued' \in BOOLEAN, spent' \in Counts,
               UNCHANGED <<kind, limit, tie, at, seenPods, seenHolder, synced>>
        PROVE  Kept'
    <2> DEFINE new == [holder EXCEPT !.memory = worker.want]
    <2>1. worker.want \in Memory
      BY DEF Homes
    <2>2. new \in HolderObject /\ new.memory = worker.want
      BY <2>1 DEF HolderObject
    <2>3. Put(new, Idle)
      BY <1>6 DEF Store
    <2> HIDE DEF new
    <2>4. QED
      BY <1>6, <2>2, <2>3, PutKept
  <1>7. CASE Write
    <2>1. /\ worker.pc = "write"
          /\ UNCHANGED <<kind, limit, tie, at, seenPods, seenHolder, synced, spent>>
      BY <1>7 DEF Write
    <2>2. CASE Accepted /\ Store /\ UNCHANGED queued
      BY <1>6, <2>1, <2>2
    <2>3. CASE worker' = [worker EXCEPT !.pc = "get"] /\ UNCHANGED <<holder, behind, queued>>
      <3>1. worker' \in Work /\ worker'.want = worker.want /\ worker'.pc = "get"
        BY <2>3 DEF Work
      <3>2. QED
        BY <2>1, <2>3, <3>1, WorkKept DEF api, cache
    <2>4. CASE Return(TRUE) /\ UNCHANGED <<holder, behind>>
      BY <2>1, <2>4, WorkKept DEF Return, api, cache
    <2>5. QED
      BY <1>7, <2>2, <2>3, <2>4 DEF Write
  <1>8. CASE WriteFails
    <2>1. /\ spent' \in Counts /\ queued' \in BOOLEAN
          /\ UNCHANGED <<kind, limit, tie, at, seenPods, seenHolder, synced>>
      BY <1>8, TroubleType DEF WriteFails
    <2>2. CASE Accepted /\ Store
      BY <1>6, <2>1, <2>2
    <2>3. CASE worker' = Idle /\ UNCHANGED <<holder, behind>>
      BY <2>1, <2>3, WorkKept DEF api, cache
    <2>4. QED
      BY <1>8, <2>2, <2>3 DEF WriteFails
  <1>9. CASE Get
    <2>1. /\ worker.pc = "get" /\ UNCHANGED <<kind, limit, tie, api, cache, spent>>
      BY <1>9 DEF Get
    <2>2. CASE TriesLeft /\ UNCHANGED queued
               /\ worker' = Attempt(holder.memory, FALSE, worker.pods, worker.attempt + 1)
      <3>1. worker.attempt + 1 \in 0..MaxAttempts /\ worker.pods \in Placed
        BY <2>2 DEF TriesLeft, Work
      <3>2. /\ worker' \in Work /\ worker'.want \in Homes
            /\ worker'.pc = "write"
                 => MakesRoom(holder.memory, worker'.want, worker'.pods)
        BY <2>2, <3>1, AttemptType
      <3>3. QED
        BY <2>1, <2>2, <3>2, WorkKept
    <2>3. CASE \E retry \in BOOLEAN : Return(retry)
      BY <2>1, <2>3, WorkKept DEF Return
    <2>4. QED
      BY <1>9, <2>2, <2>3 DEF Get
  <1>10. CASE GetFails
    <2>1. spent' \in Counts
      BY <1>10, TroubleType DEF GetFails
    <2>2. QED
      BY <1>10, <2>1, WorkKept DEF GetFails, Return
  <1>11. CASE Restart
    <2>1. spent' \in Counts
      BY <1>11, TroubleType DEF Restart
    <2>2. seenPods' \in Places
      BY <1>11 DEF Restart, Places
    <2>3. QED
      BY <1>11, <2>1, <2>2, KeptFrom DEF Restart, api
  <1>12. QED
    BY <1>1, <1>2, <1>3, <1>4, <1>5, <1>7, <1>8, <1>9, <1>10, <1>11 DEF Controller

(* So does everyone else. *)
LEMMA ClusterKept ==
    ASSUME Kept, Cluster
    PROVE  Kept'
  <1> USE KeptNow
  <1>1. ASSUME NEW r \in Replica, Stop(r) PROVE Kept'
    <2>1. at' \in Places
      BY <1>1 DEF Stop, Places
    <2>2. QED
      BY <1>1, <2>1, AsideKept DEF Stop, cache
  <1>2. ASSUME NEW r \in Replica, NEW n \in Node, Start(r, n) PROVE Kept'
    <2>1. at' \in Places
      BY <1>2 DEF Start, Places
    <2>2. spent' \in Counts
      BY <1>2 DEF Start, Counts
    <2>3. QED
      BY <1>2, <2>1, <2>2, AsideKept DEF Start, cache
  <1>3. ASSUME NEW new \in HolderObject, new.memory \in Homes, spent' \in Counts, Change(new)
        PROVE  Kept'
    BY <1>3, PutKept DEF Change
  <1>4. ASSUME NEW k \in 0..Cardinality(Replica), Scale(k) PROVE Kept'
    <2>1. spent' \in Counts
      BY <1>4, TroubleType DEF Scale
    <2>2. /\ [holder EXCEPT !.replicas = k] \in HolderObject
          /\ [holder EXCEPT !.replicas = k].memory \in Homes
      BY DEF HolderObject
    <2>3. QED
      BY <1>3, <1>4, <2>1, <2>2 DEF Scale
  <1>5. CASE Touch
    BY <1>3, <1>5, TroubleType DEF Touch
  <1>6. CASE Delete
    <2>1. spent' \in Counts
      BY <1>6, TroubleType DEF Delete
    <2>2. Nothing \in Homes /\ Nothing \in Memory
      BY NothingType DEF Homes
    <2>3. /\ [holder EXCEPT !.exists = FALSE, !.memory = Nothing] \in HolderObject
          /\ [holder EXCEPT !.exists = FALSE, !.memory = Nothing].memory \in Homes
      BY <2>2 DEF HolderObject
    <2>4. QED
      BY <1>3, <1>6, <2>1, <2>3 DEF Delete
  <1>7. CASE Recreate
    <2>1. /\ [holder EXCEPT !.exists = TRUE] \in HolderObject
          /\ [holder EXCEPT !.exists = TRUE].memory \in Homes
      BY DEF HolderObject
    <2>2. QED
      BY <1>3, <1>7, <2>1 DEF Recreate
  <1>8. QED
    BY <1>1, <1>2, <1>4, <1>5, <1>6, <1>7 DEF Cluster

(* The invariant always holds. *)
LEMMA KeptHolds == Spec => []Kept
  <1>1. Kept /\ [Next]_vars => Kept'
    <2>1. SUFFICES ASSUME Kept, [Next]_vars PROVE Kept'
      OBVIOUS
    <2>2. CASE Next
      BY <2>1, <2>2, ControllerKept, ClusterKept DEF Next
    <2>3. CASE UNCHANGED vars
      BY <2>1, <2>3, KeptNow, AsideKept DEF vars
    <2>4. QED
      BY <2>1, <2>2, <2>3
  <1>2. QED
    BY <1>1, InitKept, PTL DEF Spec

---------------------------------------------------------------------------
\* The theorems.

(* Every variable keeps its type: every memory that is stored, cached or about to be
   written names nodes, and no sync tries more often than it may. *)
THEOREM TypeCorrect == Spec => []TypeOK
  <1>1. Kept => TypeOK
    BY DEF Kept
  <1>2. QED
    BY <1>1, KeptHolds, PTL

(* The list of homes never outgrows its bound and never names a node twice, whatever
   is stale, conflicts or fails while it is written. *)
THEOREM MemoryStaysBounded == Spec => []MemoryBounded
  <1>1. Kept => MemoryBounded
    BY DEF Kept, Homes, MemoryBounded
  <1>2. QED
    BY <1>1, KeptHolds, PTL

(* The only step that changes the memory of a holder is a write the API server took,
   and that was computed from the memory it replaces. *)
LEMMA FadesOnlyByWrite ==
    ASSUME Kept, [Next]_vars, holder.exists, holder'.exists,
           holder'.memory # holder.memory
    PROVE  MakesRoom(holder.memory, holder'.memory, worker.pods)
  <1>1. holder \in HolderObject
    BY DEF Kept, TypeOK
  <1>2. CASE worker.pc = "write" /\ Accepted /\ Store
    <2>1. holder' = [holder EXCEPT !.memory = worker.want]
      BY <1>2 DEF Store, Put
    <2>2. holder'.memory = worker.want
      BY <1>1, <2>1 DEF HolderObject
    <2>3. QED
      BY <1>2, <2>2 DEF Kept, Fitting, Accepted
  <1>3. CASE UNCHANGED holder
    BY <1>3
  <1>4. CASE Write \/ WriteFails
    BY <1>2, <1>3, <1>4 DEF Write, WriteFails
  <1>5. CASE Controller /\ ~Write /\ ~WriteFails
    BY <1>3, <1>5 DEF Controller, Watch, Resync, WatchHolder, FillCache, Sync, Get, GetFails,
       Restart, api
  <1>6. CASE Cluster
    <2>1. ASSUME NEW k \in 0..Cardinality(Replica), Scale(k) PROVE FALSE
      <3>1. holder' = [holder EXCEPT !.replicas = k]
        BY <2>1 DEF Scale, Change, Put
      <3>2. QED
        BY <1>1, <3>1 DEF HolderObject
    <2>2. CASE Touch
      BY <1>3, <2>2 DEF Touch, Change, Put
    <2>3. CASE Delete
      <3>1. holder' = [holder EXCEPT !.exists = FALSE, !.memory = Nothing]
        BY <2>3 DEF Delete, Change, Put
      <3>2. holder'.exists = FALSE
        BY <1>1, <3>1 DEF HolderObject
      <3>3. QED
        BY <3>2
    <2>4. CASE Recreate
      BY <2>4 DEF Recreate
    <2>5. CASE \E r \in Replica : Stop(r) \/ \E n \in Node : Start(r, n)
      BY <1>3, <2>5 DEF Stop, Start
    <2>6. QED
      BY <1>6, <2>1, <2>2, <2>3, <2>4, <2>5 DEF Cluster
  <1>7. CASE UNCHANGED vars
    BY <1>3, <1>7 DEF vars
  <1>8. QED
    BY <1>4, <1>5, <1>6, <1>7 DEF Next

(* No stale copy, conflict or lost answer makes the memory forget a home while there
   is room for it, or the place a replica was just seen in. *)
THEOREM HomesFadeToMakeRoom == Spec => HomesFadeOnlyWhenFull
  <1>1. Kept /\ [Next]_vars
          => [holder.exists /\ holder'.exists /\ holder'.memory # holder.memory
              => MakesRoom(holder.memory, holder'.memory, worker.pods)]_vars
    BY FadesOnlyByWrite
  <1>2. QED
    BY <1>1, KeptHolds, PTL DEF Spec, HomesFadeOnlyWhenFull

(* A remembered node without a sibling gets points, one with a sibling or a node that
   is not remembered gets none. *)
LEMMA PointsOfHomes ==
    ASSUME kind # "StatefulSet", NEW m \in Seq(Node), NEW r, NEW n
    PROVE  /\ n \in Range(m) /\ ~Busy(n) => Points(m, r, n) \in Nat /\ Points(m, r, n) >= 50
           /\ n \notin Range(m) \/ Busy(n) => Points(m, r, n) = 0
  <1> DEFINE ranks == {i \in DOMAIN m : m[i] = n}
  <1>1. DOMAIN m = 1..Len(m) /\ Len(m) \in Nat
    BY LenProperties
  <1>2. n \in Range(m) <=> ranks # {}
    BY DEF Range
  <1>3. Points(m, r, n) = IF Busy(n) \/ ranks = {} THEN 0 ELSE ScoreAt(CHOOSE i \in ranks : TRUE)
    BY DEF Points
  <1>4. ASSUME ranks # {} PROVE (CHOOSE i \in ranks : TRUE) \in ranks
    BY <1>4
  <1>5. ASSUME NEW i \in 1..Len(m) PROVE ScoreAt(i) \in Nat /\ ScoreAt(i) >= 50
    BY <1>1, <1>5 DEF ScoreAt
  <1>6. QED
    BY <1>1, <1>2, <1>3, <1>4, <1>5

(* The scheduler's choice among nodes it has no other reason to prefer. *)
LEMMA BestIsHome ==
    ASSUME Kept, NEW r \in Replica, NEW n \in Best(holder.memory, r)
    PROVE  /\ kind = "StatefulSet" /\ r \in DOMAIN holder.memory => n = holder.memory[r]
           /\ kind # "StatefulSet" =>
                LET free == Range(holder.memory) \ {at[q] : q \in Replica}
                IN  free # {} => n \in free
  <1>1. /\ n \in Node
        /\ \A o \in Node : Points(holder.memory, r, o) <= Points(holder.memory, r, n)
    BY DEF Best
  <1>2. holder.memory \in Memory
    BY DEF Kept, Homes
  <1>3. ASSUME kind = "StatefulSet", r \in DOMAIN holder.memory
        PROVE  n = holder.memory[r]
    <2>1. holder.memory[r] \in Node
      <3>1. PICK R \in SUBSET Replica : holder.memory \in [R -> Node]
        BY <1>2, <1>3 DEF Memory, Placed
      <3>2. QED
        BY <1>3, <3>1
    <2>2. Points(holder.memory, r, holder.memory[r]) = 100
      BY <1>3 DEF Points
    <2>3. n # holder.memory[r] => Points(holder.memory, r, n) = 0
      BY <1>3 DEF Points
    <2>4. Points(holder.memory, r, holder.memory[r]) <= Points(holder.memory, r, n)
      BY <1>1, <2>1
    <2>5. ~(100 <= 0)
      OBVIOUS
    <2>6. QED
      BY <2>2, <2>3, <2>4, <2>5
  <1>4. ASSUME kind # "StatefulSet",
               NEW home \in Range(holder.memory) \ {at[q] : q \in Replica}
        PROVE  n \in Range(holder.memory) \ {at[q] : q \in Replica}
    <2>1. holder.memory \in Seq(Node)
      BY <1>2, <1>4, ListIsMemory
    <2>2. home \in Node
      <3>1. holder.memory \in [1..Len(holder.memory) -> Node]
        BY <2>1, LenProperties
      <3>2. QED
        BY <3>1 DEF Range
    <2>3. ~Busy(home)
      BY DEF Busy
    <2>4. Points(holder.memory, r, home) \in Nat /\ Points(holder.memory, r, home) >= 50
      BY <1>4, <2>1, <2>3, PointsOfHomes
    <2>5. Points(holder.memory, r, n) # 0
      BY <1>1, <2>2, <2>4
    <2>6. n \in Range(holder.memory) /\ ~Busy(n)
      BY <1>4, <2>1, <2>5, PointsOfHomes
    <2>7. QED
      BY <2>6 DEF Busy
  <1>5. QED
    BY <1>3, <1>4

(* Where nothing else decides, a replacement is drawn home: to a free home while
   there is one, or to its own ordinal's node. *)
THEOREM ReplacementGoesHome == Spec => GoesHome
  <1>1. ASSUME Kept, [Next]_vars, NEW r \in Replica, tie, at[r] = None, at'[r] # None
        PROVE  IF kind = "StatefulSet"
               THEN r \in DOMAIN holder.memory => at'[r] = holder.memory[r]
               ELSE LET free == Range(holder.memory) \ {at[q] : q \in Replica}
                    IN  free # {} => at'[r] \in free
    <2>1. at \in [Replica -> Node \union {None}]
      BY <1>1 DEF Kept, TypeOK
    <2>2. ~(UNCHANGED at)
      BY <1>1
    <2>3. ASSUME NEW q \in Replica, Stop(q) PROVE FALSE
      BY <1>1, <2>1, <2>3 DEF Stop
    <2>4. PICK q \in Replica, n \in Node : Start(q, n)
      BY <1>1, <2>2, <2>3 DEF Next, Controller, Watch, Resync, WatchHolder, FillCache, Sync,
         Write, WriteFails, Get, GetFails, Restart, Cluster, Scale, Touch, Delete, Recreate,
         Change, api, vars
    <2>5. at' = [at EXCEPT ![q] = n] /\ n \in Best(holder.memory, q)
      BY <1>1, <2>4 DEF Start
    <2>6. q = r /\ at'[r] = n
      BY <1>1, <2>1, <2>5
    <2>7. QED
      BY <1>1, <2>5, <2>6, BestIsHome
  <1>2. Kept /\ [Next]_vars
          => [\A r \in Replica : tie /\ at[r] = None /\ at'[r] # None =>
                IF kind = "StatefulSet"
                THEN r \in DOMAIN holder.memory => at'[r] = holder.memory[r]
                ELSE LET free == Range(holder.memory) \ {at[q] : q \in Replica}
                     IN  free # {} => at'[r] \in free]_vars
    BY <1>1
  <1>3. QED
    BY <1>2, KeptHolds, PTL DEF Spec, GoesHome
=============================================================================

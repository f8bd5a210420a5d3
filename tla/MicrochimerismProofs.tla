------------------------ MODULE MicrochimerismProofs ------------------------
(* What holds of Microchimerism for any number of services, lives, moves    *)
(* and failures: the memory keeps its bound, what it says is final while   *)
(* there is room, and what has left goes first when there is none.         *)
EXTENDS Microchimerism, FiniteSetTheorems, WellFoundedInduction, TLAPS

(***************************************************************************)
(* The order of prune.                                                     *)
(***************************************************************************)
Five == Nat \X Nat \X Nat \X Nat \X Nat

\* Sooner is the lexicographic order of five numbers.
LEMMA SoonerMeans ==
    ASSUME NEW p \in Five, NEW q \in Five
    PROVE  Sooner(p, q) <=>
             \/ p[1] < q[1]
             \/ p[1] = q[1] /\ p[2] < q[2]
             \/ p[1] = q[1] /\ p[2] = q[2] /\ p[3] < q[3]
             \/ p[1] = q[1] /\ p[2] = q[2] /\ p[3] = q[3] /\ p[4] < q[4]
             \/ p[1] = q[1] /\ p[2] = q[2] /\ p[3] = q[3] /\ p[4] = q[4] /\ p[5] < q[5]
<1>1. DOMAIN p = 1 .. 5
  BY DEF Five
<1>2. Sooner(p, q) <=> \E i \in 1 .. 5 : p[i] < q[i] /\ \A j \in 1 .. i - 1 : p[j] = q[j]
  BY <1>1 DEF Sooner
<1>3. ASSUME NEW i \in 1 .. 5
      PROVE  i = 1 \/ i = 2 \/ i = 3 \/ i = 4 \/ i = 5
  OBVIOUS
<1>4. /\ 1 .. 1 - 1 = {} /\ 1 .. 2 - 1 = {1} /\ 1 .. 3 - 1 = {1, 2}
      /\ 1 .. 4 - 1 = {1, 2, 3} /\ 1 .. 5 - 1 = {1, 2, 3, 4}
  OBVIOUS
<1> QED
  BY <1>2, <1>3, <1>4

\* That order is strict and total, as the comparison prune sorts by has to be.
LEMMA SoonerIsAnOrder ==
    ASSUME NEW p \in Five, NEW q \in Five, NEW r \in Five
    PROVE  /\ ~ Sooner(p, p)
           /\ Sooner(p, q) /\ Sooner(q, r) => Sooner(p, r)
           /\ p = q \/ Sooner(p, q) \/ Sooner(q, p)
<1>1. \A n \in 1 .. 5 : p[n] \in Nat /\ q[n] \in Nat /\ r[n] \in Nat
  BY DEF Five
<1>2. p[1] = q[1] /\ p[2] = q[2] /\ p[3] = q[3] /\ p[4] = q[4] /\ p[5] = q[5] => p = q
  BY DEF Five
<1> QED
  BY <1>1, <1>2, SoonerMeans

\* prune tells any two records apart and puts what departed before what did not.
LEMMA RankIsFive ==
    ASSUME NEW data \in Memories, NEW l \in DOMAIN data
    PROVE  /\ Rank(data, l) \in Five
           /\ \A k \in DOMAIN data : Rank(data, k) = Rank(data, l) => k = l
           /\ \A k \in DOMAIN data : Departed(data[k]) /\ ~ Departed(data[l])
                => Sooner(Rank(data, k), Rank(data, l))
<1>1. ASSUME NEW k \in DOMAIN data
      PROVE  /\ k \in Life /\ k = <<k[1], k[2]>> /\ k[1] \in Nat /\ k[2] \in Nat
             /\ data[k].born \in Nat /\ data[k].left \in Nat
  <2>1. k \in Life /\ data[k] \in Record
    BY <1>1 DEF Memories
  <2>2. k = <<k[1], k[2]>> /\ k[1] \in Nat /\ k[2] \in Nat
    <3>1. PICK a \in Service, b \in 1 .. MaxUid : k = <<a, b>>
      BY <2>1 DEF Life
    <3>2. a \in Nat /\ b \in Nat
      BY NamesSort, BoundsAreNumbers
    <3> QED
      BY <3>1, <3>2
  <2>3. data[k].born \in Nat /\ data[k].left \in Nat
    BY <2>1, BoundsAreNumbers DEF Record, StillHere
  <2> QED
    BY <2>1, <2>2, <2>3
<1>2. \A k \in DOMAIN data : Rank(data, k) \in Five
  BY <1>1 DEF Rank, Five
<1>3. \A k \in DOMAIN data : Rank(data, k) = Rank(data, l) => k = l
  BY <1>1 DEF Rank
<1>4. ASSUME NEW k \in DOMAIN data, Departed(data[k]), ~ Departed(data[l])
      PROVE  Sooner(Rank(data, k), Rank(data, l))
  <2>1. Rank(data, k)[1] = 0 /\ Rank(data, l)[1] = 1
    BY <1>4 DEF Rank
  <2> QED
    BY <2>1, <1>2, SoonerMeans
<1> QED
  BY <1>2, <1>3, <1>4

\* There are finitely many lives to record.
LEMMA LifeIsFinite == IsFiniteSet(Life)
<1>1. 1 \in Int /\ MaxUid \in Int
  BY BoundsAreNumbers
<1>2. IsFiniteSet(1 .. MaxUid)
  BY <1>1, FS_Interval
<1> QED
  BY <1>2, FS_Product, NamesSort DEF Life

\* So a memory is a finite function from lives to records.
LEMMA MemoryIsFinite ==
    ASSUME NEW data \in Memories
    PROVE  /\ DOMAIN data \subseteq Life /\ IsFiniteSet(DOMAIN data)
           /\ Cardinality(DOMAIN data) \in Nat
           /\ data = [k \in DOMAIN data |-> data[k]]
           /\ \A k \in DOMAIN data : data[k] \in Record
<1>1. DOMAIN data \subseteq Life /\ data = [k \in DOMAIN data |-> data[k]]
      /\ \A k \in DOMAIN data : data[k] \in Record
  BY DEF Memories
<1>2. IsFiniteSet(DOMAIN data)
  BY <1>1, LifeIsFinite, FS_Subset
<1> QED
  BY <1>1, <1>2, FS_CardinalityType

\* Records by life, however they were put together, are a memory.
LEMMA MemoryMade ==
    ASSUME NEW S \in SUBSET Life, NEW f, f = [k \in S |-> f[k]], \A k \in S : f[k] \in Record
    PROVE  f \in Memories
BY DEF Memories

\* In a finite order something comes first.
LEMMA SomethingIsFirst ==
    ASSUME NEW S, IsFiniteSet(S), S # {}, NEW R,
           \A k \in S : <<k, k>> \notin R,
           \A k, l, m \in S : <<k, l>> \in R /\ <<l, m>> \in R => <<k, m>> \in R
    PROVE  \E m \in S : \A k \in S : <<k, m>> \notin R
<1> DEFINE Below(m) == {k \in S : <<k, m>> \in R}
           Belows == {Below(m) : m \in S}
<1>1. IsWellFoundedOn(StrictSubsetOrdering(S), SUBSET S)
  BY FS_StrictSubsetOrderingWellFounded, FS_FiniteSubsetsOfFinite
<1>2. Belows \subseteq SUBSET S /\ Belows # {}
  <2>1. \A m \in S : Below(m) \in Belows /\ Below(m) \in SUBSET S
    OBVIOUS
  <2>2. PICK m \in S : TRUE
    OBVIOUS
  <2>3. Belows # {}
    BY <2>1, <2>2 DEF Belows
  <2>4. ASSUME NEW B \in Belows PROVE B \in SUBSET S
    OBVIOUS
  <2> QED
    BY <2>3, <2>4
<1>3. PICK B \in Belows : \A A \in Belows : <<A, B>> \notin StrictSubsetOrdering(S)
  BY <1>1, <1>2, WFMin
<1>4. PICK m \in S : B = Below(m)
  BY <1>3
<1>5. ASSUME NEW k \in S, <<k, m>> \in R
      PROVE  FALSE
  <2>1. Below(k) \subseteq Below(m) /\ k \in Below(m) /\ k \notin Below(k)
    BY <1>5
  <2>2. Below(k) \in SUBSET S /\ Below(m) \in SUBSET S /\ Below(k) # Below(m)
    BY <2>1
  <2>3. <<Below(k), Below(m)>> \in StrictSubsetOrdering(S)
    BY <2>1, <2>2 DEF StrictSubsetOrdering
  <2> QED
    BY <2>3, <1>3, <1>4
<1> QED
  BY <1>5

\* One record too many: the first in the order of prune goes, and only that one.
LEMMA PruneDoes ==
    ASSUME NEW data \in Memories, NEW keep \in DOMAIN data,
           Cardinality(DOMAIN data) <= MaxRecords + 1
    PROVE  /\ Cardinality(DOMAIN data) <= MaxRecords => Prune(data, keep) = data
           /\ Cardinality(DOMAIN data) = MaxRecords + 1 =>
                \E m \in DOMAIN data \ {keep} :
                    /\ Prune(data, keep) = [l \in DOMAIN data \ {m} |-> data[l]]
                    /\ \A k \in DOMAIN data \ {keep, m} :
                          Sooner(Rank(data, m), Rank(data, k))
<1> DEFINE spare == DOMAIN data \ {keep}
           Ahead(l) == {k \in spare : Sooner(Rank(data, k), Rank(data, l))}
           gone == {l \in spare :
                        MaxRecords + Cardinality(Ahead(l)) < Cardinality(DOMAIN data)}
<1>1. Prune(data, keep) = [l \in DOMAIN data \ gone |-> data[l]]
  BY DEF Prune
<1>2. /\ IsFiniteSet(DOMAIN data) /\ Cardinality(DOMAIN data) \in Nat /\ MaxRecords \in Nat \ {0}
      /\ data = [k \in DOMAIN data |-> data[k]]
  BY MemoryIsFinite, BoundsAreNumbers
<1>3. IsFiniteSet(spare) /\ Cardinality(spare) = Cardinality(DOMAIN data) - 1
  BY <1>2, FS_RemoveElement
<1>4. \A l : IsFiniteSet(Ahead(l)) /\ Cardinality(Ahead(l)) \in Nat
                /\ (Cardinality(Ahead(l)) = 0 <=> Ahead(l) = {})
  <2> TAKE l
  <2>1. Ahead(l) \in SUBSET spare
    OBVIOUS
  <2>2. IsFiniteSet(Ahead(l))
    BY <2>1, <1>3, FS_Subset
  <2> QED
    BY <2>2, FS_CardinalityType, FS_EmptySet
<1>5. CASE Cardinality(DOMAIN data) <= MaxRecords
  <2>1. gone = {}
    <3> HIDE DEF Ahead
    <3> QED
      BY <1>2, <1>4, <1>5
  <2>2. Prune(data, keep) = [l \in DOMAIN data |-> data[l]]
    BY <1>1, <2>1
  <2> QED
    BY <2>2, <1>2, <1>5
<1>6. CASE Cardinality(DOMAIN data) = MaxRecords + 1
  <2>1. gone = {l \in spare : Ahead(l) = {}}
    <3> HIDE DEF Ahead
    <3>1. \A l : MaxRecords + Cardinality(Ahead(l)) < Cardinality(DOMAIN data) <=> Ahead(l) = {}
      BY <1>2, <1>4, <1>6
    <3> QED
      BY <3>1
  <2> DEFINE R == {p \in spare \X spare : Sooner(Rank(data, p[1]), Rank(data, p[2]))}
  <2>2. \A k, l \in spare : <<k, l>> \in R <=> Sooner(Rank(data, k), Rank(data, l))
    OBVIOUS
  <2>3. \A k \in spare : Rank(data, k) \in Five
    BY RankIsFive
  <2>4. spare # {}
    BY <1>2, <1>3, <1>6, FS_EmptySet
  <2>5. PICK m \in spare : \A k \in spare : <<k, m>> \notin R
    <3>1. \A k \in spare : <<k, k>> \notin R
      BY <2>2, <2>3, SoonerIsAnOrder
    <3>2. ASSUME NEW k \in spare, NEW l \in spare, NEW n \in spare,
                 <<k, l>> \in R, <<l, n>> \in R
          PROVE  <<k, n>> \in R
      <4>1. Sooner(Rank(data, k), Rank(data, l)) /\ Sooner(Rank(data, l), Rank(data, n))
        BY <3>2, <2>2
      <4>2. Sooner(Rank(data, k), Rank(data, n))
        BY <4>1, <2>3, SoonerIsAnOrder
      <4> QED
        BY <4>2, <2>2
    <3> HIDE DEF R
    <3> QED
      BY <3>1, <3>2, <2>4, <1>3, SomethingIsFirst
  <2>6. \A k \in spare \ {m} : Sooner(Rank(data, m), Rank(data, k))
    <3> TAKE k \in spare \ {m}
    <3>1. ~ Sooner(Rank(data, k), Rank(data, m))
      BY <2>2, <2>5
    <3>2. Rank(data, k) # Rank(data, m)
      BY RankIsFive
    <3> QED
      BY <3>1, <3>2, <2>3, SoonerIsAnOrder
  <2>7. gone = {m}
    <3>1. Ahead(m) = {}
      BY <2>2, <2>5
    <3>2. \A k \in spare \ {m} : m \in Ahead(k)
      BY <2>6
    <3> QED
      BY <2>1, <3>1, <3>2
  <2>8. Prune(data, keep) = [l \in DOMAIN data \ {m} |-> data[l]]
    BY <1>1, <2>7
  <2> QED
    BY <2>8, <2>6, <1>6, <1>2
<1> QED
  BY <1>2, <1>5, <1>6

Full(data) == Cardinality(DOMAIN data) = MaxRecords

\* Writing one record (the assignment in Put) leaves the others as they are.
LEMMA WithIs ==
    ASSUME NEW data \in Memories, NEW l \in Life, NEW r \in Record
    PROVE  /\ With(data, l, r) \in Memories
           /\ DOMAIN With(data, l, r) = DOMAIN data \union {l}
           /\ With(data, l, r)[l] = r
           /\ \A k \in DOMAIN data \ {l} : With(data, l, r)[k] = data[k]
<1> DEFINE new == With(data, l, r)
           S == DOMAIN data \union {l}
<1>1. new = [k \in S |-> IF k = l THEN r ELSE data[k]]
  BY DEF With
<1>2. DOMAIN new = S /\ new[l] = r /\ \A k \in DOMAIN data \ {l} : new[k] = data[k]
  BY <1>1
<1>3. S \in SUBSET Life /\ \A k \in DOMAIN data : data[k] \in Record
  BY MemoryIsFinite
<1>4. new = [k \in S |-> new[k]] /\ \A k \in S : new[k] \in Record
  BY <1>1, <1>2, <1>3
<1>5. new \in Memories
  <2> HIDE DEF new, S
  <2> QED
    BY <1>3, <1>4, MemoryMade
<1> QED
  BY <1>2, <1>5

\* A put lets go of one record at most, and then the memory is full; not of one
\* that is open while another that was closed stays.
LEMMA PutDoes ==
    ASSUME NEW data \in Memories, Cardinality(DOMAIN data) <= MaxRecords,
           NEW l \in Life, NEW r \in Record
    PROVE  /\ Put(data, l, r) \in Memories
           /\ Cardinality(DOMAIN Put(data, l, r)) <= MaxRecords
           /\ DOMAIN Put(data, l, r) \subseteq DOMAIN data \union {l}
           /\ l \in DOMAIN Put(data, l, r) /\ Put(data, l, r)[l] = r
           /\ \A k \in DOMAIN Put(data, l, r) \ {l} : Put(data, l, r)[k] = data[k]
           /\ Full(data) => Full(Put(data, l, r))
           /\ l \in DOMAIN data => DOMAIN Put(data, l, r) = DOMAIN data
           /\ \A m \in DOMAIN data \ DOMAIN Put(data, l, r) :
                /\ Full(Put(data, l, r))
                /\ ~ Departed(data[m]) =>
                     \A k \in DOMAIN Put(data, l, r) \ {l} : ~ Departed(data[k])
<1> DEFINE new == With(data, l, r)
           put == Put(data, l, r)
<1>1. /\ IsFiniteSet(DOMAIN data) /\ Cardinality(DOMAIN data) \in Nat
      /\ MaxRecords \in Nat \ {0}
  BY MemoryIsFinite, BoundsAreNumbers
<1>2. CASE l \in DOMAIN data /\ data[l] = r
  <2>1. put = data
    BY <1>2 DEF Put
  <2> QED
    BY <2>1, <1>2
<1>3. CASE ~ (l \in DOMAIN data /\ data[l] = r)
  <2>1. put = Prune(new, l)
    BY <1>3 DEF Put
  <2>2. /\ new \in Memories /\ DOMAIN new = DOMAIN data \union {l} /\ new[l] = r
        /\ \A k \in DOMAIN data \ {l} : new[k] = data[k]
    BY WithIs
  <2>3. /\ IsFiniteSet(DOMAIN new)
        /\ Cardinality(DOMAIN new) = IF l \in DOMAIN data THEN Cardinality(DOMAIN data)
                                     ELSE Cardinality(DOMAIN data) + 1
    BY <2>2, <1>1, FS_AddElement
  <2> HIDE DEF new, put
  <2>4. Cardinality(DOMAIN new) \in Nat /\ Cardinality(DOMAIN new) <= MaxRecords + 1
    BY <2>3, <1>1
  <2>5. l \in DOMAIN new
    BY <2>2
  <2>6. CASE Cardinality(DOMAIN new) <= MaxRecords
    <3>1. put = new
      BY <2>1, <2>2, <2>4, <2>5, <2>6, PruneDoes
    <3>2. Full(data) => Full(new)
      BY <2>3, <2>6, <1>1 DEF Full
    <3> QED
      BY <3>1, <3>2, <2>2, <2>6 DEF put
  <2>7. CASE Cardinality(DOMAIN new) = MaxRecords + 1
    <3>1. PICK m \in DOMAIN new \ {l} :
             /\ put = [k \in DOMAIN new \ {m} |-> new[k]]
             /\ \A k \in DOMAIN new \ {l, m} : Sooner(Rank(new, m), Rank(new, k))
      BY <2>1, <2>2, <2>4, <2>5, <2>7, PruneDoes
    <3>2. DOMAIN put = DOMAIN new \ {m} /\ \A k \in DOMAIN put : put[k] = new[k]
      BY <3>1
    <3>3. Cardinality(DOMAIN put) = MaxRecords
      <4>1. IsFiniteSet(DOMAIN new) /\ m \in DOMAIN new
        BY <2>3, <3>1
      <4>2. Cardinality(DOMAIN new \ {m}) = Cardinality(DOMAIN new) - 1
        BY <4>1, FS_RemoveElement
      <4> QED
        BY <4>2, <3>2, <2>7, <1>1
    <3>4. DOMAIN new \ {m} \in SUBSET Life /\ \A k \in DOMAIN put : put[k] \in Record
      BY <2>2, <3>2, MemoryIsFinite
    <3>5. put \in Memories
      BY <3>1, <3>2, <3>4, MemoryMade
    <3>6. l \notin DOMAIN data /\ m \in DOMAIN data /\ DOMAIN data \ DOMAIN put = {m}
      BY <2>2, <2>3, <2>7, <1>1, <3>1, <3>2
    <3>7. ASSUME ~ Departed(data[m]), NEW k \in DOMAIN put \ {l}
          PROVE  ~ Departed(data[k])
      <4>1. k \in DOMAIN new \ {l, m} /\ new[k] = data[k] /\ new[m] = data[m]
        BY <2>2, <3>1, <3>2, <3>6
      <4>2. Sooner(Rank(new, m), Rank(new, k))
        BY <3>1, <4>1
      <4>3. Rank(new, m) \in Five /\ Rank(new, k) \in Five
        BY <2>2, <3>1, <4>1, RankIsFive
      <4>4. Departed(new[k]) => Sooner(Rank(new, k), Rank(new, m))
        BY <3>7, <4>1, <3>1, <2>2, RankIsFive
      <4> QED
        BY <4>1, <4>2, <4>3, <4>4, SoonerIsAnOrder
    <3>8. Full(put)
      BY <3>3 DEF Full
    <3>9. /\ DOMAIN put \subseteq DOMAIN data \union {l} /\ l \in DOMAIN put /\ put[l] = r
          /\ \A k \in DOMAIN put \ {l} : put[k] = data[k]
      BY <3>1, <3>2, <2>2
    <3> QED
      BY <3>3, <3>5, <3>6, <3>7, <3>8, <3>9, <1>1 DEF put
  <2> QED
    BY <2>4, <2>6, <2>7, <1>1
<1> QED
  BY <1>2, <1>3

(***************************************************************************)
(* What a pass has made of the memory it read.                             *)
(***************************************************************************)
\* Final while there is room: birth and departure.
Outlives(data) ==
    \/ Full(data)
    \/ \A l \in DOMAIN memory :
          /\ l \in DOMAIN data /\ data[l].born = memory[l].born
          /\ Departed(memory[l]) => data[l] = memory[l]

\* What was rightly closed stays as it was, or goes.
Stands(data) ==
    \A k \in (DOMAIN memory \intersect DOMAIN data) \ mistaken :
        Departed(memory[k]) => data[k] = memory[k]

\* A service that is here goes only when nothing that was closed is left.
Spared(data) ==
    \A l \in DOMAIN memory \ (DOMAIN data \union mistaken) :
        deploy[l[1]] = l[2] =>
            /\ Full(data)
            /\ \A k \in (DOMAIN memory \intersect DOMAIN data) \ mistaken : ~ Departed(memory[k])

Follows(data) == Outlives(data) /\ Stands(data) /\ Spared(data)

\* Records are of lives that have been, and closed ones of lives that ended.
Good(data) ==
    /\ Cardinality(DOMAIN data) <= MaxRecords
    /\ \A l \in DOMAIN data :
          /\ l[2] <= made[l[1]]
          /\ Departed(data[l]) /\ l \notin mistaken => deploy[l[1]] # l[2]

\* Remembering a service that is here.
LEMMA RememberingKeeps ==
    ASSUME NEW data \in Memories, Good(data), Good(memory), memory \in Memories,
           NEW l \in Life, deploy[l[1]] = l[2], l[2] <= made[l[1]],
           NEW born \in 1 .. MaxClock
    PROVE  /\ Put(data, l, Kept(data, l, born)) \in Memories
           /\ Good(Put(data, l, Kept(data, l, born)))
           /\ Follows(data) => Follows(Put(data, l, Kept(data, l, born)))
<1>1. CASE l \in DOMAIN data
  BY <1>1 DEF Kept, Put
<1>2. CASE l \notin DOMAIN data
  <2> DEFINE r == [born |-> born, left |-> StillHere]
             new == Put(data, l, r)
  <2>1. Kept(data, l, born) = r
    BY <1>2 DEF Kept
  <2>2. r \in Record /\ ~ Departed(r)
    BY BoundsAreNumbers DEF Record, Departed, StillHere
  <2>3. Cardinality(DOMAIN data) <= MaxRecords
    BY DEF Good
  <2> HIDE DEF r
  <2>4. /\ new \in Memories /\ Cardinality(DOMAIN new) <= MaxRecords
        /\ DOMAIN new \subseteq DOMAIN data \union {l} /\ l \in DOMAIN new /\ new[l] = r
        /\ \A k \in DOMAIN new \ {l} : new[k] = data[k]
        /\ Full(data) => Full(new)
        /\ \A m \in DOMAIN data \ DOMAIN new :
             /\ Full(new)
             /\ ~ Departed(data[m]) => \A k \in DOMAIN new \ {l} : ~ Departed(data[k])
    BY <2>2, <2>3, PutDoes
  <2> HIDE DEF new
  <2>5. Good(new)
    BY <2>2, <2>4 DEF Good
  <2>6. ASSUME Follows(data) PROVE Follows(new)
    <3>1. ASSUME l \in DOMAIN memory, l \notin mistaken
          PROVE  ~ Departed(memory[l])
      BY <3>1 DEF Good
    <3>2. Outlives(new)
      <4>1. CASE Full(new)
        BY <4>1 DEF Outlives
      <4>2. CASE ~ Full(new)
        <5>1. ~ Full(data) /\ DOMAIN data \subseteq DOMAIN new
          BY <4>2, <2>4
        <5>2. \A k \in DOMAIN data : new[k] = data[k]
          BY <5>1, <2>4, <1>2
        <5> QED
          BY <5>1, <5>2, <2>6 DEF Follows, Outlives
      <4> QED
        BY <4>1, <4>2
    <3>3. Stands(new)
      BY <2>4, <2>6, <3>1 DEF Follows, Stands
    <3>4. Spared(new)
      <4> SUFFICES ASSUME NEW x \in DOMAIN memory \ (DOMAIN new \union mistaken),
                          deploy[x[1]] = x[2]
                   PROVE  /\ Full(new)
                          /\ \A k \in (DOMAIN memory \intersect DOMAIN new) \ mistaken :
                                ~ Departed(memory[k])
        BY DEF Spared
      <4>1. CASE x \notin DOMAIN data
        BY <4>1, <2>4, <2>6, <3>1 DEF Follows, Spared
      <4>2. CASE x \in DOMAIN data
        <5>1. ~ Departed(data[x])
          BY <4>2 DEF Good
        <5>2. Full(new) /\ \A k \in DOMAIN new \ {l} : ~ Departed(data[k])
          BY <5>1, <4>2, <2>4
        <5>3. ASSUME NEW k \in (DOMAIN memory \intersect DOMAIN new) \ mistaken
              PROVE  ~ Departed(memory[k])
          <6>1. CASE k = l
            BY <6>1, <5>3, <3>1
          <6>2. CASE k # l
            BY <6>2, <5>2, <5>3, <2>4, <2>6 DEF Follows, Stands
          <6> QED
            BY <6>1, <6>2
        <5> QED
          BY <5>2, <5>3
      <4> QED
        BY <4>1, <4>2
    <3> QED
      BY <3>2, <3>3, <3>4 DEF Follows
  <2> QED
    BY <2>1, <2>4, <2>5, <2>6 DEF new
<1> QED
  BY <1>1, <1>2

\* Closing the record of one that is not.
LEMMA ClosingKeeps ==
    ASSUME NEW data \in Memories, Good(data), NEW l \in DOMAIN data,
           ~ Departed(data[l]), deploy[l[1]] # l[2], now \in 1 .. MaxClock
    PROVE  /\ Put(data, l, Closed(data[l])) \in Memories
           /\ Good(Put(data, l, Closed(data[l])))
           /\ Follows(data) => Follows(Put(data, l, Closed(data[l])))
<1> DEFINE r == Closed(data[l])
           new == Put(data, l, r)
<1>1. l \in Life /\ data[l] \in Record
  BY MemoryIsFinite
<1>2. r \in Record /\ r.born = data[l].born
  BY <1>1 DEF Closed, Record, StillHere
<1>3. Cardinality(DOMAIN data) <= MaxRecords
  BY DEF Good
<1> HIDE DEF r
<1>4. /\ new \in Memories /\ DOMAIN new = DOMAIN data /\ new[l] = r
      /\ \A k \in DOMAIN new \ {l} : new[k] = data[k]
  BY <1>1, <1>2, <1>3, PutDoes
<1> HIDE DEF new
<1>5. Good(new)
  BY <1>4 DEF Good
<1>6. ASSUME Follows(data) PROVE Follows(new)
  <2>1. Full(new) <=> Full(data)
    BY <1>4 DEF Full
  <2>2. Outlives(new)
    BY <1>2, <1>4, <1>6, <2>1 DEF Follows, Outlives
  <2>3. Stands(new)
    BY <1>4, <1>6 DEF Follows, Stands
  <2>4. Spared(new)
    BY <1>4, <1>6, <2>1 DEF Follows, Spared
  <2> QED
    BY <2>2, <2>3, <2>4 DEF Follows
<1> QED
  BY <1>4, <1>5, <1>6 DEF new, r

(***************************************************************************)
(* Types, with what a birth carries.                                       *)
(***************************************************************************)
Dated == \A s \in Service :
    /\ gest[s].birth # 0 => gest[s].at # 0
    /\ pass.g[s].birth # 0 => pass.g[s].at # 0

Before == \A s \in Service : deploy[s] <= made[s]

Known ==
    /\ Good(memory) /\ Good(pass.data)
    /\ ~ there => memory = Empty
    /\ pass.pc = "reconcile" /\ pass.known /\ pass.found = there => Follows(pass.data)

IInv == TypeOK /\ Dated /\ Before /\ Known

\* What a fresh process and a missing ConfigMap begin with.
LEMMA EmptyIsGood ==
    /\ Empty \in Memories /\ DOMAIN Empty = {} /\ Cardinality(DOMAIN Empty) = 0
    /\ Good(Empty)
    /\ Idle \in Pass /\ Idle.pc = "idle" /\ Idle.data = Empty
    /\ NoGest \in Gest /\ NoGest.birth = 0 /\ \A s \in Service : Idle.g[s] = NoGest
<1>1. Empty \in Memories
  <2>1. Empty = [l \in {} |-> Empty[l]] /\ {} \in SUBSET Life
    BY DEF Empty
  <2> QED
    BY <2>1, MemoryMade
<1>2. DOMAIN Empty = {} /\ Cardinality(DOMAIN Empty) = 0
  BY FS_EmptySet DEF Empty
<1>3. Good(Empty)
  BY <1>2, BoundsAreNumbers DEF Good
<1>4. NoGest \in Gest /\ NoGest.birth = 0
  BY BoundsAreNumbers DEF NoGest, Gest
<1>5. Idle.pc = "idle" /\ Idle.data = Empty /\ \A s \in Service : Idle.g[s] = NoGest
  BY DEF Idle
<1>6. Idle \in Pass
  <2> HIDE DEF Gest, NoGest, Memories, Empty
  <2> QED
    BY <1>1, <1>4 DEF Idle, Pass
<1> QED
  BY <1>1, <1>2, <1>3, <1>4, <1>5, <1>6

\* A new controller on a cluster without a memory knows what it has to.
LEMMA InitKnown == Init => IInv
<1> SUFFICES ASSUME Init PROVE IInv
  OBVIOUS
<1>1. made = [s \in Service |-> 1] /\ deploy = made /\ seen = made
      /\ memory = Empty /\ pass = Idle /\ mistaken = {} /\ there = FALSE
  BY DEF Init
<1>2. TypeOK
  <2>1. \A s \in Service : 1 \in 0 .. MaxUid
    BY BoundsAreNumbers
  <2>2. made \in [Service -> 0 .. MaxUid]
    BY <2>1, <1>1
  <2>3. [NoGest EXCEPT !.is = TRUE] \in Gest
    BY EmptyIsGood DEF Gest
  <2>4. gest \in [Service -> Gest]
    BY <2>3, EmptyIsGood DEF Init
  <2>5. now \in 1 .. MaxClock /\ spent \in [moves : 0 .. MaxMoves, trouble : 0 .. MaxTrouble]
    BY BoundsAreNumbers DEF Init
  <2> QED
    BY <1>1, <2>2, <2>4, <2>5, EmptyIsGood DEF TypeOK
<1>3. Dated
  <2>1. \A s \in Service : gest[s].birth = 0
    BY DEF Init, NoGest
  <2> QED
    BY <1>1, <2>1, EmptyIsGood DEF Dated
<1>4. Before
  BY <1>1 DEF Before
<1>5. Known
  BY <1>1, EmptyIsGood DEF Known
<1> QED
  BY <1>2, <1>3, <1>4, <1>5 DEF IInv

\* Steps that touch no record.
LEMMA NothingRecorded ==
    ASSUME Known,
           UNCHANGED <<memory, deploy, made, mistaken, there>>,
           pass'.data = pass.data, pass'.pc = pass.pc, pass'.known = pass.known,
           pass'.found = pass.found
    PROVE  Known'
<1>1. Good(memory)' /\ Good(pass.data)'
  BY DEF Known, Good
<1>2. (~ there => memory = Empty)'
  BY DEF Known
<1>3. Follows(pass.data) => Follows(pass.data)'
  BY DEF Follows, Outlives, Stands, Spared
<1> QED
  BY <1>1, <1>2, <1>3 DEF Known

\* A record that is put.
LEMMA PutIsKnown ==
    ASSUME Known, NEW new, Good(new), Follows(pass.data) => Follows(new),
           UNCHANGED <<memory, deploy, made, mistaken, there>>,
           pass'.data = new, pass'.pc = pass.pc, pass'.known = pass.known,
           pass'.found = pass.found
    PROVE  Known'
<1>1. Good(memory)' /\ Good(pass.data)'
  BY DEF Known, Good
<1>2. (~ there => memory = Empty)'
  BY DEF Known
<1>3. Follows(new) => Follows(pass.data)'
  BY DEF Follows, Outlives, Stands, Spared
<1> QED
  BY <1>1, <1>2, <1>3 DEF Known

\* A Deployment that comes or goes: no life comes back.
LEMMA LivesEnd ==
    ASSUME IInv, NEW s \in Service,
           UNCHANGED <<memory, mistaken, there, pass>>,
           \/ made' = [made EXCEPT ![s] = @ + 1] /\ deploy' = [deploy EXCEPT ![s] = made'[s]]
           \/ made' = made /\ deploy' = [deploy EXCEPT ![s] = 0]
    PROVE  Known'
<1>1. \A k \in Service : made[k] \in Nat /\ deploy[k] \in Nat
  BY BoundsAreNumbers DEF IInv, TypeOK
<1>2. /\ made \in [Service -> 0 .. MaxUid] /\ deploy \in [Service -> 0 .. MaxUid]
      /\ DOMAIN made = Service /\ DOMAIN deploy = Service
  BY DEF IInv, TypeOK
<1>3. \A k \in Service :
         /\ made[k] <= made'[k]
         /\ deploy'[k] = deploy[k] \/ deploy'[k] = 0 \/ deploy'[k] = made[k] + 1
  BY <1>1, <1>2
<1>4. ASSUME NEW l \in Life, l[2] <= made[l[1]]
      PROVE  l[2] <= made'[l[1]] /\ (deploy'[l[1]] = l[2] => deploy[l[1]] = l[2])
  <2>1. PICK k \in Service, u \in 1 .. MaxUid : l = <<k, u>>
    BY DEF Life
  <2>2. u \in Nat \ {0} /\ made'[k] \in Nat
    BY <1>1, <1>2, BoundsAreNumbers
  <2> QED
    BY <1>1, <1>3, <1>4, <2>1, <2>2
<1>5. /\ memory \in Memories /\ pass.data \in Memories
      /\ DOMAIN memory \subseteq Life /\ DOMAIN pass.data \subseteq Life
  <2>1. memory \in Memories /\ pass.data \in Memories
    BY DEF IInv, TypeOK, Pass
  <2> QED
    BY <2>1, MemoryIsFinite
<1>6. Good(memory)' /\ Good(pass.data)'
  BY <1>4, <1>5 DEF IInv, Known, Good
<1>7. ASSUME Follows(pass.data) PROVE Follows(pass.data)'
  <2>1. Outlives(pass.data)' /\ Stands(pass.data)'
    BY <1>7 DEF Follows, Outlives, Stands, Full
  <2>2. Spared(pass.data)'
    BY <1>7, <1>4, <1>5 DEF Follows, Spared, Full, IInv, Known, Good
  <2> QED
    BY <2>1, <2>2 DEF Follows
<1> QED
  BY <1>6, <1>7 DEF IInv, Known

\* The counters of moves and troubles stay within their bounds.
LEMMA SpendingIsTyped ==
    ASSUME TypeOK
    PROVE  (Trouble \/ Move \/ UNCHANGED spent) =>
               spent' \in [moves : 0 .. MaxMoves, trouble : 0 .. MaxTrouble]
BY BoundsAreNumbers DEF TypeOK, Trouble, Move

\* What a reconciliation writes: its pass, and perhaps the Gestation's status.
LEMMA ReconciliationIsKnown ==
    ASSUME IInv, NEW s \in Service, NEW l, NEW r,
           \/ Skip(s)
           \/ /\ Note(s, l, r)
              /\ Put(pass.data, l, r) \in Memories /\ Good(Put(pass.data, l, r))
              /\ Follows(pass.data) => Follows(Put(pass.data, l, r)),
           NEW h \in Gest, h.birth # 0 => h.at # 0,
           gest' = gest \/ gest' = [gest EXCEPT ![s] = h],
           Trouble \/ UNCHANGED spent,
           UNCHANGED <<now, cluster, seen, there, memory, mistaken>>
    PROVE  IInv'
<1>1. TypeOK /\ pass \in Pass /\ Dated /\ Before /\ Known
  BY DEF IInv, TypeOK
<1>2. PICK todo \in SUBSET Service, data \in Memories, changed \in BOOLEAN :
         /\ pass' = [pass EXCEPT !.todo = todo, !.data = data, !.changed = changed]
         /\ Good(data) /\ (Follows(pass.data) => Follows(data))
  <2>1. pass.todo \ {s} \in SUBSET Service /\ pass.data \in Memories /\ pass.changed \in BOOLEAN
        /\ Good(pass.data)
    BY <1>1 DEF Pass, Known
  <2>2. CASE Skip(s)
    <3>1. pass' = [pass EXCEPT !.todo = @ \ {s}, !.data = pass.data, !.changed = pass.changed]
      BY <2>2, <1>1 DEF Skip, Pass
    <3> QED
      BY <3>1, <2>1
  <2>3. CASE ~ Skip(s)
    <3> DEFINE c == pass.changed \/ (l \notin DOMAIN pass.data \/ pass.data[l] # r)
    <3>1. c \in BOOLEAN
      OBVIOUS
    <3>2. pass' = [pass EXCEPT !.todo = @ \ {s}, !.data = Put(pass.data, l, r), !.changed = c]
      BY <2>3 DEF Note, Recall
    <3> HIDE DEF c
    <3> QED
      BY <3>1, <3>2, <2>1, <2>3
  <2> QED
    BY <2>2, <2>3
<1>3. /\ pass' \in Pass /\ pass'.g = pass.g /\ pass'.data = data /\ pass'.pc = pass.pc
      /\ pass'.known = pass.known /\ pass'.found = pass.found
  <2> HIDE DEF Memories
  <2> QED
    BY <1>1, <1>2 DEF Pass
<1>4. gest' \in [Service -> Gest] /\ Dated'
  <2>1. gest \in [Service -> Gest]
    BY <1>1 DEF TypeOK
  <2> QED
    BY <2>1, <1>1, <1>3 DEF Dated
<1>5. TypeOK'
  BY <1>1, <1>3, <1>4, SpendingIsTyped DEF TypeOK, cluster
<1>6. Before'
  BY <1>1 DEF Before, cluster
<1>7. Known'
  BY <1>1, <1>2, <1>3, PutIsKnown DEF cluster
<1> QED
  BY <1>4, <1>5, <1>6, <1>7 DEF IInv

\* What closeDeparted leaves alone.
LEMMA ClosingAllIs ==
    ASSUME NEW data \in Memories, now \in 1 .. MaxClock
    PROVE  /\ CloseDeparted(data) \in Memories /\ DOMAIN CloseDeparted(data) = DOMAIN data
           /\ \A k \in DOMAIN data : CloseDeparted(data)[k] # data[k] =>
                 ~ Departed(data[k]) /\ CloseDeparted(data)[k].born = data[k].born
<1> DEFINE new == CloseDeparted(data)
<1>1. \A k \in DOMAIN data : data[k] \in Record /\ DOMAIN data \in SUBSET Life
  BY MemoryIsFinite
<1>2. \A k \in DOMAIN data : Closed(data[k]) \in Record /\ Closed(data[k]).born = data[k].born
  BY <1>1 DEF Closed, Record, StillHere
<1>3. /\ DOMAIN new = DOMAIN data /\ new = [k \in DOMAIN data |-> new[k]]
      /\ \A k \in DOMAIN data :
           new[k] = IF ~ Departed(data[k]) /\ Left(k) THEN Closed(data[k]) ELSE data[k]
  BY DEF CloseDeparted
<1> HIDE DEF new
<1>4. \A k \in DOMAIN data : new[k] \in Record
  BY <1>1, <1>2, <1>3
<1>5. new \in Memories
  <2>1. DOMAIN data \in SUBSET Life
    BY MemoryIsFinite
  <2> QED
    BY <2>1, <1>3, <1>4, MemoryMade
<1> QED
  BY <1>2, <1>3, <1>5 DEF new

\* Steps of the pass.
LEMMA SyncKnown == IInv /\ Sync => IInv'
<1> SUFFICES ASSUME IInv, Sync PROVE IInv'
  OBVIOUS
<1>1. TypeOK /\ pass \in Pass /\ Dated /\ Before /\ Known
  BY DEF IInv, TypeOK
<1>2. CASE Begin
  <2>1. PICK known \in BOOLEAN :
           /\ pass' = [pc |-> "reconcile", todo |-> {s \in Service : gest[s].is}, g |-> gest,
                       moved |-> {}, known |-> known, found |-> known /\ there,
                       data |-> IF known THEN memory ELSE Empty, changed |-> FALSE]
           /\ UNCHANGED spent \/ Trouble
    BY <1>2 DEF Begin
  <2>2. /\ UNCHANGED <<now, cluster, seen, gest, there, memory, mistaken>>
        /\ pass'.g = gest /\ pass'.known = known /\ pass'.found = (known /\ there)
        /\ pass'.data = IF known THEN memory ELSE Empty
    BY <1>2, <2>1 DEF Begin
  <2>3. pass'.data \in Memories /\ Good(pass'.data)
    BY <2>2, <1>1, EmptyIsGood DEF Known, TypeOK
  <2>4. pass' \in Pass
    <3> DEFINE todo == {s \in Service : gest[s].is}
               data == IF known THEN memory ELSE Empty
               found == known /\ there
    <3>1. todo \in SUBSET Service /\ data \in Memories /\ found \in BOOLEAN
          /\ gest \in [Service -> Gest]
      BY <2>2, <2>3, <1>1 DEF TypeOK
    <3>2. pass' = [pc |-> "reconcile", todo |-> todo, g |-> gest, moved |-> {},
                   known |-> known, found |-> found, data |-> data, changed |-> FALSE]
      BY <2>1
    <3> HIDE DEF todo, data, found, Memories, Gest
    <3> QED
      BY <3>1, <3>2 DEF Pass
  <2>5. TypeOK'
    BY <2>1, <2>2, <2>4, <1>1, SpendingIsTyped DEF TypeOK, cluster
  <2>6. Dated' /\ Before'
    BY <2>2, <1>1 DEF Dated, Before, cluster
  <2>7. Known'
    <3>1. Good(memory)' /\ Good(pass.data)'
      BY <2>2, <2>3, <1>1 DEF Known, Good, cluster
    <3>2. pass'.known => pass'.data = memory'
      BY <2>2
    <3>3. pass'.data = memory' => Follows(pass.data)'
      BY DEF Follows, Outlives, Stands, Spared
    <3>4. (~ there => memory = Empty)'
      BY <2>2, <1>1 DEF Known
    <3> QED
      BY <3>1, <3>2, <3>3, <3>4 DEF Known
  <2> QED
    BY <2>5, <2>6, <2>7 DEF IInv
<1>3. ASSUME NEW s \in Service, Wait(s) \/ ReconcileFails(s)
      PROVE  IInv'
  <2>1. /\ UNCHANGED <<now, cluster, seen, gest, there, memory, mistaken>>
        /\ pass' = [pass EXCEPT !.todo = @ \ {s}] /\ (Trouble \/ UNCHANGED spent)
    BY <1>3 DEF Wait, ReconcileFails, Skip
  <2>2. /\ pass' \in Pass /\ pass'.g = pass.g /\ pass'.data = pass.data /\ pass'.pc = pass.pc
        /\ pass'.known = pass.known /\ pass'.found = pass.found
    <3> HIDE DEF Memories
    <3> QED
      BY <1>1, <2>1 DEF Pass
  <2>3. TypeOK'
    BY <1>1, <2>1, <2>2, SpendingIsTyped DEF TypeOK, cluster
  <2>4. Dated' /\ Before'
    BY <1>1, <2>1, <2>2 DEF Dated, Before, cluster
  <2>5. Known'
    BY <1>1, <2>1, <2>2, NothingRecorded DEF cluster
  <2> QED
    BY <2>3, <2>4, <2>5 DEF IInv
<1>4. /\ \A s \in Service : deploy[s] \in 0 .. MaxUid
      /\ \A s \in Service : pass.g[s] \in Gest
      /\ pass.data \in Memories /\ memory \in Memories /\ Good(pass.data) /\ Good(memory)
      /\ now \in 1 .. MaxClock
  BY <1>1 DEF TypeOK, Pass, Known
<1>5. ASSUME NEW s \in Service, Bear(s)
      PROVE  IInv'
  <2> DEFINE l == <<s, deploy[s]>>
             h == [pass.g[s] EXCEPT !.birth = deploy[s], !.at = now]
  <2>1. l \in Life /\ l[1] = s /\ l[2] = deploy[s] /\ l[2] <= made[l[1]]
    BY <1>1, <1>4, <1>5, BoundsAreNumbers DEF Bear, Life, Before
  <2>2. h \in Gest /\ h.at # 0
    <3>1. /\ deploy[s] \in 0 .. MaxUid /\ now \in 0 .. MaxClock /\ now # 0
          /\ pass.g[s] \in Gest
      BY <1>4, BoundsAreNumbers
    <3> QED
      BY <3>1 DEF Gest
  <2>3. /\ Put(pass.data, l, Kept(pass.data, l, now)) \in Memories
        /\ Good(Put(pass.data, l, Kept(pass.data, l, now)))
        /\ Follows(pass.data) => Follows(Put(pass.data, l, Kept(pass.data, l, now)))
    BY <2>1, <1>4, RememberingKeeps
  <2>4. /\ Note(s, l, Kept(pass.data, l, now))
        /\ gest' = gest \/ gest' = [gest EXCEPT ![s] = h]
        /\ Trouble \/ UNCHANGED spent
        /\ UNCHANGED <<now, cluster, seen, there, memory, mistaken>>
    BY <1>5 DEF Bear, SetStatus
  <2> HIDE DEF l, h
  <2> QED
    BY <2>1, <2>2, <2>3, <2>4, ReconciliationIsKnown
<1>6. ASSUME NEW s \in Service, Remember(s)
      PROVE  IInv'
  <2> DEFINE l == <<s, deploy[s]>>
             at == pass.g[s].at
  <2>1. l \in Life /\ l[1] = s /\ l[2] = deploy[s] /\ l[2] <= made[l[1]]
    BY <1>1, <1>4, <1>6, BoundsAreNumbers DEF Remember, Life, Before
  <2>2. at \in 1 .. MaxClock
    BY <1>1, <1>4, <1>6, BoundsAreNumbers DEF Remember, Gest, Dated
  <2>3. /\ Put(pass.data, l, Kept(pass.data, l, at)) \in Memories
        /\ Good(Put(pass.data, l, Kept(pass.data, l, at)))
        /\ Follows(pass.data) => Follows(Put(pass.data, l, Kept(pass.data, l, at)))
    BY <2>1, <2>2, <1>4, RememberingKeeps
  <2>4. /\ Note(s, l, Kept(pass.data, l, at))
        /\ UNCHANGED <<now, cluster, seen, gest, there, memory, spent, mistaken>>
    BY <1>6 DEF Remember
  <2>5. pass.g[s].birth # 0 => pass.g[s].at # 0
    BY <1>1 DEF Dated
  <2> HIDE DEF l, at
  <2> QED
    BY <2>1, <2>3, <2>4, <2>5, <1>4, ReconciliationIsKnown
<1>7. ASSUME NEW s \in Service, Depart(s)
      PROVE  IInv'
  <2> DEFINE l == <<s, pass.g[s].birth>>
             h == [pass.g[s] EXCEPT !.departed = TRUE]
  <2>1. /\ UNCHANGED <<now, cluster, seen, there, memory, mistaken>>
        /\ Trouble \/ UNCHANGED spent
        /\ gest' = gest \/ gest' = [gest EXCEPT ![s] = h]
    BY <1>7 DEF Depart, SetStatus
  <2>2. h \in Gest /\ (h.birth # 0 => h.at # 0)
    BY <1>1, <1>4 DEF Gest, Dated
  <2>3. l \in Life /\ l[1] = s /\ l[2] # deploy[s]
    BY <1>4, <1>7, BoundsAreNumbers DEF Depart, Gest, Life
  <2>4. CASE Skip(s)
    <3> HIDE DEF l, h
    <3> QED
      BY <2>1, <2>2, <2>4, ReconciliationIsKnown
  <2>5. CASE ~ Skip(s)
    <3> DEFINE r == Closed(pass.data[l])
    <3>1. Note(s, l, r) /\ l \in DOMAIN pass.data /\ ~ Departed(pass.data[l])
      BY <1>7, <2>5 DEF Depart
    <3> HIDE DEF l, h
    <3>2. /\ Put(pass.data, l, r) \in Memories /\ Good(Put(pass.data, l, r))
          /\ Follows(pass.data) => Follows(Put(pass.data, l, r))
      BY <3>1, <2>3, <1>4, ClosingKeeps
    <3> HIDE DEF r
    <3> QED
      BY <2>1, <2>2, <3>1, <3>2, ReconciliationIsKnown
  <2> QED
    BY <2>4, <2>5
<1>8. CASE Save
  <2> DEFINE data == CloseDeparted(pass.data)
             write == pass.known /\ (pass.changed \/ data # pass.data)
  <2>1. /\ pass' = Idle /\ UNCHANGED <<now, cluster, seen, gest>>
        /\ pass.pc = "reconcile" /\ (UNCHANGED spent \/ Trouble)
    BY <1>8 DEF Save
  <2>2. \/ UNCHANGED <<there, memory, mistaken>>
        \/ /\ pass.known /\ pass.found = there /\ there' = TRUE /\ memory' = data
           /\ mistaken' = mistaken \union
                 {l \in DOMAIN data : data[l] # pass.data[l] /\ deploy[l[1]] = l[2]}
    BY <1>8 DEF Save, Accepted
  <2>3. /\ data \in Memories /\ DOMAIN data = DOMAIN pass.data
        /\ \A k \in DOMAIN data : data[k] # pass.data[k] =>
              ~ Departed(pass.data[k]) /\ data[k].born = pass.data[k].born
    BY <1>4, ClosingAllIs
  <2> HIDE DEF data
  <2>4. mistaken' \subseteq Life
    <3>1. DOMAIN data \subseteq Life
      BY <2>3, MemoryIsFinite
    <3> QED
      BY <3>1, <2>2, <1>1 DEF TypeOK
  <2>5. TypeOK'
    BY <1>1, <2>1, <2>2, <2>3, <2>4, SpendingIsTyped, EmptyIsGood DEF TypeOK, cluster
  <2>6. Dated' /\ Before'
    BY <1>1, <2>1, EmptyIsGood DEF Dated, Before, cluster
  <2>7. Good(memory)'
    <3>1. CASE UNCHANGED <<there, memory, mistaken>>
      BY <3>1, <2>1, <1>4 DEF Good, cluster
    <3>2. CASE memory' = data /\ mistaken' = mistaken \union
                 {l \in DOMAIN data : data[l] # pass.data[l] /\ deploy[l[1]] = l[2]}
      BY <3>2, <2>1, <2>3, <1>4 DEF Good, cluster
    <3> QED
      BY <3>1, <3>2, <2>2
  <2>8. Good(Empty)'
    BY <2>1, EmptyIsGood DEF Good
  <2>9. (~ there => memory = Empty)'
    BY <2>2, <1>1 DEF Known
  <2> QED
    BY <2>1, <2>5, <2>6, <2>7, <2>8, <2>9, EmptyIsGood DEF IInv, Known, Good
<1> QED
  BY <1>2, <1>3, <1>5, <1>6, <1>7, <1>8 DEF Sync, Reconcile

\* The informer and the users' changes of Gestations.
LEMMA AroundKnown ==
    ASSUME IInv, NEW s \in Service,
           Conceive(s) \/ End(s) \/ Edit(s) \/ CatchUp(s)
    PROVE  IInv'
<1>1. TypeOK /\ pass \in Pass /\ Dated /\ Before /\ Known
  BY DEF IInv, TypeOK
<1>2. UNCHANGED <<deploy, made, there, memory, mistaken>> /\ (Move \/ UNCHANGED spent)
  BY DEF Conceive, End, Edit, CatchUp, cluster
<1>3. PICK moved \in SUBSET Service : pass' = [pass EXCEPT !.moved = moved]
  <2>1. pass.moved \in SUBSET Service /\ pass.moved \union {s} \in SUBSET Service
    BY <1>1 DEF Pass
  <2>2. CASE Moved(s)
    BY <2>1, <2>2 DEF Moved
  <2>3. CASE UNCHANGED pass
    <3>1. pass' = [pass EXCEPT !.moved = pass.moved]
      BY <2>3, <1>1 DEF Pass
    <3> QED
      BY <3>1, <2>1
  <2> QED
    BY <2>2, <2>3 DEF Conceive, End, Edit, CatchUp
<1>4. /\ pass' \in Pass /\ pass'.g = pass.g /\ pass'.data = pass.data /\ pass'.pc = pass.pc
      /\ pass'.known = pass.known /\ pass'.found = pass.found
  <2> HIDE DEF Memories
  <2> QED
    BY <1>1, <1>3 DEF Pass
<1>5. gest' \in [Service -> Gest] /\ Dated'
  <2>1. [NoGest EXCEPT !.is = TRUE] \in Gest /\ [NoGest EXCEPT !.is = TRUE].birth = 0
    BY EmptyIsGood DEF Gest
  <2>2. gest \in [Service -> Gest]
    BY <1>1 DEF TypeOK
  <2>3. \/ gest' = gest
        \/ \E h \in Gest : h.birth = 0 /\ gest' = [gest EXCEPT ![s] = h]
    BY <2>1, EmptyIsGood DEF Conceive, End, Edit, CatchUp
  <2> QED
    BY <2>2, <2>3, <1>1, <1>4 DEF Dated
<1>6. now' \in 1 .. MaxClock /\ seen' \in [Service -> 0 .. MaxUid]
  <2>1. now \in 1 .. MaxClock /\ seen \in [Service -> 0 .. MaxUid]
        /\ deploy \in [Service -> 0 .. MaxUid] /\ MaxClock \in Nat
    BY <1>1, BoundsAreNumbers DEF TypeOK
  <2>2. now' = now \/ (now < MaxClock /\ now' = now + 1)
    BY DEF Conceive, End, Edit, CatchUp
  <2>3. seen' = seen \/ seen' = [seen EXCEPT ![s] = deploy[s]]
    BY DEF Conceive, End, Edit, CatchUp
  <2> QED
    BY <2>1, <2>2, <2>3
<1>7. TypeOK'
  BY <1>1, <1>2, <1>4, <1>5, <1>6, SpendingIsTyped DEF TypeOK
<1>8. Before' /\ Known'
  BY <1>1, <1>2, <1>4, NothingRecorded DEF Before
<1> QED
  BY <1>5, <1>7, <1>8 DEF IInv

\* Deployments, the ConfigMap and the process.
LEMMA ChangesKnown ==
    ASSUME IInv, \/ Restart \/ Forget
                 \/ \E s \in Service : Apply(s) \/ Remove(s)
    PROVE  IInv'
<1>1. TypeOK /\ pass \in Pass /\ Dated /\ Before /\ Known
  BY DEF IInv, TypeOK
<1>2. CASE Restart
  <2>1. /\ pass' = Idle /\ seen' = deploy /\ Trouble
        /\ UNCHANGED <<now, cluster, gest, there, memory, mistaken>>
    BY <1>2 DEF Restart
  <2>2. TypeOK'
    BY <2>1, <1>1, SpendingIsTyped, EmptyIsGood DEF TypeOK, cluster
  <2>3. Dated' /\ Before'
    BY <2>1, <1>1, EmptyIsGood DEF Dated, Before, cluster
  <2>4. Good(memory)' /\ Good(Empty)' /\ (~ there => memory = Empty)'
    BY <2>1, <1>1, EmptyIsGood DEF Known, Good, cluster
  <2> QED
    BY <2>1, <2>2, <2>3, <2>4, EmptyIsGood DEF IInv, Known, Good
<1>3. CASE Forget
  <2>1. /\ there /\ there' = FALSE /\ memory' = Empty /\ Move
        /\ UNCHANGED <<now, cluster, seen, gest, pass, mistaken>>
    BY <1>3 DEF Forget
  <2>2. TypeOK'
    BY <2>1, <1>1, SpendingIsTyped, EmptyIsGood DEF TypeOK, cluster
  <2>3. Dated' /\ Before'
    BY <2>1, <1>1 DEF Dated, Before, cluster
  <2>4. Good(pass.data)' /\ Good(Empty)' /\ (~ there => memory = Empty)'
    BY <2>1, <1>1, EmptyIsGood DEF Known, Good, cluster
  <2>5. Follows(pass.data)'
    BY <2>1, EmptyIsGood DEF Follows, Outlives, Stands, Spared
  <2> QED
    BY <2>1, <2>2, <2>3, <2>4, <2>5 DEF IInv, Known, Good
<1>4. ASSUME NEW s \in Service, Apply(s) \/ Remove(s)
      PROVE  IInv'
  <2>1. /\ UNCHANGED <<now, seen, gest, there, memory, pass, mistaken>> /\ Move
        /\ \/ made[s] < MaxUid /\ made' = [made EXCEPT ![s] = @ + 1]
              /\ deploy' = [deploy EXCEPT ![s] = made'[s]]
           \/ made' = made /\ deploy' = [deploy EXCEPT ![s] = 0]
    BY <1>4 DEF Apply, Remove
  <2>2. /\ made \in [Service -> 0 .. MaxUid] /\ deploy \in [Service -> 0 .. MaxUid]
        /\ MaxUid \in Nat
    BY <1>1, BoundsAreNumbers DEF TypeOK
  <2>3. /\ made' \in [Service -> 0 .. MaxUid] /\ deploy' \in [Service -> 0 .. MaxUid]
        /\ Before'
    BY <2>1, <2>2, <1>1 DEF Before
  <2>4. TypeOK' /\ Dated'
    BY <2>1, <2>3, <1>1, SpendingIsTyped DEF TypeOK, Dated
  <2>5. Known'
    BY <2>1, LivesEnd
  <2> QED
    BY <2>3, <2>4, <2>5 DEF IInv
<1> QED
  BY <1>2, <1>3, <1>4

\* Every step keeps the inductive invariant.
LEMMA StepKnown == IInv /\ [Next]_vars => IInv'
<1> SUFFICES ASSUME IInv, [Next]_vars PROVE IInv'
  OBVIOUS
<1>1. CASE Sync
  BY <1>1, SyncKnown
<1>2. CASE Restart \/ Forget \/ \E s \in Service : Apply(s) \/ Remove(s)
  BY <1>2, ChangesKnown
<1>3. ASSUME NEW s \in Service, Conceive(s) \/ End(s) \/ Edit(s) \/ CatchUp(s)
      PROVE  IInv'
  BY <1>3, AroundKnown
<1>4. CASE Tick \/ UNCHANGED vars
  <2>1. TypeOK /\ pass \in Pass /\ Dated /\ Before /\ Known
    BY DEF IInv, TypeOK
  <2>2. UNCHANGED <<deploy, made, seen, gest, there, memory, mistaken, pass, spent>>
        /\ (now' = now \/ (now < MaxClock /\ now' = now + 1))
    BY <1>4 DEF Tick, vars, cluster
  <2>3. now' \in 1 .. MaxClock
    BY <2>1, <2>2, BoundsAreNumbers DEF TypeOK
  <2>4. TypeOK' /\ Dated' /\ Before'
    BY <2>1, <2>2, <2>3 DEF TypeOK, Dated, Before
  <2>5. Known'
    BY <2>1, <2>2, NothingRecorded
  <2> QED
    BY <2>4, <2>5 DEF IInv
<1> QED
  BY <1>1, <1>2, <1>3, <1>4 DEF Next

\* What a pass holds always follows from the memory that is there, whatever fails.
THEOREM AlwaysKnown == Spec => []IInv
<1>1. Init => IInv
  BY InitKnown
<1>2. IInv /\ [Next]_vars => IInv'
  BY StepKnown
<1> QED
  BY <1>1, <1>2, PTL DEF Spec

\* The memory keeps its bound: however many services a pass records, no write
\* of saveMemory holds more than MaxRecords.
THEOREM MemoryKeepsItsBound == Spec => []MemoryBounded
<1>1. IInv => MemoryBounded
  BY DEF IInv, Known, Good, MemoryBounded
<1> QED
  BY <1>1, AlwaysKnown, PTL

\* Only a pass writes records.
LEMMA WritesAreSaves ==
    ASSUME [Next]_vars, there', memory' # memory
    PROVE  /\ pass.known /\ pass.found = there /\ pass.pc = "reconcile"
           /\ memory' = CloseDeparted(pass.data)
<1>1. Save
  BY DEF Next, Sync, Begin, Reconcile, Wait, Bear, Remember, Depart, ReconcileFails, Restart,
     Forget, Apply, Remove, Conceive, End, Edit, CatchUp, Tick, vars
<1> QED
  BY <1>1 DEF Save, Accepted

\* What a write of saveMemory says of births and departures that were written
\* before, as long as there is room: a repeated birth, a stale list and a
\* lost answer change nothing.
THEOREM RecordsAreFinal == Spec => RecordsLast
<1> DEFINE Final == there' /\ Cardinality(DOMAIN memory') < MaxRecords =>
         \A l \in DOMAIN memory :
            /\ l \in DOMAIN memory' /\ memory'[l].born = memory[l].born
            /\ Departed(memory[l]) => memory'[l] = memory[l]
<1>1. IInv /\ [Next]_vars => [Final]_vars
  <2> SUFFICES ASSUME IInv, [Next]_vars, there', Cardinality(DOMAIN memory') < MaxRecords,
                      NEW l \in DOMAIN memory
               PROVE  /\ l \in DOMAIN memory' /\ memory'[l].born = memory[l].born
                      /\ Departed(memory[l]) => memory'[l] = memory[l]
    OBVIOUS
  <2>1. CASE memory' = memory
    BY <2>1
  <2>2. CASE memory' # memory
    <3>1. /\ pass.known /\ pass.found = there /\ pass.pc = "reconcile"
          /\ memory' = CloseDeparted(pass.data)
      BY <2>2, WritesAreSaves
    <3>2. Outlives(pass.data)
      BY <3>1 DEF IInv, Known, Follows
    <3>3. /\ DOMAIN memory' = DOMAIN pass.data
          /\ \A k \in DOMAIN memory' : memory'[k] # pass.data[k] =>
                ~ Departed(pass.data[k]) /\ memory'[k].born = pass.data[k].born
      BY <3>1, ClosingAllIs DEF IInv, TypeOK, Pass
    <3>4. MaxRecords \in Nat /\ ~ Full(pass.data)
      BY <3>3, BoundsAreNumbers DEF Full
    <3>5. /\ l \in DOMAIN pass.data /\ pass.data[l].born = memory[l].born
          /\ Departed(memory[l]) => pass.data[l] = memory[l]
      BY <3>2, <3>4 DEF Outlives
    <3> QED
      BY <3>3, <3>5
  <2> QED
    BY <2>1, <2>2
<1> QED
  BY <1>1, AlwaysKnown, PTL DEF Spec, RecordsLast

\* prune, over all the puts of a pass: a service that is here is forgotten only
\* when the memory is full and nothing that was closed before is left in it.
THEOREM WhatLeftGoesFirst == Spec => ClosedGoFirst
<1> DEFINE First == there' =>
         \A l \in DOMAIN memory \ (DOMAIN memory' \union mistaken) :
            deploy[l[1]] = l[2] =>
                /\ Cardinality(DOMAIN memory') = MaxRecords
                /\ \A k \in (DOMAIN memory' \intersect DOMAIN memory) \ mistaken :
                      ~ Departed(memory[k])
<1>1. IInv /\ [Next]_vars => [First]_vars
  <2> SUFFICES ASSUME IInv, [Next]_vars, there',
                      NEW l \in DOMAIN memory \ (DOMAIN memory' \union mistaken),
                      deploy[l[1]] = l[2]
               PROVE  /\ Cardinality(DOMAIN memory') = MaxRecords
                      /\ \A k \in (DOMAIN memory' \intersect DOMAIN memory) \ mistaken :
                            ~ Departed(memory[k])
    OBVIOUS
  <2>1. memory' # memory
    OBVIOUS
  <2>2. /\ pass.known /\ pass.found = there /\ pass.pc = "reconcile"
        /\ memory' = CloseDeparted(pass.data)
    BY <2>1, WritesAreSaves
  <2>3. Spared(pass.data)
    BY <2>2 DEF IInv, Known, Follows
  <2>4. DOMAIN memory' = DOMAIN pass.data
    BY <2>2, ClosingAllIs DEF IInv, TypeOK, Pass
  <2> QED
    BY <2>3, <2>4 DEF Spared, Full
<1> QED
  BY <1>1, AlwaysKnown, PTL DEF Spec, ClosedGoFirst
=============================================================================
